-------------------------- MODULE StaticPodsProofs --------------------------
(***************************************************************************)
(* Proofs about StaticPods, for any number of manifest files, contents,    *)
(* edits, user deletes and failing calls: the type invariant, who holds a  *)
(* bootstrap VIP and a slot in a.vms, and that nothing but an edit stops   *)
(* a pod.                                                                  *)
(***************************************************************************)
EXTENDS StaticPods, FiniteSetTheorems, TLAPS

(* podVMs are made in the order of their numbers.                          *)
Numbered ==
    \E k \in 0 .. (NFiles + MaxEdits) : \A v \in VMs : pc[v] # "none" <=> v <= k

(* A podVM that was made has a content and was granted only a VIP that     *)
(* this content declares.                                                  *)
Made ==
    \A v \in VMs : /\ pc[v] # "none" => uid[v] \in Contents
                   /\ pc[v] = "none" => uid[v] = NoUID
                   /\ granted[v] => uid[v] \in Contents /\ vipOf[uid[v]] # NoVIP

(* The loop runs podVMs that were made, each for one file.                 *)
Ran ==
    /\ \A f \in Files : running[f] # 0 => pc[running[f]] # "none"
    /\ \A f, g \in Files : running[f] # 0 /\ running[f] = running[g] => f = g

(* A VIP in the table is the one its podVM's content declares.             *)
OwnVIP == \A p \in VIPs : vips[p] # 0 => vipOf[uid[vips[p]]] = p

PodInv == Numbered /\ Made /\ Ran /\ OwnVIP /\ VIPResolvesToRunning /\ GrantedVIPKept

(* What the loop holds from one step to the next is still so: the pods it  *)
(* will sync run, the file it will start a pod for has none.               *)
LoopInv ==
    /\ phase \in {"mirror", "backfill"} => \A f \in todo : running[f] # 0
    /\ phase = "start" => running[held[1]] = 0
    /\ phase = "backfill" => pc[held[1]] # "none"

(* Until the first edit every pod runs what its file says, and the scan    *)
(* has seen it or will.                                                    *)
Untouched ==
    edits = 0 =>
        /\ \A f \in Files : running[f] # 0 => uid[running[f]] = files[f]
        /\ phase = "start" => held[2] = files[held[1]] /\ held[1] \in seen
        /\ phase \in {"visit", "start"} =>
              \A f \in Files : running[f] # 0 => f \in seen \cup todo

IInv == TypeOK /\ PodInv /\ LoopInv /\ SlotKept /\ Untouched /\ UntouchedKeepsRunning

-----------------------------------------------------------------------------
(* Types.                                                                  *)

TypeWorld ==
    /\ files \in [Files -> Contents \cup {Bad, NoFile}]
    /\ api \in BOOLEAN
    /\ edits \in 0 .. MaxEdits
    /\ userDeletes \in 0 .. MaxUserDeletes
    /\ faults \in 0 .. MaxFaults

TypeLoop ==
    /\ phase \in Phases
    /\ todo \in SUBSET Files
    /\ seen \in SUBSET Files
    /\ phase \notin {"visit", "start"} => seen = {}
    /\ phase = "start" => held \in Files \X (Contents \cup {Bad})
    /\ phase = "backfill" => held \in VMs \X (PodPhases \ {""})
    /\ phase \in {"visit", "mirror"} => held = <<>>

TypePods ==
    /\ running \in [Files -> VMs \cup {0}]
    /\ uid \in [VMs -> Contents \cup {NoUID}]
    /\ granted \in [VMs -> BOOLEAN]
    /\ vips \in [VIPs -> VMs \cup {0}]

TypeRuns ==
    /\ pc \in [VMs -> Points]
    /\ stopping \in [VMs -> BOOLEAN]
    /\ last \in [VMs -> PodPhases]
    /\ vms \in [Contents -> VMs \cup {0}]

TypeApi ==
    /\ mirror \in [Names -> MirrorPods]
    /\ claims \in SUBSET Names

Types == TypeWorld /\ TypeLoop /\ TypePods /\ TypeRuns /\ TypeApi

(* The type invariant is the conjunction of the types of its parts.        *)
LEMMA TypeParts == TypeOK <=> Types
<1>1. TypeOK => Types
  BY DEF TypeOK, Types, TypeWorld, TypeLoop, TypePods, TypeRuns, TypeApi, Phases
<1>2. Types => TypeOK
  BY DEF TypeOK, Types, TypeWorld, TypeLoop, TypePods, TypeRuns, TypeApi, Phases
<1> QED
  BY <1>1, <1>2

(* The same of the next state.                                             *)
LEMMA TypePartsNext == TypeOK' <=> Types'
<1>1. TypeOK' => Types'
  BY DEF TypeOK, Types, TypeWorld, TypeLoop, TypePods, TypeRuns, TypeApi, Phases
<1>2. Types' => TypeOK'
  BY DEF TypeOK, Types, TypeWorld, TypeLoop, TypePods, TypeRuns, TypeApi, Phases
<1> QED
  BY <1>1, <1>2

(* 0 is no podVM, and podVMs are natural numbers.                          *)
LEMMA VMsNat == 0 \notin VMs /\ VMs \subseteq Nat
BY StaticBoundsAssumption DEF VMs

(* A content has a pod name; a mirror is nothing or a record of its type.  *)
LEMMA NameOf == \A c \in Contents : podName[c] \in Names
BY DEF Names

(* The fields of a mirror.                                                 *)
LEMMA MirrorFields ==
    ASSUME NEW m \in MirrorPods, m # NoMirror
    PROVE  m \in [uid : Contents, phase : PodPhases, deleting : BOOLEAN]
BY DEF MirrorPods

(* Marking a mirror for deletion leaves a mirror or nothing.               *)
LEMMA MarkedType ==
    ASSUME NEW m \in MirrorPods, m # NoMirror
    PROVE  Marked(m) \in MirrorPods
<1>1. m \in [uid : Contents, phase : PodPhases, deleting : BOOLEAN]
  BY MirrorFields
<1>2. [m EXCEPT !.deleting = TRUE] \in [uid : Contents, phase : PodPhases, deleting : BOOLEAN]
  BY <1>1
<1> QED
  BY <1>2 DEF Marked, MirrorPods

(* setPhase writes a phase, or nothing.                                    *)
LEMMA SetPhaseTypes ==
    ASSUME TypeRuns, TypeApi, TypeWorld, NEW c \in Contents, NEW p \in PodPhases,
           setPhase(c, p)
    PROVE  /\ last' \in [VMs -> PodPhases]
           /\ mirror' \in [Names -> MirrorPods]
           /\ faults' \in 0 .. MaxFaults
<1>1. last' \in [VMs -> PodPhases]
  BY DEF setPhase, Recorded, TypeRuns
<1>2. Written(c, p) \in [Names -> MirrorPods]
  <2>1. CASE mirror[podName[c]] # NoMirror
    <3> DEFINE m == mirror[podName[c]]
    <3>1. m \in MirrorPods
      BY NameOf DEF TypeApi
    <3>2. m \in [uid : Contents, phase : PodPhases, deleting : BOOLEAN]
      BY <3>1, <2>1, MirrorFields
    <3>3. [m EXCEPT !.phase = p] \in MirrorPods
      BY <3>2 DEF MirrorPods
    <3> QED
      BY <3>3, NameOf DEF TypeApi, Written
  <2>2. CASE mirror[podName[c]] = NoMirror
    BY <2>2 DEF Written, TypeApi
  <2> QED
    BY <2>1, <2>2
<1>3. faults' \in 0 .. MaxFaults
  BY StaticBoundsAssumption DEF setPhase, Fault, NoFault, TypeWorld
<1> QED
  BY <1>1, <1>2, <1>3 DEF setPhase, TypeApi

(* What stopStaticPod writes has its type.                                 *)
LEMMA StopTypes ==
    ASSUME TypeRuns, TypeApi, TypeWorld, TypePods, NEW v \in VMs, uid[v] \in Contents,
           stopStaticPod(v)
    PROVE  /\ vips' \in [VIPs -> VMs \cup {0}]
           /\ stopping' \in [VMs -> BOOLEAN]
           /\ mirror' \in [Names -> MirrorPods]
           /\ claims' \in SUBSET Names
           /\ faults' \in 0 .. MaxFaults
<1>1. vips' \in [VIPs -> VMs \cup {0}]
  BY DEF stopStaticPod, Released, TypePods
<1>2. stopping' \in [VMs -> BOOLEAN]
  BY DEF stopStaticPod, TypeRuns
<1>3. mirror' \in [Names -> MirrorPods]
  BY NameOf DEF stopStaticPod, TypeApi, MirrorPods
<1>4. claims' \in SUBSET Names
  BY DEF stopStaticPod, TypeApi
<1>5. faults' \in 0 .. MaxFaults
  BY StaticBoundsAssumption DEF stopStaticPod, Fault, NoFault, TypeWorld
<1> QED
  BY <1>1, <1>2, <1>3, <1>4, <1>5

(* The podVM StartStaticPod makes is the next number, and is not yet one.  *)
LEMMA NextVM ==
    ASSUME TypeRuns, Numbered, NEW n, n = Cardinality({w \in VMs : pc[w] # "none"}) + 1
    PROVE  n \in Nat /\ \A w \in VMs : pc[w] # "none" <=> w < n
<1>1. PICK k \in 0 .. (NFiles + MaxEdits) : \A v \in VMs : pc[v] # "none" <=> v <= k
  BY DEF Numbered
<1>2. {w \in VMs : pc[w] # "none"} = 1 .. k
  BY <1>1, StaticBoundsAssumption DEF VMs
<1>3. Cardinality(1 .. k) = k
  BY <1>1, FS_Interval, StaticBoundsAssumption
<1>4. n = k + 1
  BY <1>2, <1>3
<1> QED
  BY <1>1, <1>4, VMsNat, StaticBoundsAssumption

(* What a step leaves alone keeps its type.                                *)
LEMMA Kept ==
    /\ TypeLoop /\ UNCHANGED loopVars => TypeLoop'
    /\ TypePods /\ UNCHANGED podVars => TypePods'
    /\ TypeRuns /\ UNCHANGED runVars => TypeRuns'
    /\ TypeApi /\ UNCHANGED apiVars => TypeApi'
    /\ api \in BOOLEAN /\ UNCHANGED api => api' \in BOOLEAN
<1>1. TypeLoop /\ UNCHANGED loopVars => TypeLoop'
  BY DEF TypeLoop, loopVars
<1>2. TypePods /\ UNCHANGED podVars => TypePods'
  BY DEF TypePods, podVars
<1>3. TypeRuns /\ UNCHANGED runVars => TypeRuns'
  BY DEF TypeRuns, runVars
<1>4. TypeApi /\ UNCHANGED apiVars => TypeApi'
  BY DEF TypeApi, apiVars
<1> QED
  BY <1>1, <1>2, <1>3, <1>4

(* Steps that are no step of the loop and of no pod keep the types.        *)
LEMMA WorldTypes == ASSUME Types, World PROVE Types'
<1> USE DEF Types
<1>0. TypeWorld /\ TypeLoop /\ TypePods /\ TypeRuns /\ TypeApi /\ api \in BOOLEAN
  BY DEF TypeWorld
<1>1. CASE ApiUp
  <2>1. api' \in BOOLEAN
    BY <1>1 DEF ApiUp
  <2> QED
    BY <1>0, <1>1, <2>1, Kept DEF ApiUp, TypeWorld
<1>2. ASSUME NEW f \in Files, NEW c \in Contents \cup {Bad, NoFile}, EditFile(f, c)
      PROVE  Types'
  <2>1. UNCHANGED <<loopVars, podVars, runVars, api, apiVars>>
    BY <1>2 DEF EditFile
  <2>2. edits' \in 0 .. MaxEdits
    BY <1>0, <1>2, StaticBoundsAssumption DEF EditFile, TypeWorld
  <2> QED
    BY <1>0, <1>2, <2>1, <2>2, Kept DEF EditFile, TypeWorld
<1>3. ASSUME NEW n \in Names, UserDeletesMirror(n)
      PROVE  Types'
  <2>1. mirror' \in [Names -> MirrorPods]
    BY <1>0, <1>3, MarkedType DEF UserDeletesMirror, TypeApi
  <2>2. UNCHANGED <<loopVars, podVars, runVars, api>>
    BY <1>3 DEF UserDeletesMirror
  <2>3. userDeletes' \in 0 .. MaxUserDeletes
    BY <1>0, <1>3, StaticBoundsAssumption DEF UserDeletesMirror, TypeWorld
  <2>4. TypeApi'
    BY <1>0, <1>3, <2>1 DEF TypeApi, UserDeletesMirror
  <2> QED
    BY <1>0, <1>3, <2>2, <2>3, <2>4, Kept DEF UserDeletesMirror, TypeWorld
<1>4. ASSUME NEW n \in Names, UserDeletesService(n)
      PROVE  Types'
  <2>2. UNCHANGED <<loopVars, podVars, runVars, api>>
    BY <1>4 DEF UserDeletesService
  <2>3. userDeletes' \in 0 .. MaxUserDeletes
    BY <1>0, <1>4, StaticBoundsAssumption DEF UserDeletesService, TypeWorld
  <2>4. TypeApi'
    BY <1>0, <1>4 DEF TypeApi, UserDeletesService
  <2> QED
    BY <1>0, <1>4, <2>2, <2>3, <2>4, Kept DEF UserDeletesService, TypeWorld
<1>5. ASSUME NEW n \in Names, OrphanMirror(n)
      PROVE  Types'
  <2>1. TypeApi'
    BY <1>0, <1>5 DEF OrphanMirror, TypeApi, MirrorPods
  <2>2. UNCHANGED <<loopVars, podVars, runVars, api>>
    BY <1>5 DEF OrphanMirror
  <2> QED
    BY <1>0, <1>5, <2>1, <2>2, Kept DEF OrphanMirror, TypeWorld
<1> QED
  BY <1>1, <1>2, <1>3, <1>4, <1>5 DEF World

(* The steps of a pod's goroutine and of its VM keep the types; they       *)
(* neither make a podVM nor unmake one.                                    *)
LEMMA RunTypes ==
    ASSUME Types, Made, NEW v \in VMs, RunStep(v) \/ VMStep(v)
    PROVE  /\ Types'
           /\ UNCHANGED <<files, loopVars, podVars, stopping, edits>>
           /\ pc[v] # "none"
           /\ pc'[v] # "none"
           /\ \A w \in VMs : w # v => pc'[w] = pc[w]
           /\ pc'[v] \in Live => pc[v] \in Live
<1> USE DEF Types
<1>0. /\ pc' \in [VMs -> Points]
      /\ RunUnchanged
      /\ pc[v] # "none"
      /\ pc'[v] # "none"
      /\ \A w \in VMs : w # v => pc'[w] = pc[w]
      /\ pc'[v] \in Live => pc[v] \in Live
  BY DEF RunStep, VMStep, VMStarts, StartFails, PushStatus, VMEnds, finalizePod, NotStopping,
         RunEnds, Goto, TypeRuns, Points, Live
<1>1. uid[v] \in Contents
  BY <1>0 DEF Made
<1>2. vms' \in [Contents -> VMs \cup {0}]
  BY <1>1 DEF RunStep, VMStep, VMStarts, StartFails, PushStatus, VMEnds, finalizePod,
         NotStopping, RunEnds, TypeRuns
<1>3. /\ last' \in [VMs -> PodPhases]
      /\ mirror' \in [Names -> MirrorPods]
      /\ faults' \in 0 .. MaxFaults
  <2>1. CASE \E p \in PodPhases : setPhase(uid[v], p)
    BY <2>1, <1>1, SetPhaseTypes
  <2>2. CASE Quiet
    BY <2>2 DEF Quiet, TypeRuns, TypeApi, TypeWorld
  <2>3. CASE finalizePod(v)
    <3>1. mirror' \in [Names -> MirrorPods]
      BY <2>3, <1>1, NameOf DEF finalizePod, TypeApi, MirrorPods
    <3> QED
      BY <2>3, <3>1, StaticBoundsAssumption
         DEF finalizePod, TypeRuns, TypeWorld, Fault, NoFault
  <2> QED
    BY <2>1, <2>2, <2>3 DEF RunStep, VMStep, VMStarts, StartFails, PushStatus, VMEnds,
       NotStopping, RunEnds, PodPhases
<1>4. UNCHANGED <<files, loopVars, podVars, stopping, api, claims, edits, userDeletes>>
  BY <1>0 DEF RunUnchanged
<1> QED
  BY <1>0, <1>2, <1>3, <1>4
     DEF TypeWorld, TypeLoop, TypePods, TypeRuns, TypeApi, loopVars, podVars

(* A podVM the loop runs has a content.                                    *)
LEMMA RunningVM ==
    ASSUME TypePods, Made, Ran, NEW f \in Files, running[f] # 0
    PROVE  /\ running[f] \in VMs
           /\ uid[running[f]] \in Contents
           /\ pc[running[f]] # "none"
<1>1. running[f] \in VMs
  BY DEF TypePods
<1> QED
  BY <1>1 DEF Made, Ran

(* Reading a file keeps the types.                                         *)
LEMMA VisitTypes ==
    ASSUME Types, Made, Ran, NEW f \in Files, VisitFile(f)
    PROVE  Types'
<1> USE DEF Types
<1>1. UNCHANGED <<files, uid, granted, pc, last, vms, api, userDeletes>>
  BY DEF VisitFile
<1>2. edits' \in 0 .. MaxEdits
  BY StaticBoundsAssumption DEF VisitFile, TypeWorld
<1>3. /\ vips' \in [VIPs -> VMs \cup {0}]
      /\ stopping' \in [VMs -> BOOLEAN]
      /\ mirror' \in [Names -> MirrorPods]
      /\ claims' \in SUBSET Names
      /\ faults' \in 0 .. MaxFaults
  <2>1. CASE running[f] # 0 /\ stopStaticPod(running[f])
    BY <2>1, RunningVM, StopTypes
  <2>2. CASE NoFault /\ UNCHANGED <<vips, stopping, apiVars>>
    BY <2>2 DEF NoFault, apiVars, TypeWorld, TypePods, TypeRuns, TypeApi
  <2> QED
    BY <2>1, <2>2 DEF VisitFile
<1>4. running' \in [Files -> VMs \cup {0}]
  BY DEF VisitFile, TypePods
<1>5. phase' \in {"visit", "start"} /\ todo' \in SUBSET Files /\ seen' \in SUBSET Files
  BY DEF VisitFile, TypeLoop, Seen
<1>6. \/ phase' = "visit" /\ held' = <<>>
      \/ phase' = "start" /\ held' = <<f, files[f]>> /\ files[f] # NoFile
  BY DEF VisitFile, TypeLoop
<1>7. TypeLoop'
  <2>1. CASE phase' = "visit" /\ held' = <<>>
    BY <1>5, <2>1 DEF TypeLoop, Phases
  <2>2. CASE phase' = "start" /\ held' = <<f, files[f]>> /\ files[f] # NoFile
    <3>1. files[f] \in Contents \cup {Bad}
      BY <2>2 DEF TypeWorld
    <3>2. held' \in Files \X (Contents \cup {Bad})
      BY <2>2, <3>1
    <3> QED
      BY <1>5, <2>2, <3>2 DEF TypeLoop, Phases
  <2> QED
    BY <1>6, <2>1, <2>2
<1>8. TypePods' /\ TypeRuns' /\ TypeApi'
  BY <1>1, <1>3, <1>4 DEF TypePods, TypeRuns, TypeApi
<1>9. TypeWorld'
  BY <1>1, <1>2, <1>3 DEF TypeWorld
<1> QED
  BY <1>7, <1>8, <1>9

(* Starting a pod keeps the types.                                         *)
LEMMA StartTypes ==
    ASSUME Types, Made, Ran, StartStaticPod
    PROVE  Types'
<1> USE DEF Types
<1>1. held \in Files \X (Contents \cup {Bad})
  BY DEF StartStaticPod, TypeLoop
<1>2. /\ UNCHANGED <<files, todo, seen, stopping, last, api, apiVars, edits, userDeletes, faults>>
      /\ phase' = "visit" /\ held' = <<>>
  BY DEF StartStaticPod
<1>3. TypePods' /\ pc' \in [VMs -> Points] /\ vms' \in [Contents -> VMs \cup {0}]
  <2>1. CASE held[2] = Bad
    BY <2>1 DEF StartStaticPod, podVars, TypePods, TypeRuns
  <2>2. CASE held[2] # Bad
    <3> DEFINE v == Cardinality({w \in VMs : pc[w] # "none"}) + 1
               c == held[2]
    <3>1. c \in Contents /\ held[1] \in Files
      BY <1>1, <2>2
    <3>2. /\ v \in VMs
          /\ uid' = [uid EXCEPT ![v] = c]
          /\ vms' = [vms EXCEPT ![c] = v]
          /\ granted' = [granted EXCEPT ![v] = VIPFree(c)]
          /\ vips' = IF VIPFree(c) THEN [vips EXCEPT ![vipOf[c]] = v] ELSE vips
          /\ running' = [running EXCEPT ![held[1]] = v]
          /\ pc' = [pc EXCEPT ![v] = "boot"]
      BY <2>2 DEF StartStaticPod
    <3>3. VIPFree(c) \in BOOLEAN
      BY DEF VIPFree
    <3> HIDE DEF v
    <3>4. granted' \in [VMs -> BOOLEAN]
      BY <3>2, <3>3 DEF TypePods
    <3>5. vips' \in [VIPs -> VMs \cup {0}]
      BY <3>2 DEF TypePods
    <3> QED
      BY <3>1, <3>2, <3>4, <3>5 DEF TypePods, TypeRuns, Points
  <2> QED
    BY <2>1, <2>2
<1>4. TypeLoop'
  BY <1>2 DEF TypeLoop, Phases
<1>5. TypeRuns'
  BY <1>2, <1>3 DEF TypeRuns
<1>6. TypeApi'
  BY <1>2, Kept
<1> QED
  BY <1>2, <1>3, <1>4, <1>5, <1>6 DEF TypeWorld

(* The rest of a scan, and the sync of the mirrors, keep the types.        *)
LEMMA LoopTypes ==
    ASSUME Types, Made, Ran, LoopInv, LoopStep
    PROVE  Types'
<1> USE DEF Types
<1>1. CASE StartScan
  <2>1. UNCHANGED <<files, held, seen, podVars, runVars, api, apiVars, edits, userDeletes>>
    BY <1>1 DEF StartScan
  <2>2. faults' \in 0 .. MaxFaults
    BY <1>1, StaticBoundsAssumption DEF StartScan, Fault, NoFault, TypeWorld
  <2>3. phase = "mirror" /\ phase' \in {"mirror", "visit"} /\ todo' \in SUBSET Files
    BY <1>1 DEF StartScan
  <2>4. TypeLoop'
    BY <2>1, <2>3 DEF TypeLoop, Phases
  <2> QED
    BY <2>1, <2>2, <2>4, Kept DEF TypeWorld
<1>2. CASE StartStaticPod
  BY <1>2, StartTypes
<1>3. CASE EndScan
  <2>1. UNCHANGED <<files, held, podVars, runVars, api, apiVars, edits, userDeletes, faults>>
    BY <1>3 DEF EndScan
  <2>2. TypeLoop'
    BY <1>3 DEF EndScan, TypeLoop, Phases
  <2> QED
    BY <2>1, <2>2, Kept DEF TypeWorld
<1>4. CASE Backfill
  <2>1. held \in VMs \X (PodPhases \ {""}) /\ pc[held[1]] # "none"
    BY <1>4 DEF Backfill, TypeLoop, LoopInv
  <2>2. uid[held[1]] \in Contents /\ held[2] \in PodPhases
    BY <2>1 DEF Made
  <2>3. setPhase(uid[held[1]], held[2])
    BY <1>4 DEF Backfill
  <2>4. /\ last' \in [VMs -> PodPhases]
        /\ mirror' \in [Names -> MirrorPods]
        /\ faults' \in 0 .. MaxFaults
    BY <2>2, <2>3, SetPhaseTypes
  <2>5. /\ UNCHANGED <<files, todo, seen, podVars, pc, stopping, vms, api, claims, edits, userDeletes>>
        /\ phase = "backfill" /\ phase' = "mirror" /\ held' = <<>>
    BY <1>4 DEF Backfill
  <2>6. TypeLoop'
    BY <2>5 DEF TypeLoop, Phases
  <2>7. TypeRuns' /\ TypeApi'
    BY <2>4, <2>5 DEF TypeRuns, TypeApi
  <2>8. TypePods'
    BY <2>5, Kept
  <2> QED
    BY <2>4, <2>5, <2>6, <2>7, <2>8 DEF TypeWorld
<1>5. ASSUME NEW f \in Files, VisitFile(f) PROVE Types'
  BY <1>5, VisitTypes
<1>6. ASSUME NEW f \in Files, RemoveGone(f) PROVE Types'
  <2>1. /\ UNCHANGED <<files, loopVars, uid, granted, pc, last, vms, api, edits, userDeletes>>
        /\ running' = [running EXCEPT ![f] = 0]
        /\ stopStaticPod(running[f])
        /\ running[f] # 0
    BY <1>6 DEF RemoveGone
  <2>2. /\ vips' \in [VIPs -> VMs \cup {0}]
        /\ stopping' \in [VMs -> BOOLEAN]
        /\ mirror' \in [Names -> MirrorPods]
        /\ claims' \in SUBSET Names
        /\ faults' \in 0 .. MaxFaults
    BY <2>1, RunningVM, StopTypes
  <2>3. TypePods' /\ TypeRuns' /\ TypeApi'
    BY <2>1, <2>2 DEF TypePods, TypeRuns, TypeApi
  <2>4. TypeLoop'
    BY <2>1, Kept
  <2> QED
    BY <2>1, <2>2, <2>3, <2>4 DEF TypeWorld
<1>7. ASSUME NEW f \in Files, SyncMirror(f) PROVE Types'
  <2> DEFINE v == running[f]
             n == podName[uid[v]]
  <2>1. UNCHANGED <<files, seen, podVars, runVars, api, edits, userDeletes>>
    BY <1>7 DEF SyncMirror
  <2>2. v # 0 /\ v \in VMs /\ uid[v] \in Contents
    <3>1. running[f] # 0
      BY <1>7 DEF SyncMirror, LoopInv
    <3> QED
      BY <3>1, RunningVM
  <2>3. n \in Names
    BY <2>2, NameOf
  <2>4. mirror' \in [Names -> MirrorPods]
    <3>1. mirror[n] \in MirrorPods
      BY <2>3 DEF TypeApi
    <3>2. createMirrorPod(v) \in MirrorPods
      BY <2>2 DEF createMirrorPod, MirrorPods, PodPhases
    <3>3. NoMirror \in MirrorPods
      BY DEF MirrorPods
    <3>4. syncMirrorPod(v, mirror[n]) \in MirrorPods
      BY <3>1, <3>2, <3>3, MarkedType DEF syncMirrorPod
    <3> QED
      BY <1>7, <2>3, <3>4 DEF SyncMirror, TypeApi
  <2>5. claims' \in SUBSET Names
    BY <1>7, <2>3 DEF SyncMirror, syncMirrorService, TypeApi
  <2>6. faults' \in 0 .. MaxFaults
    <3>1. Fault \/ NoFault
      BY <1>7 DEF SyncMirror
    <3> QED
      BY <3>1, StaticBoundsAssumption DEF Fault, NoFault, TypeWorld
  <2>7. /\ phase = "mirror" /\ todo' \in SUBSET Files
        /\ \/ phase' = phase /\ held' = held
           \/ phase' = "backfill" /\ held' = <<v, last[v]>> /\ last[v] # ""
    BY <1>7 DEF SyncMirror, TypeLoop
  <2>8. last[v] \in PodPhases
    BY <2>2 DEF TypeRuns
  <2>9. TypeLoop'
    <3>1. CASE phase' = phase /\ held' = held
      BY <2>1, <2>7, <3>1 DEF TypeLoop, Phases
    <3>2. CASE phase' = "backfill" /\ held' = <<v, last[v]>> /\ last[v] # ""
      <4>1. held' \in VMs \X (PodPhases \ {""})
        BY <2>2, <2>8, <3>2
      <4>2. seen' = {}
        BY <2>1, <2>7 DEF TypeLoop
      <4> QED
        BY <2>7, <3>2, <4>1, <4>2 DEF TypeLoop, Phases
    <3> QED
      BY <2>7, <3>1, <3>2
  <2>10. TypePods' /\ TypeRuns'
    BY <2>1, Kept
  <2>11. TypeApi'
    BY <2>4, <2>5 DEF TypeApi
  <2> QED
    BY <2>1, <2>6, <2>9, <2>10, <2>11 DEF TypeWorld
<1> QED
  BY <1>1, <1>2, <1>3, <1>4, <1>5, <1>6, <1>7 DEF LoopStep

-----------------------------------------------------------------------------
(* The pods and the VIPs.                                                  *)

(* A step that starts and stops no pod.                                    *)
LEMMA PodFrame ==
    ASSUME TypePods, PodInv, UNCHANGED podVars,
           \A w \in VMs : pc'[w] = "none" <=> pc[w] = "none"
    PROVE  PodInv'
<1> USE DEF podVars
<1>1. Numbered'
  BY DEF PodInv, Numbered
<1>2. Made'
  BY DEF PodInv, Made
<1>3. Ran'
  <2>1. \A f \in Files : running[f] # 0 => running[f] \in VMs
    BY DEF TypePods
  <2> QED
    BY <2>1 DEF PodInv, Ran
<1>4. OwnVIP' /\ VIPResolvesToRunning'
  BY DEF PodInv, OwnVIP, VIPResolvesToRunning
<1>5. GrantedVIPKept'
  BY DEF PodInv, GrantedVIPKept, Sole
<1> QED
  BY <1>1, <1>2, <1>3, <1>4, <1>5 DEF PodInv

(* stopStaticPod gives up the VIP of the pod it stops, and no other.       *)
LEMMA StopPodInv ==
    ASSUME TypePods, PodInv, NEW f \in Files, running[f] # 0,
           vips' = Released(running[f]),
           running' = [running EXCEPT ![f] = 0],
           UNCHANGED <<uid, granted, pc>>
    PROVE  PodInv'
<1> DEFINE v == running[f]
           q == vipOf[uid[v]]
<1>0. v \in VMs
  BY DEF TypePods
<1>1. \A g \in Files : running'[g] = IF g = f THEN 0 ELSE running[g]
  BY DEF TypePods
<1>2. \A p \in VIPs : vips'[p] # 0 => vips'[p] = vips[p]
  BY DEF Released, TypePods
<1>3. \A p \in VIPs : vips[p] # v => vips'[p] = vips[p]
  BY DEF Released, TypePods
<1>4. \A p \in VIPs : vips'[p] # 0 => vips[p] # v
  <2> SUFFICES ASSUME NEW p \in VIPs, vips[p] = v
               PROVE  vips'[p] = 0
    BY <1>2
  <2>1. granted[v] /\ p = q
    BY DEF PodInv, VIPResolvesToRunning, OwnVIP
  <2> QED
    BY <2>1 DEF Released, TypePods
<1>5. Numbered' /\ Made'
  BY DEF PodInv, Numbered, Made
<1>6. Ran'
  BY <1>1 DEF PodInv, Ran
<1>7. OwnVIP'
  BY <1>2 DEF PodInv, OwnVIP
<1>8. VIPResolvesToRunning'
  BY <1>1, <1>2, <1>4 DEF PodInv, VIPResolvesToRunning
<1>9. GrantedVIPKept'
  <2> SUFFICES ASSUME NEW g \in Files, running'[g] # 0, granted'[running'[g]],
                      Sole(running[g])'
               PROVE  vips'[vipOf[uid[running'[g]]]] = running'[g]
    BY DEF GrantedVIPKept
  <2> DEFINE w == running[g]
  <2>1. g # f /\ running'[g] = w /\ w # v
    BY <1>1 DEF PodInv, Ran
  <2>2. Sole(w)
    BY <2>1 DEF Sole
  <2>3. vips[vipOf[uid[w]]] = w
    BY <2>1, <2>2 DEF PodInv, GrantedVIPKept
  <2>4. w \in VMs
    BY <2>1 DEF TypePods
  <2>5. vipOf[uid[w]] \in VIPs
    BY <2>1, <2>4 DEF PodInv, Made, VIPs
  <2> QED
    BY <1>3, <2>1, <2>3, <2>5
<1> QED
  BY <1>5, <1>6, <1>7, <1>8, <1>9 DEF PodInv

(* What StartStaticPod does for a manifest that parses.                    *)
LEMMA StartEffect ==
    ASSUME Types, PodInv, LoopInv, StartStaticPod, held[2] # Bad
    PROVE  \E f \in Files, c \in Contents, v \in VMs :
              /\ f = held[1] /\ c = held[2]
              /\ running[f] = 0
              /\ \A w \in VMs : pc[w] # "none" <=> w < v
              /\ uid' = [uid EXCEPT ![v] = c]
              /\ vms' = [vms EXCEPT ![c] = v]
              /\ granted' = [granted EXCEPT ![v] = VIPFree(c)]
              /\ vips' = IF VIPFree(c) THEN [vips EXCEPT ![vipOf[c]] = v] ELSE vips
              /\ running' = [running EXCEPT ![f] = v]
              /\ pc' = [pc EXCEPT ![v] = "boot"]
<1> DEFINE v == Cardinality({w \in VMs : pc[w] # "none"}) + 1
<1>1. phase = "start"
  BY DEF StartStaticPod
<1>2. held \in Files \X (Contents \cup {Bad})
  BY <1>1 DEF Types, TypeLoop
<1>3. held[1] \in Files /\ held[2] \in Contents
  BY <1>2
<1>4. running[held[1]] = 0
  BY <1>1 DEF LoopInv
<1>5. \A w \in VMs : pc[w] # "none" <=> w < v
  BY NextVM DEF Types, PodInv
<1>6. /\ v \in VMs
      /\ uid' = [uid EXCEPT ![v] = held[2]]
      /\ vms' = [vms EXCEPT ![held[2]] = v]
      /\ granted' = [granted EXCEPT ![v] = VIPFree(held[2])]
      /\ vips' = IF VIPFree(held[2]) THEN [vips EXCEPT ![vipOf[held[2]]] = v] ELSE vips
      /\ running' = [running EXCEPT ![held[1]] = v]
      /\ pc' = [pc EXCEPT ![v] = "boot"]
  BY DEF StartStaticPod
<1> HIDE DEF v
<1> QED
  BY <1>3, <1>4, <1>5, <1>6

(* A new podVM takes a VIP that is free, or that an older podVM of its own *)
(* content has; a VIP of another content stays where it is.                *)
LEMMA StartPodInv ==
    ASSUME Types, PodInv, LoopInv, StartStaticPod
    PROVE  PodInv'
<1>1. CASE held[2] = Bad
  BY <1>1, PodFrame DEF StartStaticPod, Types
<1>2. CASE held[2] # Bad
  <2>0. TypePods /\ TypeRuns
    BY DEF Types
  <2>1. PICK f \in Files, c \in Contents, v \in VMs :
              /\ running[f] = 0
              /\ \A w \in VMs : pc[w] # "none" <=> w < v
              /\ uid' = [uid EXCEPT ![v] = c]
              /\ granted' = [granted EXCEPT ![v] = VIPFree(c)]
              /\ vips' = IF VIPFree(c) THEN [vips EXCEPT ![vipOf[c]] = v] ELSE vips
              /\ running' = [running EXCEPT ![f] = v]
              /\ pc' = [pc EXCEPT ![v] = "boot"]
    BY <1>2, StartEffect
  <2>2. pc[v] = "none"
    BY <2>1, VMsNat
  <2>3. \A w \in VMs : /\ uid'[w] = IF w = v THEN c ELSE uid[w]
                       /\ granted'[w] = IF w = v THEN VIPFree(c) ELSE granted[w]
                       /\ pc'[w] = IF w = v THEN "boot" ELSE pc[w]
    BY <2>0, <2>1 DEF TypePods, TypeRuns
  <2>4. \A g \in Files : running'[g] = IF g = f THEN v ELSE running[g]
    BY <2>0, <2>1 DEF TypePods
  <2>5. \A p \in VIPs : vips'[p] = IF VIPFree(c) /\ p = vipOf[c] THEN v ELSE vips[p]
    BY <2>0, <2>1 DEF TypePods
  <2>6. \A g \in Files : running[g] # 0 => running[g] \in VMs /\ running[g] # v
    BY <2>0, <2>2 DEF TypePods, PodInv, Ran
  <2>7. \A p \in VIPs : vips[p] # 0 => vips[p] \in VMs /\ vips[p] # v
    BY <2>6 DEF PodInv, VIPResolvesToRunning
  <2>8. v # 0
    BY VMsNat
  <2>9. Numbered'
    <3>1. v \in 0 .. (NFiles + MaxEdits)
      BY StaticBoundsAssumption DEF VMs
    <3>2. \A w \in VMs : pc'[w] # "none" <=> w <= v
      BY <2>1, <2>3, VMsNat
    <3> QED
      BY <3>1, <3>2 DEF Numbered
  <2>10. Made'
    <3>1. VIPFree(c) => vipOf[c] # NoVIP
      BY DEF VIPFree
    <3> QED
      BY <2>3, <3>1 DEF PodInv, Made
  <2>11. Ran'
    BY <2>2, <2>3, <2>4, <2>6 DEF PodInv, Ran
  <2>12. OwnVIP'
    BY <2>3, <2>5, <2>7 DEF PodInv, OwnVIP
  <2>13. VIPResolvesToRunning'
    <3> SUFFICES ASSUME NEW p \in VIPs, vips'[p] # 0
                 PROVE  granted'[vips'[p]] /\ \E g \in Files : running'[g] = vips'[p]
      BY DEF VIPResolvesToRunning
    <3>1. CASE VIPFree(c) /\ p = vipOf[c]
      BY <2>3, <2>4, <2>5, <3>1
    <3>2. CASE ~(VIPFree(c) /\ p = vipOf[c])
      <4>1. vips'[p] = vips[p]
        BY <2>5, <3>2
      <4>2. vips[p] \in VMs /\ vips[p] # v
        BY <2>7, <4>1
      <4>3. PICK g \in Files : running[g] = vips[p]
        BY <4>1 DEF PodInv, VIPResolvesToRunning
      <4>4. granted'[vips[p]]
        BY <2>3, <4>1, <4>2 DEF PodInv, VIPResolvesToRunning
      <4>5. running'[g] = vips[p]
        BY <2>1, <2>4, <4>1, <4>3
      <4> QED
        BY <4>1, <4>4, <4>5
    <3> QED
      BY <3>1, <3>2
  <2>14. GrantedVIPKept'
    <3> SUFFICES ASSUME NEW g \in Files, running'[g] # 0, granted'[running'[g]],
                        Sole(running[g])'
                 PROVE  vips'[vipOf[uid'[running'[g]]]] = running'[g]
      BY DEF GrantedVIPKept
    <3>1. CASE g = f
      <4>1. running'[g] = v /\ uid'[v] = c /\ VIPFree(c)
        BY <2>3, <2>4, <3>1
      <4>2. vipOf[c] \in VIPs
        BY <4>1 DEF VIPFree, VIPs
      <4> QED
        BY <2>5, <4>1, <4>2
    <3>2. CASE g # f
      <4> DEFINE w == running[g]
      <4>1. running'[g] = w /\ w \in VMs /\ w # v
        BY <2>4, <2>6, <3>2
      <4>2. uid'[w] = uid[w] /\ granted[w]
        BY <2>3, <4>1
      <4>3. uid[w] # c
        BY <2>3, <4>1, <4>2 DEF Sole
      <4>4. Sole(w)
        <5>1. \A u \in VMs : u # w => uid'[u] # uid[w]
          BY <4>1, <4>2 DEF Sole
        <5>2. uid[v] = NoUID /\ uid[w] \in Contents
          BY <2>2, <4>1, <4>2 DEF PodInv, Made
        <5>3. uid[v] # uid[w]
          BY <5>2, ContentsAssumption
        <5> QED
          BY <2>3, <5>1, <5>3 DEF Sole
      <4>5. vips[vipOf[uid[w]]] = w /\ w # 0
        BY <4>1, <4>2, <4>4, VMsNat DEF PodInv, GrantedVIPKept
      <4>6. vipOf[uid[w]] \in VIPs
        BY <4>1, <4>2 DEF PodInv, Made, VIPs
      <4>7. ~(VIPFree(c) /\ vipOf[uid[w]] = vipOf[c])
        BY <4>3, <4>5 DEF VIPFree
      <4> QED
        BY <2>5, <4>1, <4>2, <4>5, <4>6, <4>7
    <3> QED
      BY <3>1, <3>2
  <2> QED
    BY <2>9, <2>10, <2>11, <2>12, <2>13, <2>14 DEF PodInv
<1> QED
  BY <1>1, <1>2

-----------------------------------------------------------------------------
(* The slots, the loop, and pods nobody touches.                           *)

SameVMs == \A w \in VMs : pc'[w] = "none" <=> pc[w] = "none"

(* A step that makes no podVM and empties no slot.                         *)
LEMMA SlotFrame ==
    ASSUME SlotKept, UNCHANGED <<uid, vms>>, \A w \in VMs : pc'[w] \in Live => pc[w] \in Live
    PROVE  SlotKept'
BY DEF SlotKept, Sole

(* The deferred delete of a pod's goroutine empties no slot but its own.   *)
LEMMA RunSlot ==
    ASSUME Types, PodInv, SlotKept, NEW v \in VMs, RunStep(v) \/ VMStep(v)
    PROVE  SlotKept'
<1>0. Made
  BY DEF PodInv
<1>1. /\ UNCHANGED podVars
      /\ pc[v] # "none"
      /\ \A w \in VMs : w # v => pc'[w] = pc[w]
      /\ pc'[v] \in Live => pc[v] \in Live
  BY <1>0, RunTypes
<1>2. UNCHANGED uid
  BY <1>1 DEF podVars
<1>3. CASE UNCHANGED vms
  BY <1>1, <1>2, <1>3, SlotFrame
<1>4. CASE RunEnds(v)
  <2> SUFFICES ASSUME NEW w \in VMs, pc'[w] \in Live, Sole(w)'
               PROVE  vms'[uid'[w]] = w
    BY DEF SlotKept
  <2>1. pc'[v] = "gone"
    BY <1>4 DEF RunEnds, Goto, Types, TypeRuns
  <2>2. w # v
    BY <2>1 DEF Live
  <2>3. pc[w] \in Live /\ Sole(w)
    BY <1>1, <1>2, <2>2 DEF Sole
  <2>4. vms[uid[w]] = w /\ uid[w] # uid[v]
    BY <2>2, <2>3 DEF SlotKept, Sole
  <2>5. vms' = [vms EXCEPT ![uid[v]] = 0]
    BY <1>4 DEF RunEnds
  <2>6. uid[w] \in Contents
    BY <1>0, <2>3 DEF Made, Live
  <2> QED
    BY <1>2, <2>4, <2>5, <2>6 DEF Types, TypeRuns
<1> QED
  BY <1>3, <1>4
     DEF RunStep, VMStep, VMStarts, StartFails, PushStatus, VMEnds, finalizePod, NotStopping

(* A new podVM takes the slot of its content; the others keep theirs.      *)
LEMMA StartSlot ==
    ASSUME Types, PodInv, LoopInv, SlotKept, StartStaticPod
    PROVE  SlotKept'
<1>0. TypePods /\ TypeRuns
  BY DEF Types
<1>1. CASE held[2] = Bad
  BY <1>1, SlotFrame DEF StartStaticPod, podVars
<1>2. CASE held[2] # Bad
  <2>1. PICK f \in Files, c \in Contents, v \in VMs :
              /\ \A w \in VMs : pc[w] # "none" <=> w < v
              /\ uid' = [uid EXCEPT ![v] = c]
              /\ vms' = [vms EXCEPT ![c] = v]
              /\ pc' = [pc EXCEPT ![v] = "boot"]
    BY <1>2, StartEffect
  <2>2. pc[v] = "none"
    BY <2>1, VMsNat
  <2>3. \A w \in VMs : /\ uid'[w] = IF w = v THEN c ELSE uid[w]
                       /\ pc'[w] = IF w = v THEN "boot" ELSE pc[w]
    BY <1>0, <2>1 DEF TypePods, TypeRuns
  <2>4. \A d \in Contents : vms'[d] = IF d = c THEN v ELSE vms[d]
    BY <1>0, <2>1 DEF TypeRuns
  <2> SUFFICES ASSUME NEW w \in VMs, pc'[w] \in Live, Sole(w)'
               PROVE  vms'[uid'[w]] = w
    BY DEF SlotKept
  <2>5. CASE w = v
    BY <2>3, <2>4, <2>5
  <2>6. CASE w # v
    <3>1. uid'[w] = uid[w] /\ pc[w] \in Live
      BY <2>3, <2>6
    <3>2. \A u \in VMs : u # w => uid'[u] # uid[w]
      BY <3>1 DEF Sole
    <3>3. uid[w] # c
      BY <2>3, <2>6, <3>2
    <3>4. uid[v] = NoUID /\ uid[w] \in Contents
      BY <2>2, <3>1 DEF PodInv, Made, Live
    <3>5. uid[v] # uid[w]
      BY <3>4, ContentsAssumption
    <3>6. Sole(w)
      BY <2>3, <3>2, <3>5 DEF Sole
    <3>7. vms[uid[w]] = w
      BY <3>1, <3>6 DEF SlotKept
    <3> QED
      BY <2>4, <3>1, <3>3, <3>4, <3>7
  <2> QED
    BY <2>5, <2>6
<1> QED
  BY <1>1, <1>2

(* A step that is none of the loop leaves what the loop holds alone.       *)
LEMMA LoopFrame ==
    ASSUME Types, LoopInv, UNCHANGED <<loopVars, running>>, SameVMs
    PROVE  LoopInv'
<1>1. phase = "backfill" => held[1] \in VMs
  BY DEF Types, TypeLoop
<1>2. UNCHANGED <<phase, todo, held, running>>
  BY DEF loopVars
<1> QED
  BY <1>1, <1>2 DEF LoopInv, SameVMs

(* The same of pods nobody touches.                                        *)
LEMMA UntouchedFrame ==
    ASSUME Untouched, UNCHANGED <<files, loopVars, running, uid, edits>>
    PROVE  Untouched'
<1>1. UNCHANGED <<phase, todo, held, seen>>
  BY DEF loopVars
<1> QED
  BY <1>1 DEF Untouched

(* A step that starts and stops no pod.                                    *)
LEMMA KeepsFrame ==
    ASSUME UntouchedKeepsRunning, UNCHANGED <<running, stopping, edits>>, SameVMs
    PROVE  UntouchedKeepsRunning'
BY DEF UntouchedKeepsRunning, SameVMs

(* What an edit disturbs needs nothing any more.                           *)
LEMMA Edited ==
    ASSUME TypeWorld, edits' = edits + 1
    PROVE  Untouched' /\ UntouchedKeepsRunning'
<1>1. edits' # 0
  BY StaticBoundsAssumption DEF TypeWorld
<1> QED
  BY <1>1 DEF Untouched, UntouchedKeepsRunning

(* Editors, users and the API server.                                      *)
LEMMA WorldIInv == ASSUME IInv, World PROVE IInv'
<1>0. Types /\ TypePods /\ TypeWorld
  BY TypeParts DEF IInv, Types
<1>1. UNCHANGED <<loopVars, podVars, runVars>>
  BY DEF World, ApiUp, EditFile, UserDeletesMirror, UserDeletesService, OrphanMirror
<1>2. UNCHANGED <<running, uid, pc, vms, stopping>>
  BY <1>1 DEF podVars, runVars
<1>3. SameVMs
  BY <1>2 DEF SameVMs
<1>4. TypeOK'
  BY <1>0, WorldTypes, TypePartsNext
<1>5. PodInv'
  BY <1>0, <1>1, <1>3, PodFrame DEF IInv, SameVMs
<1>6. SlotKept'
  BY <1>2, SlotFrame DEF IInv
<1>7. LoopInv'
  BY <1>0, <1>1, <1>2, <1>3, LoopFrame DEF IInv
<1>8. Untouched' /\ UntouchedKeepsRunning'
  <2>1. CASE edits' = edits + 1
    BY <1>0, <2>1, Edited
  <2>2. CASE UNCHANGED <<files, edits>>
    BY <1>1, <1>2, <1>3, <2>2, UntouchedFrame, KeepsFrame DEF IInv
  <2> QED
    BY <2>1, <2>2 DEF World, ApiUp, EditFile, UserDeletesMirror, UserDeletesService, OrphanMirror
<1> QED
  BY <1>4, <1>5, <1>6, <1>7, <1>8 DEF IInv

(* The goroutines and the VMs of the pods.                                 *)
LEMMA RunIInv ==
    ASSUME IInv, NEW v \in VMs, RunStep(v) \/ VMStep(v)
    PROVE  IInv'
<1>0. Types /\ TypePods /\ Made /\ PodInv /\ SlotKept
  BY TypeParts DEF IInv, Types, PodInv
<1>1. /\ Types'
      /\ UNCHANGED <<files, loopVars, podVars, stopping, edits>>
      /\ SameVMs
  BY <1>0, RunTypes DEF SameVMs
<1>2. UNCHANGED <<running, uid>>
  BY <1>1 DEF podVars
<1>3. TypeOK'
  BY <1>1, TypePartsNext
<1>4. PodInv'
  BY <1>0, <1>1, PodFrame DEF SameVMs
<1>5. SlotKept'
  BY <1>0, RunSlot
<1>6. LoopInv'
  BY <1>0, <1>1, <1>2, LoopFrame DEF IInv
<1>7. Untouched' /\ UntouchedKeepsRunning'
  BY <1>1, <1>2, UntouchedFrame, KeepsFrame DEF IInv
<1> QED
  BY <1>3, <1>4, <1>5, <1>6, <1>7 DEF IInv

(* Listing the directory, the end of a scan and the sync of the mirrors    *)
(* start and stop no pod.                                                  *)
LEMMA QuietLoopIInv ==
    ASSUME IInv, LoopStep, UNCHANGED <<files, podVars, pc, stopping, vms, edits>>,
           LoopInv', Untouched'
    PROVE  IInv'
<1>0. Types /\ TypePods /\ Made /\ Ran /\ LoopInv
  BY TypeParts DEF IInv, Types, PodInv
<1>1. TypeOK'
  BY <1>0, LoopTypes, TypePartsNext
<1>2. SameVMs
  BY DEF SameVMs
<1>3. UNCHANGED <<running, uid>>
  BY DEF podVars
<1>4. PodInv'
  BY <1>0, <1>2, PodFrame DEF IInv, SameVMs
<1>5. SlotKept'
  BY <1>3, SlotFrame DEF IInv
<1>6. UntouchedKeepsRunning'
  BY <1>2, <1>3, KeepsFrame DEF IInv
<1> QED
  BY <1>1, <1>4, <1>5, <1>6 DEF IInv

(* The directory is listed: it names the file of every pod it did not      *)
(* change.                                                                 *)
LEMMA StartScanIInv == ASSUME IInv, StartScan PROVE IInv'
<1>0. Types /\ TypePods /\ Made /\ Ran
  BY TypeParts DEF IInv, Types, PodInv
<1>1. /\ UNCHANGED <<files, seen, held, podVars, runVars, edits>>
      /\ phase = "mirror"
      /\ \/ phase' = "visit" /\ todo' = {f \in Files : files[f] # NoFile}
         \/ phase' = "mirror" /\ todo' \subseteq {f \in Files : running[f] # 0}
  BY DEF StartScan
<1>2. UNCHANGED <<running, uid, pc, stopping, vms>>
  BY <1>1 DEF podVars, runVars
<1>3. LoopInv'
  BY <1>1, <1>2 DEF LoopInv
<1>4. \A f \in Files : running[f] # 0 /\ uid[running[f]] = files[f] => files[f] # NoFile
  BY <1>0, RunningVM, ContentsAssumption
<1>5. Untouched'
  BY <1>1, <1>2, <1>4 DEF IInv, Untouched
<1> QED
  BY <1>1, <1>2, <1>3, <1>5, QuietLoopIInv DEF LoopStep

(* The scan ends.                                                          *)
LEMMA EndScanIInv == ASSUME IInv, EndScan PROVE IInv'
<1>1. /\ UNCHANGED <<files, held, podVars, runVars, edits>>
      /\ phase' = "mirror"
      /\ todo' \subseteq {f \in Files : running[f] # 0}
  BY DEF EndScan
<1>2. UNCHANGED <<running, uid, pc, stopping, vms>>
  BY <1>1 DEF podVars, runVars
<1>3. LoopInv'
  BY <1>1, <1>2 DEF LoopInv
<1>4. Untouched'
  BY <1>1, <1>2 DEF IInv, Untouched
<1> QED
  BY <1>1, <1>2, <1>3, <1>4, QuietLoopIInv DEF LoopStep

(* A mirror is synced: the pod it is of runs.                              *)
LEMMA SyncIInv == ASSUME IInv, NEW f \in Files, SyncMirror(f) PROVE IInv'
<1>0. Types /\ TypePods /\ Made /\ Ran /\ LoopInv
  BY TypeParts DEF IInv, Types, PodInv
<1>1. /\ UNCHANGED <<files, seen, podVars, runVars, edits>>
      /\ phase = "mirror"
      /\ f \in todo
      /\ todo' = todo \ {f}
      /\ \/ phase' = "backfill" /\ held' = <<running[f], last[running[f]]>>
         \/ phase' = "mirror"
  BY DEF SyncMirror
<1>2. UNCHANGED <<running, uid, pc, stopping, vms>>
  BY <1>1 DEF podVars, runVars
<1>3. running[f] # 0
  BY <1>0, <1>1 DEF LoopInv
<1>4. pc[running[f]] # "none"
  BY <1>0, <1>3, RunningVM
<1>5. phase' = "backfill" => held'[1] = running[f]
  BY <1>1
<1>6. LoopInv'
  BY <1>0, <1>1, <1>2, <1>4, <1>5 DEF LoopInv
<1>7. Untouched'
  BY <1>1, <1>2 DEF IInv, Untouched
<1> QED
  BY <1>1, <1>2, <1>6, <1>7, QuietLoopIInv DEF LoopStep

(* A status is written to the new mirror.                                  *)
LEMMA BackfillIInv == ASSUME IInv, Backfill PROVE IInv'
<1>1. /\ UNCHANGED <<files, todo, seen, podVars, pc, stopping, vms, edits>>
      /\ phase = "backfill" /\ phase' = "mirror"
  BY DEF Backfill
<1>2. UNCHANGED <<running, uid>>
  BY <1>1 DEF podVars
<1>3. LoopInv'
  BY <1>1, <1>2 DEF IInv, LoopInv
<1>4. Untouched'
  BY <1>1, <1>2 DEF IInv, Untouched
<1> QED
  BY <1>1, <1>2, <1>3, <1>4, QuietLoopIInv DEF LoopStep

(* A file is read; a pod is stopped only if the file was edited.           *)
LEMMA VisitIInv == ASSUME IInv, NEW f \in Files, VisitFile(f) PROVE IInv'
<1>0. Types /\ TypePods /\ TypeWorld /\ Made /\ Ran /\ PodInv
  BY TypeParts DEF IInv, Types, PodInv
<1>1. TypeOK'
  BY <1>0, VisitTypes, TypePartsNext
<1>2. /\ UNCHANGED <<files, uid, granted, pc, last, vms>>
      /\ todo' = todo \ {f}
      /\ phase = "visit"
  BY DEF VisitFile
<1>3. SameVMs
  BY <1>2 DEF SameVMs
<1>4. SlotKept'
  BY <1>2, SlotFrame DEF IInv
<1>5. \/ running[f] # 0 /\ stopStaticPod(running[f]) /\ running' = [running EXCEPT ![f] = 0]
      \/ UNCHANGED <<running, vips, stopping>>
  BY DEF VisitFile
<1>6. PodInv'
  <2>1. CASE running[f] # 0 /\ stopStaticPod(running[f]) /\ running' = [running EXCEPT ![f] = 0]
    BY <1>0, <1>2, <2>1, StopPodInv DEF stopStaticPod
  <2>2. CASE UNCHANGED <<running, vips, stopping>>
    BY <1>0, <1>2, <1>3, <2>2, PodFrame DEF podVars, SameVMs
  <2> QED
    BY <1>5, <2>1, <2>2
<1>7. LoopInv'
  <2>1. \/ phase' = "visit"
        \/ phase' = "start" /\ held' = <<f, files[f]>> /\ running'[f] = 0
    BY <1>0, <1>2 DEF VisitFile, TypePods
  <2>2. phase' = "start" => running'[held'[1]] = 0
    BY <2>1
  <2> QED
    BY <2>1, <2>2 DEF LoopInv
<1>8. CASE edits' = edits + 1
  BY <1>0, <1>1, <1>4, <1>6, <1>7, <1>8, Edited DEF IInv
<1>9. CASE edits' = edits /\ edits # 0
  BY <1>1, <1>4, <1>6, <1>7, <1>9 DEF IInv, Untouched, UntouchedKeepsRunning
<1>10. CASE edits' = edits /\ edits = 0
  <2>1. /\ \A g \in Files : running[g] # 0 => uid[running[g]] = files[g]
        /\ \A g \in Files : running[g] # 0 => g \in seen \cup todo
    BY <1>2, <1>10 DEF IInv, Untouched
  <2>2. files[f] = NoFile => running[f] = 0
    BY <1>0, <2>1, RunningVM, ContentsAssumption
  <2>3. edits' # edits + 1
    BY <1>0, <1>10
  <2>4. /\ UNCHANGED <<running, stopping>>
        /\ \/ phase' = "visit"
           \/ phase' = "start" /\ held' = <<f, files[f]>>
        /\ \/ files[f] = NoFile /\ seen' = seen /\ phase' = "visit"
           \/ seen' = seen \cup {f}
    BY <1>2, <2>1, <2>3 DEF VisitFile, Unchanged, Seen
  <2>5. phase' = "start" => held'[1] = f /\ held'[2] = files[f]
    BY <2>4
  <2>6. Untouched'
    BY <1>2, <2>1, <2>2, <2>4, <2>5 DEF Untouched
  <2>7. UntouchedKeepsRunning'
    BY <1>3, <1>10, <2>4, KeepsFrame DEF IInv
  <2> QED
    BY <1>1, <1>4, <1>6, <1>7, <2>6, <2>7 DEF IInv
<1> QED
  BY <1>8, <1>9, <1>10 DEF VisitFile

(* A pod is started for the file just read.                                *)
LEMMA StartIInv == ASSUME IInv, StartStaticPod PROVE IInv'
<1>0. Types /\ TypePods /\ TypeRuns /\ Made /\ Ran /\ PodInv /\ LoopInv /\ SlotKept
  BY TypeParts DEF IInv, Types, PodInv
<1>1. TypeOK'
  BY <1>0, StartTypes, TypePartsNext
<1>2. PodInv' /\ SlotKept'
  BY <1>0, StartPodInv, StartSlot
<1>3. /\ UNCHANGED <<files, todo, seen, stopping, edits>>
      /\ phase = "start" /\ phase' = "visit"
  BY DEF StartStaticPod
<1>4. LoopInv'
  BY <1>3 DEF LoopInv
<1>5. Untouched' /\ UntouchedKeepsRunning'
  <2>1. CASE held[2] = Bad
    <3>1. UNCHANGED <<running, uid, pc>>
      BY <2>1 DEF StartStaticPod, podVars
    <3>2. Untouched'
      BY <1>3, <3>1 DEF IInv, Untouched
    <3>3. SameVMs
      BY <3>1 DEF SameVMs
    <3> QED
      BY <1>3, <3>1, <3>2, <3>3, KeepsFrame DEF IInv
  <2>2. CASE held[2] # Bad
    <3>1. PICK f \in Files, c \in Contents, v \in VMs :
              /\ f = held[1] /\ c = held[2]
              /\ running[f] = 0
              /\ \A w \in VMs : pc[w] # "none" <=> w < v
              /\ uid' = [uid EXCEPT ![v] = c]
              /\ running' = [running EXCEPT ![f] = v]
              /\ pc' = [pc EXCEPT ![v] = "boot"]
      BY <1>0, <2>2, StartEffect
    <3>2. pc[v] = "none" /\ v # 0
      BY <3>1, VMsNat
    <3>3. \A w \in VMs : /\ uid'[w] = IF w = v THEN c ELSE uid[w]
                         /\ pc'[w] = IF w = v THEN "boot" ELSE pc[w]
      BY <1>0, <3>1 DEF TypePods, TypeRuns
    <3>4. \A g \in Files : running'[g] = IF g = f THEN v ELSE running[g]
      BY <1>0, <3>1 DEF TypePods
    <3>5. \A g \in Files : running[g] # 0 => running[g] \in VMs /\ running[g] # v
      BY <1>0, <3>2, RunningVM
    <3>6. Untouched'
      <4> SUFFICES ASSUME edits = 0
                   PROVE  /\ \A g \in Files : running'[g] # 0 => uid'[running'[g]] = files[g]
                          /\ \A g \in Files : running'[g] # 0 => g \in seen \cup todo
        BY <1>3 DEF Untouched
      <4>1. /\ \A g \in Files : running[g] # 0 => uid[running[g]] = files[g]
            /\ c = files[f] /\ f \in seen
            /\ \A g \in Files : running[g] # 0 => g \in seen \cup todo
        BY <1>3, <3>1 DEF IInv, Untouched
      <4> QED
        BY <3>3, <3>4, <3>5, <4>1
    <3>7. UntouchedKeepsRunning'
      <4> SUFFICES ASSUME edits = 0
                   PROVE  /\ \A w \in VMs : ~stopping[w]
                          /\ \A w \in VMs : pc'[w] # "none" => \E g \in Files : running'[g] = w
        BY <1>3 DEF UntouchedKeepsRunning
      <4>1. /\ \A w \in VMs : ~stopping[w]
            /\ \A w \in VMs : pc[w] # "none" => \E g \in Files : running[g] = w
        BY DEF IInv, UntouchedKeepsRunning
      <4>2. ASSUME NEW w \in VMs, pc'[w] # "none"
            PROVE  \E g \in Files : running'[g] = w
        <5>1. CASE w = v
          BY <3>4, <5>1
        <5>2. CASE w # v
          <6>1. PICK g \in Files : running[g] = w
            BY <3>3, <4>1, <4>2, <5>2
          <6>2. g # f
            BY <3>1, <6>1, VMsNat
          <6> QED
            BY <3>4, <6>1, <6>2
        <5> QED
          BY <5>1, <5>2
      <4> QED
        BY <4>1, <4>2
    <3> QED
      BY <3>6, <3>7
  <2> QED
    BY <2>1, <2>2
<1> QED
  BY <1>1, <1>2, <1>4, <1>5 DEF IInv

(* A pod whose file the scan did not see is stopped; there is none as long *)
(* as the directory is left alone.                                         *)
LEMMA RemoveIInv == ASSUME IInv, NEW f \in Files, RemoveGone(f) PROVE IInv'
<1>0. Types /\ TypePods /\ TypeWorld /\ Made /\ Ran /\ PodInv /\ LoopInv
  BY TypeParts DEF IInv, Types, PodInv
<1>1. /\ UNCHANGED <<files, loopVars, uid, granted, pc, last, vms, edits>>
      /\ running' = [running EXCEPT ![f] = 0]
      /\ running[f] # 0
      /\ stopStaticPod(running[f])
      /\ phase = "visit" /\ todo = {} /\ f \notin seen
  BY DEF RemoveGone
<1>2. TypeOK'
  BY <1>0, LoopTypes, TypePartsNext DEF LoopStep
<1>3. PodInv'
  BY <1>0, <1>1, StopPodInv DEF stopStaticPod
<1>4. SlotKept'
  BY <1>1, SlotFrame DEF IInv
<1>5. phase' = "visit"
  BY <1>1 DEF loopVars
<1>6. LoopInv'
  BY <1>5 DEF LoopInv
<1>7. edits # 0
  BY <1>1 DEF IInv, Untouched
<1>8. Untouched' /\ UntouchedKeepsRunning'
  BY <1>1, <1>7 DEF Untouched, UntouchedKeepsRunning
<1> QED
  BY <1>2, <1>3, <1>4, <1>6, <1>8 DEF IInv

-----------------------------------------------------------------------------
(* The theorems.                                                           *)

(* Initially nothing runs.                                                 *)
LEMMA InitIInv == Init => IInv
<1> SUFFICES ASSUME Init PROVE IInv
  OBVIOUS
<1>1. TypeWorld
  <2>1. files \in [Files -> Contents \cup {Bad, NoFile}] /\ api \in BOOLEAN
    BY DEF Init
  <2>2. edits = 0 /\ userDeletes = 0 /\ faults = 0
    BY DEF Init
  <2> QED
    BY <2>1, <2>2, StaticBoundsAssumption DEF TypeWorld
<1>2. TypeLoop
  BY DEF Init, TypeLoop, Phases
<1>3. TypePods
  BY DEF Init, TypePods
<1>4. TypeRuns
  BY DEF Init, TypeRuns, Points, PodPhases
<1>5. TypeApi
  <2>1. [uid : Leftover, phase : {"Active"}, deleting : {FALSE}]
          \subseteq [uid : Contents, phase : PodPhases, deleting : BOOLEAN]
    BY ContentsAssumption DEF PodPhases
  <2>2. mirror \in [Names -> MirrorPods]
    BY <2>1 DEF Init, MirrorPods
  <2> QED
    BY <2>2 DEF Init, TypeApi
<1>6. TypeOK
  BY <1>1, <1>2, <1>3, <1>4, <1>5, TypeParts DEF Types
<1>7. /\ \A f \in Files : running[f] = 0
      /\ \A v \in VMs : pc[v] = "none" /\ uid[v] = NoUID /\ ~granted[v] /\ ~stopping[v]
      /\ \A p \in VIPs : vips[p] = 0
      /\ todo = {} /\ phase = "mirror"
  BY DEF Init
<1>8. Numbered
  <2>1. \A v \in VMs : pc[v] # "none" <=> v <= 0
    BY <1>7, StaticBoundsAssumption DEF VMs
  <2>2. 0 \in 0 .. (NFiles + MaxEdits)
    BY StaticBoundsAssumption
  <2> QED
    BY <2>1, <2>2 DEF Numbered
<1>9. PodInv
  BY <1>7, <1>8 DEF PodInv, Made, Ran, OwnVIP, VIPResolvesToRunning, GrantedVIPKept
<1>10. LoopInv /\ Untouched /\ UntouchedKeepsRunning
  BY <1>7 DEF LoopInv, Untouched, UntouchedKeepsRunning
<1>11. SlotKept
  BY <1>7 DEF SlotKept, Live
<1> QED
  BY <1>6, <1>9, <1>10, <1>11 DEF IInv

(* Every step of the loop, of a pod and of the world keeps the invariant.  *)
LEMMA NextIInv == IInv /\ [Next]_vars => IInv'
<1> SUFFICES ASSUME IInv, [Next]_vars PROVE IInv'
  OBVIOUS
<1>1. CASE LoopStep
  BY <1>1, StartScanIInv, StartIInv, EndScanIInv, BackfillIInv, VisitIInv, RemoveIInv, SyncIInv
     DEF LoopStep
<1>2. CASE World
  BY <1>2, WorldIInv
<1>3. ASSUME NEW v \in VMs, RunStep(v) \/ VMStep(v) PROVE IInv'
  BY <1>3, RunIInv
<1>4. CASE UNCHANGED vars
  <2>1. TypeOK'
    <3>1. Types
      BY TypeParts DEF IInv
    <3>2. Types'
      BY <1>4, <3>1 DEF vars, Types, TypeWorld, TypeLoop, TypePods, TypeRuns, TypeApi
    <3> QED
      BY <3>2, TypePartsNext
  <2>2. PodInv'
    BY <1>4 DEF IInv, vars, PodInv, Numbered, Made, Ran, OwnVIP, VIPResolvesToRunning,
                GrantedVIPKept, Sole
  <2>3. LoopInv' /\ Untouched' /\ UntouchedKeepsRunning'
    BY <1>4 DEF IInv, vars, LoopInv, Untouched, UntouchedKeepsRunning
  <2>4. SlotKept'
    BY <1>4 DEF IInv, vars, SlotKept, Sole
  <2> QED
    BY <2>1, <2>2, <2>3, <2>4 DEF IInv
<1> QED
  BY <1>1, <1>2, <1>3, <1>4 DEF Next

(* The inductive invariant holds in every reachable state, for any number  *)
(* of files, contents, edits, user deletes and failing calls.              *)
THEOREM Invariance == Spec => []IInv
BY InitIInv, NextIInv, PTL DEF Spec

(* Types, and that a file the loop holds between reading it and starting   *)
(* its pod, or a status between creating a mirror and backfilling it, is   *)
(* held in exactly that phase.                                             *)
THEOREM StaticTypeCorrect == Spec => []TypeOK
<1>1. IInv => TypeOK
  BY DEF IInv
<1> QED
  BY <1>1, Invariance, PTL

(* a.staticVIPs never resolves a bootstrap VIP to a pod that stopStaticPod *)
(* has stopped: whoever is in the table is run for some file and was       *)
(* granted the VIP.                                                        *)
THEOREM VIPOfRunning == Spec => []VIPResolvesToRunning
<1>1. IInv => VIPResolvesToRunning
  BY DEF IInv, PodInv
<1> QED
  BY <1>1, Invariance, PTL

(* Neither a later claim of the VIP by another manifest nor the stop of a  *)
(* pod that was refused it takes the VIP from the pod startStaticPod       *)
(* granted it to.                                                          *)
THEOREM GrantedVIPIsKept == Spec => []GrantedVIPKept
<1>1. IInv => GrantedVIPKept
  BY DEF IInv, PodInv
<1> QED
  BY <1>1, Invariance, PTL

(* runPod's deferred delete(a.vms, pod.UID) never empties the slot of a    *)
(* pod of another manifest that is at work.                                *)
THEOREM SlotIsKept == Spec => []SlotKept
<1>1. IInv => SlotKept
  BY DEF IInv
<1> QED
  BY <1>1, Invariance, PTL

(* With the directory left alone scanManifests stops no pod and starts     *)
(* none twice, whatever users, the API server and the VMs do.              *)
THEOREM UntouchedPodsRun == Spec => []UntouchedKeepsRunning
<1>1. IInv => UntouchedKeepsRunning
  BY DEF IInv
<1> QED
  BY <1>1, Invariance, PTL

=============================================================================

----------------------------- MODULE StaticPods -----------------------------
(***************************************************************************)
(* Static pods (poc/agent/staticpods.go): one goroutine compares the       *)
(* manifest directory with the pods it runs, starts, restarts and stops    *)
(* them, grants bootstrap VIPs, and reflects the pods as mirror pods and   *)
(* Services once there is an API server.  The runPod goroutines, users of  *)
(* the API, and editors of the directory run beside it.                    *)
(*                                                                         *)
(* A manifest's content stands for its hash, and so for the pod's UID.  A  *)
(* podVM is a number; runPod is reduced to what static pods can see of it  *)
(* (PodLifecycle has killVM and the Get/UpdateStatus conflicts: here a VM  *)
(* that is asked to stop may end at any time, or never, and setPhase is    *)
(* one step).                                                              *)
(***************************************************************************)
EXTENDS Naturals, FiniteSets, FiniteSetsExt

CONSTANTS
    NFiles,         \* manifest files, numbered in the order of their names
    Contents,       \* manifests that parse as a pod
    podName,        \* content -> pod name (mirrorName is derived from it)
    vipOf,          \* content -> its valid bootstrap VIP, NoVIP
    Leftover,       \* contents whose mirror an earlier agent may have left
    MaxEdits,       \* bound: edits of the directory, and reads of a file that fail
    MaxUserDeletes, \* bound: mirror pods and Services deleted by users
    MaxFaults       \* bound: API calls and directory reads that fail

NoFile == "nofile"
Bad == "bad"        \* not a pod manifest
NoVIP == "novip"
NoUID == "nouid"
NoMirror == [uid |-> NoUID, phase |-> "", deleting |-> FALSE]

Files == 1 .. NFiles
Names == {podName[c] : c \in Contents}
VIPs == {vipOf[c] : c \in Contents} \ {NoVIP}
\* A podVM is made for a file that is new, was edited, or can be read again.
VMs == 1 .. (NFiles + MaxEdits)

ASSUME ContentsAssumption ==
    /\ {NoFile, Bad, NoUID} \cap Contents = {}
    /\ DOMAIN podName = Contents
    /\ DOMAIN vipOf = Contents
    /\ Leftover \subseteq Contents
ASSUME StaticBoundsAssumption ==
    /\ NFiles \in Nat /\ MaxEdits \in Nat
    /\ MaxUserDeletes \in Nat /\ MaxFaults \in Nat

\* Where the runPod goroutine of a podVM is.
\*   none      the podVM does not exist yet
\*   boot      preparing or booting
\*   wait      sleeping before the next attempt
\*   up        the VM runs
\*   check     the VM has ended for good, which is reported; vm.isStopping(),
\*             and with it finalizePod, is next
\*   end       the deferred delete(a.vms, pod.UID)
\*   gone      the goroutine has ended
Points == {"none", "boot", "wait", "up", "check", "end", "gone"}
Live == Points \ {"none", "end", "gone"}

\* Pod phases: "" for a mirror that has no status yet or a podVM that has
\* reported none; Active is Pending or Running, Terminal Succeeded or Failed.
PodPhases == {"", "Active", "Terminal"}

\* Where staticPodLoop is: visiting the files ReadDir listed and then stopping
\* what was not seen, past the stop of a changed one, syncing the mirrors and
\* then waiting for the tick, about to backfill the mirror it created.
Phases == {"visit", "start", "mirror", "backfill"}

VARIABLES
    files,     \* file -> content, Bad, NoFile
    phase,     \* Phases
    todo,      \* files still to visit, or to sync
    seen,      \* files read in this scan
    held,      \* <<file, data>> in phase start, <<podVM, lastPhase>> in backfill
    running,   \* file -> podVM, 0
    uid,       \* podVM -> content
    granted,   \* podVM -> staticPod.vip is not ""
    pc,        \* podVM -> Points
    stopping,  \* podVM -> stopping; also that stopOnce is spent
    last,      \* podVM -> lastPhase
    vms,       \* a.vms: UID -> podVM, 0
    vips,      \* a.staticVIPs: VIP -> podVM, 0
    api,       \* a.cs() # nil
    mirror,    \* pod name -> its mirror pod
    claims,    \* pod names whose Service exists
    edits, userDeletes, faults

loopVars == <<phase, todo, seen, held>>
podVars == <<running, uid, granted, vips>>
runVars == <<pc, stopping, last, vms>>
apiVars == <<mirror, claims>>
vars == <<files, phase, todo, seen, held, running, uid, granted, pc, stopping,
          last, vms, vips, api, mirror, claims, edits, userDeletes, faults>>

Init ==
    /\ files \in [Files -> Contents \cup {NoFile}]
    /\ phase = "mirror"
    /\ todo = {}
    /\ seen = {}
    /\ held = <<>>
    /\ running = [f \in Files |-> 0]
    /\ uid = [v \in VMs |-> NoUID]
    /\ granted = [v \in VMs |-> FALSE]
    /\ pc = [v \in VMs |-> "none"]
    /\ stopping = [v \in VMs |-> FALSE]
    /\ last = [v \in VMs |-> ""]
    /\ vms = [c \in Contents |-> 0]
    /\ vips = [p \in VIPs |-> 0]
    /\ api = FALSE
    /\ mirror \in [Names -> {NoMirror} \cup
                     [uid : Leftover, phase : {"Active"}, deleting : {FALSE}]]
    /\ \A n \in Names : mirror[n] # NoMirror => podName[mirror[n].uid] = n
    /\ claims = {}
    /\ edits = 0
    /\ userDeletes = 0
    /\ faults = 0

-----------------------------------------------------------------------------
(* The world outside the agent.                                            *)

EditFile(f, c) ==
    /\ edits < MaxEdits
    /\ files[f] # c
    /\ files' = [files EXCEPT ![f] = c]
    /\ edits' = edits + 1
    /\ UNCHANGED <<loopVars, podVars, runVars, api, apiVars, userDeletes, faults>>

\* The API server answers for the first time: a.client is set.
ApiUp ==
    /\ ~api
    /\ api' = TRUE
    /\ UNCHANGED <<files, loopVars, podVars, runVars, apiVars, edits, userDeletes,
                   faults>>

\* A delete with the default grace period: a pod that has ended goes at once,
\* another one is marked.
Marked(m) == IF m.phase = "Terminal" THEN NoMirror ELSE [m EXCEPT !.deleting = TRUE]

UserDeletesMirror(n) ==
    /\ userDeletes < MaxUserDeletes
    /\ mirror[n] # NoMirror
    /\ ~mirror[n].deleting
    /\ mirror' = [mirror EXCEPT ![n] = Marked(@)]
    /\ userDeletes' = userDeletes + 1
    /\ UNCHANGED <<files, loopVars, podVars, runVars, api, claims, edits, faults>>

UserDeletesService(n) ==
    /\ userDeletes < MaxUserDeletes
    /\ n \in claims
    /\ claims' = claims \ {n}
    /\ userDeletes' = userDeletes + 1
    /\ UNCHANGED <<files, loopVars, podVars, runVars, api, mirror, edits, faults>>

\* A call takes effect, or it fails and has none.
Fault == faults < MaxFaults /\ faults' = faults + 1
NoFault == UNCHANGED faults

\* setPhase: the status goes to the podVM that holds the UID's slot and to
\* its mirror.  With the slot empty it goes to the pod's own name, which no
\* static pod has an API object for, and so nowhere.
Recorded(c, p) == IF vms[c] # 0 THEN [last EXCEPT ![vms[c]] = p] ELSE last
Written(c, p) ==
    LET n == podName[c]
    IN IF vms[c] # 0 /\ api /\ mirror[n] # NoMirror
       THEN [mirror EXCEPT ![n].phase = p] ELSE mirror

setPhase(c, p) ==
    /\ last' = Recorded(c, p)
    /\ \/ mirror' = Written(c, p) /\ NoFault
       \/ mirror' = mirror /\ api /\ Fault

-----------------------------------------------------------------------------
(* scanManifests.                                                          *)

\* os.ReadDir; when it fails nothing is visited and nothing removed.
StartScan ==
    /\ phase = "mirror"
    /\ todo = {}
    /\ \/ /\ phase' = "visit"
          /\ todo' = {f \in Files : files[f] # NoFile}
          /\ NoFault
       \/ /\ UNCHANGED phase
          /\ todo' = IF api THEN {f \in Files : running[f] # 0} ELSE {}
          /\ Fault
    /\ UNCHANGED <<files, seen, held, podVars, runVars, api, apiVars, edits,
                   userDeletes>>

\* Mutants: a stopped pod keeps its VIP; the VIP of its manifest goes,
\* whoever has it.
ReleasedNever(v) == vips
ReleasedAny(v) == [p \in VIPs |-> IF p = vipOf[uid[v]] THEN 0 ELSE vips[p]]

\* a.staticVIPs without the VIP of the pod, unless another podVM took it over.
Released(v) ==
    LET p == vipOf[uid[v]]
    IN IF granted[v] /\ vips[p] = v THEN [vips EXCEPT ![p] = 0] ELSE vips

\* stopStaticPod.  The VIP goes, and the Service, best effort; the VM is asked
\* to stop once; the mirror goes here only if nothing has the UID's slot.
stopStaticPod(v) ==
    LET n == podName[uid[v]]
        unclaimed == IF granted[v] /\ api THEN claims \ {n} ELSE claims
        deleted == IF vms[uid[v]] = 0 /\ api THEN [mirror EXCEPT ![n] = NoMirror]
                                             ELSE mirror
    IN /\ vips' = Released(v)
       /\ stopping' = [stopping EXCEPT ![v] = TRUE]
       /\ \/ claims' = unclaimed /\ mirror' = deleted /\ NoFault
          \/ claims' \in {claims, unclaimed} /\ mirror' \in {mirror, deleted} /\ api /\ Fault

\* Mutant: a file that runs a pod counts as unchanged.
UnchangedByName(f) == running[f] # 0

Unchanged(f) == running[f] # 0 /\ uid[running[f]] = files[f]

\* Mutant: an unchanged file is not recorded as seen.
SeenIfChanged(f) == IF Unchanged(f) THEN seen ELSE seen \cup {f}

Seen(f) == seen \cup {f}

\* os.ReadFile and the comparison of the hash; a file that cannot be read
\* (any more) counts as not seen.
VisitFile(f) ==
    /\ phase = "visit"
    /\ todo # {} /\ f = Min(todo)
    /\ todo' = todo \ {f}
    /\ \/ /\ \/ files[f] = NoFile /\ UNCHANGED edits
             \/ files[f] # NoFile /\ edits < MaxEdits /\ edits' = edits + 1
          /\ NoFault
          /\ UNCHANGED <<phase, seen, held, running, vips, stopping, apiVars>>
       \/ /\ files[f] # NoFile
          /\ seen' = Seen(f)
          /\ UNCHANGED edits
          /\ \/ /\ Unchanged(f)
                /\ NoFault
                /\ UNCHANGED <<phase, held, running, vips, stopping, apiVars>>
             \/ /\ running[f] # 0 /\ ~Unchanged(f)
                /\ stopStaticPod(running[f])
                /\ running' = [running EXCEPT ![f] = 0]
                /\ phase' = "start" /\ held' = <<f, files[f]>>
             \/ /\ running[f] = 0
                /\ NoFault
                /\ phase' = "start" /\ held' = <<f, files[f]>>
                /\ UNCHANGED <<running, vips, stopping, apiVars>>
    /\ UNCHANGED <<files, uid, granted, pc, last, vms, api, userDeletes>>

\* validateBootstrapVIP is in vipOf; the VIP is refused while a podVM of
\* another UID has it.
VIPFree(c) ==
    /\ vipOf[c] # NoVIP
    /\ vips[vipOf[c]] # 0 => uid[vips[vipOf[c]]] = c

StartStaticPod ==
    /\ phase = "start"
    /\ phase' = "visit"
    /\ held' = <<>>
    /\ LET f == held[1]
           c == held[2]
           v == Cardinality({w \in VMs : pc[w] # "none"}) + 1
       IN IF c = Bad
          THEN UNCHANGED <<podVars, pc, vms>>
          ELSE /\ v \in VMs
               /\ uid' = [uid EXCEPT ![v] = c]
               /\ vms' = [vms EXCEPT ![c] = v]
               /\ granted' = [granted EXCEPT ![v] = VIPFree(c)]
               /\ vips' = IF VIPFree(c) THEN [vips EXCEPT ![vipOf[c]] = v] ELSE vips
               /\ running' = [running EXCEPT ![f] = v]
               /\ pc' = [pc EXCEPT ![v] = "boot"]
    /\ UNCHANGED <<files, todo, seen, stopping, last, api, apiVars, edits,
                   userDeletes, faults>>

RemoveGone(f) ==
    /\ phase = "visit"
    /\ todo = {}
    /\ running[f] # 0
    /\ f \notin seen
    /\ stopStaticPod(running[f])
    /\ running' = [running EXCEPT ![f] = 0]
    /\ UNCHANGED <<files, loopVars, uid, granted, pc, last, vms, api, edits,
                   userDeletes>>

\* Mutant: the files seen are remembered for the next scan.
EndScanKeepsSeen ==
    /\ phase = "visit"
    /\ todo = {}
    /\ \A f \in Files : running[f] # 0 => f \in seen
    /\ phase' = "mirror"
    /\ todo' = IF api THEN {f \in Files : running[f] # 0} ELSE {}
    /\ UNCHANGED <<files, seen, held, podVars, runVars, api, apiVars, edits, userDeletes,
                   faults>>

\* The scan is over; syncMirrorPods follows if there is an API.
EndScan ==
    /\ phase = "visit"
    /\ todo = {}
    /\ \A f \in Files : running[f] # 0 => f \in seen
    /\ phase' = "mirror"
    /\ todo' = IF api THEN {f \in Files : running[f] # 0} ELSE {}
    /\ seen' = {}
    /\ UNCHANGED <<files, held, podVars, runVars, api, apiVars, edits, userDeletes,
                   faults>>

-----------------------------------------------------------------------------
(* syncMirrorPods.                                                         *)

\* syncMirrorService: the VIP is claimed unless the Service exists.
syncMirrorService(v) ==
    claims' = IF granted[v] THEN claims \cup {podName[uid[v]]} ELSE claims

\* The mirror the pod should have, as createMirrorPod makes it.
createMirrorPod(v) == [uid |-> uid[v], phase |-> "", deleting |-> FALSE]

\* Mutant: a mirror of another content is left alone.
syncMirrorPodKeepsStale(v, m) ==
    CASE m = NoMirror -> createMirrorPod(v)
      [] m # NoMirror /\ m.deleting -> NoMirror
      [] OTHER -> m

\* What one pod's sync does to its mirror m.
syncMirrorPod(v, m) ==
    CASE m = NoMirror -> createMirrorPod(v)
      [] m # NoMirror /\ m.deleting -> NoMirror
      [] m # NoMirror /\ ~m.deleting /\ m.uid # uid[v] -> Marked(m)
      [] OTHER -> m

SyncMirror(f) ==
    /\ phase = "mirror"
    /\ f \in todo
    /\ todo' = todo \ {f}
    /\ LET v == running[f]
           n == podName[uid[v]]
       IN \/ /\ syncMirrorService(v)
             /\ mirror' = [mirror EXCEPT ![n] = syncMirrorPod(v, @)]
             /\ IF mirror[n] = NoMirror /\ last[v] # ""
                THEN phase' = "backfill" /\ held' = <<v, last[v]>>
                ELSE UNCHANGED <<phase, held>>
             /\ NoFault
          \/ /\ Fault
             /\ syncMirrorService(v) \/ UNCHANGED claims
             /\ UNCHANGED <<mirror, phase, held>>
    /\ UNCHANGED <<files, seen, podVars, runVars, api, edits, userDeletes>>

Backfill ==
    /\ phase = "backfill"
    /\ phase' = "mirror"
    /\ held' = <<>>
    /\ setPhase(uid[held[1]], held[2])
    /\ UNCHANGED <<files, todo, seen, podVars, pc, stopping, vms, api, claims, edits,
                   userDeletes>>

-----------------------------------------------------------------------------
(* runPod, and the VM.                                                     *)

Goto(v, from, to) ==
    /\ pc[v] = from
    /\ pc' = [pc EXCEPT ![v] = to]

RunUnchanged == UNCHANGED <<files, loopVars, podVars, stopping, api, claims, edits,
                            userDeletes>>

Quiet == UNCHANGED <<last, mirror, faults>>

VMStarts(v) == Goto(v, "boot", "up") /\ Quiet /\ UNCHANGED vms /\ RunUnchanged

\* An image, a volume or a start that fails is retried, unless it is a start
\* and the restart policy is Never.
StartFails(v) ==
    /\ \/ Goto(v, "boot", "wait") /\ setPhase(uid[v], "Active")
       \/ Goto(v, "boot", "end") /\ setPhase(uid[v], "Terminal")
    /\ UNCHANGED vms /\ RunUnchanged

\* statusLoop.
PushStatus(v) ==
    /\ pc[v] = "up"
    /\ setPhase(uid[v], "Active")
    /\ UNCHANGED <<pc, vms>> /\ RunUnchanged

\* The VM ends and that is reported.  With a final status, or when stopping,
\* the pod is over; else a crash ends it too if the restart policy is Never
\* (without another look at isStopping), or the VM starts again.
VMEnds(v) ==
    /\ \/ Goto(v, "up", "check") /\ setPhase(uid[v], "Terminal")
       \/ ~stopping[v] /\ Goto(v, "up", "end") /\ setPhase(uid[v], "Terminal")
       \/ ~stopping[v] /\ Goto(v, "up", "wait") /\ setPhase(uid[v], "Active")
    /\ UNCHANGED vms /\ RunUnchanged

\* finalizePod deletes the mirror, by name and with grace period 0.
finalizePod(v) ==
    LET n == podName[uid[v]]
    IN /\ stopping[v]
       /\ Goto(v, "wait", "end") \/ Goto(v, "check", "end")
       /\ \/ mirror' = (IF api THEN [mirror EXCEPT ![n] = NoMirror] ELSE mirror) /\ NoFault
          \/ mirror' = mirror /\ api /\ Fault
       /\ UNCHANGED <<last, vms>> /\ RunUnchanged

\* vm.isStopping() is false.
NotStopping(v) ==
    /\ ~stopping[v]
    /\ Goto(v, "wait", "boot") \/ Goto(v, "check", "end")
    /\ Quiet /\ UNCHANGED vms /\ RunUnchanged

\* Mutant: the slots go by the pod's name.
RunEndsByName(v) ==
    /\ Goto(v, "end", "gone")
    /\ vms' = [c \in Contents |-> IF podName[c] = podName[uid[v]] THEN 0 ELSE vms[c]]
    /\ Quiet /\ RunUnchanged

\* The deferred delete goes by the UID, whoever has the slot by now.
RunEnds(v) ==
    /\ Goto(v, "end", "gone")
    /\ vms' = [vms EXCEPT ![uid[v]] = 0]
    /\ Quiet /\ RunUnchanged

-----------------------------------------------------------------------------
(* The watch of API pods.                                                  *)

\* reconcilePod leaves mirrors to the loop, except that it finishes the
\* deletion of one whose static pod does not run.  (podDeleted ignores them.)
OrphanMirror(n) ==
    /\ api
    /\ mirror[n].deleting
    /\ vms[mirror[n].uid] = 0
    /\ mirror' = [mirror EXCEPT ![n] = NoMirror]
    /\ UNCHANGED <<files, loopVars, podVars, runVars, api, claims, edits, userDeletes,
                   faults>>

-----------------------------------------------------------------------------

LoopStep == \/ StartScan \/ StartStaticPod \/ EndScan \/ Backfill
            \/ \E f \in Files : VisitFile(f) \/ RemoveGone(f) \/ SyncMirror(f)

\* Bookkeeping of runPod, which does not wait for the VM.
RunStep(v) == finalizePod(v) \/ NotStopping(v) \/ RunEnds(v)
VMStep(v) == VMStarts(v) \/ StartFails(v) \/ PushStatus(v) \/ VMEnds(v)

World ==
    \/ ApiUp
    \/ \E f \in Files, c \in Contents \cup {Bad, NoFile} : EditFile(f, c)
    \/ \E n \in Names : UserDeletesMirror(n) \/ UserDeletesService(n) \/ OrphanMirror(n)

Next == LoopStep \/ World \/ \E v \in VMs : RunStep(v) \/ VMStep(v)

Spec == Init /\ [][Next]_vars

\* The loop ticks for ever and does not block on a pod; runPod's own steps
\* happen.  Nothing is assumed of the VM, of editors, of users, or of the API.
FairSpec == Spec /\ WF_vars(LoopStep) /\ \A v \in VMs : WF_vars(RunStep(v))

-----------------------------------------------------------------------------
(* Properties.                                                             *)

MirrorPods == {NoMirror} \cup [uid : Contents, phase : PodPhases, deleting : BOOLEAN]

\* Types, and what the loop carries from step to step: the list of files seen
\* lives for one scan, a held manifest or status only until it is used.
TypeOK ==
    /\ files \in [Files -> Contents \cup {Bad, NoFile}]
    /\ phase \in Phases
    /\ todo \in SUBSET Files
    /\ seen \in SUBSET Files
    /\ phase \notin {"visit", "start"} => seen = {}
    /\ held \in CASE phase = "start" -> Files \X (Contents \cup {Bad})
                 [] phase = "backfill" -> VMs \X (PodPhases \ {""})
                 [] OTHER -> {<<>>}
    /\ running \in [Files -> VMs \cup {0}]
    /\ uid \in [VMs -> Contents \cup {NoUID}]
    /\ granted \in [VMs -> BOOLEAN]
    /\ pc \in [VMs -> Points]
    /\ stopping \in [VMs -> BOOLEAN]
    /\ last \in [VMs -> PodPhases]
    /\ vms \in [Contents -> VMs \cup {0}]
    /\ vips \in [VIPs -> VMs \cup {0}]
    /\ api \in BOOLEAN
    /\ mirror \in [Names -> MirrorPods]
    /\ claims \in SUBSET Names
    /\ edits \in 0 .. MaxEdits
    /\ userDeletes \in 0 .. MaxUserDeletes
    /\ faults \in 0 .. MaxFaults

\* No other podVM was ever made for the same content.
Sole(v) == \A w \in VMs : w # v => uid[w] # uid[v]

\* A bootstrap VIP never resolves to a pod whose manifest is gone or changed:
\* the table holds only podVMs the loop still runs and granted the VIP to.
VIPResolvesToRunning ==
    \A p \in VIPs : vips[p] # 0 =>
        granted[vips[p]] /\ \E f \in Files : running[f] = vips[p]

\* A pod that was granted its VIP keeps it for as long as it runs: neither a
\* later claim of the VIP by another manifest nor the stop of a pod that was
\* refused the VIP takes it away.  (Two files of one content share a UID, and
\* the second one takes it over.)
GrantedVIPKept ==
    \A f \in Files :
        LET v == running[f]
        IN v # 0 /\ granted[v] /\ Sole(v) => vips[vipOf[uid[v]]] = v

\* While a pod's goroutine is at work the agent finds its podVM under its UID
\* (for statuses, logs, exec, and to know that it runs): the end of another
\* pod, the predecessor from the same file included, does not empty the slot.
SlotKept ==
    \A v \in VMs : pc[v] \in Live /\ Sole(v) => vms[uid[v]] = v

\* Users deleting mirror pods and Services, an API server that comes up with
\* mirrors of an earlier life or whose calls fail, a directory that cannot be
\* listed, and VMs that crash or end never make the loop stop a static pod:
\* as long as the manifests are left alone and can be read, what was started
\* is neither stopped nor started again.
UntouchedKeepsRunning ==
    edits = 0 =>
        /\ \A v \in VMs : ~stopping[v]
        /\ \A v \in VMs : pc[v] # "none" => \E f \in Files : running[f] = v

\* One VM per pod: no two VMs of the same pod UID (and so of the same state
\* directory, vsock sockets and network interface id) run at once.
OneVMPerPod ==
    \A v, w \in VMs : v # w /\ pc[v] = "up" /\ pc[w] = "up" => uid[v] # uid[w]

Runs(f, c) == running[f] # 0 /\ uid[running[f]] = c

\* The pods follow the directory: a manifest that stays is run, a file that
\* stays away, or is no manifest, runs nothing.
ManifestConverges ==
    \A f \in Files, c \in Contents \cup {Bad, NoFile} :
        files[f] = c ~> \/ files[f] # c
                        \/ IF c \in Contents THEN Runs(f, c) ELSE running[f] = 0

\* Another manifest of the same pod name runs: the two fight for one mirror.
Rival(f) ==
    \E g \in Files \ {f} : /\ running[f] # 0 /\ running[g] # 0
                          /\ podName[uid[running[g]]] = podName[uid[running[f]]]

Reflected(v) ==
    /\ mirror[podName[uid[v]]].uid = uid[v]
    /\ ~mirror[podName[uid[v]]].deleting
    /\ granted[v] => podName[uid[v]] \in claims

\* The API comes to show each static pod that keeps running: its mirror is
\* there, of this content and not being deleted, and its VIP is claimed,
\* whatever users delete, an earlier agent left behind, finalizePod removes
\* by name, or calls fail.
ReflectionConverges ==
    \A f \in Files, v \in VMs :
        api /\ running[f] = v ~> running[f] # v \/ Rival(f) \/ Reflected(v)

=============================================================================

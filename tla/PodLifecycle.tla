---------------------------- MODULE PodLifecycle ----------------------------
(***************************************************************************)
(* The node agent's life of an API pod (poc/agent/main.go): the informer's *)
(* handlers reserve a slot in a.vms and start runPod; runPod pulls, boots  *)
(* the microVM, waits for it and reports; a deletion is turned into one    *)
(* killVM; statuses are written with Get and UpdateStatus, and pods are    *)
(* deleted, by name.                                                       *)
(*                                                                         *)
(* The module follows one namespace/name.  Successive pods of that name    *)
(* have the UIDs 1, 2, ...  The API server (external) is the object        *)
(* currently stored, and the watch is a queue of its past versions, so the *)
(* agent may act on an old one.  An UpdateStatus whose Get is no longer    *)
(* the stored version is refused (resourceVersion conflict).  The phases   *)
(* the agent does not tell apart are merged: Pending and Running are       *)
(* Active, Succeeded and Failed are Terminal.                              *)
(***************************************************************************)
EXTENDS Naturals, Sequences

CONSTANTS
    MaxUid,      \* bound: pods created under the name
    MaxRuns,     \* bound: runPod goroutines started for one UID
    MaxCrashes,  \* bound: crashes of one pod's VM
    MaxFaults,   \* bound: API calls of the agent that fail
    MaxLag       \* bound: watch events not yet delivered

ASSUME MaxUidAssumption == MaxUid \in Nat \ {0}
ASSUME BoundsAssumption ==
    /\ MaxRuns \in Nat
    /\ MaxCrashes \in Nat
    /\ MaxFaults \in Nat
    /\ MaxLag \in Nat

Uids == 1 .. MaxUid
Policies == {"Always", "Never"}   \* OnFailure is treated as Always here
Phases == {"Active", "Terminal"}

\* A version of the object, as the watch delivers it; gone marks a deletion.
Versions == [uid : Uids, phase : Phases, deleting : BOOLEAN, gone : BOOLEAN]
NoPod == [uid |-> 0, phase |-> "Active", deleting |-> FALSE, gone |-> TRUE]

\* Where the runPod goroutine of a pod is.
\*   begin      the checks before the first attempt
\*   pull       preparePod
\*   volumes    resolveVolumes
\*   pullWait   the backoff after a failure of these
\*   boot       makeRootfs
\*   start      gvproxy, vmnet-helper, cmd.Start
\*   startWait  retryStart's backoff
\*   setCmd     the harness process runs, vm.cmd is not set yet
\*   wait       cmd.Wait
\*   crashWait  the backoff before the VM is started again
\*   get, put   setPhase: before its Get, before its UpdateStatus
\*   reported   the final status was reported, isStopping is next
\*   finalize   finalizePod
\*   end        the deferred delete(a.vms, pod.UID)
Points == {"none", "begin", "pull", "volumes", "pullWait", "boot", "start",
           "startWait", "setCmd", "wait", "crashWait", "get", "put", "reported", "finalize", "end"}

VARIABLES
    policy,     \* pod.Spec.RestartPolicy
    obj,        \* the stored object, NoPod when there is none
    nextUid,    \* UID of the next pod created under the name
    events,     \* versions the watch has not delivered yet
    cache,      \* the informer's copy, redelivered by the resync
    faults,     \* failed API calls so far
    fresh,      \* writers whose Get still is the stored version
    vms,        \* a.vms: the UIDs with a slot
    pc,         \* UID -> Points
    want,       \* UID -> phase the runner's setPhase writes
    then,       \* UID -> where the runner goes after setPhase
    stopping,   \* UID -> podVM.stopping; also that stopOnce is spent
    killer,     \* UID -> the killVM goroutine
    alive,      \* UID -> the harness process (the VM) runs
    final,      \* UID -> status.json is in the boot share
    pusher,     \* UID -> a pushStatus of statusLoop or of a probe
    runs,       \* UID -> runPod goroutines started so far
    crashes,    \* UID -> crashes so far
    lateBoots   \* history: VMs booted since stopping was set

apiVars == <<obj, events, fresh>>
watchVars == <<nextUid, cache>>
stopVars == <<stopping, killer>>
vmVars == <<alive, final, crashes, lateBoots>>
runVars == <<pc, want, then>>
slotVars == <<vms, runs>>
vars == <<policy, obj, nextUid, events, cache, faults, fresh, vms, pc, want,
          then, stopping, killer, alive, final, pusher, runs, crashes,
          lateBoots>>

Init ==
    /\ policy \in Policies
    /\ obj = NoPod
    /\ nextUid = 1
    /\ events = <<>>
    /\ cache = NoPod
    /\ faults = 0
    /\ fresh = {}
    /\ vms = {}
    /\ pc = [u \in Uids |-> "none"]
    /\ want = [u \in Uids |-> "Active"]
    /\ then = [u \in Uids |-> "end"]
    /\ stopping = [u \in Uids |-> FALSE]
    /\ killer = [u \in Uids |-> "none"]
    /\ alive = [u \in Uids |-> FALSE]
    /\ final = [u \in Uids |-> FALSE]
    /\ pusher = [u \in Uids |-> "idle"]
    /\ runs = [u \in Uids |-> 0]
    /\ crashes = [u \in Uids |-> 0]
    /\ lateBoots = [u \in Uids |-> 0]

-----------------------------------------------------------------------------
(* The API server and its users (external).                                *)

Exists == ~obj.gone
HasRoom(q) == Len(q) < MaxLag

\* A write is stored and queued for the watch; every Get done before is stale.
Store(q, o) ==
    /\ HasRoom(q)
    /\ obj' = o
    /\ events' = Append(q, o)
    /\ fresh' = {}

Remove(q) == Store(q, [obj EXCEPT !.gone = TRUE])

CreatePod ==
    /\ ~Exists
    /\ nextUid \in Uids
    /\ Store(events, [uid |-> nextUid, phase |-> "Active", deleting |-> FALSE,
                      gone |-> FALSE])
    /\ nextUid' = nextUid + 1
    /\ UNCHANGED <<policy, cache, faults, slotVars, runVars, stopVars, vmVars,
                   pusher>>

\* kubectl delete: the object stays, with a deletion timestamp, until the
\* agent deletes it with grace period 0; a Terminal pod goes at once.
UserDeletes ==
    /\ Exists
    /\ ~obj.deleting
    /\ IF obj.phase = "Terminal"
       THEN Remove(events)
       ELSE Store(events, [obj EXCEPT !.deleting = TRUE])
    /\ UNCHANGED <<policy, watchVars, faults, slotVars, runVars, stopVars,
                   vmVars, pusher>>

UserForceDeletes ==
    /\ Exists
    /\ Remove(events)
    /\ UNCHANGED <<policy, watchVars, faults, slotVars, runVars, stopVars,
                   vmVars, pusher>>

\* One of the agent's calls: it takes effect (NotFound included) or fails.
Fault == faults < MaxFaults /\ faults' = faults + 1
NoFault == UNCHANGED faults

\* Delete(name, GracePeriodSeconds: 0), its error ignored.
DeleteByName(q) ==
    \/ NoFault /\ Exists /\ Remove(q)
    \/ NoFault /\ ~Exists /\ events' = q /\ UNCHANGED <<obj, fresh>>
    \/ Fault /\ events' = q /\ UNCHANGED <<obj, fresh>>

-----------------------------------------------------------------------------
(* The informer's handlers.                                                *)

\* vm.stopOnce.Do(...): stopping, and a killVM goroutine, the first time.
Stop(u) ==
    /\ stopping' = [stopping EXCEPT ![u] = TRUE]
    /\ killer' = [killer EXCEPT ![u] = IF stopping[u] THEN @ ELSE "asking"]

NoOp(q) ==
    events' = q /\ UNCHANGED <<obj, fresh, faults, stopVars, slotVars, runVars>>

\* podDeleted(obj).
podDeleted(o, q) ==
    IF o.uid \in vms
    THEN /\ Stop(o.uid)
         /\ events' = q
         /\ UNCHANGED <<obj, fresh, faults, slotVars, runVars>>
    ELSE NoOp(q)

\* The slot is reserved and runPod started with a fresh podVM.
StartRun(u, q) ==
    /\ runs[u] < MaxRuns
    /\ vms' = vms \cup {u}
    /\ runs' = [runs EXCEPT ![u] = @ + 1]
    /\ pc' = [pc EXCEPT ![u] = "begin"]
    /\ stopping' = [stopping EXCEPT ![u] = FALSE]
    /\ killer' = [killer EXCEPT ![u] = "none"]
    /\ events' = q
    /\ UNCHANGED <<obj, fresh, faults, want, then>>

\* Mutants of the next operator: a deletion seen late starts the pod, is left
\* to somebody else, or does not wait for the VM.
StartDeleted(o, q) == o.deleting /\ o.uid \notin vms /\ StartRun(o.uid, q)
IgnoreDeleted(o, q) == o.deleting /\ o.uid \notin vms /\ NoOp(q)
DeleteRunning(o, q) ==
    /\ o.deleting
    /\ DeleteByName(q)
    /\ UNCHANGED <<stopVars, slotVars, runVars>>

\* Nothing running (never started, or already exited): finalize.
DeleteNotRunning(o, q) ==
    /\ o.deleting
    /\ o.uid \notin vms
    /\ DeleteByName(q)
    /\ UNCHANGED <<stopVars, slotVars, runVars>>

StopRunning(o, q) ==
    /\ o.deleting
    /\ o.uid \in vms
    /\ Stop(o.uid)
    /\ events' = q
    /\ UNCHANGED <<obj, fresh, faults, slotVars, runVars>>

\* reconcilePod(pod) for the version o, the watch queue becoming q.
reconcilePod(o, q) ==
    \/ DeleteNotRunning(o, q)
    \/ StopRunning(o, q)
    \/ /\ ~o.deleting /\ o.uid \notin vms /\ o.phase = "Active"
       /\ StartRun(o.uid, q)
    \/ /\ ~o.deleting
       /\ o.uid \in vms \/ o.phase = "Terminal" \/ runs[o.uid] = MaxRuns
       /\ NoOp(q)

\* The watch delivers its next event.
Deliver ==
    /\ events # <<>>
    /\ cache' = Head(events)
    /\ IF Head(events).gone
       THEN podDeleted(Head(events), Tail(events))
       ELSE reconcilePod(Head(events), Tail(events))
    /\ UNCHANGED <<policy, nextUid, vmVars, pusher>>

\* The 30s resync delivers the cached object once more.
Resync ==
    /\ ~cache.gone
    /\ reconcilePod(cache, events)
    /\ UNCHANGED <<policy, watchVars, vmVars, pusher>>

-----------------------------------------------------------------------------
(* runPod.                                                                 *)

GoTo(u, p) == pc' = [pc EXCEPT ![u] = p] /\ UNCHANGED <<want, then>>

\* Call setPhase(phase), then go on at p.
SetPhase(u, phase, p) ==
    /\ pc' = [pc EXCEPT ![u] = "get"]
    /\ want' = [want EXCEPT ![u] = phase]
    /\ then' = [then EXCEPT ![u] = p]

RunnerOnly == UNCHANGED <<policy, apiVars, watchVars, faults, slotVars,
                          stopVars, vmVars, pusher>>

\* A pod of several containers fails at once unless images are block devices.
Begin(u) ==
    /\ pc[u] = "begin"
    /\ GoTo(u, "pull") \/ SetPhase(u, "Terminal", "end")
    /\ RunnerOnly

\* preparePod has the images, resolveVolumes the volumes (configMaps and
\* secrets are read once); isStopping is not consulted.
PullSucceeds(u) == pc[u] = "pull" /\ GoTo(u, "volumes") /\ RunnerOnly
resolveVolumes(u) == pc[u] = "volumes" /\ GoTo(u, "boot") /\ RunnerOnly

\* Either one fails; the next attempt begins with the images.
PullFails(u) ==
    /\ pc[u] \in {"pull", "volumes"}
    /\ SetPhase(u, "Active", "pullWait")
    /\ RunnerOnly

\* A start that failed is retried, unless the restart policy is Never.
retryStart(u) ==
    IF policy = "Never" THEN SetPhase(u, "Terminal", "end")
                        ELSE SetPhase(u, "Active", "startWait")

\* A backoff is over (the pull's also ends as soon as the pod is stopping).
BackoffEnds(u) ==
    /\ pc[u] \in {"pullWait", "startWait", "crashWait"}
    /\ GoTo(u, IF stopping[u] THEN "finalize"
               ELSE IF pc[u] = "pullWait" THEN "pull" ELSE "boot")
    /\ RunnerOnly

\* makeRootfs removes the old boot filesystem, status.json with it, before it
\* makes the new one, also when it fails then.
makeRootfs(u) ==
    /\ pc[u] = "boot"
    /\ \/ GoTo(u, "start")
       \/ retryStart(u)
    /\ final' = [final EXCEPT ![u] = FALSE]
    /\ UNCHANGED <<policy, apiVars, watchVars, faults, slotVars, stopVars,
                   alive, crashes, lateBoots, pusher>>

\* The harness is started.
BootSucceeds(u) ==
    /\ pc[u] = "start"
    /\ GoTo(u, "setCmd")
    /\ alive' = [alive EXCEPT ![u] = TRUE]
    /\ lateBoots' = [lateBoots EXCEPT ![u] = IF stopping[u] THEN @ + 1 ELSE @]
    /\ UNCHANGED <<policy, apiVars, watchVars, faults, slotVars, stopVars,
                   final, crashes, pusher>>

\* A step of the start fails.
BootFails(u) == pc[u] = "start" /\ retryStart(u) /\ RunnerOnly

SetCmd(u) == pc[u] = "setCmd" /\ GoTo(u, "wait") /\ RunnerOnly

\* Mutant: a crashed VM is booted again without a backoff.
VMExitedNoBackoff(u) ==
    /\ pc[u] = "wait"
    /\ ~alive[u]
    /\ IF final[u] THEN SetPhase(u, "Terminal", "reported")
                   ELSE SetPhase(u, "Active", "boot")
    /\ RunnerOnly

\* Mutant: the final status is reported before the VM has exited.
VMExitedEarly(u) ==
    /\ pc[u] = "wait"
    /\ SetPhase(u, "Terminal", "reported")
    /\ RunnerOnly

\* cmd.Wait returns: a final status, a stop, or a crash.
VMExited(u) ==
    /\ pc[u] = "wait"
    /\ ~alive[u]
    /\ CASE final[u]          -> SetPhase(u, "Terminal", "reported")
         [] ~final[u] /\ stopping[u] -> SetPhase(u, "Terminal", "finalize")
         [] ~final[u] /\ ~stopping[u] /\ policy = "Never" ->
               SetPhase(u, "Terminal", "end")
         [] OTHER             -> SetPhase(u, "Active", "crashWait")
    /\ RunnerOnly

Reported(u) ==
    /\ pc[u] = "reported"
    /\ GoTo(u, IF stopping[u] THEN "finalize" ELSE "end")
    /\ RunnerOnly

finalizePod(u) ==
    /\ pc[u] = "finalize"
    /\ DeleteByName(events)
    /\ GoTo(u, "end")
    /\ UNCHANGED <<policy, watchVars, slotVars, stopVars, vmVars, pusher>>

RunEnds(u) ==
    /\ pc[u] = "end"
    /\ GoTo(u, "none")
    /\ vms' = vms \ {u}
    /\ UNCHANGED <<policy, apiVars, watchVars, faults, runs, stopVars, vmVars,
                   pusher>>

-----------------------------------------------------------------------------
(* setPhase: Get by name, then UpdateStatus of what was read.              *)

\* Whether the Get of writer w answers.
GetAnswers(w) ==
    /\ NoFault
    /\ Exists
    /\ fresh' = fresh \cup {w}
GetFails == (Fault \/ (NoFault /\ ~Exists)) /\ UNCHANGED fresh

\* UpdateStatus: stored if the version read is still current, else lost.
UpdateStatus(w, phase) ==
    \/ NoFault /\ w \in fresh /\ Store(events, [obj EXCEPT !.phase = phase])
    \/ NoFault /\ w \notin fresh /\ UNCHANGED apiVars
    \/ /\ Fault
       /\ fresh' = fresh \ {w}
       /\ UNCHANGED <<obj, events>>

RunnerGet(u) ==
    /\ pc[u] = "get"
    /\ \/ GetAnswers(<<"run", u>>) /\ GoTo(u, "put")
       \/ GetFails /\ GoTo(u, then[u])
    /\ UNCHANGED <<policy, obj, events, watchVars, slotVars, stopVars, vmVars,
                   pusher>>

RunnerPut(u) ==
    /\ pc[u] = "put"
    /\ UpdateStatus(<<"run", u>>, want[u])
    /\ GoTo(u, then[u])
    /\ UNCHANGED <<policy, watchVars, slotVars, stopVars, vmVars, pusher>>

\* pushStatus: the guest answers the status request; what it reported is
\* written later, whatever has happened to the VM by then.
PushFetch(u) ==
    /\ pusher[u] = "idle"
    /\ alive[u]
    /\ pc[u] = "wait"
    /\ pusher' = [pusher EXCEPT ![u] = "get"]
    /\ UNCHANGED <<policy, apiVars, watchVars, faults, slotVars, runVars,
                   stopVars, vmVars>>

PushGet(u) ==
    /\ pusher[u] = "get"
    /\ \/ GetAnswers(<<"push", u>>) /\ pusher' = [pusher EXCEPT ![u] = "put"]
       \/ GetFails /\ pusher' = [pusher EXCEPT ![u] = "idle"]
    /\ UNCHANGED <<policy, obj, events, watchVars, slotVars, runVars, stopVars,
                   vmVars>>

PushPut(u) ==
    /\ pusher[u] = "put"
    /\ UpdateStatus(<<"push", u>>, "Active")
    /\ pusher' = [pusher EXCEPT ![u] = "idle"]
    /\ UNCHANGED <<policy, watchVars, slotVars, runVars, stopVars, vmVars>>

-----------------------------------------------------------------------------
(* killVM and the VM.                                                      *)

\* execd takes the shutdown request; the backstop timer is armed.
AskSucceeds(u) ==
    /\ killer[u] = "asking"
    /\ alive[u]
    /\ killer' = [killer EXCEPT ![u] = "backstop"]
    /\ UNCHANGED <<policy, apiVars, watchVars, faults, slotVars, runVars,
                   stopping, vmVars, pusher>>

\* cmd.Process.Kill(), if vm.cmd is set: without a harness process to hit the
\* kill is missed.
KillCmd(u) ==
    /\ alive' = [alive EXCEPT ![u] = @ /\ pc[u] # "wait"]
    /\ killer' = [killer EXCEPT ![u] = IF pc[u] = "wait" THEN "done" ELSE "missed"]

\* execd cannot be reached (no VM, early boot): the harness is killed at once.
AskFails(u) ==
    /\ killer[u] = "asking"
    /\ KillCmd(u)
    /\ UNCHANGED <<policy, apiVars, watchVars, faults, slotVars, runVars,
                   stopping, final, crashes, lateBoots, pusher>>

\* Mutant: the backstop timer does nothing.
BackstopNothing(u) ==
    /\ killer[u] = "backstop"
    /\ killer' = [killer EXCEPT ![u] = "done"]
    /\ UNCHANGED <<policy, apiVars, watchVars, faults, slotVars, runVars,
                   stopping, vmVars, pusher>>

Backstop(u) ==
    /\ killer[u] = "backstop"
    /\ KillCmd(u)
    /\ UNCHANGED <<policy, apiVars, watchVars, faults, slotVars, runVars,
                   stopping, final, crashes, lateBoots, pusher>>

\* execd ends the pod: status.json is written and the VM exits.
VMFinishes(u) ==
    /\ alive[u]
    /\ alive' = [alive EXCEPT ![u] = FALSE]
    /\ final' = [final EXCEPT ![u] = TRUE]
    /\ UNCHANGED <<policy, apiVars, watchVars, faults, slotVars, runVars,
                   stopVars, crashes, lateBoots, pusher>>

VMCrashes(u) ==
    /\ alive[u]
    /\ crashes[u] < MaxCrashes
    /\ crashes' = [crashes EXCEPT ![u] = @ + 1]
    /\ alive' = [alive EXCEPT ![u] = FALSE]
    /\ UNCHANGED <<policy, apiVars, watchVars, faults, slotVars, runVars,
                   stopVars, final, lateBoots, pusher>>

-----------------------------------------------------------------------------
RunPod(u) ==
    \/ Begin(u) \/ PullSucceeds(u) \/ resolveVolumes(u) \/ PullFails(u) \/ BackoffEnds(u)
    \/ makeRootfs(u) \/ BootSucceeds(u) \/ BootFails(u) \/ SetCmd(u) \/ VMExited(u)
    \/ Reported(u) \/ finalizePod(u) \/ RunEnds(u)
    \/ RunnerGet(u) \/ RunnerPut(u)

PushStatus(u) == PushFetch(u) \/ PushGet(u) \/ PushPut(u)
KillVM(u) == AskSucceeds(u) \/ AskFails(u) \/ Backstop(u)
Workload(u) == VMFinishes(u) \/ VMCrashes(u)
Users == CreatePod \/ UserDeletes \/ UserForceDeletes

Next ==
    \/ Users \/ Deliver \/ Resync
    \/ \E u \in Uids : RunPod(u) \/ PushStatus(u) \/ KillVM(u) \/ Workload(u)

\* Goroutines, timers, the watch and the resync make progress.  Users need do
\* nothing, and a workload may run for ever.
Fairness ==
    /\ WF_vars(Deliver)
    /\ WF_vars(Resync)
    /\ \A u \in Uids : /\ WF_vars(RunPod(u))
                       /\ WF_vars(PushGet(u) \/ PushPut(u))
                       /\ WF_vars(KillVM(u))

Spec == Init /\ [][Next]_vars
FairSpec == Spec /\ Fairness

-----------------------------------------------------------------------------
(* Properties.                                                             *)

Writers == {"run", "push"} \X Uids

\* The type of every variable.
TypeOK ==
    /\ policy \in Policies
    /\ obj \in Versions \cup {NoPod}
    /\ nextUid \in 1 .. (MaxUid + 1)
    /\ events \in Seq(Versions)
    /\ cache \in Versions \cup {NoPod}
    /\ faults \in 0 .. MaxFaults
    /\ fresh \in SUBSET Writers
    /\ vms \in SUBSET Uids
    /\ pc \in [Uids -> Points]
    /\ want \in [Uids -> Phases]
    /\ then \in [Uids -> {"pullWait", "startWait", "crashWait", "reported",
                          "finalize", "end"}]
    /\ stopping \in [Uids -> BOOLEAN]
    /\ killer \in [Uids -> {"none", "asking", "backstop", "done",
                            "missed"}]
    /\ alive \in [Uids -> BOOLEAN]
    /\ final \in [Uids -> BOOLEAN]
    /\ pusher \in [Uids -> {"idle", "get", "put"}]
    /\ runs \in [Uids -> 0 .. MaxRuns]
    /\ crashes \in [Uids -> 0 .. MaxCrashes]
    /\ lateBoots \in [Uids -> Nat]

\* The agent keeps its promise about the VMs: it implements PodPromise.  A
\* running VM has its slot in a.vms, so that the agent can still stop it; a
\* stop is final, however old the versions are that the watch and the resync
\* still deliver; and only the way from the pull boots without looking at
\* isStopping, so that a stopped pod gets at most one more VM.
Promise == INSTANCE PodPromise WITH
    slot <- vms,
    up <- {u \in Uids : alive[u]},
    stopped <- {u \in Uids : stopping[u]},
    late <- {u \in Uids : lateBoots[u] > 0}
PromiseKept == Promise!Spec

\* The name has been used by one pod only.
FirstOfName == nextUid <= 2

\* A step of the informer's handlers or of a runPod goroutine.
AgentStep == Deliver \/ Resync \/ \E u \in Uids : RunPod(u)

\* As long as the name is not reused, the agent removes the object only when
\* the pod's VM is gone (finalizePod, and reconcilePod's finalization).
FinalizeAfterExit ==
    [][(FirstOfName /\ Exists /\ obj'.gone /\ AgentStep) => ~alive[obj.uid]]_vars

\* As long as the name is not reused, a pod becomes Terminal only when its VM
\* is gone.
TerminalAfterExit ==
    [][(FirstOfName /\ Exists /\ obj.phase = "Active" /\ obj'.phase = "Terminal"
          /\ obj'.uid = obj.uid) => ~alive[obj.uid]]_vars

\* The kill request is spent and a VM runs that it did not reach.
Leaked(u) == alive[u] /\ killer[u] = "missed"

\* A stop ends the run, unless it came before the VM did.
StopEndsRun == \A u \in Uids : stopping[u] ~> (u \notin vms \/ Leaked(u))

\* A deleted pod's object goes away in spite of failed API calls (the resync
\* finalizes what finalizePod could not), unless its VM was leaked.
DeletedObjectGoes ==
    \A u \in Uids :
        (obj.uid = u /\ Exists /\ obj.deleting)
            ~> (obj.uid # u \/ ~Exists \/ Leaked(u))

\* research/pod-launch-benchmarks.md: a deleted pod's VM is stopped.
DeletedPodStops == \A u \in Uids : stopping[u] ~> ~alive[u]

\* The package comment: the phase is reported honestly.  A phase that says
\* the pod has ended is not taken back.
TerminalStays ==
    [][(Exists /\ obj.phase = "Terminal" /\ obj'.uid = obj.uid)
          => obj'.phase = "Terminal"]_vars

=============================================================================

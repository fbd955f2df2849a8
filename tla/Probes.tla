------------------------------- MODULE Probes -------------------------------
(***************************************************************************)
(* Probes of one pod with one container: the probe loops of                *)
(* poc/agent/probes.go, one goroutine per probe and VM, and the readiness  *)
(* they keep.  pushStatus, which the callbacks call, takes its time here;  *)
(* what it writes is PodLifecycle's subject.                               *)
(*                                                                         *)
(* The container is what ExecdSupervisor shows of it: it runs, ends by     *)
(* itself or because it was told to, and is started again.  When a VM dies *)
(* its loops that sleep return.  One with a probe or a callback under way  *)
(* finishes it first, possibly after the next VM has come up, and in its   *)
(* select a tick may then win over stop (bound: for the first such loop).  *)
(***************************************************************************)
EXTENDS Naturals

CONSTANTS
    ProbeSets,  \* the sets of probes a container may have
    Exec,       \* the kinds with an exec handler
    SuccessThreshold, FailureThreshold,   \* kind -> threshold
    MaxBoots,   \* bound: VMs of the pod
    MaxFaults   \* bound: kill requests that execd does not answer

Kinds == {"startup", "readiness", "liveness"}

ASSUME KindsAssumption ==
    /\ ProbeSets \subseteq SUBSET Kinds /\ ProbeSets # {}
    /\ Exec \subseteq Kinds
    /\ SuccessThreshold \in [Kinds -> Nat \ {0}]
    /\ FailureThreshold \in [Kinds -> Nat \ {0}]
ASSUME ProbeBoundsAssumption ==
    MaxBoots \in Nat \ {0} /\ MaxFaults \in Nat

Boots == 1 .. MaxBoots

\* What a probe meets: an answer, a refusal, or nothing until its timeout.
Healths == {"ok", "bad", "hung"}

\* Where a probe loop is: not begun, waiting for startupDone, between probes,
\* with the result of one in hand, in its callback's pushStatus, returned.
Points == {"off", "gate", "idle", "ok", "bad", "push", "gone"}

VARIABLES
    has,       \* the probes of the container
    boot,      \* the VM, by number
    up,        \* it runs, and execd can be reached
    health,    \* what a probe of the container would meet, or that it is "down"
    termed,    \* it was told to end
    loop,      \* VM -> kind -> [pc, succ, fail]
    done,      \* VM -> startupDone is closed
    ready,     \* vm.ready of the container
    late,      \* history: a loop of a VM that is gone has reported
    faults     \* kill requests lost so far

guestVars == <<has, boot, up, health, termed>>
vars == <<has, boot, up, health, termed, loop, done, ready,
          late, faults>>

LoopAt(pc) == [pc |-> pc, succ |-> 0, fail |-> 0]

\* runProbes: the startup probe, or without one every probe, begins at once;
\* the others wait for startupDone.
Started == [k \in Kinds |-> LoopAt(IF k \notin has THEN "off"
                                   ELSE IF k = "startup" \/ "startup" \notin has
                                   THEN "idle" ELSE "gate")]

\* initReady: a container without these probes is ready as soon as it runs.
initReady == {"startup", "readiness"} \cap has = {}

Init ==
    /\ has \in ProbeSets
    /\ boot = 1
    /\ up = TRUE
    /\ health = "down"
    /\ termed = FALSE
    /\ loop = [b \in Boots |-> IF b = 1 THEN Started ELSE [k \in Kinds |-> LoopAt("off")]]
    /\ done = [b \in Boots |-> "startup" \notin has]
    /\ ready = initReady
    /\ late = FALSE
    /\ faults = 0

Fault == faults < MaxFaults /\ faults' = faults + 1
NoFault == UNCHANGED faults

\* probeStop of VM b is closed.
Stopped(b) == b < boot \/ ~up

-----------------------------------------------------------------------------
(* The VM and its container.                                               *)

ContainerStarts ==
    /\ up /\ health = "down"
    /\ health' \in Healths
    /\ UNCHANGED <<has, boot, up, termed, loop, done, ready, late, faults>>

ContainerEnds ==
    /\ health # "down"
    /\ health' = "down"
    /\ termed' = FALSE
    /\ UNCHANGED <<has, boot, up, loop, done, ready, late, faults>>

HealthChanges ==
    /\ health # "down"
    /\ health' \in Healths \ {health}
    /\ UNCHANGED <<has, boot, up, termed, loop, done, ready, late, faults>>

VMGone == up' = FALSE /\ health' = "down" /\ termed' = FALSE /\ UNCHANGED <<has, boot>>

\* case <-stop: the loops that sleep or wait return.
Quit(loops) == [k \in Kinds |-> IF loops[k].pc \in {"gate", "idle"} THEN LoopAt("gone")
                                                                  ELSE loops[k]]

VMDies ==
    /\ up
    /\ boot < MaxBoots
    /\ VMGone
    /\ loop' = [loop EXCEPT ![boot] = Quit(@)]
    /\ UNCHANGED <<done, ready, late, faults>>

\* runPod starts the VM again, and runProbes with it; readiness stays as it was.
VMBoots ==
    /\ ~up
    /\ boot < MaxBoots
    /\ boot' = boot + 1
    /\ up' = TRUE
    /\ loop' = [loop EXCEPT ![boot + 1] = Started]
    /\ UNCHANGED <<has, health, termed, done, ready, late, faults>>

-----------------------------------------------------------------------------
(* probeLoop.                                                              *)

At(b, k, pc) == loop[b][k].pc = pc
Moved(b, k, pc) == [loop EXCEPT ![b][k].pc = pc]

\* Loop k has become lp and comes to its select: it goes on, or sees stop.
Going(b, k, lp) ==
    \E ls \in {[loop EXCEPT ![b][k] = lp], [loop EXCEPT ![b][k] = LoopAt("gone")]} :
        /\ ls[b][k].pc = "gone" => Stopped(b) /\ lp.pc = "idle"
        /\ Stopped(b) /\ ls[b][k].pc = "idle" => ~late
        /\ loop' = ls

LoopOnly == UNCHANGED <<guestVars, done, ready, late, faults>>

PassGate(b, k) ==
    /\ At(b, k, "gate")
    /\ done[b]
    /\ loop' = Moved(b, k, "idle")
    /\ LoopOnly

\* doProbe, by the pod's UID: it meets the VM that runs now.  An exec session
\* that is cut off, by the timeout too, counts as a clean end.
doProbe(k) ==
    IF up /\ (health = "ok" \/ (health = "hung" /\ k \in Exec))
    THEN "ok" ELSE "bad"

Probe(b, k) ==
    /\ At(b, k, "idle")
    /\ loop' = Moved(b, k, doProbe(k))
    /\ LoopOnly

\* A count and whether it comes to its threshold now; how far past it the
\* count is does not matter.
Count(n, threshold) == IF n = threshold THEN n ELSE n + 1
Reaches(n, threshold) == n + 1 = threshold

\* setContainerReady(r) and, if that is news, pushStatus before the loop goes on.
SetReady(b, k, r, lp) ==
    /\ ready' = r
    /\ Going(b, k, [lp EXCEPT !.pc = IF ready # r THEN "push" ELSE @])

Silent(b, k, lp) == Going(b, k, lp) /\ UNCHANGED ready

\* report(true).
ReportHealthy(b, k, lp) ==
    CASE k = "readiness" -> SetReady(b, k, TRUE, lp) /\ UNCHANGED done
      [] k = "startup" /\ ~done[b] ->
            /\ done' = [done EXCEPT ![b] = TRUE]
            /\ IF "readiness" \in has THEN Silent(b, k, lp)
                                        ELSE SetReady(b, k, TRUE, lp)
      [] OTHER -> Silent(b, k, lp) /\ UNCHANGED done

\* killContainer: execd signals the container if it runs.  When it does not
\* answer, killVM asks it to shut down, and the VM ends later (VMDies), or gets
\* no answer either and kills the VM that runs now.
killContainer(b, k, lp) ==
    \/ /\ up /\ NoFault
       /\ termed' = (health # "down")
       /\ Silent(b, k, lp)
       /\ UNCHANGED <<has, boot, up, health>>
    \/ /\ up /\ boot < MaxBoots /\ Fault
       /\ VMGone
       /\ loop' = [loop EXCEPT ![boot] = Quit(@), ![b][k] = LoopAt("gone")]
       /\ UNCHANGED ready
    \/ up /\ Fault /\ Silent(b, k, lp) /\ UNCHANGED guestVars
    \/ ~up /\ NoFault /\ Silent(b, k, lp) /\ UNCHANGED guestVars

\* Mutant: successes are not reset by a failure.
AfterFailureKeeps(k, lp) == [lp EXCEPT !.pc = "idle", !.fail = Count(@, FailureThreshold[k])]

\* The counters after a failure, before the threshold is looked at.
AfterFailure(k, lp) ==
    [pc |-> "idle", succ |-> 0, fail |-> Count(lp.fail, FailureThreshold[k])]

\* Mutant: the counters go on after a kill.
AfterKillCounts(lp) == lp

\* The container is being restarted: a fresh run.
AfterKill(lp) == LoopAt("idle")

HandleSuccess(b, k) ==
    LET lp == [pc |-> "idle", succ |-> Count(loop[b][k].succ, SuccessThreshold[k]),
               fail |-> 0]
    IN /\ At(b, k, "ok")
       /\ IF Reaches(loop[b][k].succ, SuccessThreshold[k])
          THEN ReportHealthy(b, k, lp)
          ELSE Silent(b, k, lp) /\ UNCHANGED done
       /\ late' = (late \/ Stopped(b))
       /\ UNCHANGED <<guestVars, faults>>

HandleFailure(b, k) ==
    LET lp == AfterFailure(k, loop[b][k])
        reached == Reaches(loop[b][k].fail, FailureThreshold[k])
    IN /\ At(b, k, "bad")
       /\ \/ ~reached /\ Silent(b, k, lp) /\ UNCHANGED <<guestVars, faults>>
          \/ /\ reached /\ k = "readiness"
             /\ SetReady(b, k, FALSE, lp) /\ UNCHANGED <<guestVars, faults>>
          \/ reached /\ k # "readiness" /\ killContainer(b, k, AfterKill(lp))
       /\ late' = (late \/ Stopped(b))
       /\ UNCHANGED done

\* pushStatus has returned to the callback.
Resume(b, k) ==
    /\ At(b, k, "push")
    /\ Going(b, k, [loop[b][k] EXCEPT !.pc = "idle"])
    /\ LoopOnly

-----------------------------------------------------------------------------

LoopStep(b, k) == PassGate(b, k) \/ Probe(b, k) \/ HandleSuccess(b, k)
                    \/ HandleFailure(b, k) \/ Resume(b, k)

Next ==
    \/ ContainerStarts \/ ContainerEnds \/ HealthChanges \/ VMDies \/ VMBoots
    \/ \E b \in Boots, k \in Kinds : LoopStep(b, k)

Spec == Init /\ [][Next]_vars

\* Goroutines run and tickers tick, execd answers or its connection times out;
\* a container that was told to end ends (the SIGKILL after the grace period),
\* and execd starts it again.
FairSpec ==
    /\ Spec
    /\ WF_vars(ContainerStarts)
    /\ WF_vars(ContainerEnds /\ termed)
    /\ \A b \in Boots, k \in Kinds : WF_vars(LoopStep(b, k))

-----------------------------------------------------------------------------
(* Properties.                                                             *)

LoopRecords(k) == [pc : Points, succ : 0 .. SuccessThreshold[k],
                   fail : 0 .. IF k = "readiness" THEN FailureThreshold[k]
                                                  ELSE FailureThreshold[k] - 1]

\* Types.  Only a loop that reports readiness is ever in pushStatus, and only
\* the readiness loop keeps a failure count that has come to its threshold.
TypeOK ==
    /\ has \in ProbeSets
    /\ boot \in Boots
    /\ up \in BOOLEAN
    /\ health \in Healths \cup {"down"}
    /\ termed \in BOOLEAN
    /\ \A b \in Boots, k \in Kinds : loop[b][k] \in LoopRecords(k)
    /\ done \in [Boots -> BOOLEAN]
    /\ ready \in BOOLEAN
    /\ late \in BOOLEAN
    /\ faults \in 0 .. MaxFaults
    /\ \A b \in Boots, k \in Kinds : At(b, k, "push") => k # "liveness"

\* What a probe of kind k would find in the container that runs, all along.
Finds(k, r) == health # "down" /\ doProbe(k) = r

\* A container that fails its liveness probe and goes on failing it does not
\* run for ever, whatever the probes of its startup or of its predecessors
\* counted, and whichever kill requests came while it was not running.
UnhealthyEnds == "liveness" \in has => ~<>[](Finds("liveness", "bad"))

\* Readiness follows the probe: once its result stays the same, ready agrees
\* with it for good, over restarts of the container and of the VM, unless a
\* loop of an earlier VM reported late.
ReadinessConverges ==
    "readiness" \in has =>
        /\ <>[](Finds("readiness", "ok") /\ done[boot] /\ ~late) => <>[]ready
        /\ <>[](Finds("readiness", "bad") /\ done[boot] /\ ~late) => <>[](~ready)

=============================================================================

-------------------------- MODULE ExecdSupervisor --------------------------
(***************************************************************************)
(* execd's in-guest supervisor (poc/execd/supervisor.go): init containers  *)
(* run one after the other, then the main containers run in parallel, each *)
(* restarted on its own per restartPolicy; the host may ask over vsock for *)
(* one container to be killed (probe failure) or for the whole pod to be   *)
(* shut down.  The VM ends when run() returns.                             *)
(*                                                                         *)
(* Containers are numbered in pod-spec order, the inits first.  A step of  *)
(* this module is one critical section of the code (c.mu or s.mu), so the  *)
(* mutexes need no state of their own; what happens between two critical   *)
(* sections of one goroutine can be interleaved with every other one.      *)
(***************************************************************************)
EXTENDS Integers

CONSTANTS
    NInit,        \* number of init containers
    NMain,        \* number of main containers
    ExitCodes,    \* codes a process may exit with of its own accord
    Requests,     \* shutdown requests the host may send (killVM)
    MaxRestarts   \* bound: restarts of one container the model follows

Policies == {"Always", "OnFailure", "Never"}

ASSUME NInitAssumption == NInit \in Nat
ASSUME NMainAssumption == NMain \in Nat \ {0}
ASSUME ExitCodesAssumption == ExitCodes \subseteq Int
ASSUME MaxRestartsAssumption == MaxRestarts \in Nat

Inits == 1 .. NInit
Mains == (NInit + 1) .. (NInit + NMain)
N == NInit + NMain
Containers == 1 .. N

StartFailed == 128   \* startOnce's code when the process cannot be started
Signaled == -1       \* os.ProcessState.ExitCode of a process ended by a signal
Codes == ExitCodes \cup {0, StartFailed, Signaled}
MaxShift == 5        \* the crash backoff is 1<<min(attempt, 5) seconds

States == {"Waiting", "Running", "Terminated"}

\* Where a container's supervise goroutine is.
\*   idle     supervise not called yet
\*   start    at the top of the loop, about to call startOnce
\*   launched the process exists, c.cmd is set, c.state not yet "Running"
\*   running  blocked in cmd.Wait
\*   reaped   startOnce returned after the process exited, exit code recorded
\*   failed   startOnce returned an error, code 128 recorded
\*   backoff  sleeping before the restart
\*   done     supervise returned
Points == {"idle", "start", "launched", "running", "reaped", "failed",
           "backoff", "done"}

VARIABLES
    pc,         \* container -> Points
    state,      \* container.state
    exitCode,   \* container.exitCode
    restarts,   \* container.restarts
    attempt,    \* supervise's loop counter, capped at MaxShift
    inc,        \* which incarnation c.cmd is: processes launched so far
    alive,      \* the incarnation's process exists
    termed,     \* SIGTERM was delivered to the current incarnation
    killed,     \* SIGKILL was delivered to the current incarnation
    timers,     \* terminate()'s pending AfterFuncs: the incarnations they hold
    stopping,   \* supervisor.stopping
    sdPc,       \* shutdown request -> where shutdownAll is for it
    sdIdx,      \* shutdown request -> position of its loop in `all`
    policy,     \* supervisor.policy, from the pod's restartPolicy
    runPc,      \* where run() (and main() after it) is
    initIdx,    \* the init container run() is at
    podCode,    \* the code run() returns
    final,      \* status.json in the boot share; <<>> until written
    late        \* history: launches of the container since a shutdown request

procVars == <<inc, alive, termed, killed, timers, late>>
ctrVars == <<pc, state, exitCode, restarts, attempt>>
sdVars == <<stopping, sdPc, sdIdx>>
runVars == <<policy, runPc, initIdx, podCode, final>>
vars == <<pc, state, exitCode, restarts, attempt, inc, alive, termed, killed,
          timers, stopping, sdPc, sdIdx, policy, runPc, initIdx, podCode, final, late>>

-----------------------------------------------------------------------------
(* The pure decisions. *)

shouldRestart(pol, code) ==
    CASE pol = "Never"     -> FALSE
      [] pol = "OnFailure" -> code # 0
      [] OTHER             -> TRUE

\* Mutant: init containers are supervised under the pod's own policy.
initPolicyUnmapped(pod) == pod

initPolicy(pod) == IF pod = "Always" THEN "OnFailure" ELSE pod

PolicyOf(c) == IF c \in Inits THEN initPolicy(policy) ELSE policy

\* shutdownAll's `all`: the mains in order, then the inits.
ShutdownOrder(i) == IF i <= NMain THEN NInit + i ELSE i - NMain

\* The status.json / status-op view of one container.
StatusOf(c) == [state |-> state[c], exitCode |-> exitCode[c]]

\* The agent's finalPhase over the translated final statuses.
finalPhase(sts) ==
    IF \E c \in Containers : sts[c].state # "Terminated" \/ sts[c].exitCode # 0
    THEN "Failed" ELSE "Succeeded"

Up == runPc # "exited"

\* The host has asked for a shutdown.
ShutdownAsked == \E r \in Requests : sdPc[r] # "idle"

Init ==
    /\ pc = [c \in Containers |-> "idle"]
    /\ state = [c \in Containers |-> "Waiting"]
    /\ exitCode = [c \in Containers |-> 0]
    /\ restarts = [c \in Containers |-> 0]
    /\ attempt = [c \in Containers |-> 0]
    /\ inc = [c \in Containers |-> 0]
    /\ alive = [c \in Containers |-> FALSE]
    /\ termed = [c \in Containers |-> FALSE]
    /\ killed = [c \in Containers |-> FALSE]
    /\ timers = [c \in Containers |-> {}]
    /\ stopping = FALSE
    /\ sdPc = [r \in Requests |-> "idle"]
    /\ sdIdx = [r \in Requests |-> 1]
    /\ policy \in Policies
    /\ runPc = "inits"
    /\ initIdx = 1
    /\ podCode = 0
    /\ final = <<>>
    /\ late = [c \in Containers |-> 0]

-----------------------------------------------------------------------------
(* startOnce and supervise, one container.                                 *)

\* The process is created and c.cmd points at it.  Nothing looks at c.state
\* or stop() here: the loop's last stop() check was before this step.
Launch(c) ==
    /\ pc[c] = "start"
    /\ pc' = [pc EXCEPT ![c] = "launched"]
    /\ inc' = [inc EXCEPT ![c] = @ + 1]
    /\ alive' = [alive EXCEPT ![c] = TRUE]
    /\ termed' = [termed EXCEPT ![c] = FALSE]
    /\ killed' = [killed EXCEPT ![c] = FALSE]
    /\ late' = [late EXCEPT ![c] = IF ShutdownAsked THEN @ + 1 ELSE @]
    /\ UNCHANGED <<state, exitCode, restarts, attempt, timers, sdVars, runVars>>

\* lookPathInRoot, pty.Start or cmd.Start fails: startOnce returns 128, and
\* supervise records it.
LaunchFails(c) ==
    /\ pc[c] = "start"
    /\ pc' = [pc EXCEPT ![c] = "failed"]
    /\ exitCode' = [exitCode EXCEPT ![c] = StartFailed]
    /\ UNCHANGED <<state, restarts, attempt, procVars, sdVars, runVars>>

MarkRunning(c) ==
    /\ pc[c] = "launched"
    /\ pc' = [pc EXCEPT ![c] = "running"]
    /\ state' = [state EXCEPT ![c] = "Running"]
    /\ UNCHANGED <<exitCode, restarts, attempt, procVars, sdVars, runVars>>

\* The process ends, cmd.Wait returns and supervise records the code.  A
\* process that ends before c.state is "Running" is not seen to have ended
\* until cmd.Wait, and signals do nothing to it in between.
ProcessDies(c, code) ==
    /\ alive[c]
    /\ pc[c] = "running"
    /\ alive' = [alive EXCEPT ![c] = FALSE]
    /\ exitCode' = [exitCode EXCEPT ![c] = code]
    /\ pc' = [pc EXCEPT ![c] = "reaped"]
    /\ UNCHANGED <<state, restarts, attempt, inc, termed, killed, timers, late,
                   sdVars, runVars>>

\* It exits by itself (a SIGTERM handler included), or of the SIGTERM ...
Exit(c) ==
    /\ ~killed[c]
    /\ \E code \in ExitCodes \cup (IF termed[c] THEN {Signaled} ELSE {}) :
          ProcessDies(c, code)

\* ... or of the SIGKILL, which it cannot refuse.
DieOfKill(c) == killed[c] /\ ProcessDies(c, Signaled)

\* `ran > 5*time.Minute`: after an exit the process may or may not have run
\* that long.  After a failed start ran is counted from c.startedAt, which is
\* the previous incarnation's, or the zero time (ran is then the maximal
\* Duration) when the container never started.
RanLong(c) ==
    IF pc[c] = "failed" /\ inc[c] = 0 THEN {TRUE} ELSE BOOLEAN

\* supervise after startOnce: terminal, or a crash-backoff sleep.
Terminate(c) ==
    /\ stopping \/ ~shouldRestart(PolicyOf(c), exitCode[c])
    /\ pc' = [pc EXCEPT ![c] = "done"]
    /\ state' = [state EXCEPT ![c] = "Terminated"]
    /\ UNCHANGED <<restarts, attempt>>

\* Mutant: a container waiting for its restart is reported Terminated.
EnterBackoffTerminated(c) ==
    /\ ~stopping
    /\ shouldRestart(PolicyOf(c), exitCode[c])
    /\ restarts[c] < MaxRestarts
    /\ pc' = [pc EXCEPT ![c] = "backoff"]
    /\ state' = [state EXCEPT ![c] = "Terminated"]
    /\ restarts' = [restarts EXCEPT ![c] = @ + 1]
    /\ UNCHANGED attempt

EnterBackoff(c) ==
    /\ ~stopping
    /\ shouldRestart(PolicyOf(c), exitCode[c])
    /\ restarts[c] < MaxRestarts
    /\ pc' = [pc EXCEPT ![c] = "backoff"]
    /\ state' = [state EXCEPT ![c] = "Waiting"]
    /\ restarts' = [restarts EXCEPT ![c] = @ + 1]
    /\ \E long \in RanLong(c) :
          attempt' = [attempt EXCEPT ![c] = IF long THEN 0 ELSE @]

Decide(c) ==
    /\ pc[c] \in {"reaped", "failed"}
    /\ Terminate(c) \/ EnterBackoff(c)
    /\ UNCHANGED <<exitCode, procVars, sdVars, runVars>>

\* time.Sleep(backoff) is over: stop() is looked at once more.
BackoffEnds(c) ==
    /\ pc[c] = "backoff"
    /\ IF stopping
       THEN /\ pc' = [pc EXCEPT ![c] = "done"]
            /\ state' = [state EXCEPT ![c] = "Terminated"]
            /\ UNCHANGED attempt
       ELSE /\ pc' = [pc EXCEPT ![c] = "start"]
            /\ attempt' = [attempt EXCEPT ![c] = IF @ < MaxShift THEN @ + 1 ELSE @]
            /\ UNCHANGED state
    /\ UNCHANGED <<exitCode, restarts, procVars, sdVars, runVars>>

-----------------------------------------------------------------------------
(* The host's requests: kill one container, shut the pod down.             *)

\* c.cmd != nil && c.state == "Running": the test before every signal.
Signalable(c) == state[c] = "Running"

\* Signal() on a process that has ended is an error the code ignores.
Deliver(flag, c) == [flag EXCEPT ![c] = @ \/ (alive[c] /\ Signalable(c))]

\* Mutant: terminate sends SIGTERM but arms no timer.
HandleKillNoTimer(c) ==
    /\ Signalable(c)
    /\ termed' = Deliver(termed, c)
    /\ UNCHANGED <<ctrVars, inc, alive, killed, timers, late, sdVars, runVars>>

\* handleKill -> terminate: SIGTERM, and an AfterFunc that remembers c.cmd.
HandleKill(c) ==
    /\ Signalable(c)
    /\ termed' = Deliver(termed, c)
    /\ timers' = [timers EXCEPT ![c] = @ \cup {inc[c]}]
    /\ UNCHANGED <<ctrVars, inc, alive, killed, late, sdVars, runVars>>

\* Mutant: the timer does not compare c.cmd with the cmd it was armed for.
KillTimerAnyIncarnation(c, n) ==
    /\ n \in timers[c]
    /\ timers' = [timers EXCEPT ![c] = @ \ {n}]
    /\ killed' = Deliver(killed, c)
    /\ UNCHANGED <<ctrVars, inc, alive, termed, late, sdVars, runVars>>

\* terminate's AfterFunc: SIGKILL if that same incarnation still runs.
KillTimer(c, n) ==
    /\ n \in timers[c]
    /\ timers' = [timers EXCEPT ![c] = @ \ {n}]
    /\ killed' = IF inc[c] = n THEN Deliver(killed, c) ELSE killed
    /\ UNCHANGED <<ctrVars, inc, alive, termed, late, sdVars, runVars>>

\* Mutant: shutdownAll signals the containers but never sets stopping.
HandleShutdownNoFlag(r) ==
    /\ sdPc[r] = "idle"
    /\ sdPc' = [sdPc EXCEPT ![r] = "signal"]
    /\ UNCHANGED <<stopping, sdIdx, ctrVars, procVars, runVars>>

\* handleShutdown -> shutdownAll: stopping is set first ...
HandleShutdown(r) ==
    /\ sdPc[r] = "idle"
    /\ stopping' = TRUE
    /\ sdPc' = [sdPc EXCEPT ![r] = "signal"]
    /\ UNCHANGED <<sdIdx, ctrVars, procVars, runVars>>

\* One round of one of shutdownAll's two loops; after the last, on to `next`.
NextRound(r, next) ==
    /\ sdIdx' = [sdIdx EXCEPT ![r] = IF @ = N THEN 1 ELSE @ + 1]
    /\ sdPc' = [sdPc EXCEPT ![r] = IF sdIdx[r] = N THEN next ELSE @]
    /\ UNCHANGED <<stopping, ctrVars, inc, alive, timers, late, runVars>>

\* ... then every container is signalled, each under its own lock ...
ShutdownSignal(r) ==
    /\ sdPc[r] = "signal"
    /\ termed' = Deliver(termed, ShutdownOrder(sdIdx[r]))
    /\ NextRound(r, "grace")
    /\ UNCHANGED killed

\* Mutant: the grace timer escalates to nothing.
ShutdownKillNothing(r) ==
    /\ sdPc[r] = "grace"
    /\ NextRound(r, "end")
    /\ UNCHANGED <<termed, killed>>

\* ... and when the grace timer fires, killed, again one at a time.
ShutdownKill(r) ==
    /\ sdPc[r] = "grace"
    /\ killed' = Deliver(killed, ShutdownOrder(sdIdx[r]))
    /\ NextRound(r, "end")
    /\ UNCHANGED termed

-----------------------------------------------------------------------------
(* run(), and main() after it.                                             *)

InitStart ==
    /\ runPc = "inits"
    /\ initIdx \in Inits
    /\ pc[initIdx] = "idle"
    /\ pc' = [pc EXCEPT ![initIdx] = "start"]
    /\ UNCHANGED <<state, exitCode, restarts, attempt, procVars, sdVars, runVars>>

\* Mutant: a failed init container does not end the pod.
InitReturnIgnoresCode ==
    /\ runPc = "inits"
    /\ initIdx \in Inits
    /\ pc[initIdx] = "done"
    /\ initIdx' = initIdx + 1
    /\ UNCHANGED <<policy, runPc, podCode, final, ctrVars, procVars, sdVars>>

\* supervise returned: a non-zero code ends the pod, zero is the next init.
\* Whether the pod is being stopped is not looked at.
InitReturn ==
    /\ runPc = "inits"
    /\ initIdx \in Inits
    /\ pc[initIdx] = "done"
    /\ IF exitCode[initIdx] # 0
       THEN /\ runPc' = "final"
            /\ podCode' = exitCode[initIdx]
            /\ UNCHANGED initIdx
       ELSE /\ initIdx' = initIdx + 1
            /\ UNCHANGED <<runPc, podCode>>
    /\ UNCHANGED <<policy, final, ctrVars, procVars, sdVars>>

SpawnMains ==
    /\ runPc = "inits"
    /\ initIdx = NInit + 1
    /\ runPc' = "mains"
    /\ pc' = [c \in Containers |-> IF c \in Mains THEN "start" ELSE pc[c]]
    /\ UNCHANGED <<state, exitCode, restarts, attempt, procVars, sdVars,
                   policy, initIdx, podCode, final>>

\* Mutant: run() does not wait for the main containers' goroutines.
CollectWithoutWait ==
    /\ runPc = "mains"
    /\ podCode' = 0
    /\ runPc' = "final"
    /\ UNCHANGED <<policy, initIdx, final, ctrVars, procVars, sdVars>>

\* Mutant: run() returns 0 whatever the main containers exited with.
CollectZero ==
    /\ runPc = "mains"
    /\ \A c \in Mains : pc[c] = "done"
    /\ podCode' = 0
    /\ runPc' = "final"
    /\ UNCHANGED <<policy, initIdx, final, ctrVars, procVars, sdVars>>

\* wg.Wait returns; the last non-zero code in spec order is the pod's.
Collect ==
    /\ runPc = "mains"
    /\ \A c \in Mains : pc[c] = "done"
    /\ IF \A c \in Mains : exitCode[c] = 0
       THEN podCode' = 0
       ELSE \E c \in Mains :
               /\ exitCode[c] # 0
               /\ \A d \in Mains : exitCode[d] # 0 => d <= c
               /\ podCode' = exitCode[c]
    /\ runPc' = "final"
    /\ UNCHANGED <<policy, initIdx, final, ctrVars, procVars, sdVars>>

writeFinalStatus ==
    /\ runPc = "final"
    /\ final' = [c \in Containers |-> StatusOf(c)]
    /\ runPc' = "exit"
    /\ UNCHANGED <<policy, initIdx, podCode, ctrVars, procVars, sdVars>>

\* os.Exit of the init process: the VM is gone.
OsExit ==
    /\ runPc = "exit"
    /\ runPc' = "exited"
    /\ UNCHANGED <<policy, initIdx, podCode, final, ctrVars, procVars, sdVars>>

RunStep == InitStart \/ InitReturn \/ SpawnMains \/ Collect
           \/ writeFinalStatus \/ OsExit

Supervise(c) == Launch(c) \/ LaunchFails(c) \/ MarkRunning(c) \/ DieOfKill(c)
                \/ Decide(c) \/ BackoffEnds(c)

\* Nothing runs in a VM that is gone.
Halted == ~Up /\ UNCHANGED vars

Next ==
    \/ /\ Up
       /\ \/ RunStep
          \/ \E c \in Containers :
                \/ Supervise(c)
                \/ Exit(c)
                \/ HandleKill(c)
                \/ \E n \in timers[c] : KillTimer(c, n)
          \/ \E r \in Requests :
                HandleShutdown(r) \/ ShutdownSignal(r) \/ ShutdownKill(r)
    \/ Halted

\* Goroutines are scheduled and timers fire; a killed process ends.  Processes
\* need not exit by themselves, and the host need not send requests.
Fairness ==
    /\ WF_vars(Up /\ RunStep)
    /\ \A c \in Containers :
          /\ WF_vars(Up /\ Supervise(c))
          /\ WF_vars(Up /\ \E n \in timers[c] : KillTimer(c, n))
    /\ \A r \in Requests : WF_vars(Up /\ (ShutdownSignal(r) \/ ShutdownKill(r)))

Spec == Init /\ [][Next]_vars
FairSpec == Spec /\ Fairness

-----------------------------------------------------------------------------
(* Properties.                                                             *)

Status == [state : States, exitCode : Codes]

\* The type of every variable.
TypeOK ==
    /\ pc \in [Containers -> Points]
    /\ state \in [Containers -> States]
    /\ exitCode \in [Containers -> Codes]
    /\ restarts \in [Containers -> 0 .. MaxRestarts]
    /\ attempt \in [Containers -> 0 .. MaxShift]
    /\ inc \in [Containers -> Nat]
    /\ alive \in [Containers -> BOOLEAN]
    /\ termed \in [Containers -> BOOLEAN]
    /\ killed \in [Containers -> BOOLEAN]
    /\ timers \in [Containers -> SUBSET Nat]
    /\ stopping \in BOOLEAN
    /\ sdPc \in [Requests -> {"idle", "signal", "grace", "end"}]
    /\ sdIdx \in [Requests -> Containers]
    /\ policy \in Policies
    /\ runPc \in {"inits", "mains", "final", "exit", "exited"}
    /\ initIdx \in 1 .. (NInit + 1)
    /\ podCode \in Codes
    /\ final \in {<<>>} \cup [Containers -> Status]
    /\ late \in [Containers -> Nat]

\* A container's supervise is entered only when every init container before
\* it has finished, with exit code 0, whatever kills, shutdowns and restarts
\* happen in between (run's sequential loop over inits).
InitOrder ==
    \A i \in Inits, c \in Containers :
        i < c /\ pc[c] # "idle" => pc[i] = "done" /\ exitCode[i] = 0

\* Once a shutdown has been asked for, each container is launched at most
\* once more: the stop() checks of supervise let one launch slip past, never
\* a second, however often the host repeats the request.
LateStartBound == \A c \in Containers : late[c] <= 1

\* Unless the pod is being shut down, a SIGKILL only reaches an incarnation
\* that was sent SIGTERM before: terminate's timer never hits the process
\* that has replaced the one it was armed for.
KillHitsTermedIncarnation ==
    \A c \in Containers : killed[c] => termed[c] \/ stopping

\* run() returns only when no process is left and, unless a shutdown was
\* asked for, no restart is due: every container is done with a final exit
\* code, except those after an init container that failed for good.
PodDoneAtReturn ==
    runPc \in {"final", "exit", "exited"} =>
        \A c \in Containers :
            /\ ~alive[c]
            /\ pc[c] = "done" \/ \E i \in Inits : i < c /\ exitCode[i] # 0
            /\ pc[c] = "done" /\ ~stopping =>
                  ~shouldRestart(PolicyOf(c), exitCode[c])

\* What status.json tells the agent and the exit code of the VM agree: the
\* agent derives Succeeded exactly when run() returned 0.
FinalStatusAgrees ==
    final # <<>> => (finalPhase(final) = "Succeeded" <=> podCode = 0)

\* A container reported Terminated is never launched again in this VM: the
\* agent may treat the state as terminal while the VM is still up.
TerminatedIsFinal ==
    [][\A c \in Containers : state[c] = "Terminated" =>
          state'[c] = "Terminated" /\ inc'[c] = inc[c] /\ ~alive'[c]]_vars

\* A process is launched again only as restartPolicy allows: never under
\* Never, and after exit code 0 only for a main container under Always.
RestartFollowsPolicy ==
    [][\A c \in Containers : inc'[c] # inc[c] /\ restarts[c] > 0 =>
          /\ policy # "Never"
          /\ exitCode[c] = 0 => policy = "Always" /\ c \in Mains]_vars

\* Every process that was sent SIGTERM ends, whoever asked for it: terminate's
\* timer or the shutdown's kill loop reaches it if it ignores the signal.
TermedProcessEnds ==
    \A c \in Containers : termed[c] ~> (~alive[c] \/ ~Up)

\* A process no shutdown loop has seen in state Running.
Missed(c) == alive[c] /\ ~termed[c] /\ ~killed[c]

\* A shutdown ends the VM, unless some container's process was launched so
\* late that it was never signalled (the host then kills the VM).
ShutdownEnds == stopping ~> (~Up \/ \E c \in Containers : Missed(c))

=============================================================================

----------------------- MODULE ExecdSupervisorProofs -----------------------
(***************************************************************************)
(* Machine-checked proofs about ExecdSupervisor, for every number of       *)
(* containers, every restartPolicy, any set of shutdown requests and any   *)
(* bound on restarts.                                                      *)
(***************************************************************************)
EXTENDS ExecdSupervisor, TLAPS

-----------------------------------------------------------------------------
(* The inductive invariant, one named part per idea.                       *)

\* What the position of a supervise goroutine says about its process, and
\* about the state the container reports.
PointInv ==
    \A c \in Containers :
        /\ alive[c] <=> pc[c] \in {"launched", "running"}
        /\ state[c] = "Terminated" <=> pc[c] = "done"
        /\ state[c] = "Running" => pc[c] \in {"running", "reaped"}
        /\ pc[c] = "idle" => exitCode[c] = 0 /\ restarts[c] = 0

\* stopping is exactly what the shutdown handlers have announced.
StopInv == stopping <=> ShutdownAsked

\* A late launch happens once, and the goroutine then never gets back to a
\* point from which it could launch again.
LateInv ==
    \A c \in Containers :
        \/ late[c] = 0
        \/ /\ late[c] = 1
           /\ stopping
           /\ pc[c] \notin {"idle", "start", "backoff"}

\* A pending terminate timer holds the current incarnation or an older one;
\* if it holds the current one, that was sent SIGTERM or has ended since.
TimerInv ==
    \A c \in Containers : \A n \in timers[c] :
        n <= inc[c] /\ (n = inc[c] => termed[c] \/ ~alive[c])

\* Where run() is says which containers have been entered.
RunInv ==
    /\ \A i \in Inits : i < initIdx => pc[i] = "done" /\ exitCode[i] = 0
    /\ \A i \in Inits : initIdx < i => pc[i] = "idle"
    /\ \A m \in Mains : pc[m] # "idle" => initIdx = NInit + 1 /\ runPc # "inits"
    /\ runPc = "mains" => initIdx = NInit + 1

\* What run() has returned.
ReturnInv ==
    runPc \in {"final", "exit", "exited"} =>
        \/ /\ initIdx \in Inits
           /\ pc[initIdx] = "done"
           /\ exitCode[initIdx] # 0
           /\ podCode = exitCode[initIdx]
        \/ /\ initIdx = NInit + 1
           /\ \A m \in Mains : pc[m] = "done"
           /\ podCode = 0 <=> \A m \in Mains : exitCode[m] = 0

\* A goroutine on its way to a restart was told to by restartPolicy, and one
\* that finished in a pod that is not stopping was told not to.
RestartInv ==
    \A c \in Containers :
        /\ pc[c] \in {"backoff", "start"} /\ restarts[c] > 0 =>
              shouldRestart(PolicyOf(c), exitCode[c])
        /\ pc[c] = "done" /\ ~stopping =>
              ~shouldRestart(PolicyOf(c), exitCode[c])

\* status.json, once written, stays true.
FinalInv ==
    final # <<>> => /\ runPc \in {"exit", "exited"}
                    /\ final = [c \in Containers |-> StatusOf(c)]

IInv ==
    /\ TypeOK
    /\ PointInv
    /\ StopInv
    /\ LateInv
    /\ TimerInv
    /\ KillHitsTermedIncarnation
    /\ RunInv
    /\ ReturnInv
    /\ RestartInv
    /\ FinalInv

-----------------------------------------------------------------------------
(* Typing.                                                                 *)

\* A signal is delivered to one container; the others' flags are untouched.
LEMMA DeliverType ==
    ASSUME NEW flag \in [Containers -> BOOLEAN], NEW c \in Containers
    PROVE  Deliver(flag, c) \in [Containers -> BOOLEAN]
<1>1. (flag[c] \/ (alive[c] /\ Signalable(c))) \in BOOLEAN
  OBVIOUS
<1>2. QED
  BY <1>1, Zenon DEF Deliver

\* shutdownAll's list visits containers only.
LEMMA OrderType ==
    ASSUME NEW i \in Containers PROVE ShutdownOrder(i) \in Containers
BY NInitAssumption, NMainAssumption DEF ShutdownOrder, Containers, N

\* Its loops stay within the list.
LEMMA RoundType ==
    ASSUME NEW i \in Containers
    PROVE  /\ 1 \in Containers
           /\ i # N => i + 1 \in Containers
BY NInitAssumption, NMainAssumption DEF Containers, N

\* The inits are the first containers, the mains the rest.
LEMMA PartTypes ==
    /\ Inits \subseteq Containers
    /\ Mains \subseteq Containers
    /\ Containers = Inits \cup Mains
    /\ \A i \in Inits, m \in Mains : i < m
    /\ 1 \in Containers
BY NInitAssumption, NMainAssumption DEF Inits, Mains, Containers, N

\* Every step of execd, of a process or of the host preserves the types.
LEMMA TypeStep == TypeOK /\ [Next]_vars => TypeOK'
<1> SUFFICES ASSUME TypeOK, [Next]_vars PROVE TypeOK'
  OBVIOUS
<1> USE NInitAssumption, NMainAssumption, ExitCodesAssumption,
        MaxRestartsAssumption
    DEF TypeOK, States, Points, ctrVars, procVars, sdVars, runVars
<1>1. ASSUME NEW c \in Containers, Launch(c) PROVE TypeOK'
  BY <1>1 DEF Launch
<1>2. ASSUME NEW c \in Containers, LaunchFails(c) PROVE TypeOK'
  BY <1>2 DEF LaunchFails, Codes
<1>3. ASSUME NEW c \in Containers, MarkRunning(c) PROVE TypeOK'
  BY <1>3 DEF MarkRunning
<1>4. ASSUME NEW c \in Containers, NEW code \in Codes, ProcessDies(c, code)
      PROVE  TypeOK'
  BY <1>4 DEF ProcessDies
<1>5. ASSUME NEW c \in Containers, Decide(c) PROVE TypeOK'
  <2>1. CASE Terminate(c)
    BY <1>5, <2>1 DEF Decide, Terminate
  <2>2. CASE EnterBackoff(c)
    BY <1>5, <2>2 DEF Decide, EnterBackoff, MaxShift
  <2> QED BY <1>5, <2>1, <2>2 DEF Decide
<1>6. ASSUME NEW c \in Containers, BackoffEnds(c) PROVE TypeOK'
  <2>1. CASE stopping
    BY <1>6, <2>1 DEF BackoffEnds
  <2>2. CASE ~stopping
    <3>1. (IF attempt[c] < MaxShift THEN attempt[c] + 1 ELSE attempt[c])
             \in 0 .. MaxShift
      BY DEF MaxShift
    <3>2. attempt' \in [Containers -> 0 .. MaxShift]
      BY <1>6, <2>2, <3>1 DEF BackoffEnds
    <3> QED BY <1>6, <2>2, <3>2 DEF BackoffEnds
  <2> QED BY <2>1, <2>2
<1>7. ASSUME NEW c \in Containers, HandleKill(c) PROVE TypeOK'
  <2>1. Deliver(termed, c) \in [Containers -> BOOLEAN]
    BY DeliverType
  <2>2. [timers EXCEPT ![c] = @ \cup {inc[c]}] \in [Containers -> SUBSET Nat]
    OBVIOUS
  <2> QED BY <1>7, <2>1, <2>2 DEF HandleKill
<1>8. ASSUME NEW c \in Containers, NEW n \in timers[c], KillTimer(c, n)
      PROVE  TypeOK'
  BY <1>8, DeliverType DEF KillTimer
<1>9. ASSUME NEW r \in Requests, HandleShutdown(r) PROVE TypeOK'
  BY <1>9 DEF HandleShutdown
<1>10. ASSUME NEW r \in Requests, ShutdownSignal(r) PROVE TypeOK'
  <2>1. Deliver(termed, ShutdownOrder(sdIdx[r])) \in [Containers -> BOOLEAN]
    BY OrderType, DeliverType
  <2> QED BY <1>10, <2>1, RoundType DEF ShutdownSignal, NextRound
<1>11. ASSUME NEW r \in Requests, ShutdownKill(r) PROVE TypeOK'
  <2>1. Deliver(killed, ShutdownOrder(sdIdx[r])) \in [Containers -> BOOLEAN]
    BY OrderType, DeliverType
  <2> QED BY <1>11, <2>1, RoundType DEF ShutdownKill, NextRound
<1>12. CASE InitStart
  BY <1>12, PartTypes DEF InitStart
<1>13. CASE InitReturn
  <2>1. initIdx \in Containers /\ initIdx + 1 \in 1 .. (NInit + 1)
    BY <1>13, PartTypes DEF InitReturn, Inits
  <2>2. exitCode[initIdx] \in Codes
    BY <2>1
  <2> QED BY <1>13, <2>1, <2>2 DEF InitReturn
<1>14. CASE SpawnMains
  BY <1>14 DEF SpawnMains
<1>15. CASE Collect
  BY <1>15, PartTypes DEF Collect, Codes
<1>16. CASE writeFinalStatus
  BY <1>16 DEF writeFinalStatus, StatusOf, Status
<1>17. CASE OsExit
  BY <1>17 DEF OsExit
<1>18. CASE UNCHANGED vars
  BY <1>18 DEF vars
<1> QED
  BY <1>1, <1>2, <1>3, <1>4, <1>5, <1>6, <1>7, <1>8, <1>9, <1>10, <1>11,
     <1>12, <1>13, <1>14, <1>15, <1>16, <1>17, <1>18
     DEF Next, RunStep, Supervise, Halted, Exit, DieOfKill, Codes

\* The initial state is well typed.
LEMMA InitType == Init => TypeOK
<1> SUFFICES ASSUME Init PROVE TypeOK
  OBVIOUS
<1>1. 0 \in 0 .. MaxRestarts /\ 0 \in 0 .. MaxShift /\ 1 \in 1 .. (NInit + 1)
  BY NInitAssumption, MaxRestartsAssumption DEF MaxShift
<1>2. /\ pc \in [Containers -> Points]
      /\ state \in [Containers -> States]
      /\ exitCode \in [Containers -> Codes]
      /\ restarts \in [Containers -> 0 .. MaxRestarts]
      /\ attempt \in [Containers -> 0 .. MaxShift]
      /\ sdIdx \in [Requests -> Containers]
  BY <1>1, PartTypes DEF Init, Codes, States, Points
<1> QED
  BY <1>1, <1>2 DEF Init, TypeOK, Codes

\* Every variable keeps its type, TypeOK, whatever containers, kills and
\* shutdowns do.
THEOREM TypeCorrect == Spec => []TypeOK
BY InitType, TypeStep, PTL DEF Spec

-----------------------------------------------------------------------------
(* Induction, one lemma per part of the invariant.                         *)

\* PointInv is inductive: pc moves together with the process and the state.
LEMMA PointInductive ==
    TypeOK /\ RunInv /\ PointInv /\ [Next]_vars
      => PointInv'
<1> SUFFICES ASSUME TypeOK, RunInv, PointInv, [Next]_vars PROVE PointInv'
  OBVIOUS
<1> USE DEF TypeOK, PointInv, ctrVars, procVars, sdVars, runVars
<1>1. ASSUME NEW c \in Containers, Launch(c)
      PROVE  PointInv'
  BY <1>1 DEF Launch
<1>2. ASSUME NEW c \in Containers, LaunchFails(c)
      PROVE  PointInv'
  BY <1>2 DEF LaunchFails
<1>3. ASSUME NEW c \in Containers, MarkRunning(c)
      PROVE  PointInv'
  BY <1>3 DEF MarkRunning
<1>4. ASSUME NEW c \in Containers, NEW code \in Codes, ProcessDies(c, code)
      PROVE  PointInv'
  BY <1>4 DEF ProcessDies
<1>5. ASSUME NEW c \in Containers, Decide(c)
      PROVE  PointInv'
  BY <1>5 DEF Decide, Terminate, EnterBackoff
<1>6. ASSUME NEW c \in Containers, BackoffEnds(c)
      PROVE  PointInv'
  BY <1>6 DEF BackoffEnds
<1>7. CASE InitStart
  BY <1>7 DEF InitStart
<1>8. CASE SpawnMains
  <2>1. \A m \in Mains : pc[m] = "idle"
    BY <1>8 DEF SpawnMains, RunInv
  <2> QED BY <1>8, <2>1 DEF SpawnMains
<1>9. CASE UNCHANGED <<pc, alive, state, exitCode, restarts>>
  BY <1>9
<1> QED
  BY <1>1, <1>2, <1>3, <1>4, <1>5, <1>6, <1>7, <1>8, <1>9 DEF Next, RunStep,
     Supervise, Halted, Exit, DieOfKill, Codes, vars, HandleKill, KillTimer,
     HandleShutdown, ShutdownSignal, NextRound, ShutdownKill, InitReturn,
     Collect, writeFinalStatus, OsExit

\* StopInv is inductive: only the handlers of shutdown requests set stopping.
LEMMA StopInductive == TypeOK /\ StopInv /\ [Next]_vars => StopInv'
<1> SUFFICES ASSUME TypeOK, StopInv, [Next]_vars PROVE StopInv'
  OBVIOUS
<1> USE DEF TypeOK, StopInv, ShutdownAsked, ctrVars, procVars, sdVars, runVars
<1>1. ASSUME NEW r \in Requests, HandleShutdown(r)
      PROVE  StopInv'
  BY <1>1 DEF HandleShutdown
<1>2. ASSUME NEW r \in Requests, ShutdownSignal(r)
      PROVE  StopInv'
  BY <1>2 DEF ShutdownSignal, NextRound, Deliver, Signalable
<1>3. ASSUME NEW r \in Requests, ShutdownKill(r)
      PROVE  StopInv'
  BY <1>3 DEF ShutdownKill, NextRound, Deliver, Signalable
<1>4. CASE UNCHANGED <<stopping, sdPc>>
  BY <1>4
<1> QED
  BY <1>1, <1>2, <1>3, <1>4 DEF Next, RunStep, Supervise, Halted, Exit,
     DieOfKill, Codes, vars, Launch, LaunchFails, MarkRunning, ProcessDies,
     Decide, Terminate, EnterBackoff, BackoffEnds, HandleKill, KillTimer,
     InitStart, InitReturn, SpawnMains, Collect, writeFinalStatus, OsExit

\* LateInv is inductive: behind both stop() checks there is no way back.
LEMMA LateInductive ==
    TypeOK /\ RunInv /\ StopInv /\ LateInv /\ [Next]_vars
      => LateInv'
<1> SUFFICES ASSUME TypeOK, RunInv, StopInv, LateInv, [Next]_vars
             PROVE  LateInv'
  OBVIOUS
<1> USE DEF TypeOK, StopInv, LateInv, ctrVars, procVars, sdVars, runVars
<1>1. ASSUME NEW c \in Containers, Launch(c)
      PROVE  LateInv'
  BY <1>1 DEF Launch
<1>2. ASSUME NEW c \in Containers, LaunchFails(c)
      PROVE  LateInv'
  BY <1>2 DEF LaunchFails
<1>3. ASSUME NEW c \in Containers, MarkRunning(c)
      PROVE  LateInv'
  BY <1>3 DEF MarkRunning
<1>4. ASSUME NEW c \in Containers, NEW code \in Codes, ProcessDies(c, code)
      PROVE  LateInv'
  BY <1>4 DEF ProcessDies
<1>5. ASSUME NEW c \in Containers, Decide(c)
      PROVE  LateInv'
  BY <1>5 DEF Decide, Terminate, EnterBackoff
<1>6. ASSUME NEW c \in Containers, BackoffEnds(c)
      PROVE  LateInv'
  BY <1>6 DEF BackoffEnds
<1>7. ASSUME NEW r \in Requests, HandleShutdown(r)
      PROVE  LateInv'
  BY <1>7 DEF HandleShutdown
<1>8. CASE InitStart
  BY <1>8 DEF InitStart
<1>9. CASE SpawnMains
  <2>1. \A m \in Mains : pc[m] = "idle"
    BY <1>9 DEF SpawnMains, RunInv
  <2> QED BY <1>9, <2>1 DEF SpawnMains
<1>10. CASE UNCHANGED <<late, stopping, pc>>
  BY <1>10
<1> QED
  BY <1>1, <1>2, <1>3, <1>4, <1>5, <1>6, <1>7, <1>8, <1>9, <1>10 DEF Next,
     RunStep, Supervise, Halted, Exit, DieOfKill, Codes, vars, HandleKill,
     KillTimer, ShutdownSignal, NextRound, ShutdownKill, InitReturn,
     Collect, writeFinalStatus, OsExit

\* TimerInv is inductive: a launch makes every pending timer's incarnation old.
LEMMA TimerInductive == TypeOK /\ TimerInv /\ [Next]_vars => TimerInv'
<1> SUFFICES ASSUME TypeOK, TimerInv, [Next]_vars PROVE TimerInv'
  OBVIOUS
<1> USE DEF TypeOK, TimerInv, ctrVars, procVars, sdVars, runVars
<1>1. ASSUME NEW c \in Containers, Launch(c)
      PROVE  TimerInv'
  BY <1>1 DEF Launch
<1>2. ASSUME NEW c \in Containers, NEW code \in Codes, ProcessDies(c, code)
      PROVE  TimerInv'
  BY <1>2 DEF ProcessDies
<1>3. ASSUME NEW c \in Containers, HandleKill(c)
      PROVE  TimerInv'
  BY <1>3 DEF HandleKill, Deliver, Signalable
<1>4. ASSUME NEW c \in Containers, NEW n \in timers[c], KillTimer(c, n)
      PROVE  TimerInv'
  BY <1>4 DEF KillTimer, Deliver, Signalable
<1>5. ASSUME NEW r \in Requests, ShutdownSignal(r)
      PROVE  TimerInv'
  BY <1>5 DEF ShutdownSignal, NextRound, Deliver, Signalable
<1>6. CASE UNCHANGED <<timers, inc, termed, alive>>
  BY <1>6
<1> QED
  BY <1>1, <1>2, <1>3, <1>4, <1>5, <1>6 DEF Next, RunStep, Supervise,
     Halted, Exit, DieOfKill, Codes, vars, LaunchFails, MarkRunning, Decide,
     Terminate, EnterBackoff, BackoffEnds, HandleShutdown, ShutdownKill,
     NextRound, InitStart, InitReturn, SpawnMains, Collect,
     writeFinalStatus, OsExit

\* A timer that kills holds an incarnation that was sent SIGTERM; the grace
\* timer kills only while the pod is stopping.
LEMMA KillInductive ==
    TypeOK /\ StopInv /\ TimerInv /\ KillHitsTermedIncarnation /\ [Next]_vars
      => KillHitsTermedIncarnation'
<1> SUFFICES ASSUME TypeOK, StopInv, TimerInv, KillHitsTermedIncarnation, [Next]_vars
             PROVE  KillHitsTermedIncarnation'
  OBVIOUS
<1> USE DEF TypeOK, StopInv, ShutdownAsked, TimerInv,
        KillHitsTermedIncarnation, ctrVars, procVars, sdVars, runVars
<1>1. ASSUME NEW c \in Containers, Launch(c)
      PROVE  KillHitsTermedIncarnation'
  BY <1>1 DEF Launch
<1>2. ASSUME NEW c \in Containers, HandleKill(c)
      PROVE  KillHitsTermedIncarnation'
  BY <1>2 DEF HandleKill, Deliver, Signalable
<1>3. ASSUME NEW c \in Containers, NEW n \in timers[c], KillTimer(c, n)
      PROVE  KillHitsTermedIncarnation'
  BY <1>3 DEF KillTimer, Deliver, Signalable
<1>4. ASSUME NEW r \in Requests, HandleShutdown(r)
      PROVE  KillHitsTermedIncarnation'
  BY <1>4 DEF HandleShutdown
<1>5. ASSUME NEW r \in Requests, ShutdownSignal(r)
      PROVE  KillHitsTermedIncarnation'
  BY <1>5 DEF ShutdownSignal, NextRound, Deliver, Signalable
<1>6. ASSUME NEW r \in Requests, ShutdownKill(r)
      PROVE  KillHitsTermedIncarnation'
  BY <1>6 DEF ShutdownKill, NextRound, Deliver, Signalable
<1>7. CASE UNCHANGED <<killed, termed, stopping>>
  BY <1>7
<1> QED
  BY <1>1, <1>2, <1>3, <1>4, <1>5, <1>6, <1>7 DEF Next, RunStep, Supervise,
     Halted, Exit, DieOfKill, Codes, vars, LaunchFails, MarkRunning,
     ProcessDies, Decide, Terminate, EnterBackoff, BackoffEnds, InitStart,
     InitReturn, SpawnMains, Collect, writeFinalStatus, OsExit

\* RunInv is inductive: run() advances past an init only when it is done with
\* code 0, and a container that is done stays so.
LEMMA RunInductive == TypeOK /\ RunInv /\ [Next]_vars => RunInv'
<1> SUFFICES ASSUME TypeOK, RunInv, [Next]_vars PROVE RunInv'
  OBVIOUS
<1> USE NInitAssumption, NMainAssumption, PartTypes DEF TypeOK, RunInv,
        ctrVars, procVars, sdVars, runVars
<1>1. ASSUME NEW c \in Containers, Launch(c)
      PROVE  RunInv'
  BY <1>1 DEF Launch
<1>2. ASSUME NEW c \in Containers, LaunchFails(c)
      PROVE  RunInv'
  BY <1>2 DEF LaunchFails
<1>3. ASSUME NEW c \in Containers, MarkRunning(c)
      PROVE  RunInv'
  BY <1>3 DEF MarkRunning
<1>4. ASSUME NEW c \in Containers, NEW code \in Codes, ProcessDies(c, code)
      PROVE  RunInv'
  BY <1>4 DEF ProcessDies
<1>5. ASSUME NEW c \in Containers, Decide(c)
      PROVE  RunInv'
  BY <1>5 DEF Decide, Terminate, EnterBackoff
<1>6. ASSUME NEW c \in Containers, BackoffEnds(c)
      PROVE  RunInv'
  BY <1>6 DEF BackoffEnds
<1>7. CASE InitStart
  BY <1>7 DEF InitStart, Inits, Mains
<1>8. CASE InitReturn
  BY <1>8 DEF InitReturn, Inits, Mains
<1>9. CASE SpawnMains
  BY <1>9 DEF SpawnMains, Inits, Mains
<1>10. CASE Collect
  BY <1>10 DEF Collect, Inits, Mains
<1>11. CASE writeFinalStatus
  BY <1>11 DEF writeFinalStatus
<1>12. CASE OsExit
  BY <1>12 DEF OsExit
<1>13. CASE UNCHANGED <<pc, exitCode, runPc, initIdx>>
  BY <1>13
<1> QED
  BY <1>1, <1>2, <1>3, <1>4, <1>5, <1>6, <1>7, <1>8, <1>9, <1>10, <1>11,
     <1>12, <1>13 DEF Next, RunStep, Supervise, Halted, Exit, DieOfKill,
     Codes, vars, HandleKill, KillTimer, HandleShutdown, ShutdownSignal,
     NextRound, ShutdownKill

\* ReturnInv is inductive: what run() returned keeps describing the containers,
\* none of which moves once run() has returned.
LEMMA ReturnInductive ==
    TypeOK /\ RunInv /\ ReturnInv /\ [Next]_vars
      => ReturnInv'
<1> SUFFICES ASSUME TypeOK, RunInv, ReturnInv, [Next]_vars PROVE ReturnInv'
  OBVIOUS
<1> USE PartTypes DEF TypeOK, RunInv, ReturnInv, ctrVars, procVars, sdVars,
        runVars
<1>1. ASSUME NEW c \in Containers, Launch(c)
      PROVE  ReturnInv'
  BY <1>1 DEF Launch
<1>2. ASSUME NEW c \in Containers, LaunchFails(c)
      PROVE  ReturnInv'
  BY <1>2 DEF LaunchFails
<1>3. ASSUME NEW c \in Containers, MarkRunning(c)
      PROVE  ReturnInv'
  BY <1>3 DEF MarkRunning
<1>4. ASSUME NEW c \in Containers, NEW code \in Codes, ProcessDies(c, code)
      PROVE  ReturnInv'
  BY <1>4 DEF ProcessDies
<1>5. ASSUME NEW c \in Containers, Decide(c)
      PROVE  ReturnInv'
  BY <1>5 DEF Decide, Terminate, EnterBackoff
<1>6. ASSUME NEW c \in Containers, BackoffEnds(c)
      PROVE  ReturnInv'
  BY <1>6 DEF BackoffEnds
<1>7. CASE InitStart
  BY <1>7 DEF InitStart
<1>8. CASE InitReturn
  BY <1>8 DEF InitReturn
<1>9. CASE SpawnMains
  BY <1>9 DEF SpawnMains
<1>10. CASE Collect
  BY <1>10 DEF Collect
<1>11. CASE writeFinalStatus
  BY <1>11 DEF writeFinalStatus
<1>12. CASE OsExit
  BY <1>12 DEF OsExit
<1>13. CASE UNCHANGED <<pc, exitCode, runPc, initIdx, podCode>>
  BY <1>13
<1> QED
  BY <1>1, <1>2, <1>3, <1>4, <1>5, <1>6, <1>7, <1>8, <1>9, <1>10, <1>11,
     <1>12, <1>13 DEF Next, RunStep, Supervise, Halted, Exit, DieOfKill,
     Codes, vars, HandleKill, KillTimer, HandleShutdown, ShutdownSignal,
     NextRound, ShutdownKill

\* RestartInv is inductive: between the decision to restart and the launch the
\* exit code it was based on does not change.
LEMMA RestartInductive ==
    TypeOK /\ PointInv /\ RunInv /\ RestartInv /\ [Next]_vars
      => RestartInv'
<1> SUFFICES ASSUME TypeOK, PointInv, RunInv, RestartInv, [Next]_vars
             PROVE  RestartInv'
  OBVIOUS
<1> USE DEF TypeOK, PointInv, RestartInv, PolicyOf, ctrVars, procVars, sdVars,
        runVars
<1>1. ASSUME NEW c \in Containers, Launch(c)
      PROVE  RestartInv'
  BY <1>1 DEF Launch
<1>2. ASSUME NEW c \in Containers, LaunchFails(c)
      PROVE  RestartInv'
  BY <1>2 DEF LaunchFails
<1>3. ASSUME NEW c \in Containers, MarkRunning(c)
      PROVE  RestartInv'
  BY <1>3 DEF MarkRunning
<1>4. ASSUME NEW c \in Containers, NEW code \in Codes, ProcessDies(c, code)
      PROVE  RestartInv'
  BY <1>4 DEF ProcessDies
<1>5. ASSUME NEW c \in Containers, Decide(c)
      PROVE  RestartInv'
  BY <1>5 DEF Decide, Terminate, EnterBackoff
<1>6. ASSUME NEW c \in Containers, BackoffEnds(c)
      PROVE  RestartInv'
  BY <1>6 DEF BackoffEnds
<1>7. ASSUME NEW r \in Requests, HandleShutdown(r)
      PROVE  RestartInv'
  BY <1>7 DEF HandleShutdown
<1>8. CASE InitStart
  BY <1>8 DEF InitStart
<1>9. CASE SpawnMains
  <2>1. \A m \in Mains : pc[m] = "idle" /\ restarts[m] = 0
    BY <1>9, PartTypes DEF SpawnMains, RunInv
  <2> QED BY <1>9, <2>1 DEF SpawnMains
<1>10. CASE UNCHANGED <<pc, restarts, exitCode, policy, stopping>>
  BY <1>10
<1> QED
  BY <1>1, <1>2, <1>3, <1>4, <1>5, <1>6, <1>7, <1>8, <1>9, <1>10 DEF Next,
     RunStep, Supervise, Halted, Exit, DieOfKill, Codes, vars, HandleKill,
     KillTimer, ShutdownSignal, NextRound, ShutdownKill, InitReturn,
     Collect, writeFinalStatus, OsExit

\* Once run() has returned, every goroutine has ended or was never started.
LEMMA ReturnedQuiet ==
    ASSUME RunInv, ReturnInv, TypeOK, runPc \in {"final", "exit", "exited"}
    PROVE  \A c \in Containers :
              \/ pc[c] = "done"
              \/ pc[c] = "idle" /\ \E i \in Inits : i < c /\ exitCode[i] # 0
<1> SUFFICES ASSUME NEW c \in Containers, pc[c] # "done"
             PROVE  pc[c] = "idle" /\ \E i \in Inits : i < c /\ exitCode[i] # 0
  OBVIOUS
<1>1. initIdx \in Inits /\ exitCode[initIdx] # 0 /\ pc[initIdx] = "done"
  BY NInitAssumption, PartTypes DEF RunInv, ReturnInv, Inits
<1>2. CASE c \in Inits
  BY <1>1, <1>2 DEF RunInv, Inits
<1>3. CASE c \in Mains
  BY <1>1, <1>3, NInitAssumption, PartTypes DEF RunInv, Inits
<1> QED BY <1>2, <1>3, PartTypes

\* FinalInv is inductive: after run() has returned no container's status moves.
LEMMA FinalInductive ==
    TypeOK /\ RunInv /\ ReturnInv /\ FinalInv /\ [Next]_vars
      => FinalInv'
<1> SUFFICES ASSUME TypeOK, RunInv, ReturnInv, FinalInv, [Next]_vars
             PROVE  FinalInv'
  OBVIOUS
<1> USE DEF TypeOK, FinalInv, StatusOf, ctrVars, procVars, sdVars, runVars
<1>1. ASSUME NEW c \in Containers, LaunchFails(c)
      PROVE  FinalInv'
  <2>1. final = <<>>
    BY <1>1, ReturnedQuiet DEF LaunchFails
  <2> QED BY <1>1, <2>1 DEF LaunchFails
<1>2. ASSUME NEW c \in Containers, MarkRunning(c)
      PROVE  FinalInv'
  <2>1. final = <<>>
    BY <1>2, ReturnedQuiet DEF MarkRunning
  <2> QED BY <1>2, <2>1 DEF MarkRunning
<1>3. ASSUME NEW c \in Containers, NEW code \in Codes, ProcessDies(c, code)
      PROVE  FinalInv'
  <2>1. final = <<>>
    BY <1>3, ReturnedQuiet DEF ProcessDies
  <2> QED BY <1>3, <2>1 DEF ProcessDies
<1>4. ASSUME NEW c \in Containers, Decide(c)
      PROVE  FinalInv'
  <2>1. final = <<>>
    BY <1>4, ReturnedQuiet DEF Decide
  <2> QED BY <1>4, <2>1 DEF Decide
<1>5. ASSUME NEW c \in Containers, BackoffEnds(c)
      PROVE  FinalInv'
  <2>1. final = <<>>
    BY <1>5, ReturnedQuiet DEF BackoffEnds
  <2> QED BY <1>5, <2>1 DEF BackoffEnds
<1>6. CASE InitReturn
  BY <1>6 DEF InitReturn
<1>7. CASE SpawnMains
  BY <1>7 DEF SpawnMains
<1>8. CASE Collect
  BY <1>8 DEF Collect
<1>9. CASE writeFinalStatus
  BY <1>9 DEF writeFinalStatus
<1>10. CASE OsExit
  BY <1>10 DEF OsExit
<1>11. CASE UNCHANGED <<final, runPc, state, exitCode>>
  BY <1>11
<1> QED
  BY <1>1, <1>2, <1>3, <1>4, <1>5, <1>6, <1>7, <1>8, <1>9, <1>10, <1>11 DEF
     Next, RunStep, Supervise, Halted, Exit, DieOfKill, Codes, vars, Launch,
     HandleKill, KillTimer, HandleShutdown, ShutdownSignal, NextRound,
     ShutdownKill, InitStart

-----------------------------------------------------------------------------
(* The invariant, and what follows from it.                                *)

\* The parts together are an invariant of the supervisor.
THEOREM Invariance == Spec => []IInv
<1>1. Init => IInv
  <2> SUFFICES ASSUME Init PROVE IInv
    OBVIOUS
  <2>1. TypeOK
    BY InitType
  <2>2. PointInv /\ StopInv /\ LateInv /\ TimerInv /\ KillHitsTermedIncarnation
    BY DEF Init, PointInv, StopInv, ShutdownAsked, LateInv, TimerInv,
           KillHitsTermedIncarnation
  <2>3. RunInv /\ ReturnInv /\ RestartInv /\ FinalInv
    BY PartTypes, NInitAssumption
       DEF Init, RunInv, ReturnInv, RestartInv, FinalInv, Inits
  <2> QED BY <2>1, <2>2, <2>3 DEF IInv
<1>2. IInv /\ [Next]_vars => IInv'
  BY TypeStep, PointInductive, StopInductive, LateInductive, TimerInductive,
     KillInductive, RunInductive, ReturnInductive, RestartInductive,
     FinalInductive DEF IInv
<1> QED
  BY <1>1, <1>2, PTL DEF Spec

\* InitOrder: no container is entered before every init in front of it has
\* finished with code 0.
THEOREM InitsFirst == Spec => []InitOrder
<1>1. IInv => InitOrder
  BY PartTypes, NInitAssumption DEF IInv, TypeOK, RunInv, InitOrder, Inits, Mains
<1> QED
  BY <1>1, Invariance, PTL

\* LateStartBound: after a shutdown request each container is launched at
\* most once more, for any number of requests.
THEOREM LateStarts == Spec => []LateStartBound
<1>1. IInv => LateStartBound
  BY DEF IInv, LateInv, LateStartBound
<1> QED
  BY <1>1, Invariance, PTL

\* KillHitsTermedIncarnation: a kill timer never hits the replacement of the
\* process it was armed for.
THEOREM TimersHitTheirOwn == Spec => []KillHitsTermedIncarnation
<1>1. IInv => KillHitsTermedIncarnation
  BY DEF IInv
<1> QED
  BY <1>1, Invariance, PTL

\* PodDoneAtReturn: run() returns only when the pod is done.
THEOREM ReturnsWhenDone == Spec => []PodDoneAtReturn
<1>1. IInv => PodDoneAtReturn
  <2> SUFFICES ASSUME IInv, runPc \in {"final", "exit", "exited"},
                      NEW c \in Containers
               PROVE  /\ ~alive[c]
                      /\ \/ pc[c] = "done"
                         \/ \E i \in Inits : i < c /\ exitCode[i] # 0
                      /\ pc[c] = "done" /\ ~stopping =>
                            ~shouldRestart(PolicyOf(c), exitCode[c])
    BY DEF PodDoneAtReturn
  <2>1. pc[c] = "done" \/
        (pc[c] = "idle" /\ \E i \in Inits : i < c /\ exitCode[i] # 0)
    BY ReturnedQuiet DEF IInv
  <2> QED BY <2>1 DEF IInv, PointInv, RestartInv
<1> QED
  BY <1>1, Invariance, PTL

\* FinalStatusAgrees: the phase the agent derives from status.json is
\* Succeeded exactly when run() returned 0.
THEOREM FinalStatusIsHonest == Spec => []FinalStatusAgrees
<1>1. IInv => FinalStatusAgrees
  <2> SUFFICES ASSUME IInv, final # <<>>
               PROVE  finalPhase(final) = "Succeeded" <=> podCode = 0
    BY DEF FinalStatusAgrees
  <2>1. \A c \in Containers :
           final[c].state = state[c] /\ final[c].exitCode = exitCode[c]
    BY DEF IInv, FinalInv, StatusOf
  <2>2. runPc \in {"final", "exit", "exited"}
    BY DEF IInv, FinalInv
  <2>3. CASE podCode = 0
    <3>1. \A c \in Containers : pc[c] = "done" /\ exitCode[c] = 0
      BY <2>2, <2>3, PartTypes, NInitAssumption DEF IInv, ReturnInv, RunInv, Inits
    <3> QED BY <2>1, <2>3, <3>1 DEF IInv, PointInv, finalPhase
  <2>4. CASE podCode # 0
    <3>1. \E c \in Containers : exitCode[c] # 0
      BY <2>2, <2>4, PartTypes DEF IInv, ReturnInv
    <3> QED BY <2>1, <2>4, <3>1 DEF finalPhase
  <2> QED BY <2>3, <2>4
<1> QED
  BY <1>1, Invariance, PTL

\* TerminatedIsFinal: a container reported Terminated never runs again.
THEOREM TerminatedStays == Spec => TerminatedIsFinal
<1>1. IInv /\ [Next]_vars =>
         [\A c \in Containers : state[c] = "Terminated" =>
             state'[c] = "Terminated" /\ inc'[c] = inc[c] /\ ~alive'[c]]_vars
  <2> SUFFICES ASSUME IInv, [Next]_vars, NEW d \in Containers,
                      state[d] = "Terminated"
               PROVE  state'[d] = "Terminated" /\ inc'[d] = inc[d] /\ ~alive'[d]
    OBVIOUS
  <2>1. pc[d] = "done" /\ ~alive[d]
    BY DEF IInv, PointInv
  <2>2. ~(\E c \in Containers : c = d /\ (Supervise(c) \/ Exit(c)))
    BY <2>1 DEF Supervise, Exit, Launch, LaunchFails, MarkRunning, DieOfKill,
                ProcessDies, Decide, BackoffEnds
  <2>3. ASSUME NEW c \in Containers, c # d, Supervise(c) \/ Exit(c)
        PROVE  state'[d] = state[d] /\ inc'[d] = inc[d] /\ alive'[d] = alive[d]
    BY <2>3 DEF IInv, TypeOK, Supervise, Exit, Launch, LaunchFails, MarkRunning,
                DieOfKill, ProcessDies, Decide, Terminate, EnterBackoff,
                BackoffEnds, procVars
  <2>4. CASE UNCHANGED <<state, inc, alive>>
    BY <2>1, <2>4
  <2> QED
    BY <2>1, <2>2, <2>3, <2>4
       DEF Next, RunStep, Halted, vars, ctrVars, procVars, HandleKill,
           KillTimer, HandleShutdown, ShutdownSignal, ShutdownKill, NextRound,
           InitStart, InitReturn, SpawnMains, Collect, writeFinalStatus, OsExit
<1> QED
  BY <1>1, Invariance, PTL DEF Spec, TerminatedIsFinal

\* RestartFollowsPolicy: a relaunch is one restartPolicy asks for.
THEOREM RestartsAreDue == Spec => RestartFollowsPolicy
<1>1. IInv /\ [Next]_vars =>
         [\A c \in Containers : inc'[c] # inc[c] /\ restarts[c] > 0 =>
             /\ policy # "Never"
             /\ exitCode[c] = 0 => policy = "Always" /\ c \in Mains]_vars
  <2> SUFFICES ASSUME IInv, [Next]_vars, NEW d \in Containers,
                      inc'[d] # inc[d], restarts[d] > 0
               PROVE  /\ policy # "Never"
                      /\ exitCode[d] = 0 => policy = "Always" /\ d \in Mains
    OBVIOUS
  <2>1. Launch(d)
    <3>1. CASE inc' = inc
      BY <3>1
    <3>2. ASSUME NEW c \in Containers, Launch(c) PROVE Launch(d)
      BY <3>2 DEF IInv, TypeOK, Launch
    <3> QED
      BY <3>1, <3>2
         DEF Next, RunStep, Supervise, Halted, vars, procVars, Exit, DieOfKill,
             LaunchFails, MarkRunning, ProcessDies, Decide, BackoffEnds,
             HandleKill, KillTimer, HandleShutdown, ShutdownSignal,
             ShutdownKill, NextRound, InitStart, InitReturn, SpawnMains,
             Collect, writeFinalStatus, OsExit
  <2>2. shouldRestart(PolicyOf(d), exitCode[d])
    BY <2>1 DEF Launch, IInv, RestartInv
  <2> QED
    BY <2>2, PartTypes
       DEF shouldRestart, PolicyOf, initPolicy, IInv, TypeOK, Policies
<1> QED
  BY <1>1, Invariance, PTL DEF Spec, RestartFollowsPolicy

=============================================================================

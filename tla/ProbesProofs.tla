---------------------------- MODULE ProbesProofs ----------------------------
(***************************************************************************)
(* Proofs about the probe loops, for any thresholds and any number of VMs. *)
(* TypeOK says what the counters are worth at any time, and is inductive   *)
(* once the loops are known to be a function of VM and kind.               *)
(***************************************************************************)
EXTENDS Probes, TLAPS

Records == [pc : Points, succ : Nat, fail : Nat]

Loops == loop \in [Boots -> [Kinds -> Records]]

(* A loop record that kind k may have.                                     *)
Fits(k, lp) == lp \in LoopRecords(k) /\ (lp.pc = "push" => k # "liveness")

LoopsFit == Loops /\ \A b \in Boots, k \in Kinds : Fits(k, loop[b][k])

Guest ==
    /\ has \in ProbeSets
    /\ boot \in Boots
    /\ up \in BOOLEAN
    /\ health \in Healths \cup {"down"}
    /\ termed \in BOOLEAN

Rest ==
    /\ done \in [Boots -> BOOLEAN]
    /\ ready \in BOOLEAN
    /\ late \in BOOLEAN
    /\ faults \in 0 .. MaxFaults

IInv == Guest /\ LoopsFit /\ Rest

(* A record of the right type for a kind is one for any kind.              *)
LEMMA FitsRecords ==
  ASSUME NEW k \in Kinds, NEW lp, Fits(k, lp)
  PROVE  lp \in Records
BY KindsAssumption DEF Fits, LoopRecords, Records, Points, Kinds

(* A loop begins with both counters at zero.                               *)
LEMMA LoopAtFits ==
  ASSUME NEW k \in Kinds, NEW pc \in Points \ {"push"}
  PROVE  Fits(k, LoopAt(pc))
BY KindsAssumption DEF Fits, LoopRecords, LoopAt, Kinds

(* The loops still fit when one of them gets another fitting record.       *)
LEMMA OneLoop ==
  ASSUME LoopsFit, NEW b \in Boots, NEW k \in Kinds, NEW lp, Fits(k, lp),
         loop' = [loop EXCEPT ![b][k] = lp]
  PROVE  LoopsFit'
<1>1. lp \in Records
  BY FitsRecords
<1>2. loop' = [loop EXCEPT ![b] = [loop[b] EXCEPT ![k] = lp]]
  BY DEF LoopsFit, Loops
<1>3. Loops'
  BY <1>1, <1>2 DEF LoopsFit, Loops
<1>4. ASSUME NEW c \in Boots, NEW j \in Kinds PROVE Fits(j, loop'[c][j])
  <2>1. loop'[c][j] = IF c = b /\ j = k THEN lp ELSE loop[c][j]
    BY <1>2 DEF LoopsFit, Loops
  <2>. QED  BY <2>1 DEF LoopsFit
<1>. QED  BY <1>3, <1>4 DEF LoopsFit

(* The loops still fit when those of one VM are replaced by fitting ones.  *)
LEMMA OneVM ==
  ASSUME LoopsFit, NEW b \in Boots, NEW ls \in [Kinds -> Records],
         \A k \in Kinds : Fits(k, ls[k]),
         loop' = [loop EXCEPT ![b] = ls]
  PROVE  LoopsFit'
<1>1. Loops'
  BY DEF LoopsFit, Loops
<1>2. ASSUME NEW c \in Boots, NEW j \in Kinds PROVE Fits(j, loop'[c][j])
  <2>1. loop'[c][j] = IF c = b THEN ls[j] ELSE loop[c][j]
    BY DEF LoopsFit, Loops
  <2>. QED  BY <2>1 DEF LoopsFit
<1>. QED  BY <1>1, <1>2 DEF LoopsFit

(* The loops a VM begins with.                                             *)
LEMMA StartedFits == Started \in [Kinds -> Records] /\ \A k \in Kinds : Fits(k, Started[k])
<1>1. \A k \in Kinds : Fits(k, LoopAt("off")) /\ Fits(k, LoopAt("idle")) /\ Fits(k, LoopAt("gate"))
  BY LoopAtFits DEF Points
<1>2. \A k \in Kinds : Fits(k, Started[k])
  BY <1>1 DEF Started
<1>3. \A k \in Kinds : Started[k] \in Records
  BY <1>2, FitsRecords
<1>. QED  BY <1>2, <1>3 DEF Started

(* The loops that see stop return, the others stay.                        *)
LEMMA QuitFits ==
  ASSUME LoopsFit, NEW b \in Boots
  PROVE  Quit(loop[b]) \in [Kinds -> Records] /\ \A k \in Kinds : Fits(k, Quit(loop[b])[k])
<1>1. \A k \in Kinds : Fits(k, LoopAt("gone")) /\ Fits(k, loop[b][k])
  BY LoopAtFits DEF Points, LoopsFit
<1>2. \A k \in Kinds : Fits(k, Quit(loop[b])[k])
  BY <1>1 DEF Quit
<1>3. \A k \in Kinds : Quit(loop[b])[k] \in Records
  BY <1>2, FitsRecords
<1>. QED  BY <1>2, <1>3 DEF Quit

(* A loop that goes on to its select keeps fitting.                        *)
LEMMA GoingFits ==
  ASSUME LoopsFit, NEW b \in Boots, NEW k \in Kinds, NEW lp, Fits(k, lp), Going(b, k, lp)
  PROVE  LoopsFit'
<1>1. Fits(k, LoopAt("gone"))
  BY LoopAtFits DEF Points
<1>2. loop' = [loop EXCEPT ![b][k] = lp] \/ loop' = [loop EXCEPT ![b][k] = LoopAt("gone")]
  BY DEF Going
<1>. QED  BY <1>1, <1>2, OneLoop

(* The loop's next point, its counters as they were.                       *)
LEMMA MovedFits ==
  ASSUME LoopsFit, NEW b \in Boots, NEW k \in Kinds, NEW pc \in Points \ {"push"},
         loop' = Moved(b, k, pc)
  PROVE  LoopsFit'
<1> DEFINE lp == [loop[b][k] EXCEPT !.pc = pc]
<1>1. Fits(k, loop[b][k])
  BY DEF LoopsFit
<1>2. Fits(k, lp)
  BY <1>1 DEF Fits, LoopRecords
<1>3. loop' = [loop EXCEPT ![b][k] = lp]
  BY DEF Moved, LoopsFit, Loops, Records
<1>. QED  BY <1>2, <1>3, OneLoop

(* Reporting readiness: pushStatus follows where it is news.               *)
LEMMA SetReadyFits ==
  ASSUME IInv, NEW b \in Boots, NEW k \in Kinds \ {"liveness"}, NEW lp, Fits(k, lp),
         NEW r \in BOOLEAN, SetReady(b, k, r, lp)
  PROVE  LoopsFit' /\ ready' \in BOOLEAN
<1> DEFINE next == [lp EXCEPT !.pc = IF ready # r THEN "push" ELSE @]
<1>1. next = lp \/ next = [lp EXCEPT !.pc = "push"]
  BY DEF Fits, LoopRecords
<1>2. Fits(k, next)
  BY <1>1 DEF Fits, LoopRecords, Points
<1>3. LoopsFit'
  BY <1>2, GoingFits DEF SetReady, IInv
<1>4. ready' \in BOOLEAN
  BY Zenon DEF SetReady
<1>. QED  BY <1>3, <1>4

(* A loop that reports nothing.                                            *)
LEMMA SilentFits ==
  ASSUME IInv, NEW b \in Boots, NEW k \in Kinds, NEW lp, Fits(k, lp), Silent(b, k, lp)
  PROVE  LoopsFit' /\ ready' \in BOOLEAN
<1>1. LoopsFit'
  BY GoingFits DEF Silent, IInv
<1>2. ready' \in BOOLEAN
  BY DEF Silent, IInv, Rest
<1>. QED  BY <1>1, <1>2

(* late' is a truth value, whatever Stopped says.                          *)
LEMMA LateBool == ASSUME NEW b, late' = (late \/ Stopped(b)) PROVE late' \in BOOLEAN
BY Zenon

(* A handled success: the count comes to its threshold at most.            *)
LEMMA SuccessStep ==
  ASSUME IInv, NEW b \in Boots, NEW k \in Kinds, HandleSuccess(b, k)
  PROVE  IInv'
<1> DEFINE lp == [pc |-> "idle", succ |-> Count(loop[b][k].succ, SuccessThreshold[k]), fail |-> 0]
<1>1. Fits(k, lp)
  BY KindsAssumption DEF IInv, LoopsFit, Fits, LoopRecords, Count, Points, Kinds
<1>2. Guest' /\ faults' \in 0 .. MaxFaults
  BY DEF HandleSuccess, guestVars, IInv, Guest, Rest
<1>3. late' \in BOOLEAN
  BY LateBool DEF HandleSuccess
<1>4. LoopsFit' /\ ready' \in BOOLEAN /\ done' \in [Boots -> BOOLEAN]
  <2>1. CASE Silent(b, k, lp) /\ UNCHANGED done
    BY <1>1, <2>1, SilentFits DEF IInv, Rest
  <2>2. CASE ReportHealthy(b, k, lp)
    <3>1. CASE k = "readiness"
      BY <1>1, <2>2, <3>1, SetReadyFits DEF ReportHealthy, IInv, Rest
    <3>2. CASE k = "startup" /\ ~done[b]
      <4>1. done' \in [Boots -> BOOLEAN]
        BY <2>2, <3>2 DEF ReportHealthy, IInv, Rest
      <4>2. Silent(b, k, lp) \/ SetReady(b, k, TRUE, lp)
        BY <2>2, <3>2 DEF ReportHealthy
      <4>. QED  BY <1>1, <3>2, <4>1, <4>2, SilentFits, SetReadyFits
    <3>3. CASE k # "readiness" /\ ~(k = "startup" /\ ~done[b])
      BY <1>1, <2>2, <3>3, SilentFits DEF ReportHealthy, IInv, Rest
    <3>. QED  BY <3>1, <3>2, <3>3
  <2>. QED  BY <2>1, <2>2 DEF HandleSuccess
<1>. QED  BY <1>2, <1>3, <1>4 DEF IInv, Rest

(* A handled failure: only the readiness loop keeps a count that has come  *)
(* to its threshold, the others begin again after the kill.                *)
LEMMA FailureStep ==
  ASSUME IInv, NEW b \in Boots, NEW k \in Kinds, HandleFailure(b, k)
  PROVE  IInv'
<1> DEFINE lp == AfterFailure(k, loop[b][k])
           reached == Reaches(loop[b][k].fail, FailureThreshold[k])
<1>1. k = "readiness" \/ ~reached => Fits(k, lp)
  BY KindsAssumption DEF IInv, LoopsFit, Fits, LoopRecords, Count, Reaches, AfterFailure, Points, Kinds
<1>2. Fits(k, AfterKill(lp))
  BY LoopAtFits DEF AfterKill, Points
<1>3. late' \in BOOLEAN /\ done' \in [Boots -> BOOLEAN]
  BY LateBool DEF HandleFailure, IInv, Rest
<1>4. Guest' /\ LoopsFit' /\ ready' \in BOOLEAN /\ faults' \in 0 .. MaxFaults
  <2>1. CASE ~reached /\ Silent(b, k, lp) /\ UNCHANGED <<guestVars, faults>>
    BY <1>1, <2>1, SilentFits DEF guestVars, IInv, Guest, Rest
  <2>2. CASE k = "readiness" /\ SetReady(b, k, FALSE, lp) /\ UNCHANGED <<guestVars, faults>>
    BY <1>1, <2>2, SetReadyFits DEF guestVars, IInv, Guest, Rest
  <2>3. CASE killContainer(b, k, AfterKill(lp))
    <3>1. CASE up /\ NoFault /\ termed' = (health # "down") /\ Silent(b, k, AfterKill(lp))
               /\ UNCHANGED <<has, boot, up, health>>
      <4>1. termed' \in BOOLEAN
        BY <3>1, Zenon
      <4>. QED  BY <1>2, <3>1, <4>1, SilentFits DEF NoFault, IInv, Guest, Rest
    <3>2. CASE up /\ boot < MaxBoots /\ Fault /\ VMGone /\ UNCHANGED ready
               /\ loop' = [loop EXCEPT ![boot] = Quit(@), ![b][k] = LoopAt("gone")]
      <4>1. up' \in BOOLEAN /\ termed' \in BOOLEAN
        BY <3>2, Zenon DEF VMGone
      <4>2. Guest'
        BY <3>2, <4>1 DEF VMGone, IInv, Guest
      <4>3. faults' \in 0 .. MaxFaults /\ ready' \in BOOLEAN
        BY <3>2, ProbeBoundsAssumption DEF Fault, IInv, Rest
      <4>4. boot \in Boots /\ Quit(loop[boot]) \in [Kinds -> Records]
            /\ \A j \in Kinds : Fits(j, Quit(loop[boot])[j])
        BY QuitFits DEF IInv, Guest
      <4>5. Fits(k, LoopAt("gone")) /\ LoopAt("gone") \in Records
        BY LoopAtFits, FitsRecords DEF Points
      <4>6. ASSUME NEW c \in Boots, NEW j \in Kinds
            PROVE  loop'[c][j] = IF c = b /\ j = k THEN LoopAt("gone")
                                 ELSE IF c = boot THEN Quit(loop[boot])[j] ELSE loop[c][j]
        BY <3>2, <4>4 DEF IInv, LoopsFit, Loops
      <4>7. Loops'
        BY <3>2, <4>4, <4>5 DEF IInv, LoopsFit, Loops
      <4>8. LoopsFit'
        BY <4>4, <4>5, <4>6, <4>7 DEF IInv, LoopsFit
      <4>. QED  BY <4>2, <4>3, <4>8
    <3>3. CASE up /\ Fault /\ Silent(b, k, AfterKill(lp)) /\ UNCHANGED guestVars
      <4>1. faults' \in 0 .. MaxFaults
        BY <3>3, ProbeBoundsAssumption DEF Fault, IInv, Rest
      <4>. QED  BY <1>2, <3>3, <4>1, SilentFits DEF guestVars, IInv, Guest
    <3>4. CASE ~up /\ NoFault /\ Silent(b, k, AfterKill(lp)) /\ UNCHANGED guestVars
      BY <1>2, <3>4, SilentFits DEF guestVars, NoFault, IInv, Guest, Rest
    <3>. QED  BY <2>3, <3>1, <3>2, <3>3, <3>4 DEF killContainer
  <2>. QED  BY <2>1, <2>2, <2>3 DEF HandleFailure
<1>. QED  BY <1>3, <1>4 DEF IInv, Rest

(* The VM, its container and every loop keep the invariant.                *)
LEMMA Step == IInv /\ [Next]_vars => IInv'
<1> SUFFICES ASSUME IInv, [Next]_vars PROVE IInv'
  OBVIOUS
<1>1. CASE ContainerStarts
  BY <1>1 DEF ContainerStarts, IInv, Guest, LoopsFit, Loops, Rest
<1>2. CASE ContainerEnds
  <2>1. termed' \in BOOLEAN
    BY <1>2, Zenon DEF ContainerEnds
  <2>. QED  BY <1>2, <2>1 DEF ContainerEnds, IInv, Guest, LoopsFit, Loops, Rest
<1>3. CASE HealthChanges
  BY <1>3 DEF HealthChanges, IInv, Guest, LoopsFit, Loops, Rest
<1>4. CASE VMDies
  <2>1. up' \in BOOLEAN /\ termed' \in BOOLEAN
    BY <1>4, Zenon DEF VMDies, VMGone
  <2>2. boot \in Boots /\ loop' = [loop EXCEPT ![boot] = Quit(loop[boot])]
    BY <1>4 DEF VMDies, IInv, Guest
  <2>3. LoopsFit'
    BY <2>2, QuitFits, OneVM DEF IInv
  <2>. QED  BY <1>4, <2>1, <2>3 DEF VMDies, VMGone, IInv, Guest, Rest
<1>5. CASE VMBoots
  <2>1. up' \in BOOLEAN
    BY <1>5, Zenon DEF VMBoots
  <2>2. boot + 1 \in Boots
    BY <1>5, ProbeBoundsAssumption DEF VMBoots, IInv, Guest, Boots
  <2>3. LoopsFit'
    BY <1>5, <2>2, StartedFits, OneVM DEF VMBoots, IInv
  <2>. QED  BY <1>5, <2>1, <2>2, <2>3 DEF VMBoots, IInv, Guest, Rest
<1>6. ASSUME NEW b \in Boots, NEW k \in Kinds, LoopStep(b, k) PROVE IInv'
  <2>1. CASE PassGate(b, k)
    BY <2>1, MovedFits DEF PassGate, LoopOnly, guestVars, IInv, Guest, Rest, Points
  <2>2. CASE Probe(b, k)
    <3>1. doProbe(k) \in Points \ {"push"}
      BY DEF doProbe, Points
    <3>. QED  BY <2>2, <3>1, MovedFits DEF Probe, LoopOnly, guestVars, IInv, Guest, Rest
  <2>3. CASE Resume(b, k)
    <3>1. Fits(k, [loop[b][k] EXCEPT !.pc = "idle"])
      BY DEF IInv, LoopsFit, Fits, LoopRecords, Points
    <3>. QED  BY <2>3, <3>1, GoingFits DEF Resume, LoopOnly, guestVars, IInv, Guest, Rest
  <2>. QED  BY <1>6, <2>1, <2>2, <2>3, SuccessStep, FailureStep DEF LoopStep
<1>7. CASE UNCHANGED vars
  BY <1>7 DEF vars, IInv, Guest, LoopsFit, Loops, Rest
<1>. QED  BY <1>1, <1>2, <1>3, <1>4, <1>5, <1>6, <1>7 DEF Next

(* The invariant holds in every state of every behaviour.                  *)
THEOREM Invariance == Spec => []IInv
<1>1. Init => IInv
  <2> SUFFICES ASSUME Init PROVE IInv
    OBVIOUS
  <2>1. up \in BOOLEAN /\ termed \in BOOLEAN /\ late \in BOOLEAN /\ ready \in BOOLEAN
    BY Zenon DEF Init, initReady
  <2>2. done \in [Boots -> BOOLEAN]
    BY DEF Init
  <2>3. LoopsFit
    <3>1. \A k \in Kinds : Fits(k, LoopAt("off")) /\ LoopAt("off") \in Records
      BY LoopAtFits, FitsRecords DEF Points
    <3>. QED  BY <3>1, StartedFits DEF Init, LoopsFit, Loops
  <2>4. Guest
    BY <2>1, ProbeBoundsAssumption DEF Init, Guest, Boots
  <2>. QED  BY <2>1, <2>2, <2>3, <2>4, ProbeBoundsAssumption DEF Init, IInv, Rest
<1>. QED  BY <1>1, Step, PTL DEF Spec

(* What the probe loops' counters and callbacks can be: only a loop that   *)
(* reports readiness is ever in pushStatus, only the readiness loop keeps  *)
(* a failure count that has come to its threshold, since the counters of   *)
(* the others begin again with the kill.                                   *)
THEOREM ProbeTypeCorrect == Spec => []TypeOK
<1>1. IInv => TypeOK
  BY DEF IInv, Guest, LoopsFit, Fits, Rest, TypeOK, At
<1>. QED  BY <1>1, Invariance, PTL
=============================================================================

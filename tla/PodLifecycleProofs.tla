-------------------------- MODULE PodLifecycleProofs --------------------------
(***************************************************************************)
(* The agent's pod lifecycle implements PodPromise, for any number of pods *)
(* of a name, of runs, crashes and failed calls, and any watch delay.      *)
(*                                                                         *)
(* The inductive invariant has three parts.  Watch: the versions the       *)
(* informer holds, the watch still carries and the API server stores are   *)
(* in the order they were stored in, so once a version told the agent to   *)
(* stop a pod every version still to come does.  Slots: a pod has a slot   *)
(* exactly while its runPod is somewhere, and a VM only around cmd.Wait.   *)
(* Late: after a late boot the runner is past every point from which it    *)
(* could boot again.                                                       *)
(***************************************************************************)
EXTENDS PodLifecycle, SequenceTheorems, TLAPS

Objects == Versions \cup {NoPod}

(* The version tells the agent that the pod is to go.                      *)
Ended(o) == o.deleting \/ o.gone

(* Version b was stored after a, or is a.                                  *)
NotAfter(a, b) ==
    a.uid < b.uid \/ (a.uid = b.uid /\ (Ended(a) => Ended(b)))

(* The informer holds c, the watch carries q and o is stored.              *)
Ordered(c, q, o) ==
    /\ NotAfter(c, o)
    /\ \A i \in 1 .. Len(q) : NotAfter(c, q[i]) /\ NotAfter(q[i], o)
    /\ \A i, j \in 1 .. Len(q) : i < j => NotAfter(q[i], q[j])

(* No version the agent has or will get would start pod u.                 *)
Ends(o, u) == o.uid = u => Ended(o)
AllEnd(u, c, q, o) ==
    Ends(c, u) /\ Ends(o, u) /\ \A i \in 1 .. Len(q) : Ends(q[i], u)

Watch ==
    /\ Ordered(cache, events, obj)
    /\ obj.uid < nextUid
    /\ \A u \in Uids : stopping[u] => u < nextUid /\ AllEnd(u, cache, events, obj)
    /\ fresh # {} => Exists

Slots ==
    \A u \in Uids : /\ u \in vms <=> pc[u] # "none"
                    /\ alive[u] => pc[u] \in {"setCmd", "wait"}

(* The runner of u will not boot again.                                    *)
Past(u) ==
    \/ pc[u] \in {"setCmd", "wait", "reported", "finalize", "end", "none"}
    \/ pc[u] \in {"get", "put"} /\ then[u] \in {"reported", "finalize", "end"}

Late ==
    \A u \in Uids : lateBoots[u] > 0 => stopping[u] /\ Past(u)

IInv == TypeOK /\ Watch /\ Slots /\ Late

-------------------------------------------------------------------------------
(* The order of the versions.                                              *)

(* The fields of a version.                                                *)
LEMMA ObjectFields ==
    ASSUME NEW o \in Objects
    PROVE  o.uid \in Nat /\ o.deleting \in BOOLEAN /\ o.gone \in BOOLEAN
<1>1. CASE o \in Versions
  BY <1>1 DEF Versions, Uids
<1>2. CASE o = NoPod
  BY <1>2 DEF NoPod
<1> QED
  BY <1>1, <1>2 DEF Objects

(* Being stored later is transitive.                                       *)
LEMMA NotAfterTransitive ==
    ASSUME NEW a \in Objects, NEW b \in Objects, NEW c \in Objects,
           NotAfter(a, b), NotAfter(b, c)
    PROVE  NotAfter(a, c)
<1>1. a.uid \in Nat /\ b.uid \in Nat /\ c.uid \in Nat
  BY ObjectFields
<1> QED
  BY <1>1 DEF NotAfter

(* Delivering the head of the queue keeps the order.                       *)
LEMMA OrderedTail ==
    ASSUME NEW c, NEW q \in Seq(Versions), NEW o, q # <<>>, Ordered(c, q, o)
    PROVE  /\ Ordered(Head(q), Tail(q), o)
           /\ Head(q) \in Versions /\ Tail(q) \in Seq(Versions)
<1>1. /\ Head(q) \in Versions /\ Tail(q) \in Seq(Versions)
      /\ Len(Tail(q)) = Len(q) - 1
      /\ \A i \in 1 .. Len(Tail(q)) : Tail(q)[i] = q[i + 1]
  BY HeadTailProperties
<1>2. Len(q) \in Nat \ {0} /\ Head(q) = q[1]
  BY EmptySeq, LenProperties
<1> QED
  BY <1>1, <1>2 DEF Ordered

(* Storing a later version and queueing it keeps the order.                *)
LEMMA OrderedAppend ==
    ASSUME NEW c \in Objects, NEW q \in Seq(Versions), NEW o \in Objects,
           NEW p \in Versions, Ordered(c, q, o), NotAfter(o, p)
    PROVE  /\ Ordered(c, Append(q, p), p)
           /\ Append(q, p) \in Seq(Versions)
<1>1. /\ Append(q, p) \in Seq(Versions)
      /\ Len(Append(q, p)) = Len(q) + 1
      /\ \A i \in 1 .. Len(q) : Append(q, p)[i] = q[i]
      /\ Append(q, p)[Len(q) + 1] = p
  BY AppendProperties
<1>2. Len(q) \in Nat /\ \A i \in 1 .. Len(q) : q[i] \in Objects
  BY LenProperties, ElementOfSeq DEF Objects
<1>3. p \in Objects
  BY DEF Objects
<1>4. NotAfter(c, p) /\ \A i \in 1 .. Len(q) : NotAfter(q[i], p)
  BY <1>2, <1>3, NotAfterTransitive DEF Ordered
<1>5. NotAfter(p, p)
  BY <1>3, ObjectFields DEF NotAfter
<1>6. ASSUME NEW i \in 1 .. Len(q) + 1
      PROVE  NotAfter(c, Append(q, p)[i]) /\ NotAfter(Append(q, p)[i], p)
  BY <1>1, <1>2, <1>4, <1>5, <1>6 DEF Ordered
<1>7. ASSUME NEW i \in 1 .. Len(q) + 1, NEW j \in 1 .. Len(q) + 1, i < j
      PROVE  NotAfter(Append(q, p)[i], Append(q, p)[j])
  BY <1>1, <1>2, <1>4, <1>7 DEF Ordered
<1> QED
  BY <1>1, <1>4, <1>6, <1>7 DEF Ordered

(* The informer's version told the agent to stop: so does all that follows.*)
LEMMA EndedAllEnd ==
    ASSUME NEW c \in Objects, NEW q \in Seq(Versions), NEW o \in Objects,
           Ordered(c, q, o), Ended(c)
    PROVE  AllEnd(c.uid, c, q, o)
<1>1. \A i \in 1 .. Len(q) : q[i] \in Objects
  BY ElementOfSeq DEF Objects
<1> QED
  BY <1>1, ObjectFields DEF Ordered, NotAfter, AllEnd, Ends

(* Delivering a version keeps that all of them end u.                      *)
LEMMA AllEndTail ==
    ASSUME NEW u, NEW c, NEW q \in Seq(Versions), NEW o, q # <<>>, AllEnd(u, c, q, o)
    PROVE  AllEnd(u, Head(q), Tail(q), o)
<1>1. /\ Len(Tail(q)) = Len(q) - 1
      /\ \A i \in 1 .. Len(Tail(q)) : Tail(q)[i] = q[i + 1]
  BY HeadTailProperties
<1>2. Len(q) \in Nat \ {0} /\ Head(q) = q[1]
  BY EmptySeq, LenProperties
<1> QED
  BY <1>1, <1>2 DEF AllEnd

(* So does storing one that ends u.                                        *)
LEMMA AllEndAppend ==
    ASSUME NEW u, NEW c, NEW q \in Seq(Versions), NEW o, NEW p \in Versions,
           AllEnd(u, c, q, o), Ends(p, u)
    PROVE  AllEnd(u, c, Append(q, p), p)
<1>1. /\ Len(Append(q, p)) = Len(q) + 1
      /\ \A i \in 1 .. Len(q) : Append(q, p)[i] = q[i]
      /\ Append(q, p)[Len(q) + 1] = p
  BY AppendProperties
<1>2. Len(q) \in Nat
  BY LenProperties
<1> QED
  BY <1>1, <1>2 DEF AllEnd

-------------------------------------------------------------------------------
(* Calls to the API server.                                                *)

(* A call has left the API server and the watch in order: the informer     *)
(* holds c, the queue was q.                                               *)
InOrder(c, q) ==
    /\ obj' \in Objects
    /\ events' \in Seq(Versions)
    /\ fresh' \in SUBSET Writers
    /\ fresh' # {} => ~obj'.gone
    /\ Ordered(c, events', obj')
    /\ obj'.uid = obj.uid
    /\ \A u \in Uids : AllEnd(u, c, q, obj) => AllEnd(u, c, events', obj')

(* Storing a version of the same pod that is not less ended.               *)
LEMMA StoreInOrder ==
    ASSUME NEW c \in Objects, NEW q \in Seq(Versions), obj \in Objects,
           Ordered(c, q, obj), NEW p \in Versions, p.uid = obj.uid,
           Ended(obj) => Ended(p), Store(q, p)
    PROVE  InOrder(c, q)
<1>1. obj' = p /\ events' = Append(q, p) /\ fresh' = {}
  BY DEF Store
<1>2. NotAfter(obj, p)
  BY DEF NotAfter
<1>3. Ordered(c, events', obj') /\ events' \in Seq(Versions)
  BY <1>1, <1>2, OrderedAppend
<1>4. ASSUME NEW u \in Uids, AllEnd(u, c, q, obj)
      PROVE  AllEnd(u, c, events', obj')
  <2>1. Ends(p, u)
    BY <1>4 DEF AllEnd, Ends
  <2> QED
    BY <1>1, <1>4, <2>1, AllEndAppend
<1> QED
  BY <1>1, <1>3, <1>4 DEF InOrder, Objects

(* Nothing stored, and the queue is q.                                     *)
LEMMA QuietInOrder ==
    ASSUME NEW c \in Objects, NEW q \in Seq(Versions), obj \in Objects,
           Ordered(c, q, obj), fresh \in SUBSET Writers, fresh # {} => Exists,
           obj' = obj, events' = q, fresh' \subseteq fresh
    PROVE  InOrder(c, q)
BY DEF InOrder, Exists

(* The agent's Delete by name.                                             *)
LEMMA DeleteInOrder ==
    ASSUME NEW c \in Objects, NEW q \in Seq(Versions), obj \in Objects,
           Ordered(c, q, obj), fresh \in SUBSET Writers, fresh # {} => Exists,
           faults \in 0 .. MaxFaults, DeleteByName(q)
    PROVE  InOrder(c, q) /\ faults' \in 0 .. MaxFaults
<1>1. faults' \in 0 .. MaxFaults
  BY BoundsAssumption DEF DeleteByName, NoFault, Fault
<1>2. CASE Exists /\ Remove(q)
  <2>1. obj \in Versions
    BY <1>2 DEF Exists, NoPod, Objects
  <2>2. /\ [obj EXCEPT !.gone = TRUE] \in Versions
        /\ [obj EXCEPT !.gone = TRUE].uid = obj.uid
        /\ Ended([obj EXCEPT !.gone = TRUE])
    BY <2>1 DEF Versions, Ended
  <2>3. InOrder(c, q)
    BY <1>2, <2>2, StoreInOrder DEF Remove
  <2> QED
    BY <1>1, <2>3
<1>3. CASE obj' = obj /\ events' = q /\ fresh' = fresh
  <2>1. InOrder(c, q)
    BY <1>3, QuietInOrder
  <2> QED
    BY <1>1, <2>1
<1> QED
  BY <1>2, <1>3 DEF DeleteByName

(* UpdateStatus of what a Get returned.                                    *)
LEMMA UpdateInOrder ==
    ASSUME IInv, NEW w \in Writers, NEW phase \in Phases, UpdateStatus(w, phase)
    PROVE  InOrder(cache, events) /\ faults' \in 0 .. MaxFaults
<1>1. faults' \in 0 .. MaxFaults
  BY BoundsAssumption DEF UpdateStatus, NoFault, Fault, IInv, TypeOK
<1>2. /\ obj \in Objects /\ cache \in Objects /\ events \in Seq(Versions)
      /\ fresh \in SUBSET Writers /\ (fresh # {} => Exists) /\ Ordered(cache, events, obj)
  BY DEF IInv, TypeOK, Watch, Objects
<1>3. CASE w \in fresh /\ Store(events, [obj EXCEPT !.phase = phase])
  <2>1. obj \in Versions
    BY <1>2, <1>3 DEF Exists, NoPod, Objects
  <2>2. /\ [obj EXCEPT !.phase = phase] \in Versions
        /\ [obj EXCEPT !.phase = phase].uid = obj.uid
        /\ Ended(obj) => Ended([obj EXCEPT !.phase = phase])
    BY <2>1 DEF Versions, Ended
  <2> QED
    BY <1>1, <1>2, <1>3, <2>2, StoreInOrder
<1>4. CASE UNCHANGED apiVars
  BY <1>1, <1>2, <1>4, QuietInOrder DEF apiVars
<1>5. CASE fresh' = fresh \ {w} /\ UNCHANGED <<obj, events>>
  BY <1>1, <1>2, <1>5, QuietInOrder
<1> QED
  BY <1>3, <1>4, <1>5 DEF UpdateStatus

(* A step after which the informer holds a version c in order with the     *)
(* rest, and every stopped pod is ended by all of them, keeps Watch.       *)
LEMMA WatchKept ==
    ASSUME IInv, NEW q, InOrder(cache', q), nextUid' = nextUid,
           \A u \in Uids : stopping'[u] => u < nextUid /\ AllEnd(u, cache', q, obj)
    PROVE  Watch'
BY DEF IInv, Watch, InOrder, Exists

(* A step that leaves the watch, the informer and the stops alone.         *)
LEMMA WatchUntouched ==
    ASSUME IInv, UNCHANGED <<obj, events, cache, nextUid, stopping>>,
           fresh' # {} => Exists
    PROVE  Watch'
BY DEF IInv, Watch, Exists

-------------------------------------------------------------------------------
(* The users and the informer.                                             *)

(* Slots and Late speak of the runner, the slots, the VMs and the stops.   *)
LEMMA RunnerUntouched ==
    ASSUME IInv, UNCHANGED <<vms, pc, then, stopping, alive, lateBoots>>
    PROVE  Slots' /\ Late'
BY DEF IInv, Slots, Late, Past

(* Users create and delete pods.                                           *)
LEMMA UsersStep ==
    ASSUME IInv, Users
    PROVE  IInv'
<1>1. /\ obj \in Objects /\ cache \in Objects /\ events \in Seq(Versions)
      /\ Ordered(cache, events, obj)
  BY DEF IInv, TypeOK, Watch, Objects
<1>2. /\ UNCHANGED <<policy, cache, faults, vms, runs, pc, want, then, stopping, killer>>
      /\ UNCHANGED <<alive, final, crashes, lateBoots, pusher>>
  BY DEF Users, CreatePod, UserDeletes, UserForceDeletes, watchVars, slotVars, runVars,
         stopVars, vmVars
<1>3. Slots' /\ Late'
  BY <1>2, RunnerUntouched
<1>4. CASE CreatePod
  <2> DEFINE p == [uid |-> nextUid, phase |-> "Active", deleting |-> FALSE, gone |-> FALSE]
  <2>1. /\ obj' = p /\ events' = Append(events, p) /\ fresh' = {}
        /\ nextUid' = nextUid + 1 /\ nextUid \in Uids
    BY <1>4 DEF CreatePod, Store
  <2>2. p \in Versions /\ p.uid = nextUid
    BY <2>1 DEF Versions, Phases
  <2> HIDE DEF p
  <2>3. NotAfter(obj, p)
    BY <2>2 DEF NotAfter, IInv, Watch
  <2>4. Ordered(cache, events', obj') /\ events' \in Seq(Versions)
    BY <1>1, <2>1, <2>2, <2>3, OrderedAppend
  <2>5. TypeOK'
    <3>1. nextUid' \in 1 .. (MaxUid + 1)
      BY <2>1, MaxUidAssumption DEF Uids
    <3> QED
      BY <1>2, <2>1, <2>2, <2>4, <3>1 DEF IInv, TypeOK
  <2>6. ASSUME NEW u \in Uids, stopping[u]
        PROVE  u < nextUid' /\ AllEnd(u, cache, events', obj')
    <3>1. u < nextUid /\ AllEnd(u, cache, events, obj)
      BY <2>6 DEF IInv, Watch
    <3>2. Ends(p, u)
      BY <2>1, <2>2, <3>1 DEF Ends, Uids
    <3> QED
      BY <1>1, <2>1, <2>2, <3>1, <3>2, AllEndAppend DEF Uids
  <2>7. Watch'
    BY <1>2, <2>1, <2>2, <2>4, <2>6 DEF Watch, Uids
  <2> QED
    BY <1>3, <2>5, <2>7 DEF IInv
<1>5. CASE UserDeletes \/ UserForceDeletes
  <2>1. Exists /\ nextUid' = nextUid
    BY <1>5 DEF UserDeletes, UserForceDeletes, watchVars
  <2>2. obj \in Versions
    BY <1>1, <2>1 DEF Exists, NoPod, Objects
  <2>3. PICK p \in Versions : p.uid = obj.uid /\ Ended(p) /\ Store(events, p)
    <3>1. /\ [obj EXCEPT !.gone = TRUE] \in Versions
          /\ [obj EXCEPT !.gone = TRUE].uid = obj.uid
          /\ Ended([obj EXCEPT !.gone = TRUE])
      BY <2>2 DEF Versions, Ended
    <3>2. /\ [obj EXCEPT !.deleting = TRUE] \in Versions
          /\ [obj EXCEPT !.deleting = TRUE].uid = obj.uid
          /\ Ended([obj EXCEPT !.deleting = TRUE])
      BY <2>2 DEF Versions, Ended
    <3> QED
      BY <1>5, <3>1, <3>2 DEF UserDeletes, UserForceDeletes, Remove
  <2>4. InOrder(cache, events)
    BY <1>1, <2>3, StoreInOrder
  <2>5. TypeOK'
    BY <1>2, <2>1, <2>4 DEF IInv, TypeOK, InOrder, Objects
  <2>6. Watch'
    BY <1>2, <2>1, <2>4, WatchKept DEF IInv, Watch
  <2> QED
    BY <1>3, <2>5, <2>6 DEF IInv
<1> QED
  BY <1>4, <1>5 DEF Users

(* Telling the pod of the informer's version c to stop.                    *)
LEMMA StopStep ==
    ASSUME IInv, NEW c \in Objects, NEW q \in Seq(Versions), Ordered(c, q, obj),
           \A u \in Uids : stopping[u] => AllEnd(u, c, q, obj),
           c.uid \in vms, Ended(c), Stop(c.uid), cache' = c, events' = q, nextUid' = nextUid,
           UNCHANGED <<policy, obj, fresh, faults, vms, runs, pc, want, then>>,
           UNCHANGED <<alive, final, crashes, lateBoots, pusher>>
    PROVE  IInv'
<1>1. c.uid \in Uids
  BY DEF IInv, TypeOK
<1>2. TypeOK'
  BY DEF IInv, TypeOK, Stop, Objects
<1>3. InOrder(c, q)
  BY QuietInOrder DEF IInv, TypeOK, Watch, Objects
<1>4. ASSUME NEW u \in Uids, stopping'[u]
      PROVE  u < nextUid /\ AllEnd(u, c, q, obj)
  <2>1. CASE u = c.uid
    <3>1. AllEnd(u, c, q, obj)
      BY <2>1, EndedAllEnd DEF IInv, TypeOK, Objects
    <3>2. c.uid <= obj.uid /\ obj.uid < nextUid
      <4>1. obj.uid \in Nat /\ c.uid \in Nat
        <5>1. obj \in Objects
          BY DEF IInv, TypeOK, Objects
        <5> QED
          BY <5>1, ObjectFields
      <4>2. c.uid < obj.uid \/ c.uid = obj.uid
        BY DEF Ordered, NotAfter
      <4>3. obj.uid < nextUid
        BY DEF IInv, Watch
      <4> QED
        BY <4>1, <4>2, <4>3
    <3> QED
      BY <2>1, <3>1, <3>2, ObjectFields DEF IInv, TypeOK, Objects
  <2>2. CASE u # c.uid
    BY <1>4, <2>2 DEF Stop, IInv, TypeOK, Watch
  <2> QED
    BY <2>1, <2>2
<1>5. Watch'
  BY <1>3, <1>4, WatchKept
<1>6. Slots'
  BY DEF IInv, Slots
<1>7. Late'
  BY <1>1 DEF IInv, Late, Past, Stop, TypeOK
<1> QED
  BY <1>2, <1>5, <1>6, <1>7 DEF IInv

(* Starting a run for the informer's version c, which does not say that    *)
(* the pod is to go: the pod was never told to stop.                       *)
LEMMA StartStep ==
    ASSUME IInv, NEW c \in Objects, NEW q \in Seq(Versions), Ordered(c, q, obj),
           \A u \in Uids : stopping[u] => AllEnd(u, c, q, obj),
           c.uid \in Uids, c.uid \notin vms, ~Ended(c), StartRun(c.uid, q), cache' = c,
           nextUid' = nextUid,
           UNCHANGED <<policy, alive, final, crashes, lateBoots, pusher>>
    PROVE  IInv' /\ ~stopping[c.uid]
<1>1. ~stopping[c.uid]
  BY DEF AllEnd, Ends
<1>2. /\ events' = q /\ UNCHANGED <<obj, fresh, faults, want, then>>
      /\ vms' = vms \cup {c.uid} /\ pc' = [pc EXCEPT ![c.uid] = "begin"]
      /\ stopping' = [stopping EXCEPT ![c.uid] = FALSE]
  BY DEF StartRun
<1>3. TypeOK'
  BY BoundsAssumption DEF IInv, TypeOK, StartRun, Points, Objects
<1>4. InOrder(c, q)
  BY <1>2, QuietInOrder DEF IInv, TypeOK, Watch, Objects
<1>5. \A u \in Uids : stopping'[u] => u < nextUid /\ AllEnd(u, c, q, obj)
  BY <1>2 DEF IInv, TypeOK, Watch
<1>6. Watch'
  BY <1>4, <1>5, WatchKept
<1>7. Slots'
  BY <1>2 DEF IInv, Slots, TypeOK
<1>8. Late'
  BY <1>1, <1>2 DEF IInv, Late, Past, TypeOK
<1> QED
  BY <1>1, <1>3, <1>6, <1>7, <1>8 DEF IInv

(* reconcilePod, for the version c the informer holds, with q still on the *)
(* watch.                                                                  *)
LEMMA ReconcileStep ==
    ASSUME IInv, NEW c \in Versions, NEW q \in Seq(Versions), Ordered(c, q, obj),
           \A u \in Uids : stopping[u] => AllEnd(u, c, q, obj),
           ~c.gone, reconcilePod(c, q), cache' = c, nextUid' = nextUid,
           UNCHANGED <<policy, vmVars, pusher>>
    PROVE  IInv'
<1>1. c \in Objects /\ c.uid \in Uids
  BY DEF Objects, Versions
<1>2. UNCHANGED <<alive, final, crashes, lateBoots>>
  BY DEF vmVars
<1>3. CASE DeleteNotRunning(c, q)
  <2>1. /\ DeleteByName(q)
        /\ UNCHANGED <<stopping, killer, vms, runs, pc, want, then>>
    BY <1>3 DEF DeleteNotRunning, stopVars, slotVars, runVars
  <2>2. InOrder(c, q) /\ faults' \in 0 .. MaxFaults
    BY <1>1, <2>1, DeleteInOrder DEF IInv, TypeOK, Watch, Objects
  <2>3. TypeOK'
    BY <1>1, <1>2, <2>1, <2>2 DEF IInv, TypeOK, InOrder, Objects
  <2>4. Watch'
    BY <2>1, <2>2, WatchKept DEF IInv, Watch
  <2>5. Slots' /\ Late'
    BY <1>2, <2>1, RunnerUntouched
  <2> QED
    BY <2>3, <2>4, <2>5 DEF IInv
<1>4. CASE StopRunning(c, q)
  BY <1>1, <1>2, <1>4, StopStep DEF StopRunning, slotVars, runVars, Ended
<1>5. CASE ~c.deleting /\ c.uid \notin vms /\ StartRun(c.uid, q)
  BY <1>1, <1>2, <1>5, StartStep DEF Ended
<1>6. CASE NoOp(q)
  <2>1. /\ events' = q
        /\ UNCHANGED <<obj, fresh, faults, stopping, killer, vms, runs, pc, want, then>>
    BY <1>6 DEF NoOp, stopVars, slotVars, runVars
  <2>2. InOrder(c, q)
    BY <1>1, <2>1, QuietInOrder DEF IInv, TypeOK, Watch, Objects
  <2>3. TypeOK'
    BY <1>1, <1>2, <2>1, <2>2 DEF IInv, TypeOK, InOrder, Objects
  <2>4. Watch'
    BY <2>1, <2>2, WatchKept DEF IInv, Watch
  <2>5. Slots' /\ Late'
    BY <1>2, <2>1, RunnerUntouched
  <2> QED
    BY <2>3, <2>4, <2>5 DEF IInv
<1> QED
  BY <1>3, <1>4, <1>5, <1>6 DEF reconcilePod

(* The watch delivers its next event.                                      *)
LEMMA DeliverStep ==
    ASSUME IInv, Deliver
    PROVE  IInv'
<1> DEFINE c == Head(events)
           q == Tail(events)
<1>1. events # <<>> /\ cache' = c /\ UNCHANGED <<policy, nextUid, vmVars, pusher>>
  BY DEF Deliver
<1>2. c \in Versions /\ q \in Seq(Versions) /\ Ordered(c, q, obj)
  BY <1>1, OrderedTail DEF IInv, TypeOK, Watch
<1>3. \A u \in Uids : stopping[u] => AllEnd(u, c, q, obj)
  BY <1>1, AllEndTail DEF IInv, TypeOK, Watch
<1>4. CASE c.gone
  <2>1. podDeleted(c, q)
    BY <1>4 DEF Deliver
  <2>2. CASE c.uid \in vms
    <3>1. /\ Stop(c.uid) /\ events' = q
          /\ UNCHANGED <<obj, fresh, faults, vms, runs, pc, want, then>>
      BY <2>1, <2>2 DEF podDeleted, slotVars, runVars
    <3>2. UNCHANGED <<alive, final, crashes, lateBoots, policy, nextUid, pusher>>
      BY <1>1 DEF vmVars
    <3>3. Ended(c) /\ c \in Objects
      BY <1>2, <1>4 DEF Ended, Objects
    <3> HIDE DEF c, q
    <3> QED
      BY <1>1, <1>2, <1>3, <2>2, <3>1, <3>2, <3>3, StopStep
  <2>3. CASE c.uid \notin vms
    <3>1. /\ events' = q
          /\ UNCHANGED <<obj, fresh, faults, stopping, killer, vms, runs, pc, want, then>>
      BY <2>1, <2>3 DEF podDeleted, NoOp, stopVars, slotVars, runVars
    <3>2. UNCHANGED <<alive, final, crashes, lateBoots, policy, nextUid, pusher>>
      BY <1>1 DEF vmVars
    <3>3. InOrder(c, q)
      BY <1>2, <3>1, QuietInOrder DEF IInv, TypeOK, Watch, Objects
    <3> HIDE DEF c, q
    <3>4. TypeOK'
      BY <1>1, <1>2, <3>1, <3>2, <3>3 DEF IInv, TypeOK, InOrder, Objects
    <3>5. Watch'
      BY <1>1, <1>3, <3>1, <3>2, <3>3, WatchKept DEF IInv, Watch
    <3>6. Slots' /\ Late'
      BY <3>1, <3>2, RunnerUntouched
    <3> QED
      BY <3>4, <3>5, <3>6 DEF IInv
  <2> QED
    BY <2>2, <2>3
<1>5. CASE ~c.gone
  <2>1. reconcilePod(c, q)
    BY <1>5 DEF Deliver
  <2> HIDE DEF c, q
  <2> QED
    BY <1>1, <1>2, <1>3, <1>5, <2>1, ReconcileStep
<1> QED
  BY <1>4, <1>5

(* The resync delivers the informer's version once more.                   *)
LEMMA ResyncStep ==
    ASSUME IInv, Resync
    PROVE  IInv'
<1>1. ~cache.gone /\ reconcilePod(cache, events)
      /\ UNCHANGED <<policy, nextUid, cache, vmVars, pusher>>
  BY DEF Resync, watchVars
<1>2. cache \in Versions /\ events \in Seq(Versions)
  BY <1>1 DEF IInv, TypeOK, NoPod
<1>3. /\ Ordered(cache, events, obj)
      /\ \A u \in Uids : stopping[u] => AllEnd(u, cache, events, obj)
  BY DEF IInv, Watch
<1> QED
  BY <1>1, <1>2, <1>3, ReconcileStep

-------------------------------------------------------------------------------
(* runPod, killVM and the VM.                                              *)

(* Where setPhase goes on.                                                 *)
Nexts == {"pullWait", "startWait", "crashWait", "reported", "finalize", "end"}

(* A runner that moves without a VM, to a point that is not a boot when it *)
(* was past all of them.                                                   *)
LEMMA RunnerMoves ==
    ASSUME IInv, NEW u \in Uids, pc[u] # "none", NEW p \in Points, p # "none",
           pc' = [pc EXCEPT ![u] = p], vms' = vms,
           alive' = alive, stopping' = stopping, lateBoots' = lateBoots,
           then' \in [Uids -> Nexts], \A v \in Uids \ {u} : then'[v] = then[v],
           alive[u] => p \in {"setCmd", "wait"},
           lateBoots[u] > 0 => Past(u)'
    PROVE  Slots' /\ Late'
<1>1. Slots'
  BY DEF IInv, Slots, TypeOK
<1>2. Late'
  BY DEF IInv, Late, Past, TypeOK
<1> QED
  BY <1>1, <1>2

(* What GoTo does to the runner ...                                        *)
LEMMA GoToMoves ==
    ASSUME IInv, NEW u \in Uids, NEW p \in Points, GoTo(u, p)
    PROVE  /\ pc' = [pc EXCEPT ![u] = p] /\ pc'[u] = p
           /\ want' = want /\ then' = then /\ then' \in [Uids -> Nexts]
           /\ pc' \in [Uids -> Points] /\ want' \in [Uids -> Phases]
BY DEF GoTo, IInv, TypeOK, Nexts

(* ... and SetPhase.                                                       *)
LEMMA SetPhaseMoves ==
    ASSUME IInv, NEW u \in Uids, NEW phase \in Phases, NEW p \in Nexts, SetPhase(u, phase, p)
    PROVE  /\ pc' = [pc EXCEPT ![u] = "get"] /\ pc'[u] = "get" /\ then'[u] = p
           /\ then' \in [Uids -> Nexts] /\ \A v \in Uids \ {u} : then'[v] = then[v]
           /\ pc' \in [Uids -> Points] /\ want' \in [Uids -> Phases]
BY DEF SetPhase, IInv, TypeOK, Points, Nexts

(* The steps of the runner that touch nothing else go from a point that is *)
(* not "none" to another, and only SetCmd and VMExited leave a point where *)
(* there may be a VM.                                                      *)
LEMMA RunnerOnlyStep ==
    ASSUME IInv, NEW u \in Uids, RunnerOnly, pc[u] # "none",
           \/ \E p \in Points \ {"none"} :
                 /\ GoTo(u, p)
                 /\ alive[u] => p = "wait"
                 /\ lateBoots[u] > 0 => p \in {"wait", "finalize", "end"}
           \/ \E p \in Nexts, phase \in Phases :
                 /\ SetPhase(u, phase, p)
                 /\ ~alive[u]
                 /\ lateBoots[u] > 0 => p \in {"reported", "finalize", "end"}
    PROVE  IInv'
<1>1. /\ UNCHANGED <<policy, obj, events, fresh, nextUid, cache, faults, vms, runs>>
      /\ UNCHANGED <<stopping, killer, alive, final, crashes, lateBoots, pusher>>
  BY DEF RunnerOnly, apiVars, watchVars, slotVars, stopVars, vmVars
<1>2. Watch'
  BY <1>1, WatchUntouched DEF IInv, Watch
<1>3. CASE \E p \in Points \ {"none"} :
                 /\ GoTo(u, p)
                 /\ alive[u] => p = "wait"
                 /\ lateBoots[u] > 0 => p \in {"wait", "finalize", "end"}
  <2>1. PICK p \in Points \ {"none"} :
                 /\ GoTo(u, p)
                 /\ alive[u] => p = "wait"
                 /\ lateBoots[u] > 0 => p \in {"wait", "finalize", "end"}
    BY <1>3
  <2>2. /\ pc' = [pc EXCEPT ![u] = p] /\ pc'[u] = p
        /\ want' = want /\ then' = then /\ then' \in [Uids -> Nexts]
        /\ pc' \in [Uids -> Points] /\ want' \in [Uids -> Phases]
    BY <2>1, GoToMoves
  <2>3. TypeOK'
    BY <1>1, <2>2 DEF IInv, TypeOK, Nexts
  <2>4. Slots' /\ Late'
    BY <1>1, <2>1, <2>2, RunnerMoves DEF Past
  <2> QED
    BY <1>2, <2>3, <2>4 DEF IInv
<1>4. CASE \E p \in Nexts, phase \in Phases :
                 /\ SetPhase(u, phase, p)
                 /\ ~alive[u]
                 /\ lateBoots[u] > 0 => p \in {"reported", "finalize", "end"}
  <2>1. PICK p \in Nexts, phase \in Phases :
                 /\ SetPhase(u, phase, p)
                 /\ ~alive[u]
                 /\ lateBoots[u] > 0 => p \in {"reported", "finalize", "end"}
    BY <1>4
  <2>2. /\ pc' = [pc EXCEPT ![u] = "get"] /\ pc'[u] = "get" /\ then'[u] = p
        /\ then' \in [Uids -> Nexts] /\ \A v \in Uids \ {u} : then'[v] = then[v]
        /\ pc' \in [Uids -> Points] /\ want' \in [Uids -> Phases]
    BY <2>1, SetPhaseMoves
  <2>3. TypeOK'
    BY <1>1, <2>2 DEF IInv, TypeOK, Nexts
  <2>4. "get" \in Points
    BY DEF Points
  <2>5. Slots' /\ Late'
    BY <1>1, <2>1, <2>2, <2>4, RunnerMoves DEF Past
  <2> QED
    BY <1>2, <2>3, <2>5 DEF IInv
<1> QED
  BY <1>3, <1>4

(* A runner that is not around cmd.Wait has no VM; one not past the boot   *)
(* has had no late boot.                                                   *)
LEMMA WhereRunner ==
    ASSUME IInv, NEW u \in Uids
    PROVE  /\ pc[u] \notin {"setCmd", "wait"} => ~alive[u]
           /\ pc[u] \in {"begin", "pull", "volumes", "pullWait", "boot", "start", "startWait",
                         "crashWait"} => ~(lateBoots[u] > 0)
           /\ lateBoots[u] > 0 => stopping[u]
BY DEF IInv, Slots, Late, Past

(* The attempts to pull and to start, and their backoffs.                  *)
LEMMA AttemptStep ==
    ASSUME IInv, NEW u \in Uids,
           \/ Begin(u) \/ PullSucceeds(u) \/ resolveVolumes(u) \/ PullFails(u)
           \/ BackoffEnds(u) \/ BootFails(u)
    PROVE  IInv'
<1>1. /\ RunnerOnly
      /\ pc[u] \in {"begin", "pull", "volumes", "pullWait", "start", "startWait", "crashWait"}
  BY DEF Begin, PullSucceeds, resolveVolumes, PullFails, BackoffEnds, BootFails
<1>2. ~alive[u] /\ ~(lateBoots[u] > 0) /\ pc[u] # "none"
  BY <1>1, WhereRunner
<1>3. \/ \E p \in Points \ {"none"} : GoTo(u, p)
      \/ \E p \in Nexts, phase \in Phases : SetPhase(u, phase, p)
  BY DEF Begin, PullSucceeds, resolveVolumes, PullFails, BackoffEnds, BootFails, retryStart,
         Points, Nexts, Phases
<1> QED
  BY <1>1, <1>2, <1>3, RunnerOnlyStep

(* Waiting for the VM and looking at how it ended.                         *)
LEMMA WaitStep ==
    ASSUME IInv, NEW u \in Uids, SetCmd(u) \/ VMExited(u) \/ Reported(u)
    PROVE  IInv'
<1>1. RunnerOnly /\ pc[u] \in {"setCmd", "wait", "reported"}
  BY DEF SetCmd, VMExited, Reported
<1>2. CASE SetCmd(u)
  <2>1. GoTo(u, "wait") /\ "wait" \in Points \ {"none"}
    BY <1>2 DEF SetCmd, Points
  <2> QED
    BY <1>1, <2>1, RunnerOnlyStep
<1>3. CASE VMExited(u)
  <2>1. ~alive[u]
    BY <1>3 DEF VMExited
  <2>2. \E p \in Nexts, phase \in Phases :
            SetPhase(u, phase, p) /\ (stopping[u] => p \in {"reported", "finalize", "end"})
    <3>1. CASE final[u]
      BY <1>3, <3>1 DEF VMExited, Nexts, Phases
    <3>2. CASE ~final[u] /\ stopping[u]
      BY <1>3, <3>2 DEF VMExited, Nexts, Phases
    <3>3. CASE ~final[u] /\ ~stopping[u] /\ policy = "Never"
      BY <1>3, <3>3 DEF VMExited, Nexts, Phases
    <3>4. CASE ~final[u] /\ ~stopping[u] /\ policy # "Never"
      BY <1>3, <3>4 DEF VMExited, Nexts, Phases
    <3> QED
      BY <3>1, <3>2, <3>3, <3>4
  <2> QED
    BY <1>1, <2>1, <2>2, WhereRunner, RunnerOnlyStep
<1>4. CASE Reported(u)
  <2>1. pc[u] = "reported" /\ ~alive[u]
    BY <1>4, WhereRunner DEF Reported
  <2>2. \E p \in {"finalize", "end"} : GoTo(u, p)
    BY <1>4 DEF Reported
  <2>3. {"finalize", "end"} \subseteq Points \ {"none"}
    BY DEF Points
  <2> QED
    BY <1>1, <2>1, <2>2, <2>3, RunnerOnlyStep
<1> QED
  BY <1>2, <1>3, <1>4

(* makeRootfs.                                                             *)
LEMMA RootfsStep ==
    ASSUME IInv, NEW u \in Uids, makeRootfs(u)
    PROVE  IInv'
<1>1. /\ UNCHANGED <<policy, obj, events, fresh, nextUid, cache, faults, vms, runs>>
      /\ UNCHANGED <<stopping, killer, alive, crashes, lateBoots, pusher>>
      /\ pc[u] = "boot" /\ final' = [final EXCEPT ![u] = FALSE]
  BY DEF makeRootfs, apiVars, watchVars, slotVars, stopVars
<1>2. ~alive[u] /\ ~(lateBoots[u] > 0)
  BY <1>1, WhereRunner
<1>3. Watch'
  BY <1>1, WatchUntouched DEF IInv, Watch
<1>4. \E p \in Points \ {"none"} :
        /\ pc' = [pc EXCEPT ![u] = p] /\ then' \in [Uids -> Nexts]
        /\ \A v \in Uids \ {u} : then'[v] = then[v]
        /\ pc' \in [Uids -> Points] /\ want' \in [Uids -> Phases]
  <2>1. {"start", "get"} \subseteq Points \ {"none"} /\ {"end", "startWait"} \subseteq Nexts
        /\ {"Active", "Terminal"} \subseteq Phases
    BY DEF Points, Nexts, Phases
  <2>2. CASE GoTo(u, "start")
    BY <2>1, <2>2, GoToMoves
  <2>3. CASE retryStart(u)
    BY <2>1, <2>3, SetPhaseMoves DEF retryStart
  <2> QED
    BY <2>2, <2>3 DEF makeRootfs
<1>5. TypeOK'
  BY <1>1, <1>4 DEF IInv, TypeOK, Nexts
<1>6. Slots' /\ Late'
  BY <1>1, <1>2, <1>4, RunnerMoves
<1> QED
  BY <1>3, <1>5, <1>6 DEF IInv

(* The harness is started.                                                 *)
LEMMA BootStep ==
    ASSUME IInv, NEW u \in Uids, BootSucceeds(u)
    PROVE  IInv' /\ u \in vms /\ ~alive[u] /\ ~(lateBoots[u] > 0)
<1>1. /\ UNCHANGED <<policy, obj, events, fresh, nextUid, cache, faults, vms, runs>>
      /\ UNCHANGED <<stopping, killer, final, crashes, pusher>>
      /\ pc[u] = "start" /\ alive' = [alive EXCEPT ![u] = TRUE]
      /\ lateBoots' = [lateBoots EXCEPT ![u] = IF stopping[u] THEN @ + 1 ELSE @]
  BY DEF BootSucceeds, apiVars, watchVars, slotVars, stopVars
<1>2. ~alive[u] /\ ~(lateBoots[u] > 0) /\ u \in vms
  BY <1>1, WhereRunner DEF IInv, Slots
<1>3. "setCmd" \in Points
  BY DEF Points
<1>4. /\ pc' = [pc EXCEPT ![u] = "setCmd"] /\ want' = want /\ then' = then
      /\ pc' \in [Uids -> Points]
  BY <1>3, GoToMoves DEF BootSucceeds
<1>5. TypeOK'
  BY <1>1, <1>4 DEF IInv, TypeOK
<1>6. Watch'
  BY <1>1, WatchUntouched DEF IInv, Watch
<1>7. Slots'
  BY <1>1, <1>2, <1>4 DEF IInv, Slots, TypeOK
<1>8. Late'
  BY <1>1, <1>2, <1>4 DEF IInv, Late, Past, TypeOK
<1> QED
  BY <1>2, <1>5, <1>6, <1>7, <1>8 DEF IInv

(* finalizePod, setPhase's Get and UpdateStatus.                           *)
LEMMA RunnerCallStep ==
    ASSUME IInv, NEW u \in Uids, finalizePod(u) \/ RunnerGet(u) \/ RunnerPut(u)
    PROVE  IInv'
<1>1. /\ UNCHANGED <<policy, nextUid, cache, vms, runs, stopping, killer>>
      /\ UNCHANGED <<alive, final, crashes, lateBoots, pusher>>
      /\ pc[u] \in {"finalize", "get", "put"}
  BY DEF finalizePod, RunnerGet, RunnerPut, watchVars, slotVars, stopVars, vmVars
<1>2. ~alive[u] /\ pc[u] # "none"
  BY <1>1, WhereRunner
<1>3. InOrder(cache, events) /\ faults' \in 0 .. MaxFaults
  <2>1. CASE finalizePod(u)
    BY <2>1, DeleteInOrder DEF finalizePod, IInv, TypeOK, Watch, Objects
  <2>2. CASE RunnerGet(u)
    <3>1. <<"run", u>> \in Writers
      BY DEF Writers
    <3>2. UNCHANGED <<obj, events>> /\ fresh' \subseteq Writers /\ (fresh' # {} => Exists)
      BY <2>2, <3>1 DEF RunnerGet, GetAnswers, GetFails, IInv, TypeOK, Watch
    <3>3. faults' \in 0 .. MaxFaults
      BY <2>2, BoundsAssumption DEF RunnerGet, GetAnswers, GetFails, NoFault, Fault, IInv, TypeOK
    <3> QED
      BY <3>2, <3>3 DEF InOrder, IInv, TypeOK, Watch, Objects, Exists
  <2>3. CASE RunnerPut(u)
    <3>1. <<"run", u>> \in Writers /\ want[u] \in Phases
      BY DEF Writers, IInv, TypeOK
    <3> QED
      BY <2>3, <3>1, UpdateInOrder DEF RunnerPut
  <2> QED
    BY <2>1, <2>2, <2>3
<1>4. Watch'
  BY <1>1, <1>3, WatchKept DEF IInv, Watch
<1>5. \E p \in Points \ {"none"} :
         /\ GoTo(u, p)
         /\ lateBoots[u] > 0 => p \in {"put", "reported", "finalize", "end"}
         /\ p = "put" => pc[u] = "get"
  <2>1. Nexts \cup {"put", "end"} \subseteq Points \ {"none"} /\ then[u] \in Nexts
    BY DEF Nexts, Points, IInv, TypeOK
  <2>2. lateBoots[u] > 0 /\ pc[u] \in {"get", "put"} => then[u] \in {"reported", "finalize", "end"}
    BY DEF IInv, Late, Past
  <2>3. "put" \notin Nexts
    BY DEF Nexts
  <2>4. CASE finalizePod(u)
    BY <2>1, <2>4 DEF finalizePod
  <2>5. CASE RunnerGet(u)
    BY <2>1, <2>2, <2>3, <2>5 DEF RunnerGet
  <2>6. CASE RunnerPut(u)
    BY <2>1, <2>2, <2>3, <2>6 DEF RunnerPut
  <2> QED
    BY <2>4, <2>5, <2>6
<1>6. PICK p \in Points \ {"none"} :
         /\ GoTo(u, p)
         /\ lateBoots[u] > 0 => p \in {"put", "reported", "finalize", "end"}
         /\ p = "put" => pc[u] = "get"
  BY <1>5
<1>7. /\ pc' = [pc EXCEPT ![u] = p] /\ pc'[u] = p
      /\ want' = want /\ then' = then /\ then' \in [Uids -> Nexts]
      /\ pc' \in [Uids -> Points] /\ want' \in [Uids -> Phases]
  BY <1>6, GoToMoves
<1>8. TypeOK'
  BY <1>1, <1>3, <1>7 DEF IInv, TypeOK, InOrder, Nexts, Objects
<1>9. lateBoots[u] > 0 => Past(u)'
  BY <1>6, <1>7 DEF Past, IInv, Late
<1>10. Slots' /\ Late'
  BY <1>1, <1>2, <1>7, <1>9, RunnerMoves
<1> QED
  BY <1>4, <1>8, <1>10 DEF IInv

(* The deferred delete of the slot.                                        *)
LEMMA EndStep ==
    ASSUME IInv, NEW u \in Uids, RunEnds(u)
    PROVE  IInv' /\ u \in vms /\ ~alive[u]
<1>1. /\ UNCHANGED <<policy, obj, events, fresh, nextUid, cache, faults, runs>>
      /\ UNCHANGED <<stopping, killer, alive, final, crashes, lateBoots, pusher>>
      /\ pc[u] = "end" /\ vms' = vms \ {u}
  BY DEF RunEnds, apiVars, watchVars, stopVars, vmVars
<1>2. ~alive[u] /\ u \in vms
  BY <1>1, WhereRunner DEF IInv, Slots
<1>3. "none" \in Points
  BY DEF Points
<1>4. /\ pc' = [pc EXCEPT ![u] = "none"] /\ want' = want /\ then' = then
      /\ pc' \in [Uids -> Points]
  BY <1>3, GoToMoves DEF RunEnds
<1>5. TypeOK'
  BY <1>1, <1>4 DEF IInv, TypeOK
<1>6. Watch'
  BY <1>1, WatchUntouched DEF IInv, Watch
<1>7. Slots'
  BY <1>1, <1>2, <1>4 DEF IInv, Slots, TypeOK
<1>8. Late'
  BY <1>1, <1>4 DEF IInv, Late, Past, TypeOK
<1> QED
  BY <1>2, <1>5, <1>6, <1>7, <1>8 DEF IInv

(* The status pusher only writes the API object.                           *)
LEMMA PushStep ==
    ASSUME IInv, NEW u \in Uids, PushStatus(u)
    PROVE  IInv' /\ UNCHANGED <<vms, alive, stopping, lateBoots>>
<1>1. /\ UNCHANGED <<policy, nextUid, cache, vms, runs, stopping, killer>>
      /\ UNCHANGED <<pc, want, then, alive, final, crashes, lateBoots>>
      /\ pusher' \in [Uids -> {"idle", "get", "put"}]
  BY DEF PushStatus, PushFetch, PushGet, PushPut, watchVars, slotVars, stopVars, vmVars,
         runVars, IInv, TypeOK
<1>2. InOrder(cache, events) /\ faults' \in 0 .. MaxFaults
  <2>1. CASE PushFetch(u)
    BY <2>1, QuietInOrder DEF PushFetch, apiVars, IInv, TypeOK, Watch, Objects
  <2>2. CASE PushGet(u)
    <3>1. <<"push", u>> \in Writers
      BY DEF Writers
    <3>2. UNCHANGED <<obj, events>> /\ fresh' \subseteq Writers /\ (fresh' # {} => Exists)
      BY <2>2, <3>1 DEF PushGet, GetAnswers, GetFails, IInv, TypeOK, Watch
    <3>3. faults' \in 0 .. MaxFaults
      BY <2>2, BoundsAssumption DEF PushGet, GetAnswers, GetFails, NoFault, Fault, IInv, TypeOK
    <3> QED
      BY <3>2, <3>3 DEF InOrder, IInv, TypeOK, Watch, Objects, Exists
  <2>3. CASE PushPut(u)
    <3>1. <<"push", u>> \in Writers /\ "Active" \in Phases
      BY DEF Writers, Phases
    <3> QED
      BY <2>3, <3>1, UpdateInOrder DEF PushPut
  <2> QED
    BY <2>1, <2>2, <2>3 DEF PushStatus
<1>3. TypeOK'
  BY <1>1, <1>2 DEF IInv, TypeOK, InOrder, Objects
<1>4. Watch'
  BY <1>1, <1>2, WatchKept DEF IInv, Watch
<1>5. Slots' /\ Late'
  BY <1>1, RunnerUntouched
<1> QED
  BY <1>1, <1>3, <1>4, <1>5 DEF IInv

(* killVM and the guest can only end a VM.                                 *)
LEMMA VMStep ==
    ASSUME IInv, NEW u \in Uids, KillVM(u) \/ Workload(u)
    PROVE  /\ IInv'
           /\ UNCHANGED <<vms, stopping, lateBoots>>
           /\ alive' = alive \/ (alive[u] /\ alive' = [alive EXCEPT ![u] = FALSE])
<1>1. /\ UNCHANGED <<policy, obj, events, fresh, nextUid, cache, faults, vms, runs>>
      /\ UNCHANGED <<pc, want, then, stopping, lateBoots, pusher>>
  BY DEF KillVM, AskSucceeds, AskFails, Backstop, KillCmd, Workload, VMFinishes, VMCrashes,
         apiVars, watchVars, slotVars, runVars, stopVars, vmVars
<1>2. alive' = alive \/ (alive[u] /\ alive' = [alive EXCEPT ![u] = FALSE])
  <2>1. CASE AskSucceeds(u)
    BY <2>1 DEF AskSucceeds, vmVars
  <2>2. CASE KillCmd(u)
    <3>1. alive' = [alive EXCEPT ![u] = alive[u] /\ pc[u] # "wait"]
      BY <2>2 DEF KillCmd
    <3>2. alive \in [Uids -> BOOLEAN]
      BY DEF IInv, TypeOK
    <3>3. CASE alive[u] /\ pc[u] = "wait"
      BY <3>1, <3>3
    <3>4. CASE ~(alive[u] /\ pc[u] = "wait")
      <4>1. (alive[u] /\ pc[u] # "wait") = alive[u]
        BY <3>2, <3>4
      <4>2. [alive EXCEPT ![u] = alive[u]] = alive
        BY <3>2
      <4> QED
        BY <3>1, <4>1, <4>2
    <3> QED
      BY <3>3, <3>4
  <2>3. CASE Workload(u)
    BY <2>3 DEF Workload, VMFinishes, VMCrashes
  <2> QED
    BY <2>1, <2>2, <2>3 DEF KillVM, AskFails, Backstop
<1>3. TypeOK'
  <2>1. alive' \in [Uids -> BOOLEAN]
    BY <1>2 DEF IInv, TypeOK
  <2>2. killer' \in [Uids -> {"none", "asking", "backstop", "done", "missed"}]
    <3>1. killer \in [Uids -> {"none", "asking", "backstop", "done", "missed"}]
      BY DEF IInv, TypeOK
    <3>2. \/ killer' = killer
          \/ \E k \in {"backstop", "done", "missed"} : killer' = [killer EXCEPT ![u] = k]
      <4>1. CASE KillVM(u)
        BY <4>1 DEF KillVM, AskSucceeds, AskFails, Backstop, KillCmd
      <4>2. CASE Workload(u)
        BY <4>2 DEF Workload, VMFinishes, VMCrashes, stopVars
      <4> QED
        BY <4>1, <4>2
    <3> QED
      BY <3>1, <3>2
  <2>3. final' \in [Uids -> BOOLEAN]
    BY DEF KillVM, AskSucceeds, AskFails, Backstop, Workload, VMFinishes, VMCrashes,
           vmVars, IInv, TypeOK
  <2>4. crashes' \in [Uids -> 0 .. MaxCrashes]
    <3>1. CASE VMCrashes(u)
      BY <3>1, BoundsAssumption DEF VMCrashes, IInv, TypeOK
    <3>2. CASE ~VMCrashes(u)
      BY <3>2 DEF KillVM, AskSucceeds, AskFails, Backstop, Workload, VMFinishes, vmVars, IInv, TypeOK
    <3> QED
      BY <3>1, <3>2
  <2> QED
    BY <1>1, <2>1, <2>2, <2>3, <2>4 DEF IInv, TypeOK
<1>4. Watch'
  BY <1>1, WatchUntouched DEF IInv, Watch
<1>5. Slots'
  BY <1>1, <1>2 DEF IInv, Slots, TypeOK
<1>6. Late'
  BY <1>1 DEF IInv, Late, Past
<1> QED
  BY <1>1, <1>2, <1>3, <1>4, <1>5, <1>6 DEF IInv

-------------------------------------------------------------------------------
(* The invariant holds of an agent that has seen no pod.                   *)
LEMMA InitIInv == Init => IInv
<1> SUFFICES ASSUME Init PROVE IInv
  OBVIOUS
<1>1. TypeOK
  <2>1. "none" \in Points /\ "Active" \in Phases /\ 1 \in 1 .. (MaxUid + 1)
    BY MaxUidAssumption DEF Points, Phases
  <2> QED
    BY <2>1, EmptySeq, BoundsAssumption DEF Init, TypeOK
<1>2. Watch
  BY EmptySeq DEF Init, Watch, Ordered, NotAfter, NoPod
<1>3. Slots /\ Late
  BY DEF Init, Slots, Late
<1> QED
  BY <1>1, <1>2, <1>3 DEF IInv

(* The invariant is inductive.                                             *)
LEMMA NextIInv == IInv /\ [Next]_vars => IInv'
<1> SUFFICES ASSUME IInv, [Next]_vars
             PROVE  IInv'
  OBVIOUS
<1>1. CASE Users \/ Deliver \/ Resync
  BY <1>1, UsersStep, DeliverStep, ResyncStep
<1>2. ASSUME NEW u \in Uids, RunPod(u)
      PROVE  IInv'
  BY <1>2, AttemptStep, WaitStep, RootfsStep, BootStep, RunnerCallStep, EndStep DEF RunPod
<1>3. ASSUME NEW u \in Uids, PushStatus(u) \/ KillVM(u) \/ Workload(u)
      PROVE  IInv'
  BY <1>3, PushStep, VMStep
<1>4. CASE UNCHANGED vars
  <2>1. /\ UNCHANGED <<policy, obj, nextUid, events, cache, faults, fresh, vms, pc, want>>
        /\ UNCHANGED <<then, stopping, killer, alive, final, pusher, runs, crashes, lateBoots>>
    BY <1>4 DEF vars
  <2>2. TypeOK'
    BY <2>1 DEF IInv, TypeOK
  <2>3. Watch'
    BY <2>1, WatchUntouched DEF IInv, Watch
  <2>4. Slots' /\ Late'
    BY <2>1, RunnerUntouched
  <2> QED
    BY <2>2, <2>3, <2>4 DEF IInv
<1> QED
  BY <1>1, <1>2, <1>3, <1>4 DEF Next

(* Every behaviour of the agent satisfies the invariant.                   *)
THEOREM Invariance == Spec => []IInv
BY InitIInv, NextIInv, PTL DEF Spec

(* The type of every variable.                                             *)
THEOREM PodTypeCorrect == Spec => []TypeOK
BY Invariance, PTL DEF IInv

-------------------------------------------------------------------------------
(* The refinement: every step is a step of PodPromise or leaves its        *)
(* variables unchanged.                                                    *)

(* A step that PodPromise does not see.                                    *)
LEMMA NothingMaps ==
    ASSUME UNCHANGED <<vms, alive, stopping, lateBoots>>
    PROVE  UNCHANGED Promise!vars
BY DEF Promise!vars

(* Telling a pod with a slot to stop.                                      *)
LEMMA StopMaps ==
    ASSUME TypeOK, NEW u \in vms, Stop(u), UNCHANGED <<vms, alive, lateBoots>>
    PROVE  Promise!Next
<1>1. u \in Uids
  BY DEF TypeOK
<1>2. stopping' = [stopping EXCEPT ![u] = TRUE] /\ stopping \in [Uids -> BOOLEAN]
  BY DEF Stop, TypeOK
<1>3. {v \in Uids : stopping'[v]} = {v \in Uids : stopping[v]} \cup {u}
  BY <1>1, <1>2
<1>4. Promise!Stop(u)
  BY <1>3 DEF Promise!Stop
<1> QED
  BY <1>1, <1>4 DEF Promise!Next

(* Starting a run.                                                         *)
LEMMA StartMaps ==
    ASSUME TypeOK, NEW u \in Uids, u \notin vms, ~stopping[u], NEW q, StartRun(u, q),
           UNCHANGED <<alive, lateBoots>>
    PROVE  Promise!Next
<1>1. stopping' = stopping
  BY DEF StartRun, TypeOK
<1>2. Promise!Reserve(u)
  BY <1>1 DEF StartRun, Promise!Reserve
<1> QED
  BY <1>2 DEF Promise!Next

(* Booting a VM.                                                           *)
LEMMA BootMaps ==
    ASSUME IInv, NEW u \in Uids, BootSucceeds(u)
    PROVE  Promise!Next
<1>1. u \in vms /\ ~alive[u] /\ ~(lateBoots[u] > 0)
  BY BootStep
<1>2. /\ UNCHANGED <<vms, stopping>> /\ alive' = [alive EXCEPT ![u] = TRUE]
      /\ lateBoots' = [lateBoots EXCEPT ![u] = IF stopping[u] THEN @ + 1 ELSE @]
  BY DEF BootSucceeds, slotVars, stopVars
<1>3. lateBoots \in [Uids -> Nat] /\ alive \in [Uids -> BOOLEAN]
  BY DEF IInv, TypeOK
<1>4. {v \in Uids : alive'[v]} = {v \in Uids : alive[v]} \cup {u}
  BY <1>2, <1>3
<1>5. {v \in Uids : lateBoots'[v] > 0} =
        IF stopping[u] THEN {v \in Uids : lateBoots[v] > 0} \cup {u}
                       ELSE {v \in Uids : lateBoots[v] > 0}
  <2>1. CASE stopping[u]
    <3>1. \A v \in Uids : lateBoots'[v] > 0 <=> (lateBoots[v] > 0 \/ v = u)
      BY <1>2, <1>3, <2>1
    <3> QED
      BY <2>1, <3>1
  <2>2. CASE ~stopping[u]
    <3>1. \A v \in Uids : lateBoots'[v] = lateBoots[v]
      BY <1>2, <1>3, <2>2
    <3> QED
      BY <2>2, <3>1
  <2> QED
    BY <2>1, <2>2
<1>6. Promise!Boot(u)
  BY <1>1, <1>2, <1>4, <1>5 DEF Promise!Boot
<1> QED
  BY <1>6 DEF Promise!Next

(* A VM that ends.                                                         *)
LEMMA ExitMaps ==
    ASSUME TypeOK, NEW u \in Uids, alive[u], alive' = [alive EXCEPT ![u] = FALSE],
           UNCHANGED <<vms, stopping, lateBoots>>
    PROVE  Promise!Next
<1>1. {v \in Uids : alive'[v]} = {v \in Uids : alive[v]} \ {u}
  BY DEF TypeOK
<1>2. Promise!Exit(u)
  BY <1>1 DEF Promise!Exit
<1> QED
  BY <1>2 DEF Promise!Next

(* Giving the slot back.                                                   *)
LEMMA EndMaps ==
    ASSUME IInv, NEW u \in Uids, RunEnds(u)
    PROVE  Promise!Next
<1>1. u \in vms /\ ~alive[u]
  BY EndStep
<1>2. UNCHANGED <<alive, stopping, lateBoots>> /\ vms' = vms \ {u}
  BY DEF RunEnds, stopVars, vmVars
<1>3. Promise!Release(u)
  BY <1>1, <1>2 DEF Promise!Release
<1> QED
  BY <1>3 DEF Promise!Next

(* reconcilePod for a version the agent holds.                             *)
LEMMA ReconcileMaps ==
    ASSUME IInv, NEW c \in Versions, NEW q,
           \A u \in Uids : stopping[u] => Ends(c, u),
           ~c.gone, reconcilePod(c, q), UNCHANGED vmVars
    PROVE  [Promise!Next]_Promise!vars
<1>1. c.uid \in Uids /\ UNCHANGED <<alive, lateBoots>>
  BY DEF Versions, vmVars
<1>2. CASE DeleteNotRunning(c, q) \/ NoOp(q)
  BY <1>1, <1>2, NothingMaps DEF DeleteNotRunning, NoOp, stopVars, slotVars
<1>3. CASE StopRunning(c, q)
  BY <1>1, <1>3, StopMaps DEF StopRunning, slotVars, IInv
<1>4. CASE ~c.deleting /\ c.uid \notin vms /\ StartRun(c.uid, q)
  <2>1. ~stopping[c.uid]
    BY <1>1, <1>4 DEF Ends, Ended
  <2> QED
    BY <1>1, <1>4, <2>1, StartMaps DEF IInv
<1> QED
  BY <1>2, <1>3, <1>4 DEF reconcilePod

(* Deliveries of the watch and of the resync.                              *)
LEMMA InformerMaps ==
    ASSUME IInv, Deliver \/ Resync
    PROVE  [Promise!Next]_Promise!vars
<1>1. CASE Resync
  <2>1. cache \in Versions
    BY <1>1 DEF Resync, IInv, TypeOK, NoPod
  <2>2. \A u \in Uids : stopping[u] => Ends(cache, u)
    BY DEF IInv, Watch, AllEnd
  <2> QED
    BY <1>1, <2>1, <2>2, ReconcileMaps DEF Resync
<1>2. CASE Deliver
  <2> DEFINE c == Head(events)
  <2>1. c \in Versions /\ c = events[1] /\ 1 \in 1 .. Len(events)
    BY <1>2, HeadTailProperties, EmptySeq, LenProperties DEF Deliver, IInv, TypeOK
  <2>2. \A u \in Uids : stopping[u] => Ends(c, u)
    BY <2>1 DEF IInv, Watch, AllEnd
  <2>3. UNCHANGED vmVars
    BY <1>2 DEF Deliver
  <2>4. CASE ~c.gone
    <3>1. reconcilePod(c, Tail(events))
      BY <1>2, <2>4 DEF Deliver
    <3> HIDE DEF c
    <3> QED
      BY <2>1, <2>2, <2>3, <2>4, <3>1, ReconcileMaps
  <2>5. CASE c.gone
    <3>1. podDeleted(c, Tail(events))
      BY <1>2, <2>5 DEF Deliver
    <3> HIDE DEF c
    <3>2. CASE c.uid \in vms
      BY <2>3, <3>1, <3>2, StopMaps DEF podDeleted, slotVars, vmVars, IInv
    <3>3. CASE c.uid \notin vms
      BY <2>3, <3>1, <3>3, NothingMaps DEF podDeleted, NoOp, slotVars, stopVars, vmVars
    <3> QED
      BY <3>2, <3>3
  <2> QED
    BY <2>4, <2>5
<1> QED
  BY <1>1, <1>2

(* Every step of the agent is a step of PodPromise or a stutter.           *)
LEMMA NextMaps == IInv /\ [Next]_vars => [Promise!Next]_Promise!vars
<1> SUFFICES ASSUME IInv, [Next]_vars
             PROVE  [Promise!Next]_Promise!vars
  OBVIOUS
<1>1. CASE Users
  BY <1>1, NothingMaps DEF Users, CreatePod, UserDeletes, UserForceDeletes, slotVars, stopVars, vmVars
<1>2. CASE Deliver \/ Resync
  BY <1>2, InformerMaps
<1>3. ASSUME NEW u \in Uids, RunPod(u)
      PROVE  [Promise!Next]_Promise!vars
  <2>1. CASE BootSucceeds(u) \/ RunEnds(u)
    BY <2>1, BootMaps, EndMaps
  <2>2. CASE ~(BootSucceeds(u) \/ RunEnds(u))
    <3>1. UNCHANGED <<vms, alive, stopping, lateBoots>>
      BY <1>3, <2>2 DEF RunPod, Begin, PullSucceeds, resolveVolumes, PullFails, BackoffEnds,
         makeRootfs, BootFails, SetCmd, VMExited, Reported, finalizePod, RunnerGet, RunnerPut,
         RunnerOnly, slotVars, stopVars, vmVars
    <3> QED
      BY <3>1, NothingMaps
  <2> QED
    BY <2>1, <2>2
<1>4. ASSUME NEW u \in Uids, PushStatus(u)
      PROVE  [Promise!Next]_Promise!vars
  BY <1>4, PushStep, NothingMaps
<1>5. ASSUME NEW u \in Uids, KillVM(u) \/ Workload(u)
      PROVE  [Promise!Next]_Promise!vars
  BY <1>5, VMStep, NothingMaps, ExitMaps DEF IInv
<1>6. CASE UNCHANGED vars
  BY <1>6, NothingMaps DEF vars
<1> QED
  BY <1>1, <1>2, <1>3, <1>4, <1>5, <1>6 DEF Next

(* The agent implements PodPromise: a VM runs only under a slot, a stop is *)
(* final, and at most one VM boots after it (main.go:518-600, 603-962).    *)
THEOREM Refinement == Spec => PromiseKept
<1>1. Init => Promise!Init
  BY DEF Init, Promise!Init
<1> QED
  BY <1>1, NextMaps, Invariance, PTL DEF Spec, PromiseKept, Promise!Spec

-------------------------------------------------------------------------------
(* What the API object says of the VM, as long as the name is not reused.  *)

(* Only pods that were created have a slot.                                *)
Known == \A u \in vms : u < nextUid

(* A version the informer holds or gets next is of a pod that was created. *)
LEMMA VersionKnown ==
    ASSUME IInv, NEW c \in Versions, c = cache \/ (events # <<>> /\ c = Head(events))
    PROVE  c.uid \in Uids /\ c.uid < nextUid
<1>1. c.uid \in Uids /\ c.uid \in Nat
  BY DEF Versions, Uids
<1>2. NotAfter(c, obj)
  <2>1. CASE c = cache
    BY <2>1 DEF IInv, Watch, Ordered
  <2>2. CASE events # <<>> /\ c = Head(events)
    <3>1. c = events[1] /\ 1 \in 1 .. Len(events)
      BY <2>2, HeadTailProperties, EmptySeq, LenProperties DEF IInv, TypeOK
    <3> QED
      BY <3>1 DEF IInv, Watch, Ordered
  <2> QED
    BY <2>1, <2>2
<1>3. obj.uid \in Nat /\ nextUid \in Nat /\ obj.uid < nextUid
  BY ObjectFields DEF IInv, TypeOK, Watch, Objects
<1> QED
  BY <1>1, <1>2, <1>3 DEF NotAfter

(* A delivery acts on one version, of a pod that was created.              *)
LEMMA InformerActs ==
    ASSUME IInv, Deliver \/ Resync
    PROVE  \E c \in Versions, q \in Seq(Versions) :
              /\ c.uid \in Uids /\ c.uid < nextUid
              /\ (c.gone /\ podDeleted(c, q)) \/ reconcilePod(c, q)
              /\ nextUid' = nextUid
<1>1. CASE Resync
  <2>1. cache \in Versions
    BY <1>1 DEF Resync, IInv, TypeOK, NoPod
  <2>2. events \in Seq(Versions)
    BY DEF IInv, TypeOK
  <2>3. reconcilePod(cache, events) /\ nextUid' = nextUid
    BY <1>1 DEF Resync, watchVars
  <2> QED
    BY <2>1, <2>2, <2>3, VersionKnown
<1>2. CASE Deliver
  <2> DEFINE c == Head(events)
  <2>1. events # <<>> /\ events \in Seq(Versions)
    BY <1>2 DEF Deliver, IInv, TypeOK
  <2>2. c \in Versions /\ Tail(events) \in Seq(Versions)
    BY <2>1, HeadTailProperties
  <2>3. (c.gone /\ podDeleted(c, Tail(events))) \/ reconcilePod(c, Tail(events))
    BY <1>2 DEF Deliver
  <2>4. nextUid' = nextUid
    BY <1>2 DEF Deliver
  <2>5. c.uid \in Uids /\ c.uid < nextUid
    BY <2>1, <2>2, VersionKnown
  <2> HIDE DEF c
  <2> QED
    BY <2>2, <2>3, <2>4, <2>5
<1> QED
  BY <1>1, <1>2

(* Slots go only to pods that were created.                                *)
LEMMA NextKnown == IInv /\ Known /\ [Next]_vars => Known'
<1> SUFFICES ASSUME IInv, Known, [Next]_vars
             PROVE  Known'
  OBVIOUS
<1>0. nextUid \in Nat /\ vms \subseteq Nat
  BY DEF IInv, TypeOK, Uids
<1>1. CASE Users
  <2>1. vms' = vms /\ nextUid' \in {nextUid, nextUid + 1}
    BY <1>1 DEF Users, CreatePod, UserDeletes, UserForceDeletes, slotVars, watchVars
  <2> QED
    BY <1>0, <2>1 DEF Known
<1>2. CASE Deliver \/ Resync
  <2>1. PICK c \in Versions, q \in Seq(Versions) :
              /\ c.uid \in Uids /\ c.uid < nextUid
              /\ (c.gone /\ podDeleted(c, q)) \/ reconcilePod(c, q)
              /\ nextUid' = nextUid
    BY <1>2, InformerActs
  <2>2. vms' \subseteq vms \cup {c.uid}
    BY <2>1 DEF podDeleted, reconcilePod, DeleteNotRunning, StopRunning, StartRun, NoOp, slotVars
  <2> QED
    BY <2>1, <2>2 DEF Known
<1>3. ASSUME NEW u \in Uids, RunPod(u) \/ PushStatus(u) \/ KillVM(u) \/ Workload(u)
      PROVE  Known'
  <2>1. CASE RunPod(u)
    <3>1. vms' \subseteq vms /\ nextUid' = nextUid
      BY <2>1 DEF RunPod, Begin, PullSucceeds, resolveVolumes, PullFails, BackoffEnds,
         makeRootfs, BootSucceeds, BootFails, SetCmd, VMExited, Reported, finalizePod, RunEnds,
         RunnerGet, RunnerPut, RunnerOnly, slotVars, watchVars
    <3> QED
      BY <3>1 DEF Known
  <2>2. CASE PushStatus(u) \/ KillVM(u) \/ Workload(u)
    <3>1. vms' = vms /\ nextUid' = nextUid
      BY <2>2 DEF PushStatus, PushFetch, PushGet, PushPut, KillVM, AskSucceeds, AskFails,
         Backstop, Workload, VMFinishes, VMCrashes, slotVars, watchVars
    <3> QED
      BY <3>1 DEF Known
  <2> QED
    BY <1>3, <2>1, <2>2
<1>4. CASE UNCHANGED vars
  BY <1>4 DEF vars, Known
<1> QED
  BY <1>1, <1>2, <1>3, <1>4 DEF Next

(* The only pod of a name that was used once.                              *)
LEMMA OnlyPod ==
    ASSUME IInv, FirstOfName, Exists, NEW u \in Uids, u < nextUid
    PROVE  u = obj.uid
<1>1. obj \in Versions
  BY DEF IInv, TypeOK, Exists, NoPod
<1>2. obj.uid \in Uids /\ obj.uid < nextUid /\ nextUid \in Nat
  BY <1>1 DEF IInv, TypeOK, Watch, Versions
<1> QED
  BY <1>2 DEF FirstOfName, Uids

(* The agent's Deletes: reconcilePod's has seen that the pod has no slot,  *)
(* finalizePod's comes after cmd.Wait.                                     *)
LEMMA FinalizeStep ==
    ASSUME IInv, Known, AgentStep, FirstOfName, Exists, obj'.gone
    PROVE  ~alive[obj.uid]
<1>0. obj \in Versions
  BY DEF IInv, TypeOK, Exists, NoPod
<1>1. CASE Deliver \/ Resync
  <2>1. PICK c \in Versions, q \in Seq(Versions) :
              /\ c.uid \in Uids /\ c.uid < nextUid
              /\ (c.gone /\ podDeleted(c, q)) \/ reconcilePod(c, q)
    BY <1>1, InformerActs
  <2>2. obj' # obj
    BY DEF Exists
  <2>3. DeleteNotRunning(c, q)
    BY <2>1, <2>2 DEF podDeleted, reconcilePod, StopRunning, StartRun, NoOp
  <2>4. c.uid \notin vms
    BY <2>3 DEF DeleteNotRunning
  <2> QED
    BY <2>1, <2>4, OnlyPod DEF IInv, Slots
<1>2. ASSUME NEW u \in Uids, finalizePod(u)
      PROVE  ~alive[obj.uid]
  <2>1. pc[u] = "finalize"
    BY <1>2 DEF finalizePod
  <2>2. u \in vms /\ ~alive[u]
    BY <2>1 DEF IInv, Slots
  <2> QED
    BY <2>2, OnlyPod DEF Known
<1>3. ASSUME NEW u \in Uids, RunnerPut(u)
      PROVE  FALSE
  <2>1. obj' = obj \/ obj' = [obj EXCEPT !.phase = want[u]]
    BY <1>3 DEF RunnerPut, UpdateStatus, Store, apiVars
  <2>2. obj'.gone = obj.gone
    BY <1>0, <2>1 DEF Versions
  <2> QED
    BY <2>2 DEF Exists
<1>4. ASSUME NEW u \in Uids, RunPod(u)
      PROVE  ~alive[obj.uid]
  <2>1. CASE ~finalizePod(u) /\ ~RunnerPut(u)
    <3>1. obj' = obj
      BY <1>4, <2>1 DEF RunPod, Begin, PullSucceeds, resolveVolumes, PullFails, BackoffEnds,
         makeRootfs, BootSucceeds, BootFails, SetCmd, VMExited, Reported, RunEnds, RunnerGet,
         RunnerOnly, apiVars
    <3> QED
      BY <3>1 DEF Exists
  <2> QED
    BY <1>2, <1>3, <2>1
<1> QED
  BY <1>1, <1>4 DEF AgentStep

(* A Terminal phase is written by runPod only, between two VMs or after    *)
(* the last.                                                               *)
LEMMA TerminalStep ==
    ASSUME IInv, Known, [Next]_vars, FirstOfName, Exists, obj.phase = "Active",
           obj'.phase = "Terminal"
    PROVE  ~alive[obj.uid]
<1>0. obj \in Versions /\ obj' # obj
  BY DEF IInv, TypeOK, Exists, NoPod
<1>1. [obj EXCEPT !.gone = TRUE].phase = "Active" /\ [obj EXCEPT !.deleting = TRUE].phase = "Active"
  BY <1>0 DEF Versions
<1>2. CASE Users
  BY <1>1, <1>2 DEF Users, CreatePod, UserDeletes, UserForceDeletes, Remove, Store
<1>3. CASE Deliver \/ Resync
  <2>1. PICK c \in Versions, q \in Seq(Versions) :
              (c.gone /\ podDeleted(c, q)) \/ reconcilePod(c, q)
    BY <1>3, InformerActs
  <2>2. DeleteNotRunning(c, q)
    BY <1>0, <2>1 DEF podDeleted, reconcilePod, StopRunning, StartRun, NoOp
  <2> QED
    BY <1>0, <1>1, <2>2 DEF DeleteNotRunning, DeleteByName, Remove, Store
<1>4. ASSUME NEW u \in Uids, RunPod(u)
      PROVE  ~alive[obj.uid]
  <2>1. CASE RunnerPut(u)
    <3>1. pc[u] = "put"
      BY <2>1 DEF RunnerPut
    <3>2. u \in vms /\ ~alive[u]
      BY <3>1 DEF IInv, Slots
    <3> QED
      BY <3>2, OnlyPod DEF Known
  <2>2. CASE finalizePod(u)
    BY <1>0, <1>1, <2>2 DEF finalizePod, DeleteByName, Remove, Store
  <2>3. CASE ~finalizePod(u) /\ ~RunnerPut(u)
    BY <1>0, <1>4, <2>3 DEF RunPod, Begin, PullSucceeds, resolveVolumes, PullFails, BackoffEnds,
       makeRootfs, BootSucceeds, BootFails, SetCmd, VMExited, Reported, RunEnds, RunnerGet,
       RunnerOnly, apiVars
  <2> QED
    BY <2>1, <2>2, <2>3
<1>5. ASSUME NEW u \in Uids, PushStatus(u) \/ KillVM(u) \/ Workload(u)
      PROVE  FALSE
  <2>1. [obj EXCEPT !.phase = "Active"].phase = "Active"
    BY <1>0 DEF Versions
  <2>2. CASE PushPut(u)
    BY <1>0, <2>1, <2>2 DEF PushPut, UpdateStatus, Store, apiVars
  <2>3. CASE ~PushPut(u)
    BY <1>0, <1>5, <2>3 DEF PushStatus, PushFetch, PushGet, KillVM, AskSucceeds, AskFails,
       Backstop, Workload, VMFinishes, VMCrashes, apiVars
  <2> QED
    BY <2>2, <2>3
<1>6. ~UNCHANGED vars
  BY <1>0 DEF vars
<1> QED
  BY <1>2, <1>3, <1>4, <1>5, <1>6 DEF Next

(* In every behaviour only pods that were created have a slot.             *)
LEMMA KnownInvariant == Spec => []Known
<1>1. Init => Known
  BY DEF Init, Known
<1> QED
  BY <1>1, NextKnown, Invariance, PTL DEF Spec

(* As long as the name is not reused, reconcilePod and finalizePod delete  *)
(* the pod's object only when its VM is gone, however old the version is   *)
(* the agent acts on.                                                      *)
THEOREM FinalizedAfterExit == Spec => FinalizeAfterExit
<1>1. IInv /\ Known =>
         [(FirstOfName /\ Exists /\ obj'.gone /\ AgentStep) => ~alive[obj.uid]]_vars
  BY FinalizeStep
<1> QED
  BY <1>1, Invariance, KnownInvariant, PTL DEF Spec, FinalizeAfterExit

(* As long as the name is not reused, setPhase makes the pod Terminal only *)
(* when its VM is gone; a late pushStatus never does.                      *)
THEOREM TerminalOnlyAfterExit == Spec => TerminalAfterExit
<1>1. IInv /\ Known /\ [Next]_vars =>
         [(FirstOfName /\ Exists /\ obj.phase = "Active" /\ obj'.phase = "Terminal"
             /\ obj'.uid = obj.uid) => ~alive[obj.uid]]_vars
  BY TerminalStep
<1> QED
  BY <1>1, Invariance, KnownInvariant, PTL DEF Spec, TerminalAfterExit

===============================================================================

-------------------------- MODULE ServiceLBProofs --------------------------
(***************************************************************************)
(* ServiceLB for every set of services, addresses and flows, every TTL and *)
(* deadline, and every width of the marks.                                 *)
(***************************************************************************)
EXTENDS ServiceLB, FiniteSetTheorems, SequenceTheorems, TLAPS

\* The packets in the nfqueue are those of the queued flows, each once, and a
\* query is for the one at the head.
QueueInv ==
    /\ \A i \in 1 .. Len(queue) : flow[queue[i]].st = "queued"
    /\ \A i, j \in 1 .. Len(queue) : queue[i] = queue[j] => i = j
    /\ query # "none" => queue # <<>> /\ HeadService \in Services

\* An endpoint's mark has the endpoint's element in the kernel's map; so has
\* the mark of a packet in flight.
MarkInv ==
    /\ \A e \in Endpoints : epID[e] # NoId => eps[epID[e]] = e
    /\ \A f \in Flows :
          /\ flow[f].st = "marked" => /\ flow[f].want \in Endpoints
                                      /\ eps[flow[f].mark] = flow[f].want
          /\ flow[f].st = "open" => flow[f].dst = flow[f].want
          /\ flow[f].st \in {"marked", "open"} => flow[f].svc \in Services

\* PinnedFlowsCurrent, and the same of a packet in flight.
PinInv ==
    \A f \in Flows :
        (~flow[f].late /\ (flow[f].st = "marked" \/ (flow[f].st = "open" /\ hasTool)))
            => flow[f].want \in Cached(flow[f].svc)

\* What is cached, and what is on its way in an answer, was ready not long ago.
FreshInv ==
    /\ \A s \in Services : \A a \in Backends(s) : since[s][a] = 0
    /\ \A s \in Services : cache[s].left >= 0 =>
          \A e \in Cached(s) : since[s][e.addr] <= MaxStale - cache[s].left
    /\ (query = "answered" /\ answer.ok) =>
          \A e \in Elems(answer.eps) : since[HeadService][e.addr] <= waited

IInv == TypeOK /\ QueueInv /\ MarkInv /\ PinInv /\ FreshInv

-----------------------------------------------------------------------------
LEMMA ModRange ==
    ASSUME NEW a \in Nat, NEW b \in Nat \ {0}
    PROVE  a % b \in 0 .. (b - 1)
  OBVIOUS

LEMMA NoEpIsNone == NoEp \notin Endpoints
  BY SetsAssumption DEF NoEp, Endpoints

LEMMA ElemsAreEndpoints ==
    ASSUME NEW q \in Seq(Endpoints)
    PROVE  \A e \in Elems(q) : e \in Endpoints /\ e.addr \in Addrs
  <1>1. \A e \in Elems(q) : e \in Endpoints
    BY LenProperties DEF Elems
  <1> QED
    BY <1>1 DEF Endpoints

LEMMA BackendsAreAddrs ==
    ASSUME TypeOK, NEW s \in Services
    PROVE  Backends(s) \subseteq Addrs
  BY DEF TypeOK, Backends

LEMMA OrdersAreSeqs ==
    ASSUME NEW S \in SUBSET Addrs, NEW list \in Orders(S)
    PROVE  /\ list \in Seq(Addrs)
           /\ Elems(list) \subseteq S
  <1>1. IsFiniteSet(S)
    BY FS_Subset, SetsAssumption
  <1>2. Cardinality(S) \in Nat
    BY <1>1, FS_CardinalityType
  <1>3. list \in [1 .. Cardinality(S) -> S]
    BY DEF Orders
  <1>4. list \in [1 .. Cardinality(S) -> Addrs]
    BY <1>3
  <1>5. list \in Seq(Addrs)
    BY <1>2, <1>4, SeqDef
  <1>6. Elems(list) \subseteq S
    BY <1>3 DEF Elems
  <1> QED
    BY <1>5, <1>6

LEMMA EndpointsOfType ==
    ASSUME NEW s \in Services, NEW list \in Seq(Addrs)
    PROVE  /\ EndpointsOf(s, list) \in Seq(Endpoints)
           /\ \A e \in Elems(EndpointsOf(s, list)) : e.addr \in Elems(list)
  <1>2. /\ DOMAIN list = 1 .. Len(list)
        /\ list \in [1 .. Len(list) -> Addrs]
        /\ Len(list) \in Nat
    BY LenProperties
  <1>1. \A i \in 1 .. Len(list) : [addr |-> list[i], port |-> targetPort[s]] \in Endpoints
    BY <1>2 DEF Endpoints
  <1>3. EndpointsOf(s, list) \in [1 .. Len(list) -> Endpoints]
    BY <1>1, <1>2 DEF EndpointsOf
  <1>4. EndpointsOf(s, list) \in Seq(Endpoints)
    BY <1>2, <1>3, SeqDef
  <1>5. \A e \in Elems(EndpointsOf(s, list)) : e.addr \in Elems(list)
    BY <1>2 DEF EndpointsOf, Elems
  <1> QED
    BY <1>4, <1>5

LEMMA AnswerType ==
    ASSUME NEW es \in Seq(Endpoints), NEW ttl \in 1 .. TTLReady
    PROVE  /\ Answer(es, ttl) \in
                 [ok : BOOLEAN, eps : Seq(Endpoints), ttl : 0 .. TTLReady]
           /\ Answer(es, ttl).eps = es
  BY NumbersAssumption DEF Answer

\* An answer has the addresses that are ready when the agent gives it.
LEMMA AnswersAreBackends ==
    ASSUME TypeOK, NEW s \in Services, NEW ans \in resolveService(s)
    PROVE  /\ ans \in [ok : BOOLEAN, eps : Seq(Endpoints), ttl : 0 .. TTLReady]
           /\ \A e \in Elems(ans.eps) : e.addr \in Backends(s)
  <1>1. CASE ans = Error
    BY <1>1, NumbersAssumption DEF Error, Elems
  <1>2. CASE static[s] \in Addrs
    <2>1. <<static[s]>> \in Seq(Addrs) /\ Elems(<<static[s]>>) = {static[s]}
      BY <1>2 DEF Elems
    <2>2. ans = Answer(EndpointsOf(s, <<static[s]>>), TTLStatic)
      BY <1>2, SetsAssumption DEF resolveService
    <2>3. Backends(s) = {static[s]}
      BY <1>2, SetsAssumption DEF Backends
    <2>4. /\ EndpointsOf(s, <<static[s]>>) \in Seq(Endpoints)
          /\ \A e \in Elems(EndpointsOf(s, <<static[s]>>)) : e.addr \in {static[s]}
      BY <2>1, EndpointsOfType
    <2> QED
      BY <2>2, <2>3, <2>4, AnswerType, NumbersAssumption
  <1>3. CASE ans # Error /\ static[s] \notin Addrs
    <2>1. static[s] = "no" /\ synced /\ slices[s] # NoSlices /\ slices[s] \in SUBSET Addrs
      BY <1>3 DEF TypeOK, resolveService
    <2>2. PICK list \in Orders(slices[s]) :
             ans = Answer(EndpointsOf(s, list), IF list = <<>> THEN TTLEmpty ELSE TTLReady)
      BY <1>3, <2>1 DEF resolveService
    <2>3. Backends(s) = slices[s]
      BY <1>3, <2>1 DEF Backends
    <2>4. list \in Seq(Addrs) /\ Elems(list) \subseteq slices[s]
      BY <2>1, OrdersAreSeqs
    <2>5. /\ EndpointsOf(s, list) \in Seq(Endpoints)
          /\ \A e \in Elems(EndpointsOf(s, list)) : e.addr \in Elems(list)
      BY <2>4, EndpointsOfType
    <2> QED
      BY <2>2, <2>3, <2>4, <2>5, AnswerType, NumbersAssumption
  <1> QED
    BY <1>1, <1>2, <1>3

LEMMA IdleType == Idle \in FlowRecords
  BY NumbersAssumption DEF Idle, FlowRecords, FlowStates, Marks

LEMMA InitInv == Init => IInv
  <1> SUFFICES ASSUME Init PROVE IInv
    OBVIOUS
  <1>1. TypeOK
    <2>1. Error \in [ok : BOOLEAN, eps : Seq(Endpoints), ttl : 0 .. TTLReady]
      BY NumbersAssumption DEF Error
    <2>2. NilEntry \in Entries
      BY NumbersAssumption DEF NilEntry, Entries
    <2>3. Idle \in FlowRecords
      BY IdleType
    <2>4. 0 \in 0 .. Deadline /\ 1 \in Marks /\ MaxStale + 1 \in 0 .. (MaxStale + 1)
          /\ 0 \in 0 .. MaxNftFaults /\ 0 \in 0 .. MaxChanges
      BY NumbersAssumption DEF Marks, MaxStale
    <2>5. since \in [Services -> [Addrs -> 0 .. (MaxStale + 1)]]
      BY <2>4 DEF Init
    <2>6. slices \in [Services -> {NoSlices} \cup SUBSET Addrs]
      BY DEF Init
    <2>7. cache \in [Services -> Entries] /\ flow \in [Flows -> FlowRecords]
      BY <2>2, <2>3 DEF Init
    <2>8. eps \in [Marks -> Endpoints \cup {NoEp}]
      BY DEF Init
    <2>9. epID \in [Endpoints -> Marks \cup {NoId}] /\ queue \in Seq(Flows)
      BY DEF Init
    <2> QED
      BY <2>1, <2>4, <2>5, <2>6, <2>7, <2>8, <2>9 DEF Init, TypeOK
  <1>2. QueueInv /\ MarkInv /\ PinInv
    BY DEF Init, QueueInv, MarkInv, PinInv, Idle
  <1>3. FreshInv
    BY SetsAssumption DEF Init, FreshInv, Backends, NilEntry
  <1> QED
    BY <1>1, <1>2, <1>3 DEF IInv

-----------------------------------------------------------------------------
(* pick.                                                                   *)

\* A step that keeps the map's elements and adds what it says it adds.
MarksGrow ==
    /\ eps' \in [Marks -> Endpoints \cup {NoEp}]
    /\ epID' \in [Endpoints -> Marks \cup {NoId}]
    /\ nextID' \in Marks
    /\ nftFaults' \in 0 .. MaxNftFaults
    /\ \A e \in Endpoints : epID'[e] # NoId => eps'[epID'[e]] = e
    /\ \A m \in Marks : eps[m] \in Endpoints => eps'[m] = eps[m]

\* The packet at the head, being fl[Head(queue)], is dropped or sent to an
\* endpoint of es with a mark that stands for it.
Handled(fl, es) ==
    \E p \in FlowRecords :
        /\ Verdict(fl, p)
        /\ \/ p = Idle
           \/ /\ p.st = "marked"
              /\ p.svc = fl[Head(queue)].svc
              /\ p.late = fl[Head(queue)].late
              /\ p.want \in es
              /\ eps'[p.mark] = p.want

LEMMA DropHandled ==
    ASSUME NEW fl, NEW es, Drop(fl)
    PROVE  Handled(fl, es)
  BY IdleType DEF Drop, Handled

LEMMA RepeatHandled ==
    ASSUME NEW fl \in [Flows -> FlowRecords], NEW es \in SUBSET Endpoints,
           NEW e \in es, NEW m \in Marks, Head(queue) \in Flows,
           eps'[m] = e, Repeat(fl, m, e)
    PROVE  Handled(fl, es)
  <1>1. CASE Drop(fl)
    BY <1>1, DropHandled
  <1>2. CASE ~Drop(fl)
    <2> DEFINE p == [fl[Head(queue)] EXCEPT !.st = "marked", !.mark = m, !.want = e]
    <2>1. Verdict(fl, p)
      BY <1>2 DEF Repeat
    <2>2. fl[Head(queue)] \in FlowRecords
      OBVIOUS
    <2>3. /\ p \in FlowRecords
          /\ p.st = "marked"
          /\ p.svc = fl[Head(queue)].svc
          /\ p.late = fl[Head(queue)].late
          /\ p.want = e
          /\ p.mark = m
      BY <2>2 DEF FlowRecords, FlowStates
    <2> HIDE DEF p
    <2> QED
      BY <2>1, <2>3 DEF Handled
  <1> QED
    BY <1>1, <1>2

LEMMA idForHandles ==
    ASSUME TypeOK, MarkInv, NEW fl \in [Flows -> FlowRecords],
           NEW es \in SUBSET Endpoints, NEW e \in es, Head(queue) \in Flows,
           idFor(fl, e)
    PROVE  Handled(fl, es) /\ MarksGrow
  <1> USE NoEpIsNone
  <1>1. CASE epID[e] # NoId
    <2>1. Repeat(fl, epID[e], e) /\ UNCHANGED markVars /\ epID[e] \in Marks
      BY <1>1 DEF idFor, TypeOK
    <2>2. eps'[epID[e]] = e
      BY <1>1, <2>1 DEF MarkInv, markVars
    <2>3. MarksGrow
      BY <2>1 DEF MarksGrow, MarkInv, TypeOK, markVars
    <2> QED
      BY <2>1, <2>2, <2>3, RepeatHandled
  <1>2. CASE epID[e] = NoId
    <2>0. nextID \in Marks /\ (nextID + 1) % MarkMod \in Marks
      <3>1. nextID \in Marks /\ nextID + 1 \in Nat /\ MarkMod \in Nat \ {0}
        BY NumbersAssumption DEF TypeOK, Marks
      <3> QED
        BY <3>1, ModRange DEF Marks
    <2>1. CASE /\ CanAdd(nextID, e)
               /\ eps' = [eps EXCEPT ![nextID] = e]
               /\ epID' = [epID EXCEPT ![e] = nextID]
               /\ nextID' = (nextID + 1) % MarkMod
               /\ Repeat(fl, nextID, e)
               /\ UNCHANGED nftFaults
      <3>1. eps'[nextID] = e
        BY <2>0, <2>1 DEF TypeOK
      <3>2. \A m \in Marks : eps[m] \in Endpoints => eps'[m] = eps[m]
        BY <2>0, <2>1 DEF TypeOK, CanAdd
      <3>3. \A x \in Endpoints : epID'[x] # NoId => eps'[epID'[x]] = x
        BY <2>0, <2>1, <3>1, <3>2 DEF TypeOK, MarkInv
      <3>4. MarksGrow
        BY <2>0, <2>1, <3>2, <3>3 DEF MarksGrow, TypeOK
      <3> QED
        BY <2>0, <2>1, <3>1, <3>4, RepeatHandled
    <2>2. CASE /\ CanAdd(nextID, e) => nftFaults < MaxNftFaults
               /\ nftFaults' = IF CanAdd(nextID, e) THEN nftFaults + 1 ELSE nftFaults
               /\ eps' \in {eps} \cup IF CanAdd(nextID, e)
                                       THEN {[eps EXCEPT ![nextID] = e]} ELSE {}
               /\ nextID' = (nextID + 1) % MarkMod
               /\ UNCHANGED epID
               /\ Drop(fl)
      <3>1. \A m \in Marks : eps[m] \in Endpoints => eps'[m] = eps[m]
        BY <2>0, <2>2 DEF TypeOK, CanAdd
      <3>2. \A x \in Endpoints : epID'[x] # NoId => eps'[epID'[x]] = x
        BY <2>2, <3>1 DEF TypeOK, MarkInv
      <3>3. nftFaults' \in 0 .. MaxNftFaults
        BY <2>2, NumbersAssumption DEF TypeOK
      <3>4. eps' \in [Marks -> Endpoints \cup {NoEp}]
        BY <2>0, <2>2 DEF TypeOK
      <3>5. MarksGrow
        BY <2>0, <2>2, <3>1, <3>2, <3>3, <3>4 DEF MarksGrow, TypeOK
      <3> QED
        BY <2>2, <3>5, DropHandled
    <2> QED
      BY <1>2, <2>1, <2>2 DEF idFor
  <1> QED
    BY <1>1, <1>2

\* The rest of pick: the entry ent is kept, and a flow gets one of its
\* endpoints or nothing.
LEMMA PickFromHandles ==
    ASSUME TypeOK, MarkInv, NEW fl \in [Flows -> FlowRecords],
           NEW s \in Services, NEW ent \in Entries, Head(queue) \in Flows,
           PickFrom(fl, s, ent)
    PROVE  /\ Handled(fl, Elems(ent.eps))
           /\ MarksGrow
           /\ \E c \in Entries : /\ cache' = [cache EXCEPT ![s] = c]
                                 /\ c.eps = ent.eps
                                 /\ c.left = ent.left
  <1>0. /\ ent.eps \in Seq(Endpoints)
        /\ Len(ent.eps) \in Nat
        /\ DOMAIN ent.eps = 1 .. Len(ent.eps)
        /\ ent.rr \in 0 .. (RRMod - 1)
    BY LenProperties DEF Entries
  <1>1. CASE ent.eps = <<>>
    <2>1. MarksGrow
      BY <1>1 DEF PickFrom, MarksGrow, MarkInv, TypeOK, markVars
    <2> QED
      BY <1>1, <2>1, DropHandled DEF PickFrom
  <1>2. CASE ent.eps # <<>>
    <2> DEFINE i == (ent.rr % Len(ent.eps)) + 1
               c == [ent EXCEPT !.rr = (@ + 1) % RRMod]
    <2>1. Len(ent.eps) \in Nat \ {0} /\ ent.rr \in Nat /\ ent.rr + 1 \in Nat
      BY <1>0, <1>2, EmptySeq, NumbersAssumption
    <2>2. ent.rr % Len(ent.eps) \in 0 .. (Len(ent.eps) - 1)
      BY <2>1, ModRange
    <2>3. i \in 1 .. Len(ent.eps)
      BY <2>1, <2>2
    <2>4. ent.eps[i] \in Elems(ent.eps)
      BY <1>0, <2>3 DEF Elems
    <2>5. Elems(ent.eps) \in SUBSET Endpoints
      BY <1>0, LenProperties DEF Elems
    <2>6. (ent.rr + 1) % RRMod \in 0 .. (RRMod - 1)
      BY <2>1, ModRange, NumbersAssumption
    <2>7. c \in Entries /\ c.eps = ent.eps /\ c.left = ent.left
      BY <2>6 DEF Entries
    <2>8. cache' = [cache EXCEPT ![s] = c] /\ idFor(fl, ent.eps[i])
      BY <1>2 DEF PickFrom
    <2> HIDE DEF i, c
    <2>9. Handled(fl, Elems(ent.eps)) /\ MarksGrow
      BY <2>4, <2>5, <2>8, idForHandles
    <2> QED
      BY <2>7, <2>8, <2>9
  <1> QED
    BY <1>1, <1>2

\* A flush resets open flows and marks late ones; nothing else changes.
LEMMA FlushedType ==
    ASSUME TypeOK, NEW s \in Services, NEW gone
    PROVE  /\ Flushed(s, gone) \in [Flows -> FlowRecords]
           /\ \A f \in Flows :
                 \/ Flushed(s, gone)[f] = Idle /\ flow[f].st = "open"
                 \/ /\ \/ flow[f].st # "open"
                       \/ ~hasTool
                       \/ flow[f].dst \notin gone
                    /\ Flushed(s, gone)[f].st = flow[f].st
                    /\ Flushed(s, gone)[f].svc = flow[f].svc
                    /\ Flushed(s, gone)[f].mark = flow[f].mark
                    /\ Flushed(s, gone)[f].want = flow[f].want
                    /\ Flushed(s, gone)[f].dst = flow[f].dst
                    /\ Flushed(s, gone)[f].late =
                          (flow[f].late \/ (flow[f].st = "marked" /\ flow[f].svc = s
                                              /\ flow[f].want \in gone))
  <1> DEFINE late(f) == \/ flow[f].late
                        \/ /\ flow[f].st = "marked"
                           /\ flow[f].svc = s
                           /\ flow[f].want \in gone
             g(f) == [flow[f] EXCEPT !.late = late(f)]
             F == flushConntrackTo(gone)
  <1>1. Flushed(s, gone) = [f \in Flows |-> IF f \in F THEN Idle ELSE g(f)]
    BY DEF Flushed
  <1>2. \A f \in Flows : late(f) \in BOOLEAN
    OBVIOUS
  <1>3. \A f \in Flows : flow[f] \in FlowRecords
    BY DEF TypeOK
  <1>4. ASSUME NEW f \in Flows
        PROVE  /\ g(f) \in FlowRecords
               /\ g(f).st = flow[f].st
               /\ g(f).svc = flow[f].svc
               /\ g(f).mark = flow[f].mark
               /\ g(f).want = flow[f].want
               /\ g(f).dst = flow[f].dst
               /\ g(f).late = late(f)
    <2> HIDE DEF late
    <2> QED
      BY <1>2, <1>3 DEF FlowRecords
  <1>5. \A f \in F : flow[f].st = "open"
    BY DEF flushConntrackTo
  <1>6. \A f \in Flows \ F : \/ flow[f].st # "open"
                             \/ ~hasTool
                             \/ flow[f].dst \notin gone
    BY DEF flushConntrackTo
  <1>7. F \subseteq Flows
    BY DEF flushConntrackTo
  <1>8. Flushed(s, gone) \in [Flows -> FlowRecords]
    <2> HIDE DEF g, F
    <2> QED
      BY <1>1, <1>4, IdleType
  <1>9. ASSUME NEW f \in Flows
        PROVE  Flushed(s, gone)[f] = IF f \in F THEN Idle ELSE g(f)
    <2> HIDE DEF g, F
    <2> QED
      BY <1>1
  <1> HIDE DEF F, g
  <1>10. ASSUME NEW f \in F
         PROVE  Flushed(s, gone)[f] = Idle /\ flow[f].st = "open"
    BY <1>5, <1>7, <1>9
  <1>11. ASSUME NEW f \in Flows \ F
         PROVE  Flushed(s, gone)[f] = g(f)
    BY <1>9
  <1>12. ASSUME NEW f \in Flows
         PROVE  \/ Flushed(s, gone)[f] = Idle /\ flow[f].st = "open"
                \/ /\ \/ flow[f].st # "open"
                      \/ ~hasTool
                      \/ flow[f].dst \notin gone
                   /\ Flushed(s, gone)[f].st = flow[f].st
                   /\ Flushed(s, gone)[f].svc = flow[f].svc
                   /\ Flushed(s, gone)[f].mark = flow[f].mark
                   /\ Flushed(s, gone)[f].want = flow[f].want
                   /\ Flushed(s, gone)[f].dst = flow[f].dst
                   /\ Flushed(s, gone)[f].late = late(f)
    <2>1. CASE f \in F
      BY <2>1, <1>10
    <2>2. CASE f \notin F
      <3>1. Flushed(s, gone)[f] = g(f)
        BY <2>2, <1>11
      <3> HIDE DEF late
      <3> QED
        BY <3>1, <2>2, <1>4, <1>6
    <2> QED
      BY <2>1, <2>2
  <1> QED
    BY <1>8, <1>12

\* What NewFlowsFresh says of one step.
NewFlowStep ==
    \A f \in Flows :
        (flow[f].st = "queued" /\ flow'[f].st = "marked")
            => since[flow[f].svc][flow'[f].want.addr] <= MaxStale

\* The flows of fl are those of flow, except that open ones may be reset.
Resets(fl) ==
    \A f \in Flows :
        \/ fl[f] = Idle /\ flow[f].st = "open"
        \/ /\ fl[f].st = flow[f].st
           /\ fl[f].svc = flow[f].svc
           /\ fl[f].mark = flow[f].mark
           /\ fl[f].want = flow[f].want
           /\ fl[f].dst = flow[f].dst

\* The flows of fl are where the load balancer holds them, entry c included.
Pinned(fl, c) ==
    \A f \in Flows :
        (~fl[f].late /\ (fl[f].st = "marked" \/ (fl[f].st = "open" /\ hasTool)))
            => fl[f].want \in IF fl[f].svc = HeadService THEN Elems(c.eps)
                                                       ELSE Cached(fl[f].svc)

LEMMA HeadIsQueued ==
    ASSUME TypeOK, QueueInv, queue # <<>>
    PROVE  /\ Head(queue) \in Flows
           /\ Head(queue) = queue[1]
           /\ Len(queue) \in Nat \ {0}
           /\ flow[Head(queue)].st = "queued"
  <1>1. queue \in Seq(Flows)
    BY DEF TypeOK
  <1>2. Head(queue) \in Flows /\ Head(queue) = queue[1] /\ Len(queue) \in Nat \ {0}
    BY <1>1, HeadTailProperties, EmptySeq
  <1> QED
    BY <1>2 DEF QueueInv

\* The verdict takes the head off the queue and leaves the others queued.
LEMMA HandledQueue ==
    ASSUME TypeOK, QueueInv, queue # <<>>, NEW fl \in [Flows -> FlowRecords],
           Resets(fl), NEW es, Handled(fl, es)
    PROVE  /\ QueueInv'
           /\ queue' \in Seq(Flows)
           /\ flow' \in [Flows -> FlowRecords]
           /\ query' = "none" /\ answer' = Error /\ waited' = 0
  <1>1. PICK p \in FlowRecords : Verdict(fl, p)
    BY DEF Handled
  <1>2. /\ queue' = Tail(queue)
        /\ flow' = [fl EXCEPT ![Head(queue)] = p]
        /\ query' = "none" /\ answer' = Error /\ waited' = 0
    BY <1>1 DEF Verdict
  <1>3. /\ queue \in Seq(Flows)
        /\ Tail(queue) \in Seq(Flows)
        /\ Len(Tail(queue)) = Len(queue) - 1
        /\ \A i \in 1 .. Len(Tail(queue)) : Tail(queue)[i] = queue[i + 1]
    BY HeadTailProperties DEF TypeOK
  <1>4. Head(queue) \in Flows /\ Head(queue) = queue[1] /\ Len(queue) \in Nat \ {0}
    BY HeadIsQueued
  <1>5. \A i \in 1 .. Len(queue') : /\ i + 1 \in 1 .. Len(queue)
                                    /\ queue'[i] = queue[i + 1]
    BY <1>2, <1>3, <1>4
  <1>6. \A i \in 1 .. Len(queue') : flow'[queue'[i]].st = "queued"
    <2> TAKE i \in 1 .. Len(queue')
    <2>1. i + 1 \in 1 .. Len(queue) /\ 1 \in 1 .. Len(queue) /\ i + 1 # 1
      BY <1>4, <1>5
    <2>2. queue[i + 1] # Head(queue) /\ flow[queue[i + 1]].st = "queued"
      BY <1>4, <2>1 DEF QueueInv
    <2>3. queue[i + 1] \in Flows
      BY <1>3, <2>1, ElementOfSeq
    <2>4. fl[queue[i + 1]].st = "queued"
      BY <2>2, <2>3 DEF Resets
    <2> QED
      BY <1>2, <1>5, <2>2, <2>3, <2>4
  <1>7. \A i, j \in 1 .. Len(queue') : queue'[i] = queue'[j] => i = j
    <2> TAKE i, j \in 1 .. Len(queue')
    <2>1. (i + 1 = j + 1) => i = j
      BY <1>2, <1>3, <1>4
    <2> QED
      BY <1>5, <2>1 DEF QueueInv
  <1>8. flow' \in [Flows -> FlowRecords]
    BY <1>2
  <1> QED
    BY <1>2, <1>3, <1>6, <1>7, <1>8 DEF QueueInv

\* Marks keep their meaning.
LEMMA HandledMarks ==
    ASSUME TypeOK, QueueInv, MarkInv, queue # <<>>, HeadService \in Services,
           NEW fl \in [Flows -> FlowRecords], Resets(fl),
           NEW es \in SUBSET Endpoints, Handled(fl, es), MarksGrow
    PROVE  MarkInv'
  <1>1. PICK p \in FlowRecords :
           /\ flow' = [fl EXCEPT ![Head(queue)] = p]
           /\ \/ p = Idle
              \/ /\ p.st = "marked"
                 /\ p.svc = fl[Head(queue)].svc
                 /\ p.want \in es
                 /\ eps'[p.mark] = p.want
    BY DEF Handled, Verdict
  <1>2. Head(queue) \in Flows /\ flow[Head(queue)].st = "queued"
    BY HeadIsQueued
  <1>3. p.st = "marked" => p.svc \in Services
    BY <1>1, <1>2 DEF Resets, HeadService, Idle
  <1>4. ASSUME NEW f \in Flows
        PROVE  /\ flow'[f].st = "marked" => /\ flow'[f].want \in Endpoints
                                            /\ eps'[flow'[f].mark] = flow'[f].want
               /\ flow'[f].st = "open" => flow'[f].dst = flow'[f].want
               /\ flow'[f].st \in {"marked", "open"} => flow'[f].svc \in Services
    <2>1. CASE f = Head(queue)
      <3>1. flow'[f] = p
        BY <1>1, <2>1
      <3> QED
        BY <1>1, <1>3, <3>1 DEF Idle
    <2>2. CASE f # Head(queue) /\ fl[f] = Idle
      BY <1>1, <2>2 DEF Idle
    <2>3. CASE f # Head(queue) /\ fl[f] # Idle
      <3>1. flow'[f] = fl[f]
        BY <1>1, <2>3
      <3>2. /\ fl[f].st = flow[f].st
            /\ fl[f].svc = flow[f].svc
            /\ fl[f].mark = flow[f].mark
            /\ fl[f].want = flow[f].want
            /\ fl[f].dst = flow[f].dst
        BY <2>3 DEF Resets
      <3>3. flow[f].mark \in Marks
        BY DEF TypeOK, FlowRecords
      <3>4. flow[f].st = "marked" => eps'[flow[f].mark] = eps[flow[f].mark]
        BY <3>3 DEF MarkInv, MarksGrow
      <3> QED
        BY <3>1, <3>2, <3>4 DEF MarkInv
    <2> QED
      BY <2>1, <2>2, <2>3
  <1> QED
    BY <1>4 DEF MarkInv, MarksGrow

\* Flows stay where the load balancer holds them, and the new one is fresh.
LEMMA HandledPins ==
    ASSUME TypeOK, QueueInv, queue # <<>>, HeadService \in Services,
           NEW fl \in [Flows -> FlowRecords], Resets(fl), NEW c \in Entries,
           Pinned(fl, c), Handled(fl, Elems(c.eps)),
           \A e \in Elems(c.eps) : since[HeadService][e.addr] <= MaxStale,
           cache' = [cache EXCEPT ![HeadService] = c], UNCHANGED hasTool,
           MarkInv
    PROVE  PinInv' /\ NewFlowStep
  <1>1. PICK p \in FlowRecords :
           /\ flow' = [fl EXCEPT ![Head(queue)] = p]
           /\ \/ p = Idle
              \/ /\ p.st = "marked"
                 /\ p.svc = fl[Head(queue)].svc
                 /\ p.want \in Elems(c.eps)
    BY DEF Handled, Verdict
  <1>2. Head(queue) \in Flows /\ flow[Head(queue)].st = "queued"
    BY HeadIsQueued
  <1>3. p.st = "marked" => p.svc = HeadService
    BY <1>1, <1>2 DEF Resets, HeadService, Idle
  <1>4. \A s \in Services : Elems(cache'[s].eps) =
           IF s = HeadService THEN Elems(c.eps) ELSE Cached(s)
    BY DEF Cached, TypeOK
  <1>5. ASSUME NEW f \in Flows, ~flow'[f].late,
               flow'[f].st = "marked" \/ (flow'[f].st = "open" /\ hasTool')
        PROVE  flow'[f].want \in Elems(cache'[flow'[f].svc].eps)
    <2>1. CASE f = Head(queue)
      <3>1. flow'[f] = p /\ p # Idle
        BY <1>1, <1>5, <2>1 DEF Idle
      <3> QED
        BY <1>1, <1>3, <1>4, <3>1
    <2>2. CASE f # Head(queue)
      <3>1. flow'[f] = fl[f] /\ fl[f] # Idle
        BY <1>1, <1>5, <2>2 DEF Idle
      <3>2. fl[f].svc \in Services
        BY <1>5, <3>1 DEF Resets, MarkInv
      <3> QED
        BY <1>4, <1>5, <3>1, <3>2 DEF Pinned
    <2> QED
      BY <2>1, <2>2
  <1>6. ASSUME NEW f \in Flows, flow[f].st = "queued", flow'[f].st = "marked"
        PROVE  since[flow[f].svc][flow'[f].want.addr] <= MaxStale
    <2>1. f = Head(queue)
      BY <1>1, <1>6 DEF Resets, Idle
    <2>2. flow'[f] = p /\ flow[f].svc = HeadService
      BY <1>1, <1>2, <2>1 DEF HeadService
    <2> QED
      BY <1>1, <1>6, <2>2 DEF Idle
  <1>7. PinInv'
    BY <1>5 DEF PinInv, Cached
  <1>8. NewFlowStep
    BY <1>6 DEF NewFlowStep
  <1> QED
    BY <1>7, <1>8

LEMMA PickKeeps ==
    ASSUME IInv, queue # <<>>, HeadService \in Services,
           NEW fl \in [Flows -> FlowRecords], Resets(fl),
           NEW ent \in Entries, ent.left >= 0, Pinned(fl, ent),
           PickFrom(fl, HeadService, ent), LBOnly,
           \A e \in Elems(ent.eps) :
               since[HeadService][e.addr] <= MaxStale - ent.left
    PROVE  IInv' /\ NewFlowStep
  <1> USE DEF IInv
  <1>1. Head(queue) \in Flows
    BY HeadIsQueued
  <1>2. Handled(fl, Elems(ent.eps)) /\ MarksGrow
    BY <1>1, PickFromHandles
  <1>3. PICK c \in Entries : /\ cache' = [cache EXCEPT ![HeadService] = c]
                             /\ c.eps = ent.eps
                             /\ c.left = ent.left
    BY <1>1, PickFromHandles
  <1>4. Elems(c.eps) \in SUBSET Endpoints
    BY LenProperties DEF Elems, Entries
  <1>5. /\ QueueInv'
        /\ queue' \in Seq(Flows)
        /\ flow' \in [Flows -> FlowRecords]
        /\ query' = "none" /\ answer' = Error /\ waited' = 0
    BY <1>2, HandledQueue
  <1>6. MarkInv'
    BY <1>2, <1>3, <1>4, HandledMarks
  <1>7. MaxStale - ent.left <= MaxStale /\ MaxStale \in Nat
    BY NumbersAssumption DEF MaxStale, Entries
  <1>8. \A e \in Elems(c.eps) : since[HeadService][e.addr] <= MaxStale
    <2> TAKE e \in Elems(c.eps)
    <2>1. since[HeadService][e.addr] \in Nat
      BY <1>4, <1>7 DEF TypeOK, Endpoints
    <2>2. since[HeadService][e.addr] <= MaxStale - ent.left
      BY <1>3
    <2> QED
      BY <1>7, <2>1, <2>2 DEF Entries
  <1>9. PinInv' /\ NewFlowStep
    <2>1. Pinned(fl, c)
      BY <1>3 DEF Pinned
    <2> QED
      BY <1>2, <1>3, <1>8, <2>1, HandledPins DEF LBOnly
  <1>10. TypeOK'
    <2>1. Error \in [ok : BOOLEAN, eps : Seq(Endpoints), ttl : 0 .. TTLReady]
          /\ 0 \in 0 .. Deadline
      BY NumbersAssumption DEF Error
    <2>2. cache' \in [Services -> Entries]
      BY <1>3 DEF TypeOK
    <2> QED
      BY <1>2, <1>5, <2>1, <2>2 DEF TypeOK, LBOnly, agentVars, MarksGrow
  <1>11. FreshInv'
    <2>1. \A s \in Services : Backends(s)' = Backends(s)
      BY DEF Backends, LBOnly, agentVars
    <2>2. \A s \in Services : \A a \in Backends(s)' : since'[s][a] = 0
      BY <2>1 DEF FreshInv, LBOnly
    <2>3. ASSUME NEW s \in Services, cache'[s].left >= 0
          PROVE  \A e \in Cached(s)' : since'[s][e.addr] <= MaxStale - cache'[s].left
      <3>1. CASE s = HeadService
        BY <1>3, <3>1 DEF Cached, LBOnly, TypeOK
      <3>2. CASE s # HeadService
        BY <1>3, <2>3, <3>2 DEF Cached, LBOnly, TypeOK, FreshInv
      <3> QED
        BY <3>1, <3>2
    <2> QED
      BY <1>5, <2>2, <2>3 DEF FreshInv, MaxStale
  <1> QED
    BY <1>5, <1>6, <1>9, <1>10, <1>11

\* The packet at the head is dropped, and nothing else changes.
LEMMA DropKeeps ==
    ASSUME IInv, queue # <<>>, Drop(flow), UNCHANGED <<markVars, cache>>, LBOnly
    PROVE  IInv' /\ NewFlowStep
  <1> USE DEF IInv
  <1>1. Head(queue) \in Flows
    BY HeadIsQueued
  <1>2. flow \in [Flows -> FlowRecords] /\ Resets(flow)
    BY DEF TypeOK, Resets
  <1>3. Handled(flow, {})
    BY DropHandled
  <1>4. /\ QueueInv'
        /\ queue' \in Seq(Flows)
        /\ flow' \in [Flows -> FlowRecords]
        /\ query' = "none" /\ answer' = Error /\ waited' = 0
    BY <1>2, <1>3, HandledQueue
  <1>5. \A f \in Flows : flow'[f] = flow[f] \/ flow'[f] = Idle
    BY <1>1, <1>2 DEF Drop, Verdict
  <1>6. MarkInv' /\ NewFlowStep
    BY <1>5 DEF MarkInv, markVars, NewFlowStep, Idle
  <1>7. PinInv'
    BY <1>5 DEF PinInv, Idle, Cached, LBOnly
  <1>8. TypeOK'
    <2>1. Error \in [ok : BOOLEAN, eps : Seq(Endpoints), ttl : 0 .. TTLReady]
          /\ 0 \in 0 .. Deadline
      BY NumbersAssumption DEF Error
    <2> QED
      BY <1>4, <2>1 DEF TypeOK, LBOnly, agentVars, markVars
  <1>9. FreshInv'
    BY <1>4 DEF FreshInv, Backends, Cached, LBOnly, agentVars
  <1> QED
    BY <1>4, <1>6, <1>7, <1>8, <1>9

-----------------------------------------------------------------------------
(* One lemma per action.                                                   *)

LEMMA UnparsableKeeps ==
    ASSUME IInv, Unparsable
    PROVE  IInv' /\ NewFlowStep
  BY DropKeeps DEF Unparsable, Waiting

LEMMA QueryFailsKeeps ==
    ASSUME IInv, QueryFails
    PROVE  IInv' /\ NewFlowStep
  BY DropKeeps DEF QueryFails, IInv, QueueInv

LEMMA PickErrorKeeps ==
    ASSUME IInv, PickError
    PROVE  IInv' /\ NewFlowStep
  BY DropKeeps DEF PickError, IInv, QueueInv

\* A head that can be parsed goes to a service.
LEMMA HeadServiceType ==
    ASSUME TypeOK, QueueInv, queue # <<>>
    PROVE  HeadService \in Services \cup {Unparsed}
  <1>1. flow[Head(queue)] \in FlowRecords
    BY HeadIsQueued DEF TypeOK
  <1> QED
    BY <1>1 DEF HeadService, FlowRecords

LEMMA PickCachedKeeps ==
    ASSUME IInv, PickCached
    PROVE  IInv' /\ NewFlowStep
  <1> USE DEF IInv
  <1>1. queue # <<>> /\ HeadService \in Services
    BY HeadServiceType DEF PickCached, Waiting
  <1>2. cache[HeadService] \in Entries
    BY <1>1 DEF TypeOK
  <1>3. cache[HeadService].left >= 0
    BY <1>2 DEF PickCached, Expired, Entries
  <1>4. flow \in [Flows -> FlowRecords] /\ Resets(flow)
    BY DEF TypeOK, Resets
  <1>5. Pinned(flow, cache[HeadService])
    BY DEF PinInv, Pinned, Cached
  <1>6. \A e \in Elems(cache[HeadService].eps) :
           since[HeadService][e.addr] <= MaxStale - cache[HeadService].left
    BY <1>1, <1>3 DEF FreshInv, Cached
  <1> QED
    BY <1>1, <1>2, <1>3, <1>4, <1>5, <1>6, PickKeeps DEF PickCached

LEMMA PickAnsweredKeeps ==
    ASSUME IInv, PickAnswered
    PROVE  IInv' /\ NewFlowStep
  <1> USE DEF IInv
  <1> DEFINE s == HeadService
             gone == reconcileEndpoints(cache[s].eps, answer.eps)
             fl == Flushed(s, gone)
             ent == [eps |-> answer.eps, left |-> answer.ttl, rr |-> cache[s].rr]
  <1>1. queue # <<>> /\ s \in Services
    BY DEF PickAnswered, QueueInv
  <1>2. cache[s] \in Entries
    BY <1>1 DEF TypeOK
  <1>3. ent \in Entries /\ ent.left >= 0 /\ ent.eps = answer.eps /\ ent.left = answer.ttl
    BY <1>2, NumbersAssumption DEF TypeOK, Entries
  <1>4. fl \in [Flows -> FlowRecords] /\ Resets(fl)
    <2> HIDE DEF gone
    <2> QED
      BY <1>1, FlushedType DEF Resets
  <1>5. Pinned(fl, ent)
    <2> SUFFICES ASSUME NEW f \in Flows, ~fl[f].late,
                        fl[f].st = "marked" \/ (fl[f].st = "open" /\ hasTool)
                 PROVE  fl[f].want \in IF fl[f].svc = s THEN Elems(answer.eps)
                                                       ELSE Cached(fl[f].svc)
      BY <1>3 DEF Pinned
    <2>1. fl[f] # Idle
      BY DEF Idle
    <2>2. /\ flow[f].st # "open" \/ ~hasTool \/ flow[f].dst \notin gone
          /\ fl[f].st = flow[f].st
          /\ fl[f].svc = flow[f].svc
          /\ fl[f].want = flow[f].want
          /\ fl[f].late = (flow[f].late \/ (flow[f].st = "marked" /\ flow[f].svc = s
                                              /\ flow[f].want \in gone))
      <3> HIDE DEF gone
      <3> QED
        BY <1>1, <2>1, FlushedType
    <2>3. ~flow[f].late
      BY <2>2
    <2>4. flow[f].want \in Cached(flow[f].svc)
      BY <2>2, <2>3 DEF PinInv
    <2>5. CASE fl[f].svc = s
      <3>1. flow[f].want \notin gone
        <4>1. CASE flow[f].st = "marked"
          BY <2>2, <2>5, <4>1
        <4>2. CASE flow[f].st = "open"
          BY <2>2, <4>2 DEF MarkInv
        <4> QED
          BY <2>2, <4>1, <4>2
      <3> QED
        BY <2>2, <2>4, <2>5, <3>1 DEF reconcileEndpoints, Cached
    <2>6. CASE fl[f].svc # s
      BY <2>2, <2>4, <2>6
    <2> QED
      BY <2>5, <2>6
  <1>6. \A e \in Elems(ent.eps) : since[s][e.addr] <= MaxStale - ent.left
    <2>1. TAKE e \in Elems(ent.eps)
    <2>2. Elems(answer.eps) \in SUBSET Endpoints
      BY LenProperties DEF Elems, TypeOK
    <2>3. since[s][e.addr] \in Int
      BY <1>1, <1>3, <2>2, NumbersAssumption DEF TypeOK, Endpoints, MaxStale
    <2>4. since[s][e.addr] <= waited
      BY <1>3 DEF FreshInv, PickAnswered
    <2>5. waited \in 0 .. Deadline /\ answer.ttl \in 0 .. TTLReady
      BY DEF TypeOK
    <2>6. \A n \in Int : n <= waited => n <= (TTLReady + Deadline) - answer.ttl
      BY <2>5, NumbersAssumption
    <2>7. since[s][e.addr] <= (TTLReady + Deadline) - answer.ttl
      BY <2>3, <2>4, <2>6
    <2>8. ent.left = answer.ttl
      BY <1>3
    <2> HIDE DEF ent, s, fl, IInv
    <2> QED
      BY <2>7, <2>8 DEF MaxStale
  <1>7. PickFrom(fl, s, ent) /\ LBOnly
    BY DEF PickAnswered
  <1> HIDE DEF fl, ent
  <1> QED
    BY <1>1, <1>3, <1>4, <1>5, <1>6, <1>7, PickKeeps

LEMMA SendQueryKeeps ==
    ASSUME IInv, SendQuery
    PROVE  IInv' /\ NewFlowStep
  <1> USE DEF IInv
  <1>1. queue # <<>> /\ HeadService \in Services
    BY HeadServiceType DEF SendQuery, Waiting
  <1>2. TypeOK'
    BY DEF TypeOK, SendQuery, agentVars, markVars
  <1>3. QueueInv'
    BY <1>1 DEF QueueInv, SendQuery, HeadService
  <1>4. MarkInv' /\ PinInv' /\ NewFlowStep
    BY DEF MarkInv, PinInv, NewFlowStep, Cached, SendQuery, markVars
  <1>5. FreshInv'
    BY DEF FreshInv, Backends, Cached, SendQuery, agentVars
  <1> QED
    BY <1>2, <1>3, <1>4, <1>5

LEMMA serveSvcConnKeeps ==
    ASSUME IInv, serveSvcConn
    PROVE  IInv' /\ NewFlowStep
  <1> USE DEF IInv
  <1>1. HeadService \in Services
    BY DEF serveSvcConn, QueueInv
  <1>2. /\ answer' \in [ok : BOOLEAN, eps : Seq(Endpoints), ttl : 0 .. TTLReady]
        /\ \A e \in Elems(answer'.eps) : e.addr \in Backends(HeadService)
    BY <1>1, AnswersAreBackends DEF serveSvcConn
  <1>3. TypeOK'
    BY <1>2 DEF TypeOK, serveSvcConn, agentVars, markVars
  <1>4. QueueInv'
    BY DEF QueueInv, serveSvcConn, HeadService
  <1>5. MarkInv' /\ PinInv' /\ NewFlowStep
    BY DEF MarkInv, PinInv, NewFlowStep, Cached, serveSvcConn, markVars
  <1>6. FreshInv'
    <2>1. \A e \in Elems(answer'.eps) : since[HeadService][e.addr] = 0
      BY <1>1, <1>2 DEF FreshInv
    <2>2. \A e \in Elems(answer'.eps) : since'[HeadService'][e.addr] <= waited'
      BY <2>1, NumbersAssumption DEF serveSvcConn, HeadService, TypeOK
    <2> QED
      BY <2>2 DEF FreshInv, Backends, Cached, serveSvcConn, agentVars
  <1> QED
    BY <1>3, <1>4, <1>5, <1>6

\* The agent learns something new: Sync, StaticPodChanges, SlicesChange.
LEMMA AgentKeeps ==
    ASSUME IInv, AgentChanges,
           synced' \in BOOLEAN,
           static' \in [Services -> {"no", "waiting"} \cup Addrs],
           slices' \in [Services -> {NoSlices} \cup SUBSET Addrs],
           changes' \in 0 .. MaxChanges
    PROVE  IInv' /\ NewFlowStep
  <1> USE DEF IInv
  <1>0. MaxStale \in Nat
    BY NumbersAssumption DEF MaxStale
  <1>1. \A s \in Services, a \in Addrs :
           /\ since'[s][a] \in {0, since[s][a]}
           /\ a \in Backends(s)' => since'[s][a] = 0
    BY DEF AgentChanges
  <1>2. since' \in [Services -> [Addrs -> 0 .. (MaxStale + 1)]]
    BY <1>0 DEF AgentChanges, TypeOK
  <1>3. TypeOK'
    BY <1>2 DEF TypeOK, AgentChanges, markVars, queryVars
  <1>4. QueueInv' /\ MarkInv' /\ PinInv' /\ NewFlowStep
    BY DEF QueueInv, MarkInv, PinInv, NewFlowStep, Cached, HeadService, AgentChanges,
           markVars, queryVars
  <1>5. \A s \in Services : \A a \in Backends(s)' : since'[s][a] = 0
    BY <1>1 DEF Backends
  <1>6. \A s \in Services, a \in Addrs, n \in Int :
           (since[s][a] <= n /\ 0 <= n) => since'[s][a] <= n
    BY <1>1
  <1>7. ASSUME NEW s \in Services, cache'[s].left >= 0, NEW e \in Elems(cache'[s].eps)
        PROVE  since'[s][e.addr] <= MaxStale - cache'[s].left
    <2>1. cache' = cache /\ cache[s] \in Entries
      BY DEF AgentChanges, TypeOK
    <2>2. e \in Endpoints
      BY <2>1, LenProperties DEF Elems, Entries
    <2>3. MaxStale - cache[s].left \in Nat
      BY <1>0, <1>7, <2>1, NumbersAssumption DEF Entries, MaxStale
    <2>4. since[s][e.addr] <= MaxStale - cache[s].left
      BY <1>7, <2>1 DEF FreshInv, Cached
    <2>5. e.addr \in Addrs
      BY <2>2 DEF Endpoints
    <2> QED
      BY <1>6, <2>1, <2>3, <2>4, <2>5
  <1>8. ASSUME query' = "answered", answer'.ok, NEW e \in Elems(answer'.eps)
        PROVE  since'[HeadService'][e.addr] <= waited'
    <2>1. /\ HeadService' = HeadService /\ answer' = answer /\ waited' = waited
          /\ query' = query
      BY DEF AgentChanges, HeadService, queryVars
    <2>2. HeadService \in Services /\ waited \in Nat
      BY <1>8, <2>1, NumbersAssumption DEF QueueInv, TypeOK
    <2>3. e \in Endpoints
      BY <2>1, LenProperties DEF Elems, TypeOK
    <2>4. since[HeadService][e.addr] <= waited
      BY <1>8, <2>1 DEF FreshInv
    <2>5. e.addr \in Addrs
      BY <2>3 DEF Endpoints
    <2> QED
      BY <1>6, <2>1, <2>2, <2>4, <2>5
  <1>9. FreshInv'
    BY <1>5, <1>7, <1>8 DEF FreshInv, Cached, MaxStale
  <1> QED
    BY <1>3, <1>4, <1>9

LEMMA FirstPacketKeeps ==
    ASSUME IInv, NEW f \in Flows, NEW s \in Services \cup {Unparsed}, FirstPacket(f, s)
    PROVE  IInv' /\ NewFlowStep
  <1> USE DEF IInv
  <1> DEFINE p == [Idle EXCEPT !.st = "queued", !.svc = s]
  <1>1. /\ p \in FlowRecords
        /\ p.st = "queued"
    BY IdleType DEF FlowRecords, FlowStates
  <1>2. flow' = [flow EXCEPT ![f] = p] /\ queue' = Append(queue, f)
    BY DEF FirstPacket
  <1> HIDE DEF p
  <1>3. queue \in Seq(Flows) /\ Len(queue) \in Nat /\ flow \in [Flows -> FlowRecords]
    BY LenProperties DEF TypeOK
  <1>4. /\ Append(queue, f) \in Seq(Flows)
        /\ Len(Append(queue, f)) = Len(queue) + 1
        /\ \A i \in 1 .. Len(queue) : Append(queue, f)[i] = queue[i]
        /\ Append(queue, f)[Len(queue) + 1] = f
    BY <1>3, AppendProperties
  <1>5. \A i \in 1 .. Len(queue) : queue[i] \in Flows /\ queue[i] # f
    BY <1>3, ElementOfSeq DEF QueueInv, FirstPacket
  <1>6. \A i \in 1 .. Len(queue') : \/ i \in 1 .. Len(queue) /\ queue'[i] = queue[i]
                                    \/ i = Len(queue) + 1 /\ queue'[i] = f
    <2> TAKE i \in 1 .. Len(queue')
    <2>1. /\ Len(queue') = Len(queue) + 1
          /\ \A j \in 1 .. Len(queue) : queue'[j] = queue[j]
          /\ queue'[Len(queue) + 1] = f
      BY <1>2, <1>4, Zenon
    <2>2. i \in 1 .. Len(queue) \/ i = Len(queue) + 1
      BY <1>3, <2>1
    <2>3. CASE i \in 1 .. Len(queue)
      BY <2>1, <2>3
    <2>4. CASE i = Len(queue) + 1
      BY <2>1, <2>4
    <2> QED
      BY <2>2, <2>3, <2>4
  <1>7. \A i \in 1 .. Len(queue') : flow'[queue'[i]].st = "queued"
    BY <1>1, <1>2, <1>3, <1>5, <1>6 DEF QueueInv
  <1>8. \A i, j \in 1 .. Len(queue') : queue'[i] = queue'[j] => i = j
    BY <1>5, <1>6 DEF QueueInv
  <1>9. query # "none" => HeadService' = HeadService /\ queue' # <<>>
    <2> SUFFICES ASSUME query # "none"
                 PROVE  HeadService' = HeadService /\ queue' # <<>>
      OBVIOUS
    <2>1. queue # <<>>
      BY DEF QueueInv
    <2>2. Head(queue) \in Flows /\ Head(queue) = queue[1] /\ Len(queue) \in Nat \ {0}
      BY <2>1, HeadIsQueued
    <2>3. Head(queue) # f
      BY <1>5, <2>2
    <2>4. queue' # <<>> /\ queue' \in Seq(Flows)
      BY <1>2, <1>3, <1>4
    <2>5. Head(queue') = queue'[1]
      BY <2>4, HeadTailProperties
    <2>6. Head(queue') = Head(queue)
      BY <1>2, <1>4, <2>2, <2>5
    <2> QED
      BY <1>2, <1>3, <2>2, <2>3, <2>4, <2>6 DEF HeadService
  <1>10. QueueInv'
    BY <1>7, <1>8, <1>9 DEF QueueInv, FirstPacket, queryVars
  <1>11. TypeOK'
    BY <1>1, <1>2, <1>4 DEF TypeOK, FirstPacket, agentVars, markVars, queryVars
  <1>12. \A g \in Flows : flow'[g] = flow[g] \/ flow'[g].st = "queued"
    BY <1>1, <1>2, <1>3
  <1>13. MarkInv' /\ NewFlowStep
    BY <1>12 DEF MarkInv, NewFlowStep, FirstPacket, markVars
  <1>14. PinInv'
    BY <1>12 DEF PinInv, Cached, FirstPacket
  <1>15. FreshInv'
    BY <1>9 DEF FreshInv, Backends, Cached, FirstPacket, agentVars, queryVars
  <1> QED
    BY <1>10, <1>11, <1>13, <1>14, <1>15

\* A flow that is not queued moves on, to a record p.
LEMMA FlowMoves ==
    ASSUME IInv, NEW f \in Flows, flow[f].st # "queued", NEW p \in FlowRecords,
           flow' = [flow EXCEPT ![f] = p],
           UNCHANGED <<agentVars, since, markVars, cache, queryVars, queue, hasTool>>
    PROVE  /\ TypeOK' /\ QueueInv' /\ FreshInv' /\ NewFlowStep
           /\ \A g \in Flows : flow'[g] = IF g = f THEN p ELSE flow[g]
  <1> USE DEF IInv
  <1>1. \A g \in Flows : flow'[g] = IF g = f THEN p ELSE flow[g]
    BY DEF TypeOK
  <1>2. TypeOK'
    BY DEF TypeOK, agentVars, markVars, queryVars
  <1>3. \A i \in 1 .. Len(queue) : queue[i] \in Flows /\ queue[i] # f
    BY ElementOfSeq DEF QueueInv, TypeOK
  <1>4. query # "none" => HeadService' = HeadService
    BY <1>1, HeadIsQueued DEF HeadService, QueueInv
  <1>5. QueueInv'
    BY <1>1, <1>3, <1>4 DEF QueueInv, queryVars
  <1>6. FreshInv'
    BY <1>4 DEF FreshInv, Backends, Cached, agentVars, queryVars
  <1>7. NewFlowStep
    BY <1>1 DEF NewFlowStep
  <1> QED
    BY <1>1, <1>2, <1>5, <1>6, <1>7

LEMMA CloseKeeps ==
    ASSUME IInv, NEW f \in Flows, Close(f)
    PROVE  IInv' /\ NewFlowStep
  <1> USE DEF IInv
  <1>1. /\ TypeOK' /\ QueueInv' /\ FreshInv' /\ NewFlowStep
        /\ \A g \in Flows : flow'[g] = IF g = f THEN Idle ELSE flow[g]
    BY FlowMoves, IdleType DEF Close
  <1>2. MarkInv'
    BY <1>1 DEF MarkInv, Close, markVars, Idle
  <1>3. PinInv'
    BY <1>1 DEF PinInv, Cached, Close, Idle
  <1> QED
    BY <1>1, <1>2, <1>3

LEMMA RetraverseKeeps ==
    ASSUME IInv, NEW f \in Flows, Retraverse(f)
    PROVE  IInv' /\ NewFlowStep
  <1> USE DEF IInv
  <1> DEFINE p == [flow[f] EXCEPT !.st = "open", !.dst = eps[flow[f].mark]]
  <1>1. flow[f] \in FlowRecords /\ flow[f].mark \in Marks
    BY DEF TypeOK, FlowRecords
  <1>2. eps[flow[f].mark] = flow[f].want /\ flow[f].svc \in Services
    BY DEF MarkInv, Retraverse
  <1>3. flow' = [flow EXCEPT ![f] = p]
    BY <1>1 DEF Retraverse, TypeOK
  <1>4. /\ p \in FlowRecords
        /\ p.st = "open" /\ p.dst = flow[f].want /\ p.want = flow[f].want
        /\ p.svc = flow[f].svc /\ p.late = flow[f].late
    BY <1>1, <1>2 DEF FlowRecords, FlowStates
  <1> HIDE DEF p
  <1>5. /\ TypeOK' /\ QueueInv' /\ FreshInv' /\ NewFlowStep
        /\ \A g \in Flows : flow'[g] = IF g = f THEN p ELSE flow[g]
    BY <1>3, <1>4, FlowMoves DEF Retraverse
  <1>6. MarkInv'
    <2>1. \A e \in Endpoints : epID'[e] # NoId => eps'[epID'[e]] = e
      BY DEF MarkInv, Retraverse, markVars
    <2>2. ASSUME NEW g \in Flows
          PROVE  /\ flow'[g].st = "marked" => /\ flow'[g].want \in Endpoints
                                              /\ eps'[flow'[g].mark] = flow'[g].want
                 /\ flow'[g].st = "open" => flow'[g].dst = flow'[g].want
                 /\ flow'[g].st \in {"marked", "open"} => flow'[g].svc \in Services
      <3>1. CASE g = f
        BY <3>1, <1>2, <1>4, <1>5
      <3>2. CASE g # f
        BY <3>2, <1>5 DEF MarkInv, Retraverse, markVars
      <3> QED
        BY <3>1, <3>2
    <2> QED
      BY <2>1, <2>2 DEF MarkInv
  <1>7. PinInv'
    <2> SUFFICES ASSUME NEW g \in Flows, ~flow'[g].late,
                        flow'[g].st = "marked" \/ (flow'[g].st = "open" /\ hasTool')
                 PROVE  flow'[g].want \in Elems(cache'[flow'[g].svc].eps)
      BY DEF PinInv, Cached
    <2>1. hasTool' = hasTool /\ cache' = cache /\ flow[f].st = "marked"
      BY DEF Retraverse
    <2>2. flow'[g].want = flow[g].want /\ flow'[g].svc = flow[g].svc /\ ~flow[g].late
      BY <1>4, <1>5
    <2>3. flow[g].st = "marked" \/ (flow[g].st = "open" /\ hasTool)
      BY <1>5, <2>1
    <2>4. flow[g].want \in Elems(cache[flow[g].svc].eps)
      BY <2>2, <2>3 DEF PinInv, Cached
    <2> QED
      BY <2>1, <2>2, <2>4
  <1> QED
    BY <1>5, <1>6, <1>7

LEMMA TickKeeps ==
    ASSUME IInv, Tick
    PROVE  IInv' /\ NewFlowStep
  <1> USE DEF IInv
  <1>0. MaxStale \in Nat /\ TTLReady \in Nat /\ Deadline \in Nat
    BY NumbersAssumption DEF MaxStale
  <1>1. ASSUME NEW s \in Services
        PROVE  /\ cache'[s] \in Entries
               /\ cache'[s].eps = cache[s].eps
               /\ cache'[s].left >= 0 => cache'[s].left = cache[s].left - 1
    <2> DEFINE l == IF cache[s].left < 0 THEN cache[s].left ELSE cache[s].left - 1
    <2>1. cache[s] \in Entries
      BY DEF TypeOK
    <2>2. l \in -1 .. TTLReady
      BY <1>0, <2>1 DEF Entries
    <2>3. cache'[s] = [cache[s] EXCEPT !.left = l]
      BY DEF Tick
    <2>4. l >= 0 => l = cache[s].left - 1
      BY <2>1 DEF Entries
    <2> HIDE DEF l
    <2> QED
      BY <2>1, <2>2, <2>3, <2>4 DEF Entries
  <1>2. ASSUME NEW s \in Services, NEW a \in Addrs
        PROVE  /\ since'[s][a] \in 0 .. (MaxStale + 1)
               /\ since'[s][a] \in {0, since[s][a], since[s][a] + 1}
               /\ a \in Backends(s) => since'[s][a] = 0
    <2>1. since[s][a] \in 0 .. (MaxStale + 1)
      BY DEF TypeOK
    <2>2. since'[s][a] = CASE a \in Backends(s) -> 0
                           [] a \notin Backends(s) /\ since[s][a] > MaxStale -> since[s][a]
                           [] OTHER -> since[s][a] + 1
      BY DEF Tick
    <2>3. CASE a \in Backends(s)
      BY <1>0, <2>2, <2>3
    <2>4. CASE a \notin Backends(s) /\ since[s][a] > MaxStale
      BY <1>0, <2>1, <2>2, <2>4
    <2>5. CASE a \notin Backends(s) /\ ~(since[s][a] > MaxStale)
      BY <1>0, <2>1, <2>2, <2>5
    <2> QED
      BY <2>3, <2>4, <2>5
  <1>3. /\ cache' = [s \in Services |-> cache'[s]]
        /\ since' = [s \in Services |-> [a \in Addrs |-> since'[s][a]]]
    BY DEF Tick
  <1>4. cache' \in [Services -> Entries]
    BY <1>1, <1>3
  <1>5. since' \in [Services -> [Addrs -> 0 .. (MaxStale + 1)]]
    BY <1>2, <1>3
  <1>6. waited' \in 0 .. Deadline
    BY <1>0 DEF Tick, TypeOK
  <1>7. TypeOK'
    BY <1>4, <1>5, <1>6 DEF TypeOK, Tick, agentVars, markVars
  <1>8. QueueInv' /\ MarkInv' /\ NewFlowStep
    BY DEF QueueInv, MarkInv, NewFlowStep, HeadService, Tick, markVars
  <1>9. PinInv'
    BY <1>1 DEF PinInv, MarkInv, Cached, Tick
  <1>10. \A s \in Services, a \in Addrs, n \in Int :
            (since[s][a] <= n /\ 0 <= n) => since'[s][a] <= n + 1
    <2> TAKE s \in Services, a \in Addrs, n \in Int
    <2>1. since[s][a] \in Int
      BY <1>0 DEF TypeOK
    <2> QED
      BY <1>2, <2>1
  <1>11. ASSUME NEW s \in Services, cache'[s].left >= 0, NEW e \in Elems(cache'[s].eps)
         PROVE  since'[s][e.addr] <= MaxStale - cache'[s].left
    <2>1. /\ cache[s] \in Entries /\ cache[s].left \in -1 .. TTLReady
          /\ cache[s].left >= 0 /\ cache'[s].left = cache[s].left - 1
      BY <1>1, <1>11 DEF TypeOK, Entries
    <2>2. e \in Elems(cache[s].eps)
      BY <1>1
    <2>3. e.addr \in Addrs
      BY <2>1, <2>2, ElemsAreEndpoints DEF Entries
    <2>4. since[s][e.addr] <= MaxStale - cache[s].left
      BY <2>1, <2>2 DEF FreshInv, Cached
    <2>5. MaxStale - cache[s].left \in Nat
      BY <1>0, <2>1 DEF MaxStale
    <2>6. since'[s][e.addr] <= (MaxStale - cache[s].left) + 1
      BY <1>10, <2>3, <2>4, <2>5
    <2>7. (MaxStale - cache[s].left) + 1 = MaxStale - cache'[s].left
      BY <1>0, <2>1
    <2> QED
      BY <2>6, <2>7
  <1>12. ASSUME query' = "answered", answer'.ok, NEW e \in Elems(answer'.eps)
         PROVE  since'[HeadService'][e.addr] <= waited'
    <2>1. /\ HeadService' = HeadService /\ answer' = answer /\ query = "answered"
          /\ waited' = waited + 1
      BY <1>12 DEF Tick, HeadService
    <2>2. HeadService \in Services /\ waited \in Nat
      BY <1>0, <2>1 DEF QueueInv, TypeOK
    <2>3. e.addr \in Addrs
      BY <2>1, ElemsAreEndpoints DEF TypeOK
    <2>4. since[HeadService][e.addr] <= waited
      BY <1>12, <2>1 DEF FreshInv
    <2> QED
      BY <1>10, <2>1, <2>2, <2>3, <2>4
  <1>13. \A s \in Services : \A a \in Backends(s)' : since'[s][a] = 0
    <2>1. \A s \in Services : Backends(s)' = Backends(s)
      BY DEF Backends, Tick, agentVars
    <2> QED
      BY <1>2, <2>1, BackendsAreAddrs
  <1>14. FreshInv'
    BY <1>11, <1>12, <1>13 DEF FreshInv, Cached, MaxStale
  <1> QED
    BY <1>7, <1>8, <1>9, <1>14

-----------------------------------------------------------------------------
LEMMA NextKeeps ==
    ASSUME IInv, [Next]_vars
    PROVE  IInv' /\ NewFlowStep
  <1>1. CASE Sync
    BY <1>1, AgentKeeps DEF Sync, IInv, TypeOK
  <1>2. ASSUME NEW s \in Services, StaticPodChanges(s)
        PROVE  IInv' /\ NewFlowStep
    <2>1. PICK v \in {"no", "waiting"} \cup Addrs : static' = [static EXCEPT ![s] = v]
      BY <1>2 DEF StaticPodChanges
    <2>2. static' \in [Services -> {"no", "waiting"} \cup Addrs]
      BY <2>1 DEF IInv, TypeOK
    <2>3. changes' \in 0 .. MaxChanges
      BY <1>2, NumbersAssumption DEF StaticPodChanges, Change, IInv, TypeOK
    <2> QED
      BY <1>2, <2>2, <2>3, AgentKeeps DEF StaticPodChanges, IInv, TypeOK
  <1>3. ASSUME NEW s \in Services, SlicesChange(s)
        PROVE  IInv' /\ NewFlowStep
    <2>1. PICK v \in {NoSlices} \cup SUBSET Addrs : slices' = [slices EXCEPT ![s] = v]
      BY <1>3 DEF SlicesChange
    <2>2. slices' \in [Services -> {NoSlices} \cup SUBSET Addrs]
      BY <2>1 DEF IInv, TypeOK
    <2>3. changes' \in 0 .. MaxChanges
      BY <1>3, NumbersAssumption DEF SlicesChange, Change, IInv, TypeOK
    <2> QED
      BY <1>3, <2>2, <2>3, AgentKeeps DEF SlicesChange, IInv, TypeOK
  <1>4. CASE UNCHANGED vars
    <2>1. TypeOK' /\ QueueInv' /\ NewFlowStep
      BY <1>4 DEF IInv, TypeOK, QueueInv, HeadService, NewFlowStep, vars
    <2>2. MarkInv' /\ PinInv'
      BY <1>4 DEF IInv, MarkInv, PinInv, Cached, vars
    <2>3. FreshInv'
      BY <1>4 DEF IInv, FreshInv, Backends, Cached, HeadService, vars
    <2> QED
      BY <2>1, <2>2, <2>3 DEF IInv
  <1>5. CASE Pick
    BY <1>5, UnparsableKeeps, PickCachedKeeps, SendQueryKeeps, QueryFailsKeeps,
       PickErrorKeeps, PickAnsweredKeeps DEF Pick
  <1>6. CASE Agent
    BY <1>1, <1>2, <1>3, <1>6, SetsAssumption DEF Agent
  <1> QED
    BY <1>4, <1>5, <1>6, serveSvcConnKeeps, TickKeeps, RetraverseKeeps, CloseKeeps,
       FirstPacketKeeps DEF Next

\* The inductive invariant holds in every behaviour of the load balancer.
THEOREM Invariance == Spec => []IInv
  <1>1. IInv /\ [Next]_vars => IInv'
    BY NextKeeps
  <1> QED
    BY InitInv, <1>1, PTL DEF Spec

\* Every variable keeps its type: nextID wraps, the cursor and the clocks of
\* cache, query and agent stay in their ranges.
THEOREM TypeCorrect == Spec => []TypeOK
  <1>1. IInv => TypeOK
    BY DEF IInv
  <1> QED
    BY Invariance, <1>1, PTL

\* A mark in flight always means the endpoint pick chose, for every number of
\* marks, also when nextID wraps or nftables calls fail.
THEOREM MarksKeepTheirMeaning == Spec => []MarksResolve
  <1>1. IInv => MarksResolve
    BY DEF IInv, MarkInv, MarksResolve
  <1> QED
    BY Invariance, <1>1, PTL

\* With the conntrack binary, open flows go to endpoints that are still held.
THEOREM PinnedFlowsFollow == Spec => []PinnedFlowsCurrent
  <1>1. IInv => PinnedFlowsCurrent
    BY DEF IInv, PinInv, MarkInv, PinnedFlowsCurrent
  <1> QED
    BY Invariance, <1>1, PTL

\* New flows go to addresses that were ready at most TTLReady + Deadline ago,
\* for every TTL and deadline.
THEOREM StalenessIsBounded == Spec => NewFlowsFresh
  <1>1. IInv /\ [Next]_vars => [NewFlowStep]_vars
    BY NextKeeps
  <1> QED
    BY Invariance, <1>1, PTL DEF Spec, NewFlowsFresh, NewFlowStep

=============================================================================

----------------------------- MODULE ServiceLB -----------------------------
(***************************************************************************)
(* The guest's ClusterIP load balancer (poc/execd/services.go) and the     *)
(* host agent that answers its queries (poc/agent/services.go).            *)
(*                                                                         *)
(* The first packet of a flow to a service goes to execd through the       *)
(* nfqueue.  execd resolves the service (cached, else asked of the agent   *)
(* over vsock), picks an endpoint, and sends the packet back through the   *)
(* rules with the endpoint's mark; the kernel's eps map turns the mark     *)
(* into the DNAT target, which conntrack then holds for the whole flow.    *)
(*                                                                         *)
(* Packets are handled one at a time (one nfqueue goroutine, and lb.mu).   *)
(* A service stands for one "vip:port:proto" key.  Time is a tick; a cache *)
(* entry holds the ticks it still has.                                     *)
(***************************************************************************)
EXTENDS Integers, Sequences, FiniteSets

CONSTANTS
    Services,    \* keys "vip:port:proto" that are queried
    Statics,     \* those whose VIP a static pod may have (bootstrap VIP)
    Addrs,       \* pod addresses
    Flows,       \* flows the guest's processes open, again and again
    targetPort,  \* service -> the port its endpoints listen on
    MarkMod,     \* marks are uint32: 2^32 in the code
    MaxQueue,    \* MaxQueueLen of the nfqueue
    TTLReady,    \* TTL of an answer with endpoints, in ticks
    TTLStatic,   \* TTL of a bootstrap VIP's answer
    TTLEmpty,    \* TTL of an answer without endpoints
    Deadline,    \* most ticks a query takes (dial timeout and conn deadline)
    RRMod,       \* the cursor rr is kept modulo a multiple of every length
    MaxChanges,  \* bound: changes of the endpoints the agent sees
    MaxNftFaults \* bound: nftables calls that fail

ASSUME SetsAssumption ==
    /\ Statics \subseteq Services
    /\ {"no", "waiting", "none"} \cap Addrs = {}
    /\ "unparsed" \notin Services
    /\ targetPort \in [Services -> Nat]
    /\ IsFiniteSet(Addrs)
ASSUME NumbersAssumption ==
    /\ MarkMod \in Nat \ {0, 1}
    /\ MaxQueue \in Nat
    /\ TTLReady \in Nat
    /\ TTLStatic \in 1 .. TTLReady
    /\ TTLEmpty \in 1 .. TTLReady
    /\ Deadline \in Nat
    /\ RRMod \in Nat \ {0}
    /\ MaxChanges \in Nat /\ MaxNftFaults \in Nat
ASSUME RRAssumption == \A n \in 1 .. Cardinality(Addrs) : RRMod % n = 0

Endpoints == [addr : Addrs, port : {targetPort[s] : s \in Services}]
Marks == 0 .. (MarkMod - 1)
NoId == -1
NoEp == [addr |-> "none", port |-> 0]
Unparsed == "unparsed"   \* neither TCP nor UDP over IPv6
\* After so many ticks an address that left a service is no longer chosen.
MaxStale == TTLReady + Deadline

\* What the agent knows of a service: NoSlices when it has no Service with
\* that address and port or no EndpointSlice for it, else the ready addresses.
NoSlices == {"none"}

VARIABLES
    \* the host agent
    synced,    \* it has an API client and its watch caches are filled
    static,    \* service -> no static pod, one without an IP or stopping, or
               \* its IP
    slices,    \* service -> ready addresses in the watch cache
    since,     \* history: ticks since the address left the service
    changes,   \* changes of static and slices so far
    \* svcLB
    epID,      \* endpoint -> mark, NoId
    nextID,
    nftFaults, \* failed nftables calls so far
    cache,     \* service -> [eps, left, rr]; a nil entry is an empty, old one
    query,     \* the query of the packet at the queue's head: none, sent,
               \* answered
    answer,    \* the agent's answer
    waited,    \* ticks the query has taken
    \* the kernel
    queue,     \* flows whose first packet waits for its verdict
    eps,       \* the map: mark -> endpoint, NoEp
    flow,      \* flow -> its packet and its conntrack entry
    hasTool    \* the guest image has the conntrack binary

agentVars == <<synced, static, slices, changes>>
markVars == <<epID, nextID, eps, nftFaults>>
queryVars == <<query, answer, waited>>
vars == <<synced, static, slices, changes, since, epID, nextID, nftFaults, cache,
          query, answer, waited, queue, eps, flow, hasTool>>

\* A flow.  st: idle, queued, marked (its packet has a verdict and a mark) or
\* open (conntrack has an entry for it); svc: the service it goes to; mark: of
\* the packet; want: the endpoint pick chose (history); dst: the DNAT target;
\* late: the endpoint left the service while the mark was in flight (history).
Idle == [st |-> "idle", svc |-> Unparsed, mark |-> 0, want |-> NoEp,
         dst |-> NoEp, late |-> FALSE]
FlowStates == {"idle", "queued", "marked", "open"}

\* An error, and an answer with endpoints for ttl ticks.
Error == [ok |-> FALSE, eps |-> <<>>, ttl |-> 0]
Answer(es, ttl) == [ok |-> TRUE, eps |-> es, ttl |-> ttl]
NilEntry == [eps |-> <<>>, left |-> -1, rr |-> 0]

Init ==
    /\ synced = FALSE
    /\ static = [s \in Services |-> "no"]
    /\ slices = [s \in Services |-> NoSlices]
    /\ since = [s \in Services |-> [a \in Addrs |-> MaxStale + 1]]
    /\ epID = [e \in Endpoints |-> NoId]
    /\ nextID = 1
    /\ nftFaults = 0
    /\ changes = 0
    /\ cache = [s \in Services |-> NilEntry]
    /\ query = "none"
    /\ answer = Error
    /\ waited = 0
    /\ queue = <<>>
    /\ eps = [m \in Marks |-> NoEp]
    /\ flow = [f \in Flows |-> Idle]
    /\ hasTool \in BOOLEAN

-----------------------------------------------------------------------------
(* The host agent.                                                         *)

\* The orders a set may be listed in.
Orders(S) == {q \in [1 .. Cardinality(S) -> S] :
                 \A i, j \in DOMAIN q : q[i] = q[j] => i = j}

\* The addresses the agent would answer with.
Backends(s) ==
    CASE static[s] \in Addrs                 -> {static[s]}
      [] static[s] = "no" /\ synced /\ slices[s] # NoSlices -> slices[s]
      [] OTHER                               -> {}

\* The endpoints of an answer: its addresses with the service's target port.
EndpointsOf(s, list) == [i \in DOMAIN list |-> [addr |-> list[i], port |-> targetPort[s]]]

\* The answers to a query for service s, read from the static pods' table and
\* from the watch caches.
resolveService(s) ==
    CASE static[s] = "waiting" -> {Error}
      [] static[s] \in Addrs   -> {Answer(EndpointsOf(s, <<static[s]>>), TTLStatic)}
      [] static[s] = "no" /\ (~synced \/ slices[s] = NoSlices) -> {Error}
      [] OTHER ->
           {Answer(EndpointsOf(s, list), IF list = <<>> THEN TTLEmpty ELSE TTLReady) :
               list \in Orders(slices[s])}

\* The agent's knowledge changes: since is 0 for what it would answer now.
AgentChanges ==
    /\ since' = [s \in Services |-> [a \in Addrs |->
                    IF a \in Backends(s)' THEN 0 ELSE since[s][a]]]
    /\ UNCHANGED <<markVars, cache, queryVars, queue, flow, hasTool>>

Sync ==
    /\ ~synced
    /\ synced' = TRUE
    /\ UNCHANGED <<static, slices, changes>>
    /\ AgentChanges

Change == changes < MaxChanges /\ changes' = changes + 1

StaticPodChanges(s) ==
    /\ Change
    /\ static' \in {[static EXCEPT ![s] = v] : v \in {"no", "waiting"} \cup Addrs}
    /\ UNCHANGED <<synced, slices>>
    /\ AgentChanges

SlicesChange(s) ==
    /\ Change
    /\ slices' \in {[slices EXCEPT ![s] = v] : v \in {NoSlices} \cup SUBSET Addrs}
    /\ UNCHANGED <<synced, static>>
    /\ AgentChanges

-----------------------------------------------------------------------------
(* The kernel and its users (external).                                    *)

\* The first packet of a flow carries no mark: it is queued (dropped when the
\* queue is full).
FirstPacket(f, s) ==
    /\ flow[f].st = "idle"
    /\ Len(queue) < MaxQueue
    /\ queue' = Append(queue, f)
    /\ flow' = [flow EXCEPT ![f] = [Idle EXCEPT !.st = "queued", !.svc = s]]
    /\ UNCHANGED <<agentVars, since, markVars, cache, queryVars, hasTool>>

\* The marked packet passes the rules again: DNAT to what the map holds.
Retraverse(f) ==
    /\ flow[f].st = "marked"
    /\ flow' = [flow EXCEPT ![f].st = "open", ![f].dst = eps[flow[f].mark]]
    /\ UNCHANGED <<agentVars, since, markVars, cache, queryVars, queue, hasTool>>

Close(f) ==
    /\ flow[f].st = "open"
    /\ flow' = [flow EXCEPT ![f] = Idle]
    /\ UNCHANGED <<agentVars, since, markVars, cache, queryVars, queue, hasTool>>

-----------------------------------------------------------------------------
(* svcLB.                                                                  *)

Elems(q) == {q[i] : i \in DOMAIN q}

\* Mutant: endpoints are compared only when there are fewer of them.
reconcileFewer(old, new) ==
    IF Len(new) < Len(old) THEN Elems(old) \ Elems(new) ELSE {}

\* reconcileEndpoints: the endpoints of the old entry that are gone now.
reconcileEndpoints(old, new) == Elems(old) \ Elems(new)

\* flushConntrackTo for each of the endpoints in gone: the flows it resets,
\* whichever service they go to.  Without the conntrack binary, none.
flushConntrackTo(gone) ==
    {f \in Flows : /\ hasTool
                   /\ flow[f].st = "open"
                   /\ flow[f].dst.addr \in {e.addr : e \in gone}}

\* The other flows after service s lost the endpoints in gone.
Flushed(s, gone) ==
    [f \in Flows |->
        IF f \in flushConntrackTo(gone) THEN Idle
        ELSE [flow[f] EXCEPT !.late =
                 \/ flow[f].late
                 \/ /\ flow[f].st = "marked"
                    /\ flow[f].svc = s
                    /\ flow[f].want \in gone]]

\* The verdict on the packet at the queue's head, the flows being fl.
Verdict(fl, packet) ==
    /\ flow' = [fl EXCEPT ![Head(queue)] = packet]
    /\ queue' = Tail(queue)
    /\ query' = "none"
    /\ answer' = Error
    /\ waited' = 0

\* NfDrop; also what becomes of a packet whose verdict could not be set.
Drop(fl) == Verdict(fl, Idle)

\* NfRepeat with mark m, which stands for endpoint e.  Mark 0 says "no
\* endpoints": the packet is dropped.
Repeat(fl, m, e) ==
    \/ m # 0 /\ Verdict(fl, [fl[Head(queue)] EXCEPT !.st = "marked", !.mark = m,
                                                     !.want = e])
    \/ Drop(fl)

\* Adding the element for mark m: the kernel refuses to change one it has.
CanAdd(m, e) == eps[m] \in {NoEp, e}

\* Mutant: the mark of an endpoint that no cache entry has is used again.
idForReuse(fl, e) ==
    \E m \in Marks \ {0} :
       /\ m = epID[e] \/ (epID[e] = NoId /\ \A s \in Services, x \in Endpoints :
                              epID[x] = m => x \notin Elems(cache'[s].eps))
       /\ eps' = [eps EXCEPT ![m] = e]
       /\ epID' = [x \in Endpoints |-> IF x = e THEN m
                                      ELSE IF epID[x] = m THEN NoId ELSE epID[x]]
       /\ Repeat(fl, m, e)
       /\ UNCHANGED <<nextID, nftFaults>>

\* idFor(e), and the verdict with the mark it returns.
idFor(fl, e) ==
    \/ /\ epID[e] # NoId
       /\ Repeat(fl, epID[e], e)
       /\ UNCHANGED markVars
    \/ /\ epID[e] = NoId
       /\ CanAdd(nextID, e)
       /\ eps' = [eps EXCEPT ![nextID] = e]
       /\ epID' = [epID EXCEPT ![e] = nextID]
       /\ nextID' = (nextID + 1) % MarkMod
       /\ Repeat(fl, nextID, e)
       /\ UNCHANGED nftFaults
    \/ \* SetAddElements or Flush reports an error, with or without effect
       /\ epID[e] = NoId
       /\ CanAdd(nextID, e) => nftFaults < MaxNftFaults
       /\ nftFaults' = IF CanAdd(nextID, e) THEN nftFaults + 1 ELSE nftFaults
       /\ eps' \in {eps} \cup IF CanAdd(nextID, e)
                              THEN {[eps EXCEPT ![nextID] = e]} ELSE {}
       /\ nextID' = (nextID + 1) % MarkMod
       /\ UNCHANGED epID
       /\ Drop(fl)

\* The second half of pick: the next endpoint of the entry, round-robin.
PickFrom(fl, s, ent) ==
    IF ent.eps = <<>>
    THEN /\ cache' = [cache EXCEPT ![s] = ent]
         /\ UNCHANGED markVars
         /\ Drop(fl)
    ELSE /\ cache' = [cache EXCEPT ![s] = [ent EXCEPT !.rr = (@ + 1) % RRMod]]
         /\ idFor(fl, ent.eps[(ent.rr % Len(ent.eps)) + 1])

HeadService == flow[Head(queue)].svc
Waiting == queue # <<>> /\ query = "none"
LBOnly == UNCHANGED <<agentVars, since, hasTool>>

Unparsable ==
    /\ Waiting
    /\ HeadService = Unparsed
    /\ Drop(flow)
    /\ UNCHANGED <<markVars, cache>>
    /\ LBOnly

\* time.Now().After(ent.expiry)
Expired(ent) == ent.left < 0

PickCached ==
    /\ Waiting
    /\ HeadService # Unparsed
    /\ ~Expired(cache[HeadService])
    /\ PickFrom(flow, HeadService, cache[HeadService])
    /\ LBOnly

SendQuery ==
    /\ Waiting
    /\ HeadService # Unparsed
    /\ Expired(cache[HeadService])
    /\ query' = "sent"
    /\ UNCHANGED <<agentVars, since, markVars, cache, answer, waited, queue, flow,
                   hasTool>>

\* The agent's goroutine for the connection reads its caches.
serveSvcConn ==
    /\ query = "sent"
    /\ query' = "answered"
    /\ answer' \in resolveService(HeadService)
    /\ UNCHANGED <<agentVars, since, markVars, cache, waited, queue, flow, hasTool>>

\* Mutant: a dial that hangs is waited for.
QueryFailsLate ==
    /\ query = "answered"
    /\ Drop(flow)
    /\ UNCHANGED <<markVars, cache>>
    /\ LBOnly

\* The dial fails or hangs, the connection breaks or its deadline passes.
QueryFails ==
    /\ query # "none"
    /\ Drop(flow)
    /\ UNCHANGED <<markVars, cache>>
    /\ LBOnly

\* Mutant: after an error the old entry is used once more.
PickErrorStale ==
    /\ query = "answered"
    /\ ~answer.ok
    /\ PickFrom(flow, HeadService, cache[HeadService])
    /\ LBOnly

\* An answer with an error changes nothing: the old entry stays, expired.
PickError ==
    /\ query = "answered"
    /\ ~answer.ok
    /\ Drop(flow)
    /\ UNCHANGED <<markVars, cache>>
    /\ LBOnly

\* The entry is replaced, and its TTL begins, when the answer has arrived.
PickAnswered ==
    /\ query = "answered"
    /\ answer.ok
    /\ LET s == HeadService
           gone == reconcileEndpoints(cache[s].eps, answer.eps)
       IN PickFrom(Flushed(s, gone), s,
                   [eps |-> answer.eps, left |-> answer.ttl, rr |-> cache[s].rr])
    /\ LBOnly

-----------------------------------------------------------------------------
\* A query ends before more than Deadline ticks have passed.
Tick ==
    /\ query = "none" \/ waited < Deadline
    /\ waited' = IF query = "none" THEN 0 ELSE waited + 1
    /\ cache' = [s \in Services |->
                   [cache[s] EXCEPT !.left = IF @ < 0 THEN @ ELSE @ - 1]]
    /\ since' = [s \in Services |-> [a \in Addrs |->
                   CASE a \in Backends(s)          -> 0
                     [] a \notin Backends(s) /\ since[s][a] > MaxStale -> since[s][a]
                     [] OTHER                      -> since[s][a] + 1]]
    /\ UNCHANGED <<agentVars, markVars, query, answer, queue, flow, hasTool>>

Pick == Unparsable \/ PickCached \/ SendQuery \/ QueryFails \/ PickError \/ PickAnswered
Agent ==
    \/ Sync
    \/ \E s \in Services : SlicesChange(s)
    \/ \E s \in Statics : StaticPodChanges(s)

Next ==
    \/ Agent \/ Pick \/ serveSvcConn \/ Tick
    \/ \E f \in Flows : Retraverse(f) \/ Close(f)
    \/ \E f \in Flows, s \in Services \cup {Unparsed} : FirstPacket(f, s)

\* The nfqueue goroutine goes on; its query is bounded by the deadlines, so it
\* does not need the agent to answer.  The kernel finishes what it has.
Fairness ==
    /\ WF_vars(Pick)
    /\ \A f \in Flows : WF_vars(Retraverse(f))

Spec == Init /\ [][Next]_vars
FairSpec == Spec /\ Fairness

-----------------------------------------------------------------------------
(* Properties.                                                             *)

Entries == [eps : Seq(Endpoints), left : -1 .. TTLReady, rr : 0 .. (RRMod - 1)]
FlowRecords == [st : FlowStates, svc : Services \cup {Unparsed}, mark : Marks,
                want : Endpoints \cup {NoEp}, dst : Endpoints \cup {NoEp},
                late : BOOLEAN]

\* The type of every variable.
TypeOK ==
    /\ synced \in BOOLEAN
    /\ static \in [Services -> {"no", "waiting"} \cup Addrs]
    /\ slices \in [Services -> {NoSlices} \cup SUBSET Addrs]
    /\ since \in [Services -> [Addrs -> 0 .. (MaxStale + 1)]]
    /\ epID \in [Endpoints -> Marks \cup {NoId}]
    /\ nextID \in Marks
    /\ nftFaults \in 0 .. MaxNftFaults
    /\ changes \in 0 .. MaxChanges
    /\ cache \in [Services -> Entries]
    /\ query \in {"none", "sent", "answered"}
    /\ answer \in [ok : BOOLEAN, eps : Seq(Endpoints), ttl : 0 .. TTLReady]
    /\ waited \in 0 .. Deadline
    /\ queue \in Seq(Flows)
    /\ eps \in [Marks -> Endpoints \cup {NoEp}]
    /\ flow \in [Flows -> FlowRecords]
    /\ hasTool \in BOOLEAN

\* A mark that execd put on a packet always means the endpoint it chose: a
\* marked packet in flight is sent there and nowhere else, whatever happened
\* to the endpoints since (the comment in reconcileEndpoints), and whatever
\* nftables calls failed or how often nextID wrapped.
MarksResolve ==
    \A f \in Flows :
        /\ flow[f].st = "marked" => eps[flow[f].mark] = flow[f].want
        /\ flow[f].st = "open" => flow[f].dst = flow[f].want

Cached(s) == Elems(cache[s].eps)

\* Where the guest has the conntrack binary: an open flow goes to an endpoint
\* the load balancer still holds for its service, unless the endpoint left
\* while the flow's first packet was on its way.
PinnedFlowsCurrent ==
    \A f \in Flows :
        (hasTool /\ flow[f].st = "open" /\ ~flow[f].late)
            => flow[f].dst \in Cached(flow[f].svc)

\* A new flow goes to an address that was ready at most one TTL and one query
\* deadline ago, also when the agent is away or answers with errors.
NewFlowsFresh ==
    [][\A f \in Flows :
         (flow[f].st = "queued" /\ flow'[f].st = "marked")
             => since[flow[f].svc][flow'[f].want.addr] <= MaxStale]_vars

\* A hung dial does not wedge the queue: every packet gets its verdict.
VerdictComes == \A f \in Flows : flow[f].st = "queued" ~> flow[f].st # "queued"

=============================================================================

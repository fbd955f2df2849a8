------------------------------ MODULE PodPromise ------------------------------
(***************************************************************************)
(* What the agent promises about the microVMs of its pods, whatever the    *)
(* watch, the API server and the guests do: a VM runs only while its pod   *)
(* holds a slot, the slot is kept until the VM is gone, a pod that was     *)
(* told to stop is not started again, and at most one VM that was already  *)
(* on its way still boots after the stop.                                  *)
(***************************************************************************)
CONSTANT Uids

VARIABLES
    slot,     \* the pods that hold a slot
    up,       \* the pods whose VM runs
    stopped,  \* the pods that were told to stop
    late      \* of these, the ones a VM has booted for since

vars == <<slot, up, stopped, late>>

Init == slot = {} /\ up = {} /\ stopped = {} /\ late = {}

Reserve(u) ==
    /\ u \notin slot \cup stopped
    /\ slot' = slot \cup {u}
    /\ UNCHANGED <<up, stopped, late>>

Boot(u) ==
    /\ u \in slot \ up
    /\ u \notin late
    /\ up' = up \cup {u}
    /\ late' = IF u \in stopped THEN late \cup {u} ELSE late
    /\ UNCHANGED <<slot, stopped>>

Exit(u) ==
    /\ u \in up
    /\ up' = up \ {u}
    /\ UNCHANGED <<slot, stopped, late>>

Stop(u) ==
    /\ u \in slot
    /\ stopped' = stopped \cup {u}
    /\ UNCHANGED <<slot, up, late>>

Release(u) ==
    /\ u \in slot \ up
    /\ slot' = slot \ {u}
    /\ UNCHANGED <<up, stopped, late>>

Next == \E u \in Uids : Reserve(u) \/ Boot(u) \/ Exit(u) \/ Stop(u) \/ Release(u)

Spec == Init /\ [][Next]_vars
===============================================================================

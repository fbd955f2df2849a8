------------------------------ MODULE ImageCache ------------------------------
(***************************************************************************)
(* The image cache (src/poc/agent/images.go, called by preparePod): every  *)
(* pod's goroutine runs ensureImage for itself.  It looks for the image    *)
(* under its final name, and without it fetches the image, writes the      *)
(* config, materializes the image under a temporary name and renames it.   *)
(*                                                                         *)
(* One image reference is modelled; what the registry holds for it may     *)
(* change.  The materialized image has Parts parts; in block mode it is a  *)
(* file (.erofs), written through a descriptor, in dir mode a directory,   *)
(* written by path.  A file or directory is a number (its inode).          *)
(***************************************************************************)
EXTENDS Naturals

CONSTANTS Pods,      \* pods that use the image
          Builds,      \* what the registry can hold for the reference
          Parts,       \* parts of an image, written in order 1 .. Parts
          Inodes,      \* files and directories: one more than pods
          MaxPushes,     \* bound: changes of the registry
          MaxFaults,     \* bound: failing steps of a pull
          MaxCrashes     \* bound: restarts of the agent

ASSUME ImageAssumption ==
    /\ Parts \in Nat \ {0}
    /\ MaxPushes \in Nat /\ MaxFaults \in Nat /\ MaxCrashes \in Nat
    /\ Inodes \subseteq Nat \ {0}
    /\ Builds \cap {"hole", "garbled", "none"} = {}

Hole == "hole"       \* a part that was not written, or truncated away
Garbled == "garbled" \* a config file cut off
None == "none"

NoFile == 0

VARIABLES
    block,     \* a.imageBlock
    registry,  \* what the reference names now
    pc,        \* pod -> where its ensureImage is
    build,     \* pod -> the image it fetched
    fd,        \* pod -> the file it has open (block mode)
    part,      \* pod -> parts written
    tmp,       \* the inode named <base>.erofs.tmp or <base>.tmp
    final,     \* the inode named <base>.erofs or <base>
    content,   \* inode -> its parts
    config,    \* <base>.config.json
    overlap,   \* history: two pulls were under way at once
    misconf,   \* history: a config was not written
    pushes, faults, crashes

vars == <<block, registry, pc, build, fd, part, tmp, final, content, config,
          overlap, misconf, pushes, faults, crashes>>

pull == <<build, fd, part>>
disk == <<tmp, final, content>>
world == <<block, registry, pushes, crashes>>

Empty == [i \in 1 .. Parts |-> Hole]

Init ==
    /\ block \in BOOLEAN
    /\ registry \in Builds
    /\ pc = [p \in Pods |-> "stat"]
    /\ build = [p \in Pods |-> None]
    /\ fd = [p \in Pods |-> NoFile]
    /\ part = [p \in Pods |-> 0]
    /\ tmp = NoFile
    /\ final = NoFile
    /\ content = [i \in Inodes |-> Empty]
    /\ config = None
    /\ overlap = FALSE
    /\ misconf = FALSE
    /\ pushes = 0
    /\ faults = 0
    /\ crashes = 0

Goto(p, at) == pc' = [pc EXCEPT ![p] = at]

Pulling(p) == pc[p] \notin {"stat", "ready"}

(* A new inode: the least that no name and no descriptor refers to.        *)
Free == {i \in Inodes \ {tmp, final} : \A p \in Pods : fd[p] # i}

New == {i \in Free : \A j \in Free : i <= j}

(* What the temporary name refers to once it is made.                      *)
TmpFile == IF tmp # NoFile THEN {tmp} ELSE New

Fault == faults < MaxFaults /\ faults' = faults + 1

(***************************************************************************)
(* ensureImage.  A failure goes back to "stat": preparePod's error makes   *)
(* runPod wait and call it again.                                          *)
(***************************************************************************)
(* os.Stat of the final name.                                              *)
Stat(p) ==
    /\ pc[p] = "stat"
    /\ Goto(p, IF final # NoFile THEN "ready" ELSE "fetch")
    /\ overlap' = (overlap \/ (final = NoFile /\ \E q \in Pods : Pulling(q)))
    /\ UNCHANGED <<world, pull, disk, config, misconf, faults>>

(* remote.Image: what the reference names now; an error, or an image for   *)
(* another platform, ends the call.                                        *)
Fetch(p) ==
    /\ pc[p] = "fetch"
    /\ \/ /\ build' = [build EXCEPT ![p] = registry]
          /\ Goto(p, "config")
          /\ UNCHANGED faults
       \/ Fault /\ Goto(p, "stat") /\ UNCHANGED build
    /\ UNCHANGED <<world, fd, part, disk, config, overlap, misconf>>

ConfigOnce(p) == \* mutant of WriteConfig
    /\ pc[p] = "config"
    /\ config' = IF config = None THEN build[p] ELSE config
    /\ Goto(p, "create")
    /\ UNCHANGED <<world, pull, disk, overlap, misconf, faults>>

(* The config is written in place; errors (no config, a short write) are   *)
(* ignored.                                                                *)
WriteConfig(p) ==
    /\ pc[p] = "config"
    /\ \/ config' = build[p] /\ UNCHANGED <<misconf, faults>>
       \/ config' \in {config, Garbled} /\ misconf' = TRUE /\ Fault
    /\ Goto(p, "create")
    /\ UNCHANGED <<world, pull, disk, overlap>>

CreateInPlace(p) == \* mutant of Create
    /\ pc[p] = "create"
    /\ \E f \in IF final # NoFile THEN {final} ELSE New :
       /\ final' = f
       /\ tmp' = f
       /\ content' = [content EXCEPT ![f] = Empty]
       /\ fd' = [fd EXCEPT ![p] = f]
    /\ part' = [part EXCEPT ![p] = 0]
    /\ Goto(p, "write")
    /\ UNCHANGED <<world, build, config, overlap, misconf, faults>>

CreateExclusive(p) == \* mutant of Create
    /\ pc[p] = "create"
    /\ IF tmp # NoFile
       THEN Goto(p, "stat") /\ UNCHANGED <<fd, part, tmp, content>>
       ELSE \E f \in New :
            /\ tmp' = f
            /\ content' = [content EXCEPT ![f] = Empty]
            /\ fd' = [fd EXCEPT ![p] = IF block THEN f ELSE NoFile]
            /\ part' = [part EXCEPT ![p] = 0]
            /\ Goto(p, "write")
    /\ UNCHANGED <<world, build, final, config, overlap, misconf, faults>>

(* RemoveAll of a directory that another pull writes into may fail and     *)
(* leave parts of it behind.                                               *)
Leftovers(p) ==
    IF ~block /\ \E q \in Pods \ {p} : pc[q] = "write" THEN SUBSET (1 .. Parts) ELSE {{}}

Only(kept, f) == [i \in 1 .. Parts |-> IF i \in kept THEN content[f][i] ELSE Hole]

(* Block mode: os.Create of the temporary name truncates the file that has *)
(* it.  Dir mode: RemoveAll, whose error is ignored, and MkdirAll.         *)
Create(p) ==
    /\ pc[p] = "create"
    /\ \E f \in TmpFile :
       /\ tmp' = f
       /\ \E kept \in Leftovers(p) :
             content' = [content EXCEPT ![f] = IF f = tmp THEN Only(kept, f) ELSE Empty]
       /\ fd' = [fd EXCEPT ![p] = IF block THEN f ELSE NoFile]
    /\ part' = [part EXCEPT ![p] = 0]
    /\ Goto(p, "write")
    /\ UNCHANGED <<world, build, final, config, overlap, misconf, faults>>

(* Convert or untar writes the next part: through the descriptor, whatever *)
(* name the file has by now, or below the path, whose directories it makes *)
(* again when they are gone.                                               *)
Write(p) ==
    /\ pc[p] = "write"
    /\ part[p] < Parts
    /\ \E f \in IF block THEN {fd[p]} ELSE TmpFile :
       LET before == IF block \/ f = tmp THEN content[f] ELSE Empty IN
       /\ content' = [content EXCEPT ![f] = [before EXCEPT ![part[p] + 1] = build[p]]]
       /\ tmp' = IF block THEN tmp ELSE f
    /\ part' = [part EXCEPT ![p] = @ + 1]
    /\ UNCHANGED <<world, pc, build, fd, final, config, overlap, misconf, faults>>

(* Convert, untar or Close fails: the temporary name is removed, whosever  *)
(* it is.                                                                  *)
WriteFails(p) ==
    /\ pc[p] = "write"
    /\ Fault
    /\ \E kept \in Leftovers(p) :
          IF kept = {} \/ tmp = NoFile
          THEN tmp' = NoFile /\ UNCHANGED content
          ELSE content' = [content EXCEPT ![tmp] = Only(kept, tmp)] /\ UNCHANGED tmp
    /\ fd' = [fd EXCEPT ![p] = NoFile]
    /\ Goto(p, "stat")
    /\ UNCHANGED <<world, build, part, final, config, overlap, misconf>>

(* All is written.  Block mode closes the file; dir mode makes the temp    *)
(* directories below the path, and with them the path when it is gone.     *)
Written(p) ==
    /\ pc[p] = "write"
    /\ part[p] = Parts
    /\ fd' = [fd EXCEPT ![p] = NoFile]
    /\ IF block \/ tmp # NoFile
       THEN UNCHANGED <<tmp, content>>
       ELSE \E f \in New : tmp' = f /\ content' = [content EXCEPT ![f] = Empty]
    /\ Goto(p, "rename")
    /\ UNCHANGED <<world, build, part, final, config, overlap, misconf, faults>>

(* os.Rename: fails without the temporary name and, for a directory, where *)
(* the final name is taken.                                                *)
Rename(p) ==
    /\ pc[p] = "rename"
    /\ IF tmp = NoFile \/ (~block /\ final # NoFile)
       THEN /\ Goto(p, "stat")
            /\ UNCHANGED disk
       ELSE /\ final' = tmp
            /\ tmp' = NoFile
            /\ Goto(p, "ready")
            /\ UNCHANGED content
    /\ UNCHANGED <<world, pull, config, overlap, misconf, faults>>

EnsureImage(p) ==
    \/ Stat(p)
    \/ Fetch(p)
    \/ WriteConfig(p)
    \/ Create(p)
    \/ Write(p)
    \/ WriteFails(p)
    \/ Written(p)
    \/ Rename(p)

(***************************************************************************)
(* Around it                                                               *)
(***************************************************************************)
(* Someone pushes another build under the reference (external).            *)
Push ==
    /\ pushes < MaxPushes
    /\ registry' \in Builds \ {registry}
    /\ pushes' = pushes + 1
    /\ UNCHANGED <<block, pc, pull, disk, config, overlap, misconf, faults, crashes>>

(* The agent dies and is started again; the next one runs every pod anew.  *)
(* The files stay, a config being written may be cut off.                  *)
AgentRestart ==
    /\ crashes < MaxCrashes
    /\ crashes' = crashes + 1
    /\ pc' = [p \in Pods |-> "stat"]
    /\ fd' = [p \in Pods |-> NoFile]
    /\ config' \in {config} \cup (IF \E p \in Pods : pc[p] = "config" THEN {Garbled} ELSE {})
    /\ UNCHANGED <<block, registry, build, part, disk, overlap, misconf, pushes, faults>>

(* Every pod has its image.                                                *)
Done ==
    /\ \A p \in Pods : pc[p] = "ready"
    /\ UNCHANGED vars

Next ==
    \/ \E p \in Pods : EnsureImage(p)
    \/ Push
    \/ AgentRestart
    \/ Done

Spec == Init /\ [][Next]_vars

(* A goroutine goes on, and runPod calls again after a failure.            *)
FairSpec == Spec /\ \A p \in Pods : WF_vars(EnsureImage(p))

(***************************************************************************)
(* Properties                                                              *)
(***************************************************************************)
(* The types; a descriptor and the parts written are those of a pull that  *)
(* is writing.                                                             *)
TypeOK ==
    /\ block \in BOOLEAN
    /\ registry \in Builds
    /\ pc \in [Pods -> {"stat", "fetch", "config", "create", "write", "rename", "ready"}]
    /\ build \in [Pods -> Builds \cup {None}]
    /\ fd \in [Pods -> Inodes \cup {NoFile}]
    /\ part \in [Pods -> 0 .. Parts]
    /\ tmp \in Inodes \cup {NoFile}
    /\ final \in Inodes \cup {NoFile}
    /\ content \in [Inodes -> [1 .. Parts -> Builds \cup {Hole}]]
    /\ config \in Builds \cup {None, Garbled}
    /\ overlap \in BOOLEAN
    /\ misconf \in BOOLEAN
    /\ pushes \in 0 .. MaxPushes /\ faults \in 0 .. MaxFaults /\ crashes \in 0 .. MaxCrashes
    /\ \A p \in Pods : pc[p] \in {"config", "create", "write", "rename"} => build[p] # None
    /\ \A p \in Pods : block /\ pc[p] = "write" => fd[p] # NoFile

Whole(f) == \E b \in Builds : content[f] = [i \in 1 .. Parts |-> b]

(* Only pulls that overlap can leave a torn image in the cache, where every *)
(* later pod would boot from it: failed pulls, agent restarts with their   *)
(* left-over temporary files and new builds in the registry cannot (the    *)
(* temporary name and the rename of ensureImage).                          *)
TornNeedsOverlap == final # NoFile /\ ~Whole(final) => overlap

(* The config a pod takes its command from is that of the image it boots,  *)
(* over failed pulls, restarts and new builds; it takes an ignored error   *)
(* in writing it, or overlapping pulls, to pair an image with a config of  *)
(* another build (ensureImage writes it before the image).                 *)
ConfigOfImage ==
    final # NoFile /\ ~overlap /\ ~misconf => content[final] = [i \in 1 .. Parts |-> config]

(* Every pod gets its image in the end and keeps it, whatever temporary    *)
(* files earlier or concurrent pulls leave or take away (the retry loop of *)
(* runPod around preparePod).                                              *)
PodGetsImage == \A p \in Pods : <>[](pc[p] = "ready")
================================================================================

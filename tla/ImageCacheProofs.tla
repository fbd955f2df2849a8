--------------------------- MODULE ImageCacheProofs ---------------------------
(***************************************************************************)
(* Proofs about the image cache, for any number of pods, builds and parts. *)
(* The invariant says what a pull that meets no other one knows: it is the *)
(* only one, there is no image yet, and the file under the temporary name  *)
(* is its own and holds what it has written.                               *)
(***************************************************************************)
EXTENDS ImageCache, TLAPS

All(b) == [i \in 1 .. Parts |-> b]

OnlyPull ==
    /\ \A p, q \in Pods : Pulling(p) /\ Pulling(q) => p = q
    /\ \A p \in Pods : Pulling(p) => final = NoFile

OwnFile ==
    /\ \A p \in Pods : pc[p] = "write" =>
          /\ tmp # NoFile
          /\ block => fd[p] = tmp
          /\ \A i \in 1 .. part[p] : content[tmp][i] = build[p]
    /\ \A p \in Pods : pc[p] = "rename" => tmp # NoFile /\ content[tmp] = All(build[p])

OwnConfig ==
    ~misconf =>
        /\ \A p \in Pods : pc[p] \in {"create", "write", "rename"} => config = build[p]
        /\ final # NoFile => content[final] = All(config)

Alone == ~overlap => /\ OnlyPull
                     /\ OwnFile
                     /\ final # NoFile => Whole(final)
                     /\ OwnConfig

IInv == TypeOK /\ Alone

USE DEF NoFile, Hole, Garbled, None

(* The types hold initially and every step keeps them: names and           *)
(* descriptors refer to files, and a pull that writes has one open.        *)
LEMMA TypeInit == Init => TypeOK
<1> SUFFICES ASSUME Init PROVE TypeOK
  OBVIOUS
<1>1. overlap \in BOOLEAN /\ misconf \in BOOLEAN
  BY Zenon DEF Init
<1>2. content \in [Inodes -> [1 .. Parts -> Builds \cup {Hole}]]
  BY DEF Init, Empty
<1>. QED  BY <1>1, <1>2, ImageAssumption DEF Init, TypeOK

(* Every step keeps the types.                                             *)
LEMMA TypeStep == TypeOK /\ [Next]_vars => TypeOK'
<1> SUFFICES ASSUME TypeOK, [Next]_vars PROVE TypeOK'
  OBVIOUS
<1>. USE ImageAssumption
<1>1. ASSUME NEW p \in Pods, EnsureImage(p) PROVE TypeOK'
  <2>1. CASE Stat(p)
    <3>1. overlap' \in BOOLEAN
      BY <2>1, Zenon DEF Stat
    <3>. QED  BY <2>1, <3>1 DEF Stat, TypeOK, Goto, world, pull, disk
  <2>2. CASE Fetch(p)
    <3>1. registry \in Builds /\ registry # None
      BY DEF TypeOK
    <3>2. build' \in [Pods -> Builds \cup {None}]
      <4>1. build' = build \/ build' = [build EXCEPT ![p] = registry]
        BY <2>2 DEF Fetch
      <4>. QED  BY <3>1, <4>1 DEF TypeOK
    <3>3. pc' \in [Pods -> {"stat", "fetch", "config", "create", "write", "rename", "ready"}]
      BY <2>2 DEF Fetch, TypeOK, Goto
    <3>4. faults' \in 0 .. MaxFaults
      BY <2>2 DEF Fetch, TypeOK, Fault
    <3>5. \A q \in Pods : pc'[q] \in {"config", "create", "write", "rename"} => build'[q] # None
      BY <2>2, <3>1 DEF Fetch, TypeOK, Goto
    <3>. QED  BY <2>2, <3>2, <3>3, <3>4, <3>5 DEF Fetch, TypeOK, Goto, world, disk
  <2>3. CASE WriteConfig(p)
    <3>1. build[p] \in Builds
      BY <2>3 DEF WriteConfig, TypeOK
    <3>2. misconf' \in BOOLEAN
      <4>1. CASE UNCHANGED <<misconf, faults>>
        BY <4>1 DEF TypeOK
      <4>2. CASE misconf' = TRUE
        BY <4>2, Zenon
      <4>. QED  BY <2>3, <4>1, <4>2 DEF WriteConfig
    <3>. QED  BY <2>3, <3>1, <3>2 DEF WriteConfig, TypeOK, Goto, Fault, world, pull, disk
  <2>4. CASE Create(p)
    <3>1. PICK f \in TmpFile : /\ tmp' = f
                               /\ \E kept \in Leftovers(p) : content' = [content EXCEPT ![f] = IF f = tmp THEN Only(kept, f) ELSE Empty]
                               /\ fd' = [fd EXCEPT ![p] = IF block THEN f ELSE NoFile]
      BY <2>4 DEF Create
    <3>2. f \in Inodes
      BY DEF TmpFile, New, Free, TypeOK
    <3>3. \A kept : Only(kept, f) \in [1 .. Parts -> Builds \cup {Hole}]
      BY <3>2 DEF Only, TypeOK
    <3>4. content' \in [Inodes -> [1 .. Parts -> Builds \cup {Hole}]]
      BY <3>1, <3>2, <3>3 DEF TypeOK, Empty
    <3>. QED  BY <2>4, <3>1, <3>2, <3>4 DEF Create, TypeOK, Goto, world
  <2>5. CASE Write(p)
    <3>1. PICK f \in IF block THEN {fd[p]} ELSE TmpFile :
             LET before == IF block \/ f = tmp THEN content[f] ELSE Empty IN
             /\ content' = [content EXCEPT ![f] = [before EXCEPT ![part[p] + 1] = build[p]]]
             /\ tmp' = IF block THEN tmp ELSE f
      BY <2>5 DEF Write
    <3>2. f \in Inodes
      BY <2>5, <3>1 DEF Write, TmpFile, New, Free, TypeOK
    <3>3. build[p] \in Builds
      BY <2>5 DEF Write, TypeOK
    <3>4. content' \in [Inodes -> [1 .. Parts -> Builds \cup {Hole}]]
      BY <3>1, <3>2, <3>3 DEF TypeOK, Empty
    <3>. QED  BY <2>5, <3>1, <3>2, <3>4 DEF Write, TypeOK, world
  <2>6. CASE WriteFails(p)
    <3>1. \A kept : tmp # NoFile => Only(kept, tmp) \in [1 .. Parts -> Builds \cup {Hole}]
      BY DEF Only, TypeOK
    <3>2. /\ content' \in [Inodes -> [1 .. Parts -> Builds \cup {Hole}]]
          /\ tmp' \in Inodes \cup {NoFile}
      BY <2>6, <3>1 DEF WriteFails, TypeOK
    <3>. QED  BY <2>6, <3>2 DEF WriteFails, TypeOK, Goto, Fault, world
  <2>7. CASE Written(p)
    <3>1. /\ content' \in [Inodes -> [1 .. Parts -> Builds \cup {Hole}]]
          /\ tmp' \in Inodes \cup {NoFile}
      BY <2>7 DEF Written, TypeOK, New, Free, Empty
    <3>. QED  BY <2>7, <3>1 DEF Written, TypeOK, Goto, world
  <2>8. CASE Rename(p)
    BY <2>8 DEF Rename, TypeOK, Goto, world, pull, disk
  <2>. QED  BY <1>1, <2>1, <2>2, <2>3, <2>4, <2>5, <2>6, <2>7, <2>8 DEF EnsureImage
<1>2. CASE Push
  BY <1>2 DEF Push, TypeOK, pull, disk
<1>3. CASE AgentRestart
  BY <1>3 DEF AgentRestart, TypeOK, disk
<1>4. CASE UNCHANGED vars
  BY <1>4 DEF vars, TypeOK
<1>. QED  BY <1>1, <1>2, <1>3, <1>4 DEF Next, Done

(* A pull that met no other one stays the only one, and keeps its file and *)
(* its config, over every step.                                            *)
LEMMA AloneStep == IInv /\ [Next]_vars => Alone'
<1> SUFFICES ASSUME IInv, [Next]_vars, ~overlap' PROVE (OnlyPull /\ OwnFile /\ (final # NoFile => Whole(final)) /\ OwnConfig)'
  BY DEF Alone
<1>. USE ImageAssumption
<1>0. /\ TypeOK /\ ~overlap
      /\ OnlyPull /\ OwnFile /\ (final # NoFile => Whole(final)) /\ OwnConfig
  <2>1. ~overlap
    BY DEF Next, EnsureImage, Stat, Fetch, WriteConfig, Create, Write, WriteFails, Written, Rename,
           Push, AgentRestart, Done, vars
  <2>. QED  BY <2>1 DEF IInv, Alone
<1>1. ASSUME NEW p \in Pods, EnsureImage(p)
      PROVE (OnlyPull /\ OwnFile /\ (final # NoFile => Whole(final)) /\ OwnConfig)'
  <2>1. CASE Stat(p)
    BY <1>0, <2>1 DEF Stat, Goto, world, pull, disk, Pulling, OnlyPull, OwnFile, OwnConfig, Whole, All, TypeOK
  <2>2. CASE Fetch(p)
    <3>1. /\ pc[p] = "fetch"
          /\ \/ pc' = [pc EXCEPT ![p] = "config"]
             \/ pc' = [pc EXCEPT ![p] = "stat"]
          /\ \A q \in Pods : q # p => build'[q] = build[q]
          /\ UNCHANGED <<fd, part, tmp, final, content, config, misconf, block>>
      BY <1>0, <2>2 DEF Fetch, Goto, world, disk, TypeOK
    <3>2. /\ \A q \in Pods : q # p => pc'[q] = pc[q]
          /\ pc'[p] \in {"config", "stat"}
      BY <3>1, <1>0 DEF TypeOK
    <3>3. OnlyPull'
      BY <3>1, <3>2, <1>0 DEF OnlyPull, Pulling
    <3>4. OwnFile'
      <4>1. ASSUME NEW q \in Pods, pc'[q] \in {"write", "rename"}
            PROVE  /\ pc'[q] = pc[q] /\ build'[q] = build[q] /\ part'[q] = part[q] /\ fd'[q] = fd[q]
                   /\ tmp' = tmp /\ content' = content /\ block' = block
        BY <4>1, <3>1, <3>2
      <4>2. ASSUME NEW q \in Pods, pc'[q] = "write"
            PROVE  /\ tmp' # NoFile /\ (block' => fd'[q] = tmp')
                   /\ \A i \in 1 .. part'[q] : content'[tmp'][i] = build'[q]
        BY <4>1, <4>2, <1>0 DEF OwnFile
      <4>3. ASSUME NEW q \in Pods, pc'[q] = "rename"
            PROVE  tmp' # NoFile /\ content'[tmp'] = All(build'[q])
        BY <4>1, <4>3, <1>0 DEF OwnFile
      <4>. QED  BY <4>2, <4>3 DEF OwnFile, All
    <3>5. OwnConfig' /\ (final # NoFile => Whole(final))'
      BY <3>1, <3>2, <1>0 DEF OwnConfig, All, Whole
    <3>. QED  BY <3>3, <3>4, <3>5
  <2>3. CASE WriteConfig(p)
    BY <1>0, <2>3 DEF WriteConfig, Goto, world, pull, disk, Pulling, OnlyPull, OwnFile, OwnConfig, Whole, All, TypeOK
  <2>4. CASE Create(p)
    <3>1. PICK f \in TmpFile : tmp' = f /\ fd' = [fd EXCEPT ![p] = IF block THEN f ELSE NoFile]
      BY <2>4 DEF Create
    <3>2. f # NoFile
      BY DEF TmpFile, New, Free
    <3>3. /\ Pulling(p) /\ final = NoFile
          /\ \A q \in Pods \ {p} : ~Pulling(q)
      BY <1>0, <2>4 DEF Create, OnlyPull, Pulling
    <3>4. /\ \A q \in Pods \ {p} : pc'[q] = pc[q]
          /\ pc'[p] = "write" /\ part'[p] = 0 /\ fd'[p] = (IF block THEN f ELSE NoFile)
      BY <1>0, <2>4, <3>1 DEF Create, Goto, TypeOK
    <3>5. /\ final' = NoFile /\ block' = block /\ config' = config /\ build' = build
          /\ misconf' = misconf
      BY <2>4, <3>3 DEF Create, world
    <3>6. OnlyPull'
      BY <3>3, <3>4, <3>5 DEF OnlyPull, Pulling
    <3>7. OwnFile'
      BY <3>1, <3>2, <3>3, <3>4, <3>5 DEF OwnFile, Pulling
    <3>8. OwnConfig'
      BY <1>0, <2>4, <3>3, <3>4, <3>5 DEF OwnConfig, Pulling, Create
    <3>. QED  BY <3>5, <3>6, <3>7, <3>8
  <2>5. CASE Write(p)
    <3>1. /\ Pulling(p) /\ final = NoFile
          /\ \A q \in Pods \ {p} : ~Pulling(q)
          /\ tmp \in Inodes /\ (block => fd[p] = tmp)
          /\ \A i \in 1 .. part[p] : content[tmp][i] = build[p]
      BY <1>0, <2>5 DEF Write, OnlyPull, OwnFile, Pulling, TypeOK
    <3>2. /\ tmp' = tmp
          /\ content' = [content EXCEPT ![tmp] = [content[tmp] EXCEPT ![part[p] + 1] = build[p]]]
      BY <2>5, <3>1 DEF Write, TmpFile
    <3>3. /\ content[tmp] \in [1 .. Parts -> Builds \cup {Hole}]
          /\ part[p] \in 0 .. Parts - 1 /\ part'[p] = part[p] + 1
      BY <1>0, <2>5, <3>1 DEF Write, TypeOK
    <3>4. content'[tmp] = [content[tmp] EXCEPT ![part[p] + 1] = build[p]]
      BY <1>0, <3>1, <3>2 DEF TypeOK
    <3>5. \A i \in 1 .. part'[p] : content'[tmp][i] = build[p]
      BY <3>1, <3>3, <3>4
    <3>6. /\ final' = NoFile /\ block' = block /\ config' = config /\ build' = build
          /\ misconf' = misconf /\ pc' = pc /\ fd' = fd
      BY <2>5, <3>1 DEF Write, world
    <3>7. OnlyPull'
      BY <1>0, <3>1, <3>6 DEF OnlyPull, Pulling
    <3>8. OwnFile'
      BY <2>5, <3>1, <3>2, <3>5, <3>6 DEF OwnFile, Pulling, Write
    <3>9. OwnConfig'
      BY <1>0, <3>6 DEF OwnConfig
    <3>. QED  BY <3>6, <3>7, <3>8, <3>9
  <2>6. CASE WriteFails(p)
    BY <1>0, <2>6 DEF WriteFails, Goto, world, pull, disk, Pulling, OnlyPull, OwnFile, OwnConfig, Whole, All, TypeOK
  <2>7. CASE Written(p)
    <3>1. /\ Pulling(p) /\ final = NoFile
          /\ \A q \in Pods \ {p} : ~Pulling(q)
          /\ tmp \in Inodes
          /\ \A i \in 1 .. Parts : content[tmp][i] = build[p]
      BY <1>0, <2>7 DEF Written, OnlyPull, OwnFile, Pulling, TypeOK
    <3>2. content[tmp] = All(build[p])
      <4>1. content[tmp] \in [1 .. Parts -> Builds \cup {Hole}]
        BY <1>0, <3>1 DEF TypeOK
      <4>. QED  BY <3>1, <4>1 DEF All
    <3>3. /\ tmp' = tmp /\ content' = content /\ final' = NoFile /\ config' = config
          /\ build' = build /\ misconf' = misconf
          /\ \A q \in Pods \ {p} : pc'[q] = pc[q]
          /\ pc'[p] = "rename"
      BY <1>0, <2>7, <3>1 DEF Written, Goto, TypeOK
    <3>4. OnlyPull'
      BY <3>1, <3>3 DEF OnlyPull, Pulling
    <3>5. OwnFile'
      BY <3>1, <3>2, <3>3 DEF OwnFile, Pulling, All
    <3>6. OwnConfig'
      BY <1>0, <2>7, <3>1, <3>3 DEF OwnConfig, Pulling, Written
    <3>. QED  BY <3>3, <3>4, <3>5, <3>6
  <2>8. CASE Rename(p)
    <3>1. /\ Pulling(p) /\ final = NoFile
          /\ \A q \in Pods \ {p} : ~Pulling(q)
          /\ tmp \in Inodes
          /\ content[tmp] = All(build[p])
          /\ build[p] \in Builds
      BY <1>0, <2>8 DEF Rename, OnlyPull, OwnFile, Pulling, TypeOK
    <3>2. /\ final' = tmp /\ content' = content /\ config' = config
          /\ build' = build /\ misconf' = misconf
          /\ \A q \in Pods \ {p} : pc'[q] = pc[q]
          /\ pc'[p] = "ready"
      BY <1>0, <2>8, <3>1 DEF Rename, Goto, TypeOK, pull
    <3>3. \A q \in Pods : pc'[q] \in {"stat", "ready"}
      BY <3>1, <3>2 DEF Pulling
    <3>4. OnlyPull' /\ OwnFile'
      BY <3>3 DEF OnlyPull, OwnFile, Pulling
    <3>5. Whole(final)'
      BY <3>1, <3>2 DEF Whole, All
    <3>6. OwnConfig'
      <4>1. ~misconf => config = build[p]
        BY <1>0, <2>8 DEF OwnConfig, Rename
      <4>. QED  BY <3>1, <3>2, <3>3, <4>1 DEF OwnConfig, All
    <3>. QED  BY <3>4, <3>5, <3>6
  <2>. QED  BY <1>1, <2>1, <2>2, <2>3, <2>4, <2>5, <2>6, <2>7, <2>8 DEF EnsureImage
<1>2. CASE Push
  BY <1>0, <1>2 DEF Push, pull, disk, Pulling, OnlyPull, OwnFile, OwnConfig, Whole, All
<1>3. CASE AgentRestart
  BY <1>0, <1>3 DEF AgentRestart, disk, Pulling, OnlyPull, OwnFile, OwnConfig, Whole, All
<1>4. CASE UNCHANGED vars
  BY <1>0, <1>4 DEF vars, Pulling, OnlyPull, OwnFile, OwnConfig, Whole, All
<1>. QED  BY <1>1, <1>2, <1>3, <1>4 DEF Next, Done

(* The invariant holds in every state of every behaviour.                  *)
THEOREM Invariance == Spec => []IInv
<1>1. Init => IInv
  <2>1. Init => Alone
    BY DEF Init, Alone, OnlyPull, OwnFile, OwnConfig, Pulling
  <2>. QED  BY <2>1, TypeInit DEF IInv
<1>2. IInv /\ [Next]_vars => IInv'
  BY TypeStep, AloneStep DEF IInv
<1>. QED  BY <1>1, <1>2, PTL DEF Spec

(* The types of the cache's files, names and pulls.                        *)
THEOREM ImageTypeCorrect == Spec => []TypeOK
<1>1. IInv => TypeOK
  BY DEF IInv
<1>. QED  BY <1>1, Invariance, PTL

(* Whatever pulls fail and wherever the agent is restarted, it takes two   *)
(* overlapping pulls of an image to leave it torn under its final name.    *)
THEOREM ImageWhole == Spec => []TornNeedsOverlap
<1>1. IInv => TornNeedsOverlap
  BY DEF IInv, Alone, TornNeedsOverlap
<1>. QED  BY <1>1, Invariance, PTL

(* The cached config is that of the cached image, unless pulls overlapped  *)
(* or an error in writing it was ignored.                                  *)
THEOREM ImageConfig == Spec => []ConfigOfImage
<1>1. IInv => ConfigOfImage
  BY DEF IInv, Alone, OwnConfig, All, ConfigOfImage
<1>. QED  BY <1>1, Invariance, PTL
================================================================================

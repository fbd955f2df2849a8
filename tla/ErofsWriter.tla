------------------------------ MODULE ErofsWriter ------------------------------
(***************************************************************************)
(* The EROFS writer (src/poc/agent/erofs/erofs.go): Convert reads a        *)
(* flattened tar, streams file data to the image as it goes and builds a   *)
(* tree of nodes in memory; then it writes the directories' dirent blocks, *)
(* the inode table and last the superblock.                                *)
(*                                                                         *)
(* A path is the sequence of its names, the root is <<>>.  A name is a     *)
(* number, its rank in the bytewise order, with a length; "." and ".." are *)
(* two of them.  The image is what was written at which byte: data extents *)
(* by their owner, dirent blocks, inodes and the superblock.  The tar is   *)
(* one of a real tree as mutate.Extract (external) flattens it: each path  *)
(* at most once, in any order, parents before, after or never, hard links  *)
(* to files, nothing below a global header.                                *)
(***************************************************************************)
EXTENDS Integers, Sequences, FiniteSets, FiniteSetsExt, SequencesExt

CONSTANTS Paths,       \* the paths tar entries can have
          NameLen,       \* name -> its length in bytes
          Dot, DotDot,     \* the names "." and ".."
          MaxName,           \* the longest name allowed (255)
          Sizes,         \* sizes of files
          BlockSize,
          MaxEntries     \* bound: entries of the tar

ASSUME BlockAssumption ==
    /\ <<>> \notin Paths
    /\ MaxName \in Nat
    /\ BlockSize \in Nat \ {0}
    /\ MaxName + 12 <= BlockSize
    /\ Sizes \subseteq Nat
    /\ MaxEntries \in Nat
(* Names in paths are none of "." and "..", as after path.Clean.           *)
ASSUME NameAssumption ==
    /\ DOMAIN NameLen \subseteq Nat \ {0}
    /\ \A n \in DOMAIN NameLen : NameLen[n] \in Nat
    /\ {Dot, DotDot} \subseteq DOMAIN NameLen
    /\ Dot # DotDot
    /\ NameLen[Dot] <= MaxName /\ NameLen[DotDot] <= MaxName
    /\ \A p \in Paths : p \in Seq(DOMAIN NameLen \ {Dot, DotDot})

InodeSize == 64
SlotSize == 32
DirentSize == 12

VARIABLES
    tar,      \* history: path -> the entry the tar had for it
    node,     \* w.byPath: path -> node
    pos,      \* the file offset of out
    nextBlk,  \* w.nextBlk
    extents,  \* data written: at off, size bytes, of owner
    blocks,   \* dirent blocks written: block address -> sequence of dirents
    inodes,   \* inodes written: byte offset -> inode
    super,    \* the superblock, or <<>>
    phase     \* tar, dirs, inodes, super, done or failed

vars == <<tar, node, pos, nextBlk, extents, blocks, inodes, super, phase>>

NoNode == <<0>>   \* hardTo of a node that is no alias

Dir(links) == [ftype |-> "dir", size |-> 0, blkaddr |-> 0, nlink |-> links, hardTo |-> NoNode]

Init ==
    /\ tar = <<>>
    /\ node = [p \in {<<>>} |-> Dir(2)]
    /\ pos = BlockSize
    /\ nextBlk = 1
    /\ extents = {}
    /\ blocks = <<>>
    /\ inodes = <<>>
    /\ super = <<>>
    /\ phase = "tar"

(***************************************************************************)
(* The tree                                                                *)
(***************************************************************************)
canonical(p) == IF node[p].hardTo = NoNode THEN p ELSE node[p].hardTo

isDir(p) == node[p].ftype = "dir"

ParentOf(p) == Front(p)

(* children of p: its entries in the map of the same name.                 *)
children(t, p) == {q \in DOMAIN t : q # <<>> /\ ParentOf(q) = p}

Ancestors(p) == {SubSeq(p, 1, i) : i \in 0 .. Len(p)}

LookedUpNoLink(p) == \* mutant of LookedUp
    [q \in DOMAIN node \cup Ancestors(p) |-> IF q \in DOMAIN node THEN node[q] ELSE Dir(2)]

(* lookup(p, true): the missing directories on the way to p and p itself   *)
(* are created as directories, each a link of its parent.                  *)
LookedUp(p) ==
    LET missing == Ancestors(p) \ DOMAIN node IN
    [q \in DOMAIN node \cup Ancestors(p) |->
        LET n == IF q \in DOMAIN node THEN node[q] ELSE Dir(2) IN
        IF \E c \in missing : ParentOf(c) = q THEN [n EXCEPT !.nlink = @ + 1] ELSE n]

(* It fails where the last existing one is no directory or a name is too   *)
(* long.                                                                   *)
LookupFails(p) ==
    \E q \in Ancestors(p) \ DOMAIN node :
        \/ NameLen[Last(q)] > MaxName
        \/ ParentOf(q) \in DOMAIN node /\ ~isDir(canonical(ParentOf(q)))

(* A node created as a directory becomes something else: its parent loses  *)
(* a subdirectory.                                                         *)
NotADir(t, p) ==
    IF t[p].ftype # "dir" THEN t
    ELSE [t EXCEPT ![ParentOf(p)].nlink = @ - 1, ![p].nlink = 1]

(***************************************************************************)
(* Writing                                                                 *)
(***************************************************************************)
BlocksForShort(size) == size \div BlockSize \* mutant of BlocksFor

BlocksFor(size) == (size + BlockSize - 1) \div BlockSize

(* size bytes written at the current offset, then padToBlock(size).        *)
Write(size) ==
    /\ pos' = pos + BlocksFor(size) * BlockSize
    /\ nextBlk' = nextBlk + BlocksFor(size)

(* streamData: data is written at the next block; none for size 0.         *)
streamData(t, p, size) ==
    IF size = 0
    THEN /\ node' = [t EXCEPT ![p].size = 0, ![p].blkaddr = 0]
         /\ UNCHANGED <<pos, nextBlk, extents>>
    ELSE /\ node' = [t EXCEPT ![p].size = size, ![p].blkaddr = nextBlk]
         /\ extents' = extents \cup {[off |-> pos, size |-> size, owner |-> p]}
         /\ Write(size)

(***************************************************************************)
(* addEntry, one disjunct per kind of entry                                *)
(***************************************************************************)
DirEntry(p) ==
    /\ node' = LookedUp(p)
    /\ UNCHANGED <<pos, nextBlk, extents>>

(* A regular file or a symbolic link (whose data is its target).           *)
DataEntry(p, kind, size) ==
    streamData([NotADir(LookedUp(p), p) EXCEPT ![p].ftype = kind, ![p].nlink = 1], p, size)

(* A hard link to a path already there: the node becomes an alias.         *)
LinkEntry(p, target) ==
    /\ LET t == [NotADir(LookedUp(p), p) EXCEPT ![p].hardTo = canonical(target)] IN
       node' = [t EXCEPT ![canonical(target)].nlink = @ + 1]
    /\ UNCHANGED <<pos, nextBlk, extents>>

(* A device or a fifo: no data.                                            *)
DeviceEntry(p) ==
    /\ node' = [NotADir(LookedUp(p), p) EXCEPT ![p].ftype = "dev", ![p].nlink = 1]
    /\ UNCHANGED <<pos, nextBlk, extents>>

(* Any other type, "XGlobalHeader etc: ignore": the node made by lookup    *)
(* stays, a directory.                                                     *)
IgnoredEntry(p) ==
    /\ node' = NotADir(LookedUp(p), p)
    /\ UNCHANGED <<pos, nextBlk, extents>>

(* What the tar's next entry can be.  A global header comes with a name of *)
(* its own (p is new in AddEntry), and no path goes through it.            *)
NewEntry(p) ==
    /\ phase = "tar"
    /\ Cardinality(DOMAIN tar) < MaxEntries
    /\ p \notin DOMAIN tar
    /\ \A q \in Ancestors(p) \cap DOMAIN tar : tar[q].kind # "ignored"

Record(p, entry) ==
    /\ tar' = [q \in DOMAIN tar \cup {p} |-> IF q = p THEN entry ELSE tar[q]]
    /\ UNCHANGED <<blocks, inodes, super, phase>>

(* A non-directory over a directory that has entries.                      *)
OverPopulated(p) == p \in DOMAIN node /\ isDir(p) /\ children(node, p) # {}

AddEntry(p) ==
    /\ NewEntry(p)
    /\ ~LookupFails(p)
    /\ \/ DirEntry(p) /\ Record(p, [kind |-> "dir", size |-> 0, link |-> p])
       \/ /\ ~OverPopulated(p)
          /\ \E kind \in {"reg", "sym"}, size \in Sizes :
                DataEntry(p, kind, size) /\ Record(p, [kind |-> kind, size |-> size, link |-> p])
       \/ /\ ~OverPopulated(p)
          /\ \E target \in DOMAIN node \cap DOMAIN tar :
                /\ tar[target].kind \in {"reg", "sym", "dev", "link"}
                /\ LinkEntry(p, target)
                /\ Record(p, [kind |-> "link", size |-> 0, link |-> target])
       \/ /\ ~OverPopulated(p)
          /\ DeviceEntry(p)
          /\ Record(p, [kind |-> "dev", size |-> 0, link |-> p])
       \/ /\ p \notin DOMAIN node
          /\ IgnoredEntry(p)
          /\ Record(p, [kind |-> "ignored", size |-> 0, link |-> p])

(* The conversion fails: on a path it cannot place, on a file over a       *)
(* populated directory, on a link to nothing, or reading or writing.       *)
ConvertFails ==
    /\ phase \notin {"done", "failed"}
    /\ phase' = "failed"
    /\ UNCHANGED <<tar, node, pos, nextBlk, extents, blocks, inodes, super>>

(***************************************************************************)
(* The metadata                                                            *)
(***************************************************************************)
(* walk visits the inodes breadth first, the names in order: shorter paths *)
(* first, paths of one length in the order of their names.                 *)
Inodes == {p \in DOMAIN node : node[p].hardTo = NoNode}

Precedes(p, q) ==
    \/ Len(p) < Len(q)
    \/ /\ Len(p) = Len(q)
       /\ \E i \in 1 .. Len(p) : p[i] < q[i] /\ \A j \in 1 .. i - 1 : p[j] = q[j]

nidFromZero(p) == \* mutant of nid
    Cardinality({q \in Inodes : Precedes(q, p)}) * (InodeSize \div SlotSize)

(* assignNids: two slots per inode, the first two left unused.             *)
nid(p) == (1 + Cardinality({q \in Inodes : Precedes(q, p)})) * (InodeSize \div SlotSize)

EndOfTar ==
    /\ phase = "tar"
    /\ phase' = "dirs"
    /\ UNCHANGED <<tar, node, pos, nextBlk, extents, blocks, inodes, super>>

(* The dirents of directory p, sorted by name.                             *)
Dirents(p) ==
    {[name |-> Dot, nid |-> nid(p), ftype |-> "dir"],
     [name |-> DotDot, nid |-> IF p = <<>> THEN nid(p) ELSE nid(ParentOf(p)), ftype |-> "dir"]}
    \cup {[name |-> Last(q), nid |-> nid(canonical(q)), ftype |-> node[canonical(q)].ftype] :
             q \in children(node, p)}

(* The elements of D, each behind those that come before it.               *)
SortedBy(D, before(_, _)) ==
    [i \in 1 .. Cardinality(D) |->
        CHOOSE d \in D : Cardinality({e \in D : before(e, d)}) = i - 1]

DirentsDotsFirst(p) == \* mutant of SortedDirents
    SortedBy(Dirents(p), LAMBDA d, e :
        \/ d.name \in {Dot, DotDot} /\ (e.name \notin {Dot, DotDot} \/ d.name < e.name)
        \/ d.name \notin {Dot, DotDot} /\ e.name \notin {Dot, DotDot} /\ d.name < e.name)

SortedDirents(p) == SortedBy(Dirents(p), LAMBDA d, e : d.name < e.name)

(* The bytes the first k entries of es take, for every k.                  *)
Bytes(es) ==
    LET sum[k \in 0 .. Len(es)] ==
            IF k = 0 THEN 0 ELSE sum[k - 1] + DirentSize + NameLen[es[k].name]
    IN  sum

(* The bytes entries i to j of es take in a block.                         *)
Used(es, i, j) == Bytes(es)[j] - Bytes(es)[i - 1]

(* How many entries from the i-th on fit a block.                          *)
Fit(es, i) == Max({n \in 0 .. Len(es) - i + 1 : Used(es, i, i + n - 1) <= BlockSize})

(* Where the blocks of es begin: each takes as many entries as fit.        *)
Starts(es) ==
    LET start[k \in 0 .. Len(es)] ==
            IF k = 0 THEN 1 ELSE LET i == start[k - 1] IN i + Fit(es, i)
    IN  start

(* The blocks, up to the one that has taken the last entry.                *)
Packed(es) ==
    LET start == Starts(es)
    IN  [b \in 1 .. Min({k \in DOMAIN start : start[k] > Len(es)}) |->
            SubSeq(es, start[b - 1], start[b] - 1)]

(* The length of a directory: whole blocks, but the last by what it holds. *)
DirSize(packed) ==
    (Len(packed) - 1) * BlockSize + Used(Last(packed), 1, Len(Last(packed)))

(* writeOneDir for the next directory of the walk; the directories whose   *)
(* block address is still 0 are to come.                                   *)
WriteDir(p) ==
    /\ phase = "dirs"
    /\ p \in Inodes
    /\ isDir(p)
    /\ node[p].blkaddr = 0
    /\ \A q \in Inodes : isDir(q) /\ node[q].blkaddr = 0 => q = p \/ Precedes(p, q)
    /\ LET packed == Packed(SortedDirents(p)) IN
       /\ node' = [node EXCEPT ![p].blkaddr = nextBlk, ![p].size = DirSize(packed)]
       /\ blocks' = [b \in DOMAIN blocks \cup (nextBlk .. nextBlk + Len(packed) - 1) |->
                        IF b \in DOMAIN blocks THEN blocks[b] ELSE packed[b - nextBlk + 1]]
       /\ Write(DirSize(packed))
    /\ UNCHANGED <<tar, extents, inodes, super, phase>>

DirsWritten ==
    /\ phase = "dirs"
    /\ \A p \in Inodes : isDir(p) => node[p].blkaddr # 0
    /\ phase' = "inodes"
    /\ UNCHANGED <<tar, node, pos, nextBlk, extents, blocks, inodes, super>>

(* writeInodes: the table, behind two empty slots, in the order of the     *)
(* walk.                                                                   *)
WriteInodes ==
    /\ phase = "inodes"
    /\ LET at(p) == pos + 2 * SlotSize
                    + InodeSize * Cardinality({q \in Inodes : Precedes(q, p)})
       IN  inodes' = [off \in {at(p) : p \in Inodes} |->
                         LET p == CHOOSE q \in Inodes : at(q) = off IN
                         [ftype |-> node[p].ftype, size |-> node[p].size,
                          blkaddr |-> node[p].blkaddr, nlink |-> node[p].nlink]]
    /\ super' = [metaBlk |-> nextBlk, inos |-> Cardinality(Inodes)]
    /\ Write(2 * SlotSize + InodeSize * Cardinality(Inodes))
    /\ phase' = "super"
    /\ UNCHANGED <<tar, node, extents, blocks>>

(* writeSuperblock, into block 0.                                          *)
WriteSuperblock ==
    /\ phase = "super"
    /\ super' = [root |-> nid(<<>>), metaBlk |-> super.metaBlk, inos |-> super.inos,
                 blocks |-> nextBlk]
    /\ phase' = "done"
    /\ UNCHANGED <<tar, node, pos, nextBlk, extents, blocks, inodes>>

Next ==
    \/ \E p \in Paths : AddEntry(p)
    \/ EndOfTar
    \/ \E p \in DOMAIN node : WriteDir(p)
    \/ DirsWritten
    \/ WriteInodes
    \/ WriteSuperblock
    \/ ConvertFails

Spec == Init /\ [][Next]_vars

(***************************************************************************)
(* Reading the image, as the kernel does (external)                        *)
(***************************************************************************)
InodeAt(n) == super.metaBlk * BlockSize + n * SlotSize

(* The dirents of the directory with inode i: those of all its blocks.     *)
ReadDir(i) ==
    UNION {Range(blocks[b]) : b \in i.blkaddr .. i.blkaddr + BlocksFor(i.size) - 1}

(* The nid name leads to in the directory with nid n, 0 where it leads     *)
(* nowhere.                                                                *)
ReadName(n, name) ==
    IF n = 0 \/ InodeAt(n) \notin DOMAIN inodes THEN 0
    ELSE LET i == inodes[InodeAt(n)]
             found == IF i.ftype = "dir" THEN {d \in ReadDir(i) : d.name = name} ELSE {}
         IN  IF found = {} THEN 0 ELSE (CHOOSE d \in found : TRUE).nid

(* The nid a path leads to, name by name from the root.                    *)
ReadPath(p) ==
    LET at[k \in 0 .. Len(p)] ==
            IF k = 0 THEN super.root ELSE ReadName(at[k - 1], p[k])
    IN  at[Len(p)]

(***************************************************************************)
(* Properties                                                              *)
(***************************************************************************)
(* File data stays where its inode says: out is at the block w.nextBlk     *)
(* names, every file with data has it there, and no two pieces of data     *)
(* overlap one another, a directory's blocks or block 0, however sizes and *)
(* blocks fall (streamData and padToBlock, erofs.go:245-271).              *)
DataInPlace ==
    /\ pos = nextBlk * BlockSize
    /\ \A p \in DOMAIN node : node[p].ftype \in {"reg", "sym"} /\ node[p].size > 0 =>
          [off |-> node[p].blkaddr * BlockSize, size |-> node[p].size, owner |-> p] \in extents
    /\ \A x \in extents : BlockSize <= x.off /\ x.off + x.size <= pos
    /\ \A x, y \in extents : x = y \/ x.off + x.size <= y.off \/ y.off + y.size <= x.off
    /\ \A x \in extents, b \in DOMAIN blocks :
          x.off + x.size <= b * BlockSize \/ (b + 1) * BlockSize <= x.off

(* "entries MUST be sorted bytewise, within and across blocks, and no      *)
(* dirent's name may span a block boundary" (erofs.go:21-23), also where a *)
(* name sorts before "." and where a block is exactly full.                *)
DirsSearchable ==
    phase = "done" => \A p \in Inodes : isDir(p) =>
        LET first == node[p].blkaddr
            last == first + BlocksFor(node[p].size) - 1
        IN  /\ first .. last \subseteq DOMAIN blocks
            /\ \A b \in first .. last :
                  Used(blocks[b], 1, Len(blocks[b])) \in 1 .. BlockSize
            /\ \A b, c \in first .. last : \A i \in DOMAIN blocks[b], j \in DOMAIN blocks[c] :
                  (b < c \/ (b = c /\ i < j)) => blocks[b][i].name < blocks[c][j].name

(* The finished image gives back the tar: every entry's path leads to an   *)
(* inode of its type and size, a hard link to its target's, and directories *)
(* hold nothing that the tar did not name or imply.                        *)
ReadsBack ==
    phase = "done" =>
        /\ \A p \in DOMAIN tar :
              LET n == ReadPath(p) IN
              /\ n # 0 /\ InodeAt(n) \in DOMAIN inodes
              /\ LET i == inodes[InodeAt(n)] IN
                 CASE tar[p].kind = "dir" -> i.ftype = "dir"
                   [] tar[p].kind \in {"reg", "sym"} ->
                         /\ i.ftype = tar[p].kind
                         /\ i.size = tar[p].size
                         /\ i.size > 0 => [off |-> i.blkaddr * BlockSize, size |-> i.size,
                                           owner |-> p] \in extents
                   [] tar[p].kind = "dev" -> i.ftype = "dev"
                   [] tar[p].kind = "link" -> n = ReadPath(tar[p].link)
                   [] OTHER -> TRUE
        /\ \A p \in DOMAIN node : p # <<>> => \E q \in DOMAIN tar : p \in Ancestors(q)

(* Link counts are those Linux expects: a file's is the number of its      *)
(* names, a directory's two and its subdirectories, in whatever order the  *)
(* tar named them (the nlink bookkeeping of lookup and addEntry).          *)
LinkCounts ==
    phase = "done" /\ (\A p \in DOMAIN tar : tar[p].kind # "ignored") =>
        \A p \in Inodes :
            inodes[InodeAt(nid(p))].nlink =
                IF isDir(p) THEN 2 + Cardinality({q \in children(node, p) \cap Inodes : isDir(q)})
                ELSE Cardinality({q \in DOMAIN node : canonical(q) = p})
================================================================================

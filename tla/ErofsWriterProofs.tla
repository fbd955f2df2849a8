--------------------------- MODULE ErofsWriterProofs ---------------------------
(***************************************************************************)
(* Proofs about ErofsWriter, for every set of paths and names, every file  *)
(* and block size and any number of entries.                               *)
(***************************************************************************)
EXTENDS ErofsWriter, SequenceTheorems, FiniteSetTheorems, WellFoundedInduction, TLAPS

Names == DOMAIN NameLen
FileNames == Names \ {Dot, DotDot}

Nodes == [ftype : {"dir", "reg", "sym", "dev"}, size : Nat, blkaddr : Nat, nlink : Int,
          hardTo : Seq(FileNames) \cup {NoNode}]

(* p is a directory of the tree t, and no alias.                           *)
OwnDir(t, p) == t[p].ftype = "dir" /\ t[p].hardTo = NoNode

(* A tree whose paths all go through directories.                          *)
Tree(t) ==
    /\ DOMAIN t \subseteq Seq(FileNames)
    /\ IsFiniteSet(DOMAIN t)
    /\ t \in [DOMAIN t -> Nodes]
    /\ <<>> \in DOMAIN t
    /\ OwnDir(t, <<>>)
    /\ \A p \in DOMAIN t \ {<<>>} :
          /\ ParentOf(p) \in DOMAIN t
          /\ OwnDir(t, ParentOf(p))
          /\ NameLen[Last(p)] <= MaxName

(* An alias leads to a file that has an entry.                             *)
Aliases ==
    \A p \in DOMAIN node : LET q == node[p].hardTo IN
        q # NoNode => /\ q \in DOMAIN node \cap DOMAIN tar
                      /\ node[q].hardTo = NoNode
                      /\ node[q].ftype # "dir"

(* The node of an entry of the tar.                                        *)
NodeOf(p, entry) ==
    CASE entry.kind \in {"dir", "ignored"} -> OwnDir(node, p)
      [] entry.kind \in {"reg", "sym"} ->
            node[p].ftype = entry.kind /\ node[p].hardTo = NoNode /\ node[p].size = entry.size
      [] entry.kind = "dev" -> node[p].ftype = "dev" /\ node[p].hardTo = NoNode
      [] entry.kind = "link" ->
            /\ node[p].hardTo # NoNode
            /\ entry.link \in DOMAIN tar
            /\ canonical(entry.link) = node[p].hardTo
      [] OTHER -> FALSE

Entries ==
    /\ DOMAIN tar \subseteq DOMAIN node
    /\ <<>> \notin DOMAIN tar
    /\ \A p \in DOMAIN tar : NodeOf(p, tar[p])
    /\ \A p \in DOMAIN node \ DOMAIN tar : OwnDir(node, p)
    /\ \A p \in DOMAIN node \ {<<>>} : \E q \in DOMAIN tar : p \in Ancestors(q)

(* What was written where.                                                 *)
Written ==
    /\ nextBlk \in Nat \ {0}
    /\ extents \subseteq [off : Nat, size : Nat, owner : Seq(FileNames)]
    /\ DOMAIN blocks \subseteq 0 .. nextBlk - 1
    /\ phase = "tar" => DOMAIN blocks = {}
    /\ DataInPlace

(* Links counted while the tree is built.                                  *)
SubDirs(t, p) == {q \in children(t, p) : OwnDir(t, q)}
NamesOf(t, p) == {q \in DOMAIN t : (IF t[q].hardTo = NoNode THEN q ELSE t[q].hardTo) = p}
Linked(t) ==
    \A p \in DOMAIN t : t[p].hardTo = NoNode =>
        t[p].nlink = IF t[p].ftype = "dir" THEN 2 + Cardinality(SubDirs(t, p))
                                           ELSE Cardinality(NamesOf(t, p))
LinkInv == (\A p \in DOMAIN tar : tar[p].kind # "ignored") => Linked(node)

(* The blocks of a directory that was written.                             *)
DirWritten(p) ==
    LET packed == Packed(SortedDirents(p)) IN
    /\ node[p].size = DirSize(packed)
    /\ \A b \in 1 .. Len(packed) :
          /\ node[p].blkaddr + b - 1 \in DOMAIN blocks
          /\ blocks[node[p].blkaddr + b - 1] = packed[b]
Dirs ==
    /\ phase = "tar" => \A p \in DOMAIN node : OwnDir(node, p) => node[p].blkaddr = 0
    /\ phase \in {"dirs", "inodes", "super", "done"} =>
          \A p \in DOMAIN node : OwnDir(node, p) /\ node[p].blkaddr # 0 => DirWritten(p)
    /\ phase \in {"inodes", "super", "done"} =>
          \A p \in DOMAIN node : OwnDir(node, p) => node[p].blkaddr # 0

(* The inode table.                                                        *)
Table ==
    /\ phase \in {"super", "done"} =>
          \A p \in Inodes :
              /\ InodeAt(nid(p)) \in DOMAIN inodes
              /\ inodes[InodeAt(nid(p))] =
                    [ftype |-> node[p].ftype, size |-> node[p].size,
                     blkaddr |-> node[p].blkaddr, nlink |-> node[p].nlink]
    /\ phase = "done" => super.root = nid(<<>>)

Phases == {"tar", "dirs", "inodes", "super", "done", "failed"}

IInv ==
    /\ phase \in Phases
    /\ Tree(node) /\ Aliases /\ Entries /\ Written /\ LinkInv /\ Dirs /\ Table

(***************************************************************************)
(* Numbers, ranks and recursive functions                                  *)
(***************************************************************************)
(* A nonempty set of naturals has a least element.                         *)
LEMMA Least ==
    ASSUME NEW T \in SUBSET Nat, T # {}
    PROVE  \E x \in T : \A y \in T : x <= y
<1> DEFINE R == {ss \in Nat \X Nat : ss[1] < ss[2]}
<1>1. IsWellFoundedOn(R, Nat)
  BY NatLessThanWellFounded DEF OpToRel
<1>2. \A x, y \in Nat : y < x => <<y, x>> \in R
  OBVIOUS
<1> HIDE DEF R
<1>3. PICK x \in T : \A y \in T : ~(<<y, x>> \in R)
  BY <1>1, WFMin
<1>4. ASSUME NEW y \in T
      PROVE  x <= y
  <2>1. x \in Nat /\ y \in Nat /\ ~(y < x)
    BY <1>2, <1>3
  <2> QED
    BY <2>1
<1> QED
  BY <1>4

(* Min of a nonempty set of naturals.                                      *)
LEMMA MinOf ==
    ASSUME NEW T \in SUBSET Nat, T # {}
    PROVE  Min(T) \in T /\ \A y \in T : Min(T) <= y
<1>1. \E x \in T : \A y \in T : x <= y
  BY Least
<1> QED
  BY <1>1 DEF Min

(* Max of a nonempty set of naturals with a bound.                         *)
LEMMA MaxOf ==
    ASSUME NEW m \in Nat, NEW T \in SUBSET (0 .. m), T # {}
    PROVE  Max(T) \in T /\ \A y \in T : y <= Max(T)
<1> DEFINE U == {m - x : x \in T}
<1>1. U \in SUBSET Nat /\ U # {}
  OBVIOUS
<1>2. PICK u \in U : \A y \in U : u <= y
  BY <1>1, Least
<1>3. PICK x \in T : u = m - x
  OBVIOUS
<1>4. \A y \in T : m - y \in U
  OBVIOUS
<1>5. \A y \in T : x >= y
  BY <1>2, <1>3, <1>4
<1>6. \E z \in T : \A y \in T : z >= y
  BY <1>5
<1> HIDE DEF U
<1>7. Max(T) \in T /\ \A y \in T : Max(T) >= y
  BY <1>6 DEF Max
<1> QED
  BY <1>7

(* f is the recursive function on 0 .. n that starts with a and goes on by *)
(* G.                                                                      *)
Unrolls(f, n, S, a, G) ==
    f \in [0 .. n -> S] /\ f[0] = a /\ \A k \in 1 .. n : f[k] = G[<<k, f[k - 1]>>]
StepsOn(n, S) == [(1 .. n) \X S -> S]

(* A recursive function on 0 .. n exists.                                  *)
LEMMA Recursion ==
    ASSUME NEW n \in Nat, NEW S, NEW a \in S, NEW G \in StepsOn(n, S)
    PROVE  \E f : Unrolls(f, n, S, a, G)
<1> USE DEF Unrolls, StepsOn
<1> DEFINE Good(m) ==
        \E f \in [0 .. m -> S] : f[0] = a /\ \A k \in 1 .. m : f[k] = G[<<k, f[k - 1]>>]
           Bad == {m \in 0 .. n : ~Good(m)}
<1> SUFFICES ASSUME ~Good(n)
             PROVE  FALSE
  OBVIOUS
<1>1. Bad \in SUBSET Nat /\ n \in Bad
  OBVIOUS
<1>2. PICK m \in Bad : \A y \in Bad : m <= y
  BY <1>1, Least
<1>3. m \in 0 .. n /\ ~Good(m)
  BY <1>2
<1>4. Good(0)
  <2> DEFINE z == [k \in 0 .. 0 |-> a]
  <2>1. z \in [0 .. 0 -> S] /\ z[0] = a /\ 1 .. 0 = {}
    OBVIOUS
  <2> HIDE DEF z
  <2> QED
    BY <2>1
<1>5. m # 0
  BY <1>3, <1>4
<1>6. Good(m - 1)
  <2>1. m - 1 \in 0 .. n /\ ~(m <= m - 1)
    BY <1>3, <1>5
  <2>2. m - 1 \notin Bad
    BY <1>2, <2>1
  <2> HIDE DEF Good
  <2> QED
    BY <2>1, <2>2
<1>7. PICK f \in [0 .. m - 1 -> S] :
         f[0] = a /\ \A k \in 1 .. m - 1 : f[k] = G[<<k, f[k - 1]>>]
  BY <1>6
<1> DEFINE g == [k \in 0 .. m |-> IF k = m THEN G[<<m, f[m - 1]>>] ELSE f[k]]
<1>8. f[m - 1] \in S /\ m \in 1 .. n
  BY <1>3, <1>5
<1>9. G[<<m, f[m - 1]>>] \in S
  BY <1>8
<1>10. g \in [0 .. m -> S]
  BY <1>9, <1>3
<1>11. g[0] = a
  BY <1>3, <1>5, <1>7
<1>12. ASSUME NEW k \in 1 .. m
       PROVE  g[k] = G[<<k, g[k - 1]>>]
  <2>1. g[k - 1] = f[k - 1]
    BY <1>3, <1>8
  <2>2. CASE k = m
    <3>1. g[m] = G[<<m, f[m - 1]>>]
      BY <1>8
    <3> QED
      BY <3>1, <2>1, <2>2
  <2>3. CASE k # m
    <3>1. k \in 1 .. m - 1 /\ k \in 0 .. m
      BY <2>3, <1>8
    <3> QED
      BY <3>1, <2>1, <2>3, <1>7
  <2> QED
    BY <2>2, <2>3
<1>13. Good(m)
  <2> HIDE DEF g
  <2> QED
    BY <1>10, <1>11, <1>12
<1> QED
  BY <1>3, <1>13

(* R is a strict total order on S; the rank of x is the number of elements *)
(* before it.                                                              *)
Ordered(S, R) ==
    /\ \A x \in S : <<x, x>> \notin R
    /\ \A x, y, z \in S : <<x, y>> \in R /\ <<y, z>> \in R => <<x, z>> \in R
    /\ \A x, y \in S : x = y \/ <<x, y>> \in R \/ <<y, x>> \in R
Rank(S, R, x) == Cardinality({y \in S : <<y, x>> \in R})

(* Ranks number the elements of a finite set.                              *)
LEMMA Ranks ==
    ASSUME NEW S, IsFiniteSet(S), NEW R, Ordered(S, R)
    PROVE  /\ \A x \in S : Rank(S, R, x) \in 0 .. Cardinality(S) - 1
           /\ \A x, y \in S : <<x, y>> \in R => Rank(S, R, x) < Rank(S, R, y)
           /\ \A x, y \in S : Rank(S, R, x) = Rank(S, R, y) => x = y
           /\ \A i \in 0 .. Cardinality(S) - 1 : \E x \in S : Rank(S, R, x) = i
<1> USE DEF Ordered
<1> DEFINE Below(x) == {y \in S : <<y, x>> \in R}
           rank(x) == Cardinality(Below(x))
           n == Cardinality(S)
<1>1. n \in Nat
  BY FS_CardinalityType
<1>2. \A x \in S : IsFiniteSet(Below(x)) /\ rank(x) \in Nat
  <2> TAKE x \in S
  <2>1. Below(x) \in SUBSET S
    OBVIOUS
  <2> QED
    BY <2>1, FS_Subset, FS_CardinalityType
<1>3. \A x \in S : rank(x) \in 0 .. n - 1
  <2> TAKE x \in S
  <2>1. Below(x) \in SUBSET S /\ x \notin Below(x)
    OBVIOUS
  <2>2. Below(x) # S
    BY <2>1
  <2>3. rank(x) <= n /\ rank(x) # n
    BY <2>1, <2>2, FS_Subset
  <2> QED
    <3>1. rank(x) \in Nat
      BY <1>2
    <3> HIDE DEF rank, n
    <3> QED
      BY <2>3, <3>1, <1>1
<1>4. \A x, y \in S : <<x, y>> \in R => rank(x) < rank(y)
  <2> TAKE x, y \in S
  <2> HAVE <<x, y>> \in R
  <2>1. Below(x) \in SUBSET Below(y)
    OBVIOUS
  <2>2. x \in Below(y) /\ x \notin Below(x)
    OBVIOUS
  <2>3. Below(x) # Below(y)
    BY <2>2
  <2>4. rank(x) <= rank(y) /\ rank(x) # rank(y)
    BY <2>1, <2>3, <1>2, FS_Subset
  <2> QED
    BY <2>4, <1>2
<1>5. \A x, y \in S : rank(x) = rank(y) => x = y
  <2> TAKE x, y \in S
  <2>1. rank(x) \in Nat /\ rank(y) \in Nat
    BY <1>2
  <2>2. (<<x, y>> \in R => rank(x) < rank(y)) /\ (<<y, x>> \in R => rank(y) < rank(x))
    BY <1>4
  <2> HIDE DEF rank
  <2> QED
    BY <2>1, <2>2
<1> DEFINE I == 0 .. n - 1
           f == [x \in S |-> rank(x)]
<1>6. f \in Injection(S, I)
  <2>1. f \in [S -> I]
    BY <1>3
  <2>2. \A x, y \in S : f[x] = f[y] => x = y
    BY <1>5
  <2>3. DOMAIN f = S
    OBVIOUS
  <2> HIDE DEF f, I
  <2> QED
    BY <2>1, <2>2, <2>3 DEF Injection, IsInjective
<1>7. IsFiniteSet(I) /\ Cardinality(I) = n
  <2> HIDE DEF n
  <2>1. 0 \in Int /\ n - 1 \in Int
    BY <1>1
  <2>2. /\ IsFiniteSet(0 .. n - 1)
        /\ Cardinality(0 .. n - 1) = IF 0 > n - 1 THEN 0 ELSE (n - 1) - 0 + 1
    BY <2>1, FS_Interval
  <2> QED
    BY <2>2, <1>1
<1>8. f \in Surjection(S, I)
  <2> HIDE DEF f, I
  <2> QED
    BY <1>6, <1>7, FS_Injection
<1>9. \A i \in I : \E x \in S : rank(x) = i
  BY <1>8 DEF Surjection
<1> QED
  BY <1>3, <1>4, <1>5, <1>9 DEF Rank

(***************************************************************************)
(* Dirent blocks                                                           *)
(***************************************************************************)
ShortNames == {n \in Names : NameLen[n] <= MaxName}
DirentSet == [name : ShortNames, nid : Nat, ftype : {"dir", "reg", "sym", "dev"}]

(* The name of a dirent.                                                   *)
LEMMA DirentName ==
    ASSUME NEW d \in DirentSet
    PROVE  d.name \in Nat /\ NameLen[d.name] \in Nat /\ NameLen[d.name] <= MaxName
<1>1. d.name \in ShortNames
  BY DEF DirentSet
<1> QED
  BY <1>1, NameAssumption DEF ShortNames, Names

(* The recursion of Bytes.                                                 *)
LEMMA BytesRec ==
    ASSUME NEW es \in Seq(DirentSet)
    PROVE  /\ Bytes(es) \in [0 .. Len(es) -> Nat]
           /\ Bytes(es)[0] = 0
           /\ \A k \in 1 .. Len(es) :
                 Bytes(es)[k] = Bytes(es)[k - 1] + DirentSize + NameLen[es[k].name]
<1> DEFINE n == Len(es)
           w(k) == NameLen[es[k].name]
           G == [x \in (1 .. n) \X Nat |-> x[2] + DirentSize + w(x[1])]
<1>1. n \in Nat
  OBVIOUS
<1>2. \A k \in 1 .. n : w(k) \in Nat
  <2> TAKE k \in 1 .. n
  <2>1. es[k] \in DirentSet
    BY ElementOfSeq
  <2> QED
    BY <2>1, DirentName
<1>3. G \in [(1 .. n) \X Nat -> Nat]
  <2>1. \A x \in (1 .. n) \X Nat : x[2] + DirentSize + w(x[1]) \in Nat
    <3> TAKE x \in (1 .. n) \X Nat
    <3>1. x[2] \in Nat /\ w(x[1]) \in Nat
      BY <1>2
    <3> QED
      BY <3>1 DEF DirentSize
  <2> QED
    BY <2>1
<1>4. PICK f \in [0 .. n -> Nat] : f[0] = 0 /\ \A k \in 1 .. n : f[k] = G[<<k, f[k - 1]>>]
  <2>1. 0 \in Nat /\ G \in StepsOn(n, Nat)
    BY <1>3 DEF StepsOn
  <2> HIDE DEF G, n
  <2>2. \E f : Unrolls(f, n, Nat, 0, G)
    BY <1>1, <2>1, Recursion
  <2> QED
    BY <2>2 DEF Unrolls
<1>5. \A k \in 1 .. n : f[k] = f[k - 1] + DirentSize + w(k)
  <2> TAKE k \in 1 .. n
  <2>1. k - 1 \in 0 .. n /\ f[k - 1] \in Nat
    BY <1>1
  <2>2. G[<<k, f[k - 1]>>] = f[k - 1] + DirentSize + w(k)
    BY <2>1
  <2> QED
    BY <1>4, <2>2
<1>6. f = [k \in 0 .. n |-> IF k = 0 THEN 0 ELSE f[k - 1] + DirentSize + w(k)]
  BY <1>1, <1>4, <1>5
<1> DEFINE B == Bytes(es)
<1>7. B = [k \in 0 .. n |-> IF k = 0 THEN 0 ELSE B[k - 1] + DirentSize + w(k)]
  BY <1>6 DEF Bytes
<1> HIDE DEF B
<1>8. B[0] = 0 /\ \A k \in 1 .. n : B[k] = B[k - 1] + DirentSize + w(k)
  <2>1. 0 \in 0 .. n /\ \A k \in 1 .. n : k \in 0 .. n /\ k # 0
    BY <1>1
  <2> QED
    BY <1>7, <2>1
<1>9. \A k \in 0 .. n : B[k] \in Nat
  <2> DEFINE Bad == {k \in 0 .. n : B[k] \notin Nat}
  <2> SUFFICES ASSUME Bad # {}
               PROVE  FALSE
    OBVIOUS
  <2>0. Bad \in SUBSET Nat
    BY <1>1
  <2>1. PICK k \in Bad : \A y \in Bad : k <= y
    <3> HIDE DEF Bad
    <3> QED
      BY <2>0, Least
  <2>2. k # 0
    BY <1>8
  <2>3. k \in 1 .. n /\ k - 1 \in 0 .. n /\ ~(k <= k - 1)
    BY <2>2, <1>1
  <2>4. B[k - 1] \in Nat
    BY <2>1, <2>3
  <2>5. B[k] \in Nat
    <3>1. w(k) \in Nat /\ B[k] = B[k - 1] + DirentSize + w(k)
      BY <2>3, <1>2, <1>8
    <3>2. \A x, y \in Nat : x + DirentSize + y \in Nat
      BY DEF DirentSize
    <3> HIDE DEF w
    <3> QED
      BY <3>1, <3>2, <2>4
  <2> QED
    BY <2>5
<1> QED
  <2>1. B \in [0 .. n -> Nat]
    BY <1>7, <1>9
  <2> QED
    BY <2>1, <1>8 DEF B

(* Bytes grows by at least one and at most a block with every entry.       *)
LEMMA BytesGrow ==
    ASSUME NEW es \in Seq(DirentSet)
    PROVE  /\ \A k \in 1 .. Len(es) : Bytes(es)[k] - Bytes(es)[k - 1] \in 1 .. BlockSize
           /\ \A i, j \in 0 .. Len(es) : i < j => Bytes(es)[i] < Bytes(es)[j]
<1> DEFINE n == Len(es)
           B == Bytes(es)
<1>1. n \in Nat
  OBVIOUS
<1>2. \A k \in 0 .. n : B[k] \in Nat
  BY BytesRec
<1>3. \A k \in 1 .. n : B[k] = B[k - 1] + DirentSize + NameLen[es[k].name]
  BY BytesRec
<1> HIDE DEF B
<1>4. ASSUME NEW k \in 1 .. n
      PROVE  B[k] - B[k - 1] \in 1 .. BlockSize
  <2>1. NameLen[es[k].name] \in Nat /\ NameLen[es[k].name] <= MaxName
    <3>1. es[k] \in DirentSet
      BY ElementOfSeq
    <3> QED
      BY <3>1, DirentName
  <2>2. k - 1 \in 0 .. n /\ B[k - 1] \in Nat
    BY <1>1, <1>2
  <2>3. PICK w, b : w = NameLen[es[k].name] /\ b = B[k - 1]
    OBVIOUS
  <2>4. w \in Nat /\ w <= MaxName /\ b \in Nat /\ B[k] = b + 12 + w
    BY <2>1, <2>2, <2>3, <1>3 DEF DirentSize
  <2>5. MaxName \in Nat /\ BlockSize \in Nat /\ MaxName + 12 <= BlockSize
    BY BlockAssumption
  <2>6. (b + 12 + w) - b \in 1 .. BlockSize
    BY <2>4, <2>5
  <2> QED
    BY <2>3, <2>4, <2>6
<1>5. ASSUME NEW i \in 0 .. n, NEW j \in 0 .. n, i < j
      PROVE  B[i] < B[j]
  <2> DEFINE Bad == {k \in 0 .. n : i < k /\ ~(B[i] < B[k])}
  <2> SUFFICES ASSUME Bad # {}
               PROVE  FALSE
    BY <1>5
  <2>0. Bad \in SUBSET Nat
    BY <1>1
  <2>1. PICK k \in Bad : \A y \in Bad : k <= y
    <3> HIDE DEF Bad
    <3> QED
      BY <2>0, Least
  <2>2. k \in 1 .. n /\ k - 1 \in 0 .. n /\ ~(k <= k - 1) /\ i <= k - 1
    BY <1>1
  <2>3. B[k] \in Nat /\ B[k - 1] \in Nat /\ B[k] - B[k - 1] >= 1 /\ B[i] \in Nat
    BY <1>2, <1>4, <2>2
  <2>4. CASE i = k - 1
    BY <2>3, <2>4
  <2>5. CASE i # k - 1
    <3>1. B[i] < B[k - 1]
      BY <2>1, <2>2, <2>5
    <3> QED
      BY <3>1, <2>3
  <2> QED
    BY <2>4, <2>5
<1> QED
  BY <1>4, <1>5 DEF B

(* A block takes at least one entry, and no more than fit.                 *)
LEMMA FitTakes ==
    ASSUME NEW es \in Seq(DirentSet), NEW i \in 1 .. Len(es) + 1
    PROVE  /\ Fit(es, i) \in 0 .. Len(es) - i + 1
           /\ Used(es, i, i + Fit(es, i) - 1) <= BlockSize
           /\ i <= Len(es) => Fit(es, i) >= 1
<1> DEFINE m == Len(es) - i + 1
           T == {n \in 0 .. m : Used(es, i, i + n - 1) <= BlockSize}
<1>1. Len(es) \in Nat /\ m \in Nat
  OBVIOUS
<1>2. 0 \in T
  <2>1. i + 0 - 1 = i - 1 /\ i - 1 \in 0 .. Len(es)
    BY <1>1
  <2>2. Bytes(es)[i - 1] \in Nat
    BY <2>1, BytesRec
  <2>3. Used(es, i, i + 0 - 1) = 0
    BY <2>1, <2>2 DEF Used
  <2> QED
    BY <1>1, <2>3, BlockAssumption
<1>3. i <= Len(es) => 1 \in T
  <2> HAVE i <= Len(es)
  <2>1. i + 1 - 1 = i /\ i \in 1 .. Len(es)
    BY <1>1
  <2>2. Bytes(es)[i] - Bytes(es)[i - 1] <= BlockSize
    BY <2>1, BytesGrow, BlockAssumption
  <2>3. Used(es, i, i + 1 - 1) <= BlockSize
    BY <2>1, <2>2 DEF Used
  <2> QED
    BY <1>1, <2>3
<1>4. T \in SUBSET (0 .. m)
  OBVIOUS
<1>5. Fit(es, i) = Max(T)
  BY DEF Fit
<1> HIDE DEF T, m
<1>6. Max(T) \in T /\ \A y \in T : y <= Max(T)
  BY <1>1, <1>2, <1>4, MaxOf
<1>7. i <= Len(es) => Max(T) >= 1
  BY <1>1, <1>3, <1>4, <1>6
<1> QED
  BY <1>5, <1>6, <1>7 DEF T, m

(* The recursion of Starts.                                                *)
LEMMA StartsRec ==
    ASSUME NEW es \in Seq(DirentSet)
    PROVE  /\ Starts(es) \in [0 .. Len(es) -> 1 .. Len(es) + 1]
           /\ Starts(es)[0] = 1
           /\ \A k \in 1 .. Len(es) :
                 Starts(es)[k] = Starts(es)[k - 1] + Fit(es, Starts(es)[k - 1])
<1> DEFINE n == Len(es)
           I == 1 .. n + 1
           G == [x \in (1 .. n) \X I |-> x[2] + Fit(es, x[2])]
<1>1. n \in Nat
  OBVIOUS
<1>2. \A i \in I : i + Fit(es, i) \in I
  <2> TAKE i \in I
  <2>1. Fit(es, i) \in 0 .. n - i + 1
    BY FitTakes
  <2> QED
    BY <2>1, <1>1
<1>3. G \in StepsOn(n, I)
  BY <1>2 DEF StepsOn
<1>4. PICK f : Unrolls(f, n, I, 1, G)
  <2>1. 1 \in I
    BY <1>1
  <2> HIDE DEF G, n, I
  <2> QED
    BY <1>1, <1>3, <2>1, Recursion
<1>5. f \in [0 .. n -> I] /\ f[0] = 1 /\ \A k \in 1 .. n : f[k] = G[<<k, f[k - 1]>>]
  BY <1>4 DEF Unrolls
<1>6. \A k \in 1 .. n : f[k] = f[k - 1] + Fit(es, f[k - 1])
  <2> TAKE k \in 1 .. n
  <2>1. k - 1 \in 0 .. n
    BY <1>1
  <2>2. f[k - 1] \in I
    BY <2>1, <1>5
  <2>3. G[<<k, f[k - 1]>>] = f[k - 1] + Fit(es, f[k - 1])
    BY <2>2
  <2> QED
    BY <1>5, <2>3
<1>7. f = [k \in 0 .. n |-> IF k = 0 THEN 1 ELSE f[k - 1] + Fit(es, f[k - 1])]
  BY <1>1, <1>5, <1>6
<1> DEFINE B == Starts(es)
<1>8. B = [k \in 0 .. n |-> IF k = 0 THEN 1 ELSE B[k - 1] + Fit(es, B[k - 1])]
  BY <1>7 DEF Starts
<1> HIDE DEF B
<1>9. B[0] = 1 /\ \A k \in 1 .. n : B[k] = B[k - 1] + Fit(es, B[k - 1])
  <2>1. 0 \in 0 .. n /\ \A k \in 1 .. n : k \in 0 .. n /\ k # 0
    BY <1>1
  <2> QED
    BY <1>8, <2>1
<1>10. \A k \in 0 .. n : B[k] \in I
  <2> DEFINE Bad == {k \in 0 .. n : B[k] \notin I}
  <2> SUFFICES ASSUME Bad # {}
               PROVE  FALSE
    OBVIOUS
  <2>0. Bad \in SUBSET Nat
    BY <1>1
  <2>1. PICK k \in Bad : \A y \in Bad : k <= y
    <3> HIDE DEF Bad
    <3> QED
      BY <2>0, Least
  <2>2. k # 0
    BY <1>1, <1>9
  <2>3. k \in 1 .. n /\ k - 1 \in 0 .. n /\ ~(k <= k - 1)
    BY <2>2, <1>1
  <2>4. B[k - 1] \in I
    BY <2>1, <2>3
  <2>5. B[k] \in I
    BY <2>3, <2>4, <1>2, <1>9
  <2> QED
    BY <2>5
<1> QED
  <2>1. B \in [0 .. n -> I]
    BY <1>8, <1>10
  <2> QED
    BY <2>1, <1>9 DEF B

(* es cut into N blocks: block b holds the entries from s[b - 1] up to     *)
(* s[b], at least one and at most a block full of them.                    *)
CutsOf(es, N, s) ==
    /\ N \in 1 .. Len(es)
    /\ s \in [0 .. N -> 1 .. Len(es) + 1]
    /\ s[0] = 1 /\ s[N] = Len(es) + 1
    /\ \A b \in 1 .. N : /\ s[b - 1] < s[b]
                         /\ Used(es, s[b - 1], s[b] - 1) <= BlockSize
Blocks(es, N, s) == [b \in 1 .. N |-> SubSeq(es, s[b - 1], s[b] - 1)]

(* Packed cuts a list of dirents into such blocks.                         *)
LEMMA PackedCuts ==
    ASSUME NEW es \in Seq(DirentSet), Len(es) >= 1
    PROVE  \E N, s : CutsOf(es, N, s) /\ Packed(es) = Blocks(es, N, s)
<1> DEFINE n == Len(es)
           st == Starts(es)
           K == {k \in 0 .. n : st[k] > n}
           N == Min(K)
           s == [b \in 0 .. N |-> st[b]]
<1>1. n \in Nat /\ n >= 1
  OBVIOUS
<1>2. st \in [0 .. n -> 1 .. n + 1] /\ st[0] = 1
  BY StartsRec
<1>3. ASSUME NEW k \in 1 .. n
      PROVE  /\ k - 1 \in 0 .. n
             /\ st[k] = st[k - 1] + Fit(es, st[k - 1])
             /\ st[k - 1] <= n => st[k - 1] < st[k]
             /\ Used(es, st[k - 1], st[k] - 1) <= BlockSize
  <2>1. k - 1 \in 0 .. n /\ st[k - 1] \in 1 .. n + 1
    BY <1>1, <1>2
  <2>2. st[k] = st[k - 1] + Fit(es, st[k - 1])
    BY StartsRec
  <2> DEFINE i == st[k - 1]
  <2>3. /\ Fit(es, i) \in 0 .. n - i + 1
        /\ Used(es, i, i + Fit(es, i) - 1) <= BlockSize
        /\ i <= n => Fit(es, i) >= 1
    BY <2>1, FitTakes
  <2> QED
    BY <2>1, <2>2, <2>3, <1>1
<1> HIDE DEF st
<1>4. ASSUME NEW k \in 0 .. n
      PROVE  st[k] > n \/ st[k] > k
  <2> DEFINE Bad == {j \in 0 .. n : ~(st[j] > n \/ st[j] > j)}
  <2> SUFFICES ASSUME Bad # {}
               PROVE  FALSE
    OBVIOUS
  <2>0. Bad \in SUBSET Nat
    BY <1>1
  <2>1. PICK j \in Bad : \A y \in Bad : j <= y
    <3> HIDE DEF Bad
    <3> QED
      BY <2>0, Least
  <2>2. j # 0
    BY <1>2
  <2>3. j \in 1 .. n /\ j - 1 \in 0 .. n /\ ~(j <= j - 1)
    BY <2>2, <1>1
  <2>4. st[j - 1] > n \/ st[j - 1] > j - 1
    BY <2>1, <2>3
  <2>5. st[j - 1] \in 1 .. n + 1 /\ st[j] \in 1 .. n + 1
    BY <2>3, <1>2
  <2>6. st[j - 1] <= n => st[j - 1] < st[j]
    BY <2>3, <1>3
  <2>7. st[j] >= st[j - 1]
    <3>1. Fit(es, st[j - 1]) \in 0 .. n - st[j - 1] + 1
      BY <2>5, FitTakes
    <3> QED
      BY <3>1, <2>3, <2>5, <1>1, <1>3
  <2> QED
    BY <2>3, <2>4, <2>5, <2>6, <2>7, <1>1
<1>5. n \in K
  <2>1. n \in 0 .. n /\ st[n] \in 1 .. n + 1
    BY <1>1, <1>2
  <2> QED
    BY <2>1, <1>4
<1>6. N \in K /\ \A y \in K : N <= y
  <2>1. K \in SUBSET Nat
    BY <1>1
  <2> HIDE DEF K
  <2> QED
    BY <1>5, <2>1, MinOf
<1>7. N # 0
  BY <1>1, <1>2, <1>6
<1> HIDE DEF N
<1>8. N \in 1 .. n /\ st[N] = n + 1
  <2>1. N \in 0 .. n /\ st[N] > n
    BY <1>6
  <2>2. st[N] \in 1 .. n + 1
    BY <2>1, <1>2
  <2> QED
    BY <2>1, <2>2, <1>1, <1>7
<1>9. ASSUME NEW b \in 1 .. N
      PROVE  b \in 1 .. n /\ b - 1 \in 0 .. N /\ b \in 0 .. N /\ st[b - 1] <= n
  <2>1. b \in 1 .. n /\ b - 1 \in 0 .. N /\ b \in 0 .. N /\ b - 1 \in 0 .. n /\ ~(N <= b - 1)
    BY <1>8, <1>1
  <2>2. b - 1 \notin K
    BY <2>1, <1>6
  <2>3. ~(st[b - 1] > n) /\ st[b - 1] \in 1 .. n + 1
    BY <2>1, <2>2, <1>2
  <2> QED
    BY <2>1, <2>3, <1>1
<1>10. CutsOf(es, N, s)
  <2>1. s \in [0 .. N -> 1 .. n + 1]
    BY <1>8, <1>2, <1>1
  <2>2. s[0] = 1 /\ s[N] = n + 1
    BY <1>8, <1>2, <1>1
  <2>3. ASSUME NEW b \in 1 .. N
        PROVE  s[b - 1] < s[b] /\ Used(es, s[b - 1], s[b] - 1) <= BlockSize
    <3>1. s[b - 1] = st[b - 1] /\ s[b] = st[b]
      BY <1>9
    <3> QED
      BY <3>1, <1>3, <1>9
  <2> HIDE DEF s
  <2> QED
    BY <1>8, <2>1, <2>2, <2>3 DEF CutsOf
<1>11. Packed(es) = Blocks(es, N, s)
  <2>1. DOMAIN st = 0 .. n
    BY <1>2
  <2>2. Packed(es) = [b \in 1 .. N |-> SubSeq(es, st[b - 1], st[b] - 1)]
    BY <2>1 DEF Packed, N, st
  <2>3. \A b \in 1 .. N : s[b - 1] = st[b - 1] /\ s[b] = st[b]
    BY <1>9
  <2> HIDE DEF s
  <2> QED
    BY <2>2, <2>3 DEF Blocks
<1> HIDE DEF s
<1> QED
  BY <1>10, <1>11

(* Division by the block size.                                             *)
LEMMA DivBlock ==
    ASSUME NEW q \in Nat, NEW r \in 0 .. BlockSize - 1
    PROVE  (q * BlockSize + r) \div BlockSize = q
<1>1. BlockSize \in Nat /\ BlockSize > 0
  BY BlockAssumption
<1> QED
  BY <1>1

(* Whole blocks and a last one that is not empty.                          *)
LEMMA BlocksForLast ==
    ASSUME NEW N \in Nat \ {0}, NEW u \in 1 .. BlockSize
    PROVE  (N - 1) * BlockSize + u \in Nat /\ BlocksFor((N - 1) * BlockSize + u) = N
<1>1. BlockSize \in Nat /\ BlockSize > 0
  BY BlockAssumption
<1>2. (N - 1) * BlockSize = N * BlockSize - BlockSize
  BY <1>1
<1>3. (N - 1) * BlockSize \in Nat
  BY <1>1
<1>4. N * BlockSize \in Nat
  BY <1>1
<1>5. (N - 1) * BlockSize + u + BlockSize - 1 = N * BlockSize + (u - 1)
  BY <1>1, <1>2, <1>4
<1>6. u - 1 \in 0 .. BlockSize - 1
  BY <1>1
<1> QED
  BY <1>3, <1>5, <1>6, DivBlock DEF BlocksFor

(* BlocksFor(size) blocks hold size bytes.                                 *)
LEMMA BlocksForHold ==
    ASSUME NEW size \in Nat
    PROVE  /\ BlocksFor(size) \in Nat
           /\ size <= BlocksFor(size) * BlockSize
           /\ size > 0 => BlocksFor(size) > 0
<1>1. BlockSize \in Nat /\ BlockSize > 0
  BY BlockAssumption
<1> DEFINE x == size + BlockSize - 1
           q == x \div BlockSize
<1>2. x \in Nat
  BY <1>1
<1> HIDE DEF x
<1>3. q \in Nat /\ q * BlockSize <= x /\ x < q * BlockSize + BlockSize
  BY <1>1, <1>2
<1>4. BlocksFor(size) = q
  BY DEF BlocksFor, x
<1> HIDE DEF q
<1>5. q * BlockSize \in Nat
  BY <1>1, <1>3
<1>6. size <= q * BlockSize
  BY <1>1, <1>3, <1>5 DEF x
<1>7. q = 0 => q * BlockSize = 0
  BY <1>1
<1> QED
  BY <1>3, <1>4, <1>5, <1>6, <1>7

(* A part of a list takes the same bytes as in the list.                   *)
LEMMA SubSeqUsed ==
    ASSUME NEW es \in Seq(DirentSet), NEW i \in 1 .. Len(es), NEW j \in i .. Len(es)
    PROVE  /\ SubSeq(es, i, j) \in Seq(DirentSet)
           /\ Len(SubSeq(es, i, j)) = j - i + 1
           /\ \A k \in 1 .. j - i + 1 : SubSeq(es, i, j)[k] = es[i + k - 1]
           /\ Used(SubSeq(es, i, j), 1, j - i + 1) = Used(es, i, j)
           /\ Used(es, i, j) >= 1
<1> DEFINE sub == SubSeq(es, i, j)
           n == j - i + 1
           B == Bytes(es)
           C == Bytes(sub)
<1>1. Len(es) \in Nat /\ n \in Nat /\ i \in Int /\ j \in Int /\ i <= j
  OBVIOUS
<1>2. \A k \in i .. j : es[k] \in DirentSet
  <2> TAKE k \in i .. j
  <2>1. k \in 1 .. Len(es)
    BY <1>1
  <2> QED
    BY <2>1, ElementOfSeq
<1>3. sub \in Seq(DirentSet) /\ Len(sub) = n /\ \A k \in 1 .. n : sub[k] = es[i + k - 1]
  BY <1>1, <1>2, SubSeqProperties
<1> HIDE DEF sub
<1>4. /\ C[0] = 0 /\ \A k \in 0 .. n : C[k] \in Nat
      /\ \A k \in 1 .. n : C[k] = C[k - 1] + DirentSize + NameLen[sub[k].name]
  BY <1>3, BytesRec
<1>5. /\ \A k \in 0 .. Len(es) : B[k] \in Nat
      /\ \A k \in 1 .. Len(es) : B[k] = B[k - 1] + DirentSize + NameLen[es[k].name]
  BY BytesRec
<1>6. B[i - 1] < B[j]
  BY <1>1, BytesGrow
<1> HIDE DEF B, C
<1>7. ASSUME NEW m \in 0 .. n
      PROVE  C[m] = B[i - 1 + m] - B[i - 1]
  <2> DEFINE Bad == {k \in 0 .. n : C[k] # B[i - 1 + k] - B[i - 1]}
  <2> SUFFICES ASSUME Bad # {}
               PROVE  FALSE
    OBVIOUS
  <2>0. Bad \in SUBSET Nat
    BY <1>1
  <2>1. PICK k \in Bad : \A y \in Bad : k <= y
    <3> HIDE DEF Bad
    <3> QED
      BY <2>0, Least
  <2>2. k # 0
    <3>1. i - 1 + 0 = i - 1 /\ i - 1 \in 0 .. Len(es)
      BY <1>1
    <3>2. B[i - 1] \in Nat
      BY <3>1, <1>5
    <3>3. B[i - 1 + 0] = B[i - 1]
      BY <3>1
    <3>4. C[0] = B[i - 1 + 0] - B[i - 1]
      BY <3>2, <3>3, <1>4
    <3> QED
      BY <3>4
  <2>3. k \in 1 .. n /\ k - 1 \in 0 .. n /\ ~(k <= k - 1)
    BY <2>2, <1>1
  <2>4. C[k - 1] = B[i - 1 + (k - 1)] - B[i - 1]
    BY <2>1, <2>3
  <2>5. /\ i - 1 + k \in 1 .. Len(es) /\ i - 1 \in 0 .. Len(es)
        /\ i - 1 + (k - 1) = (i - 1 + k) - 1 /\ i - 1 + (k - 1) \in 0 .. Len(es)
        /\ i + k - 1 = i - 1 + k
    BY <2>3, <1>1
  <2>6. sub[k] = es[i - 1 + k]
    BY <2>3, <2>5, <1>3
  <2>7. es[i - 1 + k] \in DirentSet
    BY <2>5, ElementOfSeq
  <2>8. NameLen[es[i - 1 + k].name] \in Nat
    BY <2>7, DirentName
  <2>9. B[i - 1 + k] = B[i - 1 + (k - 1)] + DirentSize + NameLen[es[i - 1 + k].name]
    BY <2>5, <1>5
  <2>10. C[k] = C[k - 1] + DirentSize + NameLen[es[i - 1 + k].name]
    BY <2>3, <2>6, <1>4
  <2>11. B[i - 1] \in Nat /\ B[i - 1 + (k - 1)] \in Nat
    BY <2>5, <1>5
  <2>12. C[k] = B[i - 1 + k] - B[i - 1]
    <3> DEFINE b0 == B[i - 1]
               b1 == B[i - 1 + (k - 1)]
               b2 == B[i - 1 + k]
               c1 == C[k - 1]
               c2 == C[k]
               w == NameLen[es[i - 1 + k].name]
    <3>1. /\ b0 \in Nat /\ b1 \in Nat /\ w \in Nat
          /\ c1 = b1 - b0 /\ c2 = c1 + 12 + w /\ b2 = b1 + 12 + w
      BY <2>4, <2>8, <2>9, <2>10, <2>11 DEF DirentSize
    <3> HIDE DEF b0, b1, b2, c1, c2, w
    <3>2. c2 = b2 - b0
      BY <3>1
    <3> QED
      BY <3>2 DEF c2, b2, b0
  <2> QED
    BY <2>12
<1>8. C[n] = B[j] - B[i - 1]
  <2>1. n \in 0 .. n /\ i - 1 + n = j
    BY <1>1
  <2> QED
    BY <2>1, <1>7
<1>9. B[j] \in Nat /\ B[i - 1] \in Nat
  <2>1. j \in 0 .. Len(es) /\ i - 1 \in 0 .. Len(es)
    BY <1>1
  <2> QED
    BY <2>1, <1>5
<1>10. Used(sub, 1, n) = B[j] - B[i - 1]
  <2>1. 1 - 1 = 0
    OBVIOUS
  <2> QED
    BY <2>1, <1>4, <1>8, <1>9 DEF Used, C
<1>11. Used(es, i, j) = B[j] - B[i - 1]
  BY DEF Used, B
<1> QED
  BY <1>3, <1>6, <1>9, <1>10, <1>11 DEF sub

(* The blocks es is cut into: all of es, in its order, each block within   *)
(* bounds.                                                                 *)
CutWell(es, N, s, pk) ==
    /\ DOMAIN pk = 1 .. N /\ Len(pk) = N /\ Last(pk) = pk[N] /\ N \in Nat \ {0}
    /\ \A b \in 1 .. N :
          /\ pk[b] \in Seq(DirentSet)
          /\ Len(pk[b]) = s[b] - s[b - 1]
          /\ Used(pk[b], 1, Len(pk[b])) \in 1 .. BlockSize
          /\ \A i \in 1 .. Len(pk[b]) : /\ s[b - 1] + i - 1 \in s[b - 1] .. s[b] - 1
                                        /\ s[b - 1] + i - 1 \in 1 .. Len(es)
                                        /\ pk[b][i] = es[s[b - 1] + i - 1]
    /\ \A b, c \in 0 .. N : b <= c => s[b] <= s[c]
    /\ \A e \in 1 .. Len(es) :
          \E b \in 1 .. N : \E i \in 1 .. Len(pk[b]) : pk[b][i] = es[e]

(* Blocks cuts that way.                                                   *)
LEMMA CutBlocks ==
    ASSUME NEW es \in Seq(DirentSet), NEW N, NEW s, CutsOf(es, N, s)
    PROVE  CutWell(es, N, s, Blocks(es, N, s))
<1> DEFINE pk == Blocks(es, N, s)
           n == Len(es)
<1>1. /\ n \in Nat /\ N \in 1 .. n /\ s[0] = 1 /\ s[N] = n + 1
      /\ s \in [0 .. N -> 1 .. n + 1]
  BY DEF CutsOf
<1>2. pk = [b \in 1 .. N |-> SubSeq(es, s[b - 1], s[b] - 1)]
  BY DEF Blocks
<1> HIDE DEF pk
<1>3. ASSUME NEW b \in 1 .. N
      PROVE  /\ b - 1 \in 0 .. N /\ b \in 0 .. N
             /\ s[b - 1] \in 1 .. n /\ s[b] \in 1 .. n + 1 /\ s[b - 1] < s[b]
             /\ pk[b] = SubSeq(es, s[b - 1], s[b] - 1)
             /\ Used(es, s[b - 1], s[b] - 1) <= BlockSize
  <2>1. b - 1 \in 0 .. N /\ b \in 0 .. N
    BY <1>1
  <2>2. s[b - 1] \in 1 .. n + 1 /\ s[b] \in 1 .. n + 1
    BY <2>1, <1>1
  <2>3. s[b - 1] < s[b] /\ Used(es, s[b - 1], s[b] - 1) <= BlockSize
    BY DEF CutsOf
  <2>4. pk[b] = SubSeq(es, s[b - 1], s[b] - 1)
    BY <1>2
  <2>5. s[b - 1] \in 1 .. n
    BY <2>2, <2>3, <1>1
  <2> QED
    BY <2>1, <2>2, <2>3, <2>4, <2>5
<1>4. ASSUME NEW b \in 1 .. N
      PROVE  /\ pk[b] \in Seq(DirentSet)
             /\ Len(pk[b]) = s[b] - s[b - 1]
             /\ Used(pk[b], 1, Len(pk[b])) \in 1 .. BlockSize
             /\ \A i \in 1 .. Len(pk[b]) : /\ s[b - 1] + i - 1 \in s[b - 1] .. s[b] - 1
                                           /\ s[b - 1] + i - 1 \in 1 .. n
                                           /\ pk[b][i] = es[s[b - 1] + i - 1]
  <2> DEFINE i == s[b - 1]
             j == s[b] - 1
  <2>1. i \in 1 .. n /\ j \in i .. n /\ j - i + 1 = s[b] - s[b - 1]
    <3>1. s[b - 1] \in 1 .. n /\ s[b] \in 1 .. n + 1 /\ s[b - 1] < s[b]
      BY <1>3
    <3> QED
      BY <3>1, <1>1
  <2>2. pk[b] = SubSeq(es, i, j) /\ Used(es, i, j) <= BlockSize
    BY <1>3
  <2> HIDE DEF i, j
  <2>3. /\ pk[b] \in Seq(DirentSet)
        /\ Len(pk[b]) = j - i + 1
        /\ \A k \in 1 .. j - i + 1 : pk[b][k] = es[i + k - 1]
        /\ Used(pk[b], 1, j - i + 1) = Used(es, i, j)
        /\ Used(es, i, j) >= 1
    BY <2>1, <2>2, SubSeqUsed
  <2>4. Used(es, i, j) \in Int
    <3>1. j \in 0 .. n /\ i - 1 \in 0 .. n
      BY <1>1, <2>1
    <3>2. Bytes(es)[j] \in Nat /\ Bytes(es)[i - 1] \in Nat
      BY <3>1, BytesRec
    <3> QED
      BY <3>2 DEF Used
  <2>5. Used(pk[b], 1, Len(pk[b])) \in 1 .. BlockSize
    BY <2>2, <2>3, <2>4, BlockAssumption
  <2>6. \A k \in 1 .. j - i + 1 : i + k - 1 \in i .. j /\ i + k - 1 \in 1 .. n
    BY <1>1, <2>1
  <2> QED
    BY <2>1, <2>3, <2>5, <2>6 DEF i, j
<1>5. ASSUME NEW b \in 0 .. N, NEW c \in 0 .. N, b <= c
      PROVE  s[b] <= s[c]
  <2> DEFINE Bad == {d \in 0 .. N : b <= d /\ ~(s[b] <= s[d])}
  <2> SUFFICES ASSUME Bad # {}
               PROVE  FALSE
    BY <1>5
  <2>0. Bad \in SUBSET Nat
    BY <1>1
  <2>1. PICK d \in Bad : \A y \in Bad : d <= y
    <3> HIDE DEF Bad
    <3> QED
      BY <2>0, Least
  <2>2. s[b] \in 1 .. n + 1 /\ s[d] \in 1 .. n + 1
    BY <1>1
  <2>3. d # b
    BY <2>2
  <2>4. d \in 1 .. N /\ d - 1 \in 0 .. N /\ ~(d <= d - 1) /\ b <= d - 1
    BY <2>3, <1>1
  <2>5. s[b] <= s[d - 1]
    BY <2>1, <2>4
  <2>6. s[d - 1] < s[d] /\ s[d - 1] \in 1 .. n
    BY <2>4, <1>3
  <2> QED
    BY <2>2, <2>5, <2>6
<1>6. ASSUME NEW e \in 1 .. n
      PROVE  \E b \in 1 .. N : \E i \in 1 .. Len(pk[b]) : pk[b][i] = es[e]
  <2> DEFINE K == {k \in 0 .. N : s[k] > e}
  <2>1. N \in K /\ K \in SUBSET Nat
    BY <1>1
  <2>2. PICK b \in K : \A y \in K : b <= y
    <3> HIDE DEF K
    <3> QED
      BY <2>1, Least
  <2>3. b # 0
    BY <1>1
  <2>4. b \in 1 .. N /\ b - 1 \in 0 .. N /\ ~(b <= b - 1)
    BY <2>3, <1>1
  <2>5. ~(s[b - 1] > e) /\ s[b - 1] \in 1 .. n /\ s[b] \in 1 .. n + 1 /\ s[b] > e
    BY <2>2, <2>4, <1>3
  <2> DEFINE i == e - s[b - 1] + 1
  <2>6. i \in 1 .. s[b] - s[b - 1] /\ s[b - 1] + i - 1 = e
    BY <2>5
  <2> HIDE DEF i
  <2>7. Len(pk[b]) = s[b] - s[b - 1]
    BY <2>4, <1>4
  <2>8. i \in 1 .. Len(pk[b])
    BY <2>6, <2>7
  <2>9. pk[b][i] = es[s[b - 1] + i - 1]
    BY <2>4, <2>8, <1>4
  <2> QED
    BY <2>4, <2>6, <2>8, <2>9
<1>7. DOMAIN pk = 1 .. N /\ Len(pk) = N /\ Last(pk) = pk[N] /\ N \in Nat \ {0}
  <2>1. DOMAIN pk = 1 .. N /\ N \in Nat \ {0}
    BY <1>1, <1>2
  <2>2. pk \in [1 .. N -> Seq(DirentSet)]
    BY <1>2, <1>4
  <2>3. pk \in Seq(Seq(DirentSet))
    BY <2>1, <2>2, SeqDef
  <2>4. Len(pk) = N
    <3>1. Len(pk) \in Nat /\ DOMAIN pk = 1 .. Len(pk)
      BY <2>3, LenProperties
    <3>2. N \in 1 .. N /\ (Len(pk) # 0 => Len(pk) \in 1 .. Len(pk))
      BY <3>1, <2>1
    <3>3. N \in 1 .. Len(pk) /\ Len(pk) # 0
      BY <3>1, <3>2, <2>1
    <3>4. Len(pk) \in 1 .. N
      BY <3>1, <3>2, <3>3, <2>1
    <3> QED
      <4>1. PICK l : l = Len(pk)
        OBVIOUS
      <4>2. l \in Nat /\ N \in 1 .. l /\ l \in 1 .. N /\ N \in Nat
        BY <3>1, <3>3, <3>4, <2>1, <4>1
      <4>3. l = N
        BY <4>2
      <4> QED
        BY <4>1, <4>3
  <2> QED
    BY <2>1, <2>4 DEF Last
<1> QED
  BY <1>4, <1>5, <1>6, <1>7 DEF pk, CutWell

(* The packed blocks of a nonempty list.                                   *)
PackedWell(es, pk) ==
    /\ Len(pk) \in Nat \ {0}
    /\ DirSize(pk) \in Nat /\ DirSize(pk) > 0
    /\ BlocksFor(DirSize(pk)) = Len(pk)
    /\ \A b \in 1 .. Len(pk) :
          /\ pk[b] \in Seq(DirentSet)
          /\ Used(pk[b], 1, Len(pk[b])) \in 1 .. BlockSize
          /\ \A i \in 1 .. Len(pk[b]) : pk[b][i] \in Range(es)
    /\ \A e \in Range(es) :
          \E b \in 1 .. Len(pk) : \E i \in 1 .. Len(pk[b]) : pk[b][i] = e
    /\ \A b, c \in 1 .. Len(pk) : \A i \in 1 .. Len(pk[b]), j \in 1 .. Len(pk[c]) :
          (b < c \/ (b = c /\ i < j)) =>
              \E k, l \in 1 .. Len(es) : k < l /\ pk[b][i] = es[k] /\ pk[c][j] = es[l]

(* Packed puts every entry of a list into a block, in order, and the       *)
(* directory's size leads back to that number of blocks.                   *)
LEMMA PackedFacts ==
    ASSUME NEW es \in Seq(DirentSet), Len(es) >= 1
    PROVE  PackedWell(es, Packed(es))
<1>1. PICK N, s : CutsOf(es, N, s) /\ Packed(es) = Blocks(es, N, s)
  BY PackedCuts
<1> DEFINE pk == Packed(es)
           n == Len(es)
<1>2. CutWell(es, N, s, pk)
  BY <1>1, CutBlocks
<1>3. n \in Nat /\ DOMAIN es = 1 .. n /\ s \in [0 .. N -> 1 .. n + 1]
  BY <1>1 DEF CutsOf
<1> HIDE DEF pk
<1>4. DirSize(pk) \in Nat /\ DirSize(pk) > 0 /\ BlocksFor(DirSize(pk)) = N
  <2> DEFINE u == Used(pk[N], 1, Len(pk[N]))
  <2>1. N \in 1 .. N /\ N \in Nat \ {0}
    BY <1>2 DEF CutWell
  <2>2. u \in 1 .. BlockSize
    BY <1>2, <2>1 DEF CutWell
  <2>3. DirSize(pk) = (N - 1) * BlockSize + u
    BY <1>2 DEF CutWell, DirSize
  <2> HIDE DEF u
  <2>4. (N - 1) * BlockSize \in Nat
    BY <2>1, BlockAssumption
  <2> QED
    BY <2>1, <2>2, <2>3, <2>4, BlocksForLast
<1>5. \A b \in 1 .. N : \A i \in 1 .. Len(pk[b]) : pk[b][i] \in Range(es)
  <2> TAKE b \in 1 .. N
  <2> TAKE i \in 1 .. Len(pk[b])
  <2>1. s[b - 1] + i - 1 \in DOMAIN es /\ pk[b][i] = es[s[b - 1] + i - 1]
    BY <1>2, <1>3 DEF CutWell
  <2> QED
    BY <2>1 DEF Range
<1>6. \A e \in Range(es) : \E b \in 1 .. N : \E i \in 1 .. Len(pk[b]) : pk[b][i] = e
  <2> TAKE e \in Range(es)
  <2>1. PICK k \in 1 .. n : e = es[k]
    BY <1>3 DEF Range
  <2> QED
    BY <2>1, <1>2 DEF CutWell
<1>7. ASSUME NEW b \in 1 .. N, NEW c \in 1 .. N,
             NEW i \in 1 .. Len(pk[b]), NEW j \in 1 .. Len(pk[c]),
             b < c \/ (b = c /\ i < j)
      PROVE  \E k, l \in 1 .. n : k < l /\ pk[b][i] = es[k] /\ pk[c][j] = es[l]
  <2> DEFINE k == s[b - 1] + i - 1
             l == s[c - 1] + j - 1
  <2>1. /\ k \in s[b - 1] .. s[b] - 1 /\ k \in 1 .. n /\ pk[b][i] = es[k]
        /\ l \in s[c - 1] .. s[c] - 1 /\ l \in 1 .. n /\ pk[c][j] = es[l]
    BY <1>2 DEF CutWell
  <2>2. b - 1 \in 0 .. N /\ b \in 0 .. N /\ c - 1 \in 0 .. N
    <3>1. N \in Nat
      BY <1>2 DEF CutWell
    <3> QED
      BY <3>1
  <2>3. s[b - 1] \in Int /\ s[b] \in Int /\ s[c - 1] \in Int
    BY <2>2, <1>3
  <2>4. CASE b < c
    <3>1. b <= c - 1
      BY <2>4
    <3>2. s[b] <= s[c - 1]
      BY <3>1, <2>2, <1>2 DEF CutWell
    <3>3. k \in Int /\ l \in Int /\ k <= s[b] - 1 /\ s[c - 1] <= l
      BY <2>1, <2>3
    <3> HIDE DEF k, l
    <3>4. k < l
      BY <3>2, <3>3, <2>3
    <3> QED
      BY <3>4, <2>1
  <2>5. CASE b = c /\ i < j
    <3>1. i \in Int /\ j \in Int
      <4>1. pk[b] \in Seq(DirentSet) /\ pk[c] \in Seq(DirentSet)
        BY <1>2 DEF CutWell
      <4> QED
        BY <4>1
    <3>2. k < l
      BY <3>1, <2>3, <2>5
    <3> QED
      BY <3>2, <2>1
  <2> QED
    BY <2>4, <2>5, <1>7
<1> QED
  <2>1. Len(pk) = N /\ N \in Nat \ {0}
    BY <1>2 DEF CutWell
  <2>2. \A b \in 1 .. N : pk[b] \in Seq(DirentSet) /\ Used(pk[b], 1, Len(pk[b])) \in 1 .. BlockSize
    BY <1>2 DEF CutWell
  <2>3. PackedWell(es, pk)
    BY <2>1, <2>2, <1>4, <1>5, <1>6, <1>7 DEF PackedWell
  <2> QED
    BY <2>3 DEF pk

(***************************************************************************)
(* Paths, the order of the walk and nids                                   *)
(***************************************************************************)
(* Precedes is a strict total order on sequences of numbers.               *)
LEMMA PrecedesOrder ==
    ASSUME NEW p \in Seq(Nat), NEW q \in Seq(Nat), NEW r \in Seq(Nat)
    PROVE  /\ ~Precedes(p, p)
           /\ Precedes(p, q) /\ Precedes(q, r) => Precedes(p, r)
           /\ p = q \/ Precedes(p, q) \/ Precedes(q, p)
<1>1. /\ Len(p) \in Nat /\ Len(q) \in Nat /\ Len(r) \in Nat
      /\ \A i \in 1 .. Len(p) : p[i] \in Nat
      /\ \A i \in 1 .. Len(q) : q[i] \in Nat
      /\ \A i \in 1 .. Len(r) : r[i] \in Nat
  BY ElementOfSeq
<1>2. ~Precedes(p, p)
  BY <1>1 DEF Precedes
<1>3. ASSUME Precedes(p, q), Precedes(q, r)
      PROVE  Precedes(p, r)
  <2>1. CASE Len(p) < Len(q) \/ Len(q) < Len(r)
    BY <1>1, <1>3, <2>1 DEF Precedes
  <2>2. CASE ~(Len(p) < Len(q) \/ Len(q) < Len(r))
    <3>1. Len(p) = Len(q) /\ Len(q) = Len(r)
      BY <1>3, <2>2 DEF Precedes
    <3>2. PICK i \in 1 .. Len(p) : p[i] < q[i] /\ \A j \in 1 .. i - 1 : p[j] = q[j]
      BY <1>3, <2>2 DEF Precedes
    <3>3. PICK k \in 1 .. Len(p) : q[k] < r[k] /\ \A j \in 1 .. k - 1 : q[j] = r[j]
      BY <1>3, <2>2, <3>1 DEF Precedes
    <3> DEFINE m == IF i < k THEN i ELSE k
    <3>4. m \in 1 .. Len(p) /\ m <= i /\ m <= k
      BY <1>1
    <3>5. p[m] < r[m]
      <4>1. p[m] \in Nat /\ q[m] \in Nat /\ r[m] \in Nat
        BY <1>1, <3>1, <3>4
      <4>2. CASE i < k
        <5>1. m = i /\ i \in 1 .. k - 1
          BY <4>2, <1>1
        <5> QED
          BY <5>1, <3>2, <3>3
      <4>3. CASE i = k
        <5>1. m = i
          BY <4>3, <1>1
        <5> HIDE DEF m
        <5> QED
          BY <5>1, <4>1, <4>3, <3>2, <3>3
      <4>4. CASE i > k
        <5>1. m = k /\ k \in 1 .. i - 1
          BY <4>4, <1>1
        <5> QED
          BY <5>1, <3>2, <3>3
      <4> QED
        BY <4>2, <4>3, <4>4
    <3>6. \A j \in 1 .. m - 1 : p[j] = r[j]
      <4> TAKE j \in 1 .. m - 1
      <4>1. j \in 1 .. i - 1 /\ j \in 1 .. k - 1
        BY <3>4, <1>1
      <4> QED
        BY <4>1, <3>2, <3>3
    <3> HIDE DEF m
    <3> QED
      BY <3>1, <3>4, <3>5, <3>6 DEF Precedes
  <2> QED
    BY <2>1, <2>2
<1>4. ASSUME p # q, Len(p) = Len(q)
      PROVE  Precedes(p, q) \/ Precedes(q, p)
  <2> DEFINE K == {i \in 1 .. Len(p) : p[i] # q[i]}
  <2>1. K # {} /\ K \in SUBSET Nat
    <3>1. (\A i \in 1 .. Len(p) : p[i] = q[i]) => p = q
      BY <1>4, SeqEqual
    <3>2. PICK i \in 1 .. Len(p) : p[i] # q[i]
      BY <3>1, <1>4
    <3>3. i \in K
      BY <3>2
    <3>4. K \in SUBSET Nat
      BY <1>1
    <3> QED
      BY <3>3, <3>4
  <2>2. PICK i \in K : \A y \in K : i <= y
    <3> HIDE DEF K
    <3> QED
      BY <2>1, Least
  <2>3. i \in 1 .. Len(p) /\ p[i] \in Nat /\ q[i] \in Nat /\ p[i] # q[i]
    BY <1>1, <1>4
  <2>4. \A j \in 1 .. i - 1 : p[j] = q[j]
    <3> TAKE j \in 1 .. i - 1
    <3>1. j \in 1 .. Len(p) /\ ~(i <= j)
      BY <2>3, <1>1
    <3> QED
      BY <3>1, <2>2
  <2>5. p[i] < q[i] \/ q[i] < p[i]
    BY <2>3
  <2>6. \A j \in 1 .. i - 1 : q[j] = p[j]
    BY <2>4
  <2> HIDE DEF K
  <2> QED
    BY <2>3, <2>4, <2>5, <2>6, <1>4 DEF Precedes
<1>5. ASSUME Len(p) # Len(q)
      PROVE  Precedes(p, q) \/ Precedes(q, p)
  BY <1>1, <1>5 DEF Precedes
<1> QED
  BY <1>2, <1>3, <1>4, <1>5

(* Names are numbers, so that paths are in that order.                     *)
LEMMA PathsOfNats ==
    /\ Seq(FileNames) \subseteq Seq(Nat)
    /\ FileNames \subseteq Nat \ {0}
    /\ NoNode \notin Seq(FileNames)
<1>1. FileNames \subseteq Nat \ {0}
  BY NameAssumption DEF FileNames, Names
<1>2. \A p \in Seq(FileNames) : p \in Seq(Nat)
  BY <1>1, SeqMonotonic
<1>3. NoNode \notin Seq(FileNames)
  <2> SUFFICES ASSUME NoNode \in Seq(FileNames)
               PROVE  FALSE
    OBVIOUS
  <2>1. Len(NoNode) = 1 /\ NoNode[1] = 0
    BY DEF NoNode
  <2>2. NoNode[1] \in FileNames
    BY <2>1, ElementOfSeq
  <2> QED
    BY <2>1, <2>2, <1>1
<1> QED
  BY <1>1, <1>2, <1>3

(* A path but the root is its parent's path and a name.                    *)
LEMMA FrontLast ==
    ASSUME NEW p \in Seq(FileNames), p # <<>>
    PROVE  /\ ParentOf(p) \in Seq(FileNames)
           /\ Len(p) \in Nat \ {0}
           /\ Len(ParentOf(p)) = Len(p) - 1
           /\ \A i \in 1 .. Len(p) - 1 : ParentOf(p)[i] = p[i]
           /\ Last(p) = p[Len(p)]
           /\ Last(p) \in FileNames
           /\ ParentOf(p) # p
<1>1. Len(p) \in Nat \ {0}
  BY EmptySeq
<1>2. \A i \in 1 .. Len(p) - 1 : p[i] \in FileNames
  <2> TAKE i \in 1 .. Len(p) - 1
  <2>1. i \in 1 .. Len(p)
    BY <1>1
  <2> QED
    BY <2>1, ElementOfSeq
<1> DEFINE l == Len(p) - 1
<1>3. l \in Int /\ 1 \in Int
  BY <1>1
<1>4. /\ SubSeq(p, 1, l) \in Seq(FileNames)
      /\ Len(SubSeq(p, 1, l)) = IF 1 <= l THEN l - 1 + 1 ELSE 0
      /\ \A i \in 1 .. l - 1 + 1 : SubSeq(p, 1, l)[i] = p[1 + i - 1]
  <2> HIDE DEF l
  <2> QED
    BY <1>2, <1>3, SubSeqProperties DEF l
<1>5. ParentOf(p) = SubSeq(p, 1, l)
  BY DEF ParentOf, Front
<1>6. Len(ParentOf(p)) = Len(p) - 1
  <2>1. l \in Nat
    BY <1>1
  <2> HIDE DEF l
  <2>2. (IF 1 <= l THEN l - 1 + 1 ELSE 0) = l
    BY <2>1
  <2>3. Len(ParentOf(p)) = l
    BY <2>2, <1>4, <1>5
  <2> QED
    BY <2>3 DEF l
<1>7. \A i \in 1 .. Len(p) - 1 : ParentOf(p)[i] = p[i]
  BY <1>1, <1>4, <1>5
<1>8. Last(p) = p[Len(p)] /\ Last(p) \in FileNames
  <2>1. Len(p) \in 1 .. Len(p)
    BY <1>1
  <2>2. p[Len(p)] \in FileNames
    BY <2>1, ElementOfSeq
  <2> QED
    BY <2>2 DEF Last
<1> HIDE DEF l
<1>9. ParentOf(p) # p
  BY <1>1, <1>6
<1> QED
  BY <1>1, <1>4, <1>5, <1>6, <1>7, <1>8, <1>9

(* Two names in one directory are two paths.                               *)
LEMMA PathsDiffer ==
    ASSUME NEW p \in Seq(FileNames), NEW q \in Seq(FileNames), p # <<>>, q # <<>>,
           ParentOf(p) = ParentOf(q), Last(p) = Last(q)
    PROVE  p = q
<1>1. /\ Len(p) \in Nat \ {0} /\ Len(q) \in Nat \ {0}
      /\ Len(ParentOf(p)) = Len(p) - 1 /\ Len(ParentOf(q)) = Len(q) - 1
      /\ \A i \in 1 .. Len(p) - 1 : ParentOf(p)[i] = p[i]
      /\ \A i \in 1 .. Len(q) - 1 : ParentOf(q)[i] = q[i]
      /\ Last(p) = p[Len(p)] /\ Last(q) = q[Len(q)]
  BY FrontLast
<1>2. Len(p) = Len(q)
  BY <1>1
<1>3. ASSUME NEW i \in 1 .. Len(p)
      PROVE  p[i] = q[i]
  <2>1. CASE i = Len(p)
    BY <2>1, <1>1, <1>2
  <2>2. CASE i # Len(p)
    <3>1. i \in 1 .. Len(p) - 1 /\ i \in 1 .. Len(q) - 1
      BY <2>2, <1>1, <1>2
    <3> QED
      BY <3>1, <1>1
  <2> QED
    BY <2>1, <2>2
<1> QED
  BY <1>2, <1>3, SeqEqual

(* How many inodes come before p in the table.                             *)
Before(p) == Cardinality({q \in Inodes : Precedes(q, p)})

(* Every inode has a place of its own in the table.                        *)
LEMMA NidFacts ==
    ASSUME Tree(node)
    PROVE  /\ IsFiniteSet(Inodes)
           /\ Cardinality(Inodes) \in Nat
           /\ \A p : Before(p) \in Nat /\ nid(p) = (1 + Before(p)) * 2
           /\ \A p \in Inodes : Before(p) <= Cardinality(Inodes) - 1
           /\ \A p, q \in Inodes : Before(p) = Before(q) => p = q
<1>1. IsFiniteSet(Inodes) /\ Inodes \subseteq Seq(FileNames)
  <2>1. Inodes \in SUBSET DOMAIN node /\ IsFiniteSet(DOMAIN node)
    BY DEF Inodes, Tree
  <2> QED
    BY <2>1, FS_Subset DEF Tree
<1>2. Cardinality(Inodes) \in Nat
  BY <1>1, FS_CardinalityType
<1>3. \A p : Before(p) \in Nat
  <2> TAKE p
  <2>1. {q \in Inodes : Precedes(q, p)} \in SUBSET Inodes
    OBVIOUS
  <2>2. IsFiniteSet({q \in Inodes : Precedes(q, p)})
    BY <2>1, <1>1, FS_Subset
  <2> QED
    BY <2>2, FS_CardinalityType DEF Before
<1>4. \A p : nid(p) = (1 + Before(p)) * 2
  BY <1>3 DEF nid, Before, InodeSize, SlotSize
<1> DEFINE S == Inodes
           R == {pq \in S \X S : Precedes(pq[1], pq[2])}
<1>5. \A x, y \in S : <<x, y>> \in R <=> Precedes(x, y)
  OBVIOUS
<1>6. S \subseteq Seq(Nat)
  BY <1>1, PathsOfNats
<1> HIDE DEF R
<1>7. Ordered(S, R)
  <2>1. \A x \in S : <<x, x>> \notin R
    BY <1>5, <1>6, PrecedesOrder
  <2>2. \A x, y, z \in S : <<x, y>> \in R /\ <<y, z>> \in R => <<x, z>> \in R
    BY <1>5, <1>6, PrecedesOrder
  <2>3. \A x, y \in S : x = y \/ <<x, y>> \in R \/ <<y, x>> \in R
    BY <1>5, <1>6, PrecedesOrder
  <2> QED
    BY <2>1, <2>2, <2>3 DEF Ordered
<1>8. \A x \in S : {y \in S : <<y, x>> \in R} = {q \in Inodes : Precedes(q, x)}
  BY <1>5
<1>9. \A x \in S : Before(x) = Rank(S, R, x)
  BY <1>8 DEF Before, Rank
<1> HIDE DEF S
<1>10. /\ \A x \in S : Rank(S, R, x) \in 0 .. Cardinality(S) - 1
       /\ \A x, y \in S : Rank(S, R, x) = Rank(S, R, y) => x = y
  <2>1. IsFiniteSet(S)
    BY <1>1 DEF S
  <2> QED
    BY <2>1, <1>7, Ranks
<1>11. \A x \in S : Before(x) <= Cardinality(S) - 1
  <2> TAKE x \in S
  <2>1. Before(x) \in 0 .. Cardinality(S) - 1
    BY <1>9, <1>10
  <2> QED
    BY <2>1, <1>2 DEF S
<1>12. \A x, y \in S : Before(x) = Before(y) => x = y
  BY <1>9, <1>10
<1> QED
  BY <1>1, <1>2, <1>3, <1>4, <1>11, <1>12 DEF S

(***************************************************************************)
(* Directories                                                             *)
(***************************************************************************)
(* es lists the dirents of D in the order of their names.                  *)
Lists(es, D) ==
    /\ es \in Seq(DirentSet)
    /\ Len(es) = Cardinality(D)
    /\ Range(es) = D
    /\ \A i, j \in 1 .. Len(es) : i < j => es[i].name < es[j].name

(* SortedBy sorts dirents with different names.                            *)
LEMMA SortedByName ==
    ASSUME NEW D \in SUBSET DirentSet, IsFiniteSet(D),
           \A d, e \in D : d.name = e.name => d = e
    PROVE  Lists(SortedBy(D, LAMBDA d, e : d.name < e.name), D)
<1> DEFINE n == Cardinality(D)
           R == {de \in D \X D : de[1].name < de[2].name}
           Below(d) == {e \in D : e.name < d.name}
           rank(d) == Cardinality(Below(d))
           es == [i \in 1 .. n |-> CHOOSE d \in D : rank(d) = i - 1]
<1>1. n \in Nat
  BY FS_CardinalityType
<1>2. \A d, e \in D : <<d, e>> \in R <=> d.name < e.name
  OBVIOUS
<1>3. \A d \in D : d.name \in Nat
  BY DirentName
<1> HIDE DEF R
<1>4. Ordered(D, R)
  <2>1. \A x \in D : <<x, x>> \notin R
    BY <1>2, <1>3
  <2>2. \A x, y, z \in D : <<x, y>> \in R /\ <<y, z>> \in R => <<x, z>> \in R
    BY <1>2, <1>3
  <2>3. \A x, y \in D : x = y \/ <<x, y>> \in R \/ <<y, x>> \in R
    <3> TAKE x, y \in D
    <3>1. x.name = y.name \/ x.name < y.name \/ y.name < x.name
      BY <1>3
    <3> QED
      BY <3>1, <1>2
  <2> QED
    BY <2>1, <2>2, <2>3 DEF Ordered
<1>5. \A d \in D : {y \in D : <<y, d>> \in R} = Below(d)
  BY <1>2
<1>6. /\ \A x \in D : rank(x) \in 0 .. n - 1
      /\ \A x, y \in D : x.name < y.name => rank(x) < rank(y)
      /\ \A x, y \in D : rank(x) = rank(y) => x = y
      /\ \A i \in 0 .. n - 1 : \E x \in D : rank(x) = i
  <2>1. \A x \in D : Rank(D, R, x) = rank(x)
    BY <1>5 DEF Rank
  <2>2. /\ \A x \in D : Rank(D, R, x) \in 0 .. n - 1
        /\ \A x, y \in D : <<x, y>> \in R => Rank(D, R, x) < Rank(D, R, y)
        /\ \A x, y \in D : Rank(D, R, x) = Rank(D, R, y) => x = y
        /\ \A i \in 0 .. n - 1 : \E x \in D : Rank(D, R, x) = i
    BY <1>4, Ranks
  <2> HIDE DEF rank, n
  <2>3. \A x, y \in D : rank(x) = rank(y) => x = y
    BY <2>1, <2>2
  <2>4. \A i \in 0 .. n - 1 : \E x \in D : rank(x) = i
    BY <2>1, <2>2
  <2>5. ASSUME NEW x \in D, NEW y \in D, x.name < y.name
        PROVE  rank(x) < rank(y)
    <3>1. <<x, y>> \in R
      BY <2>5, <1>2
    <3>2. Rank(D, R, x) < Rank(D, R, y)
      BY <3>1, <2>2
    <3> QED
      BY <3>2, <2>1
  <2>6. \A x \in D : rank(x) \in 0 .. n - 1
    BY <2>1, <2>2
  <2> QED
    BY <2>3, <2>4, <2>5, <2>6
<1>7. SortedBy(D, LAMBDA d, e : d.name < e.name) = es
  BY DEF SortedBy
<1> HIDE DEF rank
<1>8. \A i \in 1 .. n : es[i] \in D /\ rank(es[i]) = i - 1
  <2> TAKE i \in 1 .. n
  <2>1. i - 1 \in 0 .. n - 1
    BY <1>1
  <2>2. \E x \in D : rank(x) = i - 1
    BY <2>1, <1>6
  <2>3. es[i] = CHOOSE d \in D : rank(d) = i - 1
    OBVIOUS
  <2> HIDE DEF es
  <2> QED
    BY <2>2, <2>3
<1>9. es \in [1 .. n -> D] /\ DOMAIN es = 1 .. n
  <2>1. DOMAIN es = 1 .. n /\ es = [i \in 1 .. n |-> es[i]]
    OBVIOUS
  <2> HIDE DEF es
  <2> QED
    BY <2>1, <1>8
<1> HIDE DEF es
<1>10. es \in Seq(D) /\ es \in Seq(DirentSet)
  <2>1. es \in Seq(D)
    BY <1>1, <1>9, SeqDef
  <2> QED
    BY <2>1, SeqMonotonic
<1>11. Len(es) = n
  <2>1. Len(es) \in Nat /\ DOMAIN es = 1 .. Len(es)
    BY <1>10, LenProperties
  <2> QED
    BY <2>1, <1>1, <1>9
<1>12. Range(es) = D
  <2>1. \A d \in D : \E i \in 1 .. n : es[i] = d
    <3> TAKE d \in D
    <3> DEFINE i == rank(d) + 1
    <3>1. rank(d) \in 0 .. n - 1
      BY <1>6
    <3>2. i \in 1 .. n /\ i - 1 = rank(d)
      BY <3>1, <1>1
    <3> HIDE DEF i
    <3>3. es[i] \in D /\ rank(es[i]) = rank(d)
      BY <3>2, <1>8
    <3> QED
      BY <3>2, <3>3, <1>6
  <2> QED
    BY <2>1, <1>8, <1>9 DEF Range
<1>13. ASSUME NEW i \in 1 .. n, NEW j \in 1 .. n, i < j
       PROVE  es[i].name < es[j].name
  <2>1. /\ es[i] \in D /\ es[j] \in D
        /\ rank(es[i]) = i - 1 /\ rank(es[j]) = j - 1
    BY <1>8
  <2>2. es[i].name \in Nat /\ es[j].name \in Nat
    BY <2>1, <1>3
  <2>3. es[j].name < es[i].name => rank(es[j]) < rank(es[i])
    BY <2>1, <1>6
  <2>4. es[i].name # es[j].name
    <3> SUFFICES ASSUME es[i].name = es[j].name
                 PROVE  FALSE
      OBVIOUS
    <3>1. es[i] = es[j]
      BY <2>1
    <3>2. i - 1 = j - 1
      BY <3>1, <2>1
    <3> QED
      BY <3>2, <1>1, <1>13
  <2>5. ~(es[j].name < es[i].name)
    BY <2>1, <2>3, <1>1, <1>13
  <2> QED
    BY <2>2, <2>4, <2>5
<1> QED
  BY <1>7, <1>10, <1>11, <1>12, <1>13 DEF Lists

(* The node a path leads to is no alias.                                   *)
LEMMA CanonicalFacts ==
    ASSUME Tree(node), Aliases, NEW p \in DOMAIN node
    PROVE  /\ canonical(p) \in Inodes
           /\ canonical(canonical(p)) = canonical(p)
           /\ p \in Inodes <=> canonical(p) = p
<1>1. p \in Seq(FileNames) /\ p # NoNode
  BY PathsOfNats DEF Tree
<1>2. node[p].hardTo # NoNode => node[p].hardTo \in Inodes /\ node[p].hardTo # p
  BY DEF Aliases, Inodes
<1> QED
  BY <1>2 DEF canonical, Inodes

(* The dirents of a directory have different names, none too long.         *)
LEMMA DirentsFacts ==
    ASSUME Tree(node), Aliases, NEW p
    PROVE  /\ Dirents(p) \in SUBSET DirentSet
           /\ IsFiniteSet(Dirents(p))
           /\ \A d, e \in Dirents(p) : d.name = e.name => d = e
           /\ Cardinality(Dirents(p)) \in Nat \ {0}
<1> DEFINE C == children(node, p)
           dot == [name |-> Dot, nid |-> nid(p), ftype |-> "dir"]
           dotdot == [name |-> DotDot, nid |-> IF p = <<>> THEN nid(p) ELSE nid(ParentOf(p)),
                      ftype |-> "dir"]
           entry(q) == [name |-> Last(q), nid |-> nid(canonical(q)),
                        ftype |-> node[canonical(q)].ftype]
           E == {entry(q) : q \in C}
<1>1. Dirents(p) = {dot, dotdot} \cup E
  BY DEF Dirents
<1>2. \A q : nid(q) \in Nat
  <2> TAKE q
  <2>1. Before(q) \in Nat /\ nid(q) = (1 + Before(q)) * 2
    BY NidFacts
  <2> QED
    BY <2>1
<1>3. dot \in DirentSet /\ dotdot \in DirentSet /\ dot.name = Dot /\ dotdot.name = DotDot
  BY <1>2, NameAssumption DEF DirentSet, ShortNames, Names
<1>4. ASSUME NEW q \in C
      PROVE  /\ q \in DOMAIN node /\ q \in Seq(FileNames) /\ q # <<>> /\ ParentOf(q) = p
             /\ Last(q) \in FileNames /\ NameLen[Last(q)] <= MaxName
  BY FrontLast DEF children, Tree
<1>5. \A q \in C : entry(q) \in DirentSet /\ entry(q).name = Last(q)
  <2> TAKE q \in C
  <2>1. canonical(q) \in DOMAIN node
    BY <1>4, CanonicalFacts DEF Inodes
  <2>2. node[canonical(q)].ftype \in {"dir", "reg", "sym", "dev"}
    BY <2>1 DEF Tree, Nodes
  <2>3. Last(q) \in ShortNames
    BY <1>4 DEF FileNames, ShortNames
  <2> QED
    BY <1>2, <2>2, <2>3 DEF DirentSet
<1> HIDE DEF dot, dotdot, entry
<1>6. IsFiniteSet(E)
  <2>1. IsFiniteSet(C)
    <3>1. C \in SUBSET DOMAIN node /\ IsFiniteSet(DOMAIN node)
      BY DEF children, Tree
    <3> HIDE DEF C
    <3> QED
      BY <3>1, FS_Subset
  <2> DEFINE f == [q \in C |-> entry(q)]
  <2>2. f \in Surjection(C, E)
    BY DEF Surjection
  <2> HIDE DEF f, C, E
  <2> QED
    BY <2>1, <2>2, FS_Surjection
<1>7. IsFiniteSet({dot, dotdot} \cup E)
  <2>1. IsFiniteSet({dot}) /\ IsFiniteSet({dotdot})
    BY FS_Singleton
  <2>2. IsFiniteSet({dot} \cup {dotdot})
    BY <2>1, FS_Union
  <2>3. {dot, dotdot} = {dot} \cup {dotdot}
    OBVIOUS
  <2> HIDE DEF E
  <2> QED
    BY <2>2, <2>3, <1>6, FS_Union
<1>8. ASSUME NEW d \in Dirents(p), NEW e \in Dirents(p), d.name = e.name
      PROVE  d = e
  <2>1. Dot \notin FileNames /\ DotDot \notin FileNames /\ Dot # DotDot
    BY NameAssumption DEF FileNames
  <2>2. CASE d \in E /\ e \in E
    <3>1. PICK q \in C, r \in C : d = entry(q) /\ e = entry(r)
      BY <2>2
    <3>2. Last(q) = Last(r)
      BY <3>1, <1>5, <1>8
    <3>3. q = r
      BY <3>2, <1>4, PathsDiffer
    <3> QED
      BY <3>1, <3>3
  <2>3. CASE ~(d \in E /\ e \in E)
    <3>1. \A x \in E : x.name \in FileNames
      BY <1>4, <1>5
    <3> HIDE DEF E
    <3> QED
      BY <3>1, <2>1, <2>3, <1>1, <1>3, <1>8
  <2> QED
    BY <2>2, <2>3
<1>9. Cardinality(Dirents(p)) \in Nat \ {0}
  <2>1. Dirents(p) # {} /\ IsFiniteSet(Dirents(p))
    BY <1>1, <1>7
  <2> QED
    BY <2>1, FS_CardinalityType, FS_EmptySet
<1> QED
  BY <1>1, <1>3, <1>5, <1>7, <1>8, <1>9

(* The sorted dirents of a directory and their blocks.                     *)
LEMMA SortedFacts ==
    ASSUME Tree(node), Aliases, NEW p
    PROVE  /\ Lists(SortedDirents(p), Dirents(p))
           /\ PackedWell(SortedDirents(p), Packed(SortedDirents(p)))
<1>1. Lists(SortedDirents(p), Dirents(p))
  BY DirentsFacts, SortedByName DEF SortedDirents
<1>2. SortedDirents(p) \in Seq(DirentSet) /\ Len(SortedDirents(p)) >= 1
  BY <1>1, DirentsFacts DEF Lists
<1> QED
  BY <1>1, <1>2, PackedFacts

(***************************************************************************)
(* Building the tree                                                       *)
(***************************************************************************)
(* The first i names of a path.                                            *)
LEMMA PrefixFacts ==
    ASSUME NEW p \in Seq(FileNames), NEW i \in 0 .. Len(p)
    PROVE  /\ SubSeq(p, 1, i) \in Seq(FileNames)
           /\ Len(SubSeq(p, 1, i)) = i
           /\ \A j \in 1 .. i : SubSeq(p, 1, i)[j] = p[j]
           /\ i = 0 => SubSeq(p, 1, i) = <<>>
           /\ i # 0 => SubSeq(p, 1, i) # <<>>
<1>1. Len(p) \in Nat /\ i \in Int /\ 1 \in Int /\ i >= 0 /\ i <= Len(p)
  OBVIOUS
<1>2. \A j \in 1 .. i : p[j] \in FileNames
  <2> TAKE j \in 1 .. i
  <2>1. j \in 1 .. Len(p)
    BY <1>1
  <2> QED
    BY <2>1, ElementOfSeq
<1> DEFINE s == SubSeq(p, 1, i)
<1>3. /\ s \in Seq(FileNames)
      /\ Len(s) = IF 1 <= i THEN i - 1 + 1 ELSE 0
      /\ \A j \in 1 .. i - 1 + 1 : s[j] = p[1 + j - 1]
  BY <1>1, <1>2, SubSeqProperties
<1> HIDE DEF s
<1>4. Len(s) = i
  BY <1>1, <1>3
<1>5. \A j \in 1 .. i : s[j] = p[j]
  BY <1>1, <1>3
<1>6. (i = 0) = (s = <<>>)
  BY <1>3, <1>4, EmptySeq
<1> QED
  BY <1>3, <1>4, <1>5, <1>6 DEF s

(* A prefix's parent is the prefix that is one shorter.                    *)
LEMMA PrefixParent ==
    ASSUME NEW p \in Seq(FileNames), NEW i \in 1 .. Len(p)
    PROVE  /\ ParentOf(SubSeq(p, 1, i)) = SubSeq(p, 1, i - 1)
           /\ Last(SubSeq(p, 1, i)) = p[i]
<1> DEFINE s == SubSeq(p, 1, i)
           t == SubSeq(p, 1, i - 1)
<1>1. Len(p) \in Nat /\ i \in 0 .. Len(p) /\ i - 1 \in 0 .. Len(p) /\ i # 0 /\ i \in Nat
  OBVIOUS
<1>2. /\ s \in Seq(FileNames) /\ Len(s) = i /\ s # <<>>
      /\ \A j \in 1 .. i : s[j] = p[j]
  BY <1>1, PrefixFacts
<1>3. t \in Seq(FileNames) /\ Len(t) = i - 1 /\ \A j \in 1 .. i - 1 : t[j] = p[j]
  BY <1>1, PrefixFacts
<1> HIDE DEF s, t
<1>4. /\ ParentOf(s) \in Seq(FileNames) /\ Len(ParentOf(s)) = i - 1
      /\ \A j \in 1 .. i - 1 : ParentOf(s)[j] = s[j]
      /\ Last(s) = s[i]
  BY <1>2, FrontLast
<1>5. \A j \in 1 .. Len(t) : ParentOf(s)[j] = t[j]
  <2> TAKE j \in 1 .. Len(t)
  <2>1. j \in 1 .. i - 1 /\ j \in 1 .. i
    BY <1>1, <1>3
  <2> QED
    BY <2>1, <1>2, <1>3, <1>4
<1>6. ParentOf(s) = t
  <2>1. Len(t) = Len(ParentOf(s)) /\ \A j \in 1 .. Len(t) : t[j] = ParentOf(s)[j]
    BY <1>3, <1>4, <1>5
  <2>2. t = ParentOf(s)
    BY <2>1, <1>3, <1>4, SeqEqual
  <2> QED
    BY <2>2
<1>7. i \in 1 .. i
  BY <1>1
<1> QED
  BY <1>2, <1>4, <1>6, <1>7 DEF s, t

(* The ancestors of a path, itself and the root among them.                *)
LEMMA AncestorFacts ==
    ASSUME NEW p \in Seq(FileNames)
    PROVE  /\ Ancestors(p) \subseteq Seq(FileNames)
           /\ IsFiniteSet(Ancestors(p))
           /\ p \in Ancestors(p) /\ <<>> \in Ancestors(p)
           /\ \A q \in Ancestors(p) \ {<<>>} : ParentOf(q) \in Ancestors(p)
           /\ \A q \in Ancestors(p) : Len(q) <= Len(p)
           /\ \A q, r \in Ancestors(p) : Len(q) = Len(r) => q = r
<1> DEFINE I == 0 .. Len(p)
           f == [i \in I |-> SubSeq(p, 1, i)]
<1>1. Len(p) \in Nat
  OBVIOUS
<1>2. Ancestors(p) = {SubSeq(p, 1, i) : i \in I}
  BY DEF Ancestors
<1>3. IsFiniteSet(Ancestors(p))
  <2>1. f \in Surjection(I, Ancestors(p))
    BY <1>2 DEF Surjection
  <2>2. IsFiniteSet(I)
    BY <1>1, FS_Interval
  <2> HIDE DEF f, I
  <2> QED
    BY <2>1, <2>2, FS_Surjection
<1>4. p \in Ancestors(p)
  <2>1. Len(p) \in I
    BY <1>1
  <2>2. SubSeq(p, 1, Len(p)) = p
    BY SubSeqFull
  <2> QED
    BY <2>1, <2>2, <1>2
<1>5. <<>> \in Ancestors(p)
  <2>1. 0 \in I
    BY <1>1
  <2>2. SubSeq(p, 1, 0) = <<>>
    BY <2>1, PrefixFacts
  <2> QED
    BY <2>1, <2>2, <1>2
<1>6. \A i \in I : /\ SubSeq(p, 1, i) \in Seq(FileNames) /\ Len(SubSeq(p, 1, i)) = i
                   /\ i = 0 => SubSeq(p, 1, i) = <<>>
  BY PrefixFacts
<1>7. ASSUME NEW q \in Ancestors(p), q # <<>>
      PROVE  ParentOf(q) \in Ancestors(p)
  <2>1. PICK i \in I : q = SubSeq(p, 1, i)
    BY <1>2
  <2>2. i # 0
    BY <2>1, <1>6, <1>7
  <2>3. i \in 1 .. Len(p) /\ i - 1 \in I
    BY <2>2, <1>1
  <2>4. ParentOf(q) = SubSeq(p, 1, i - 1)
    BY <2>1, <2>3, PrefixParent
  <2> QED
    BY <2>3, <2>4, <1>2
<1>8. \A q \in Ancestors(p) : /\ q \in Seq(FileNames) /\ Len(q) \in I
                              /\ q = SubSeq(p, 1, Len(q))
  BY <1>2, <1>6
<1>9. \A q \in Ancestors(p) : Len(q) <= Len(p)
  BY <1>1, <1>8
<1>10. \A q, r \in Ancestors(p) : Len(q) = Len(r) => q = r
  BY <1>8
<1> QED
  BY <1>3, <1>4, <1>5, <1>7, <1>8, <1>9, <1>10

(* q is in the tree t what it is in u, its links aside.                    *)
Kept(t, u, q) ==
    /\ t[q].ftype = u[q].ftype /\ t[q].size = u[q].size
    /\ t[q].blkaddr = u[q].blkaddr /\ t[q].hardTo = u[q].hardTo
FreshDir(t, q) == OwnDir(t, q) /\ t[q].size = 0 /\ t[q].blkaddr = 0

Missing(p) == Ancestors(p) \ DOMAIN node

(* A directory lookup makes is made below a directory.                     *)
LEMMA MissingFacts ==
    ASSUME Tree(node), Aliases, NEW p \in Seq(FileNames), ~LookupFails(p),
           NEW c \in Missing(p)
    PROVE  /\ c \in Seq(FileNames) /\ c # <<>>
           /\ ParentOf(c) \in Ancestors(p)
           /\ ParentOf(c) \in DOMAIN node => OwnDir(node, ParentOf(c))
           /\ NameLen[Last(c)] <= MaxName
           /\ \A d \in Missing(p) : ParentOf(d) = ParentOf(c) => d = c
<1>1. c \in Ancestors(p) /\ c \notin DOMAIN node /\ c \in Seq(FileNames)
  BY AncestorFacts DEF Missing
<1>2. c # <<>>
  BY <1>1 DEF Tree
<1>3. ParentOf(c) \in Ancestors(p)
  BY <1>1, <1>2, AncestorFacts
<1>4. NameLen[Last(c)] <= MaxName
  <2>1. Last(c) \in FileNames
    BY <1>1, <1>2, FrontLast
  <2>2. NameLen[Last(c)] \in Nat /\ MaxName \in Nat
    BY <2>1, NameAssumption, BlockAssumption DEF FileNames, Names
  <2>3. ~(NameLen[Last(c)] > MaxName)
    BY <1>1 DEF LookupFails
  <2> QED
    BY <2>2, <2>3
<1>5. ASSUME ParentOf(c) \in DOMAIN node
      PROVE  OwnDir(node, ParentOf(c))
  <2>1. isDir(canonical(ParentOf(c)))
    BY <1>1, <1>5 DEF LookupFails
  <2>2. node[ParentOf(c)].hardTo = NoNode
    BY <2>1, <1>5 DEF canonical, isDir, Aliases
  <2> QED
    BY <2>1, <2>2 DEF canonical, isDir, OwnDir
<1>6. ASSUME NEW d \in Missing(p), ParentOf(d) = ParentOf(c)
      PROVE  d = c
  <2>1. d \in Ancestors(p) /\ d \in Seq(FileNames) /\ d # <<>>
    BY AncestorFacts DEF Missing, Tree
  <2>2. /\ Len(d) \in Nat /\ Len(c) \in Nat
        /\ Len(ParentOf(d)) = Len(d) - 1 /\ Len(ParentOf(c)) = Len(c) - 1
    BY <1>1, <1>2, <2>1, FrontLast
  <2>3. Len(d) = Len(c)
    BY <2>2, <1>6
  <2> QED
    BY <1>1, <2>1, <2>3, AncestorFacts
<1> QED
  BY <1>1, <1>2, <1>3, <1>4, <1>5, <1>6

(* lookup adds the missing ancestors as directories and keeps the rest.    *)
LEMMA LookedUpKeeps ==
    ASSUME Tree(node), Aliases, NEW p \in Seq(FileNames), ~LookupFails(p)
    PROVE  LET t == LookedUp(p) IN
           /\ DOMAIN t = DOMAIN node \cup Ancestors(p)
           /\ \A q \in DOMAIN node : Kept(t, node, q)
           /\ \A q \in Missing(p) : FreshDir(t, q)
           /\ \A q \in DOMAIN t :
                 t[q].nlink = (IF q \in DOMAIN node THEN node[q].nlink ELSE 2)
                              + (IF \E c \in Missing(p) : ParentOf(c) = q THEN 1 ELSE 0)
           /\ Tree(t)
<1> DEFINE t == LookedUp(p)
           old(q) == IF q \in DOMAIN node THEN node[q] ELSE Dir(2)
           linked(q) == \E c \in Missing(p) : ParentOf(c) = q
<1>1. t = [q \in DOMAIN node \cup Ancestors(p) |->
              IF linked(q) THEN [old(q) EXCEPT !.nlink = @ + 1] ELSE old(q)]
  BY DEF LookedUp, Missing
<1> HIDE DEF t
<1>2. DOMAIN t = DOMAIN node \cup Ancestors(p)
  BY <1>1
<1>3. \A q \in DOMAIN t : old(q) \in Nodes
  <2>1. Dir(2) \in Nodes
    BY DEF Dir, Nodes
  <2> QED
    BY <2>1 DEF Tree
<1>4. ASSUME NEW q \in DOMAIN t
      PROVE  /\ t[q] \in Nodes
             /\ t[q].ftype = old(q).ftype /\ t[q].size = old(q).size
             /\ t[q].blkaddr = old(q).blkaddr /\ t[q].hardTo = old(q).hardTo
             /\ t[q].nlink = old(q).nlink + (IF linked(q) THEN 1 ELSE 0)
  <2>1. old(q) \in Nodes
    BY <1>3
  <2>2. t[q] = IF linked(q) THEN [old(q) EXCEPT !.nlink = @ + 1] ELSE old(q)
    BY <1>1, <1>2
  <2> HIDE DEF old, linked
  <2> QED
    BY <2>1, <2>2 DEF Nodes
<1>5. \A q \in DOMAIN node : Kept(t, node, q)
  BY <1>2, <1>4 DEF Kept
<1>6. \A q \in Missing(p) : FreshDir(t, q)
  BY <1>2, <1>4 DEF FreshDir, OwnDir, Missing, Dir
<1>7. \A q \in DOMAIN t :
         t[q].nlink = (IF q \in DOMAIN node THEN node[q].nlink ELSE 2)
                      + (IF linked(q) THEN 1 ELSE 0)
  <2>1. Dir(2).nlink = 2
    BY DEF Dir
  <2> HIDE DEF linked
  <2> QED
    BY <2>1, <1>4
<1>8. Tree(t)
  <2>1. DOMAIN t \subseteq Seq(FileNames)
    BY <1>2, AncestorFacts DEF Tree
  <2>2. IsFiniteSet(DOMAIN t)
    <3>1. IsFiniteSet(DOMAIN node) /\ IsFiniteSet(Ancestors(p))
      BY AncestorFacts DEF Tree
    <3>2. IsFiniteSet(DOMAIN node \cup Ancestors(p))
      BY <3>1, FS_Union
    <3> QED
      BY <3>2, <1>2
  <2>3. t \in [DOMAIN t -> Nodes]
    <3>1. t = [q \in DOMAIN t |-> t[q]]
      BY <1>1
    <3> QED
      BY <3>1, <1>4
  <2>4. <<>> \in DOMAIN t /\ OwnDir(t, <<>>)
    BY <1>2, <1>5 DEF Tree, Kept, OwnDir
  <2>5. ASSUME NEW q \in DOMAIN t \ {<<>>}
        PROVE  ParentOf(q) \in DOMAIN t /\ OwnDir(t, ParentOf(q)) /\ NameLen[Last(q)] <= MaxName
    <3>1. CASE q \in DOMAIN node
      BY <3>1, <1>2, <1>5 DEF Tree, Kept, OwnDir
    <3>2. CASE q \notin DOMAIN node
      <4>1. q \in Missing(p)
        BY <3>2, <1>2 DEF Missing
      <4>2. ParentOf(q) \in Ancestors(p) /\ NameLen[Last(q)] <= MaxName
        BY <4>1, MissingFacts
      <4>3. CASE ParentOf(q) \in DOMAIN node
        <5>1. OwnDir(node, ParentOf(q))
          BY <4>1, <4>3, MissingFacts
        <5> QED
          BY <4>2, <4>3, <5>1, <1>2, <1>5 DEF Kept, OwnDir
      <4>4. CASE ParentOf(q) \notin DOMAIN node
        <5>1. ParentOf(q) \in Missing(p)
          BY <4>2, <4>4 DEF Missing
        <5> QED
          BY <4>2, <5>1, <1>2, <1>6 DEF FreshDir
      <4> QED
        BY <4>3, <4>4
    <3> QED
      BY <3>1, <3>2
  <2> QED
    BY <2>1, <2>2, <2>3, <2>4, <2>5 DEF Tree
<1> QED
  BY <1>2, <1>5, <1>6, <1>7, <1>8 DEF t

(* lookup keeps the links counted.                                         *)
LEMMA LookedUpLinked ==
    ASSUME Tree(node), Aliases, NEW p \in Seq(FileNames), ~LookupFails(p), Linked(node)
    PROVE  Linked(LookedUp(p))
<1> DEFINE t == LookedUp(p)
           linked(q) == \E c \in Missing(p) : ParentOf(c) = q
<1>1. /\ DOMAIN t = DOMAIN node \cup Ancestors(p)
      /\ \A q \in DOMAIN node : Kept(t, node, q)
      /\ \A q \in Missing(p) : FreshDir(t, q)
      /\ \A q \in DOMAIN t :
            t[q].nlink = (IF q \in DOMAIN node THEN node[q].nlink ELSE 2)
                         + (IF linked(q) THEN 1 ELSE 0)
      /\ Tree(t)
  BY LookedUpKeeps
<1> HIDE DEF t, linked
<1>2. \A q : q \in DOMAIN t <=> q \in DOMAIN node \/ q \in Missing(p)
  BY <1>1 DEF Missing
<1>3. \A q \in DOMAIN node : t[q].ftype = node[q].ftype /\ t[q].hardTo = node[q].hardTo
  BY <1>1 DEF Kept
<1>4. \A q \in Missing(p) : /\ q \notin DOMAIN node
                            /\ t[q].ftype = "dir" /\ t[q].hardTo = NoNode
  BY <1>1 DEF FreshDir, OwnDir, Missing
<1> SUFFICES ASSUME NEW r \in DOMAIN t, t[r].hardTo = NoNode
             PROVE  t[r].nlink = IF t[r].ftype = "dir" THEN 2 + Cardinality(SubDirs(t, r))
                                                       ELSE Cardinality(NamesOf(t, r))
  BY DEF Linked, t
<1> DEFINE before == {q \in DOMAIN node : q # <<>> /\ ParentOf(q) = r /\ OwnDir(node, q)}
<1>5. IsFiniteSet(before) /\ Cardinality(before) \in Nat
  <2>1. before \in SUBSET DOMAIN node /\ IsFiniteSet(DOMAIN node)
    BY DEF Tree
  <2> HIDE DEF before
  <2>2. IsFiniteSet(before)
    BY <2>1, FS_Subset
  <2> QED
    BY <2>2, FS_CardinalityType
<1>6. SubDirs(t, r) = before \cup {c \in Missing(p) : ParentOf(c) = r}
  <2>1. \A q \in DOMAIN node : OwnDir(t, q) <=> OwnDir(node, q)
    BY <1>3 DEF OwnDir
  <2>2. \A q \in Missing(p) : OwnDir(t, q) /\ q # <<>>
    BY <1>4, MissingFacts DEF OwnDir
  <2> QED
    BY <2>1, <2>2, <1>2 DEF SubDirs, children
<1>7. Cardinality(SubDirs(t, r)) = Cardinality(before) + (IF linked(r) THEN 1 ELSE 0)
  <2>1. CASE linked(r)
    <3>1. PICK c \in Missing(p) : ParentOf(c) = r
      BY <2>1 DEF linked
    <3>2. {d \in Missing(p) : ParentOf(d) = r} = {c}
      BY <3>1, MissingFacts
    <3>3. c \notin before
      BY <3>1, <1>4
    <3> HIDE DEF before
    <3>4. SubDirs(t, r) = before \cup {c}
      BY <3>2, <1>6
    <3> QED
      BY <3>3, <3>4, <2>1, <1>5, FS_AddElement
  <2>2. CASE ~linked(r)
    <3>1. {c \in Missing(p) : ParentOf(c) = r} = {}
      BY <2>2 DEF linked
    <3> HIDE DEF before
    <3>2. SubDirs(t, r) = before
      BY <3>1, <1>6
    <3> QED
      BY <3>2, <2>2, <1>5
  <2> QED
    BY <2>1, <2>2
<1>8. t[r].nlink = (IF r \in DOMAIN node THEN node[r].nlink ELSE 2) + (IF linked(r) THEN 1 ELSE 0)
  BY <1>1
<1>9. CASE r \in DOMAIN node /\ t[r].ftype = "dir"
  <2>1. before = SubDirs(node, r)
    BY DEF SubDirs, children
  <2>2. node[r].nlink = 2 + Cardinality(SubDirs(node, r))
    BY <1>3, <1>9 DEF Linked
  <2> HIDE DEF before
  <2> QED
    BY <2>1, <2>2, <1>5, <1>7, <1>8, <1>9
<1>10. CASE r \in DOMAIN node /\ t[r].ftype # "dir"
  <2>1. ~linked(r)
    <3> SUFFICES ASSUME NEW c \in Missing(p), ParentOf(c) = r
                 PROVE  FALSE
      BY DEF linked
    <3>1. OwnDir(node, r)
      BY <1>10, MissingFacts
    <3> QED
      BY <3>1, <1>3, <1>10 DEF OwnDir
  <2>2. NamesOf(t, r) = NamesOf(node, r)
    <3>1. \A q \in Missing(p) : q # r
      BY <1>4, <1>10
    <3> QED
      BY <3>1, <1>2, <1>3, <1>4 DEF NamesOf
  <2>3. node[r].nlink = Cardinality(NamesOf(node, r)) /\ node[r].nlink \in Int
    BY <1>3, <1>10 DEF Linked, Tree, Nodes
  <2> QED
    BY <2>1, <2>2, <2>3, <1>8, <1>10
<1>11. CASE r \notin DOMAIN node
  <2>1. t[r].ftype = "dir"
    BY <1>2, <1>4, <1>11
  <2>2. before = {}
    BY <1>11 DEF Tree
  <2>3. Cardinality(before) = 0
    BY <2>2, FS_EmptySet
  <2> HIDE DEF before
  <2> QED
    BY <2>1, <2>3, <1>7, <1>8, <1>11
<1> QED
  BY <1>9, <1>10, <1>11

(* A leaf of the tree t that no alias leads to.                            *)
Leaf(t, p) ==
    /\ p \in DOMAIN t \ {<<>>}
    /\ OwnDir(t, p)
    /\ children(t, p) = {}
    /\ \A q \in DOMAIN t : t[q].hardTo # p

(* The directory lookup finds or makes for an entry that is none is a      *)
(* leaf.                                                                   *)
LEMMA LookedUpLeaf ==
    ASSUME Tree(node), Aliases, Entries, NEW p \in Seq(FileNames), p # <<>>,
           p \notin DOMAIN tar, ~LookupFails(p), ~OverPopulated(p)
    PROVE  Leaf(LookedUp(p), p)
<1> DEFINE t == LookedUp(p)
<1>1. /\ DOMAIN t = DOMAIN node \cup Ancestors(p)
      /\ \A q \in DOMAIN node : Kept(t, node, q)
      /\ \A q \in Missing(p) : FreshDir(t, q)
      /\ Tree(t)
  BY LookedUpKeeps
<1> HIDE DEF t
<1>2. p \in Ancestors(p)
  BY AncestorFacts
<1>3. p \in DOMAIN node => OwnDir(node, p)
  BY DEF Entries
<1>4. OwnDir(t, p)
  <2>1. CASE p \in DOMAIN node
    BY <2>1, <1>1, <1>3 DEF Kept, OwnDir
  <2>2. CASE p \notin DOMAIN node
    BY <2>2, <1>1, <1>2 DEF Missing, FreshDir
  <2> QED
    BY <2>1, <2>2
<1>5. children(t, p) = {}
  <2> SUFFICES ASSUME NEW q \in DOMAIN t, q # <<>>, ParentOf(q) = p
               PROVE  FALSE
    BY DEF children
  <2>1. CASE q \in DOMAIN node
    <3>1. q \in children(node, p) /\ p \in DOMAIN node
      BY <2>1 DEF children, Tree
    <3> QED
      BY <3>1, <1>3 DEF OverPopulated, isDir, OwnDir
  <2>2. CASE q \notin DOMAIN node
    <3>1. q \in Ancestors(p) /\ q \in Seq(FileNames)
      BY <2>2, <1>1, AncestorFacts
    <3>2. Len(q) <= Len(p) /\ Len(p) = Len(q) - 1 /\ Len(q) \in Nat /\ Len(p) \in Nat
      BY <3>1, AncestorFacts, FrontLast
    <3> QED
      BY <3>2
  <2> QED
    BY <2>1, <2>2
<1>6. ASSUME NEW q \in DOMAIN t
      PROVE  t[q].hardTo # p
  <2>1. p # NoNode
    BY PathsOfNats
  <2>2. CASE q \in DOMAIN node
    <3>1. node[q].hardTo # p
      BY <2>1, <2>2 DEF Aliases
    <3> QED
      BY <3>1, <2>2, <1>1 DEF Kept
  <2>3. CASE q \notin DOMAIN node
    BY <2>1, <2>3, <1>1 DEF Missing, FreshDir, OwnDir
  <2> QED
    BY <2>2, <2>3
<1>7. Leaf(t, p)
  BY <1>1, <1>2, <1>4, <1>5, <1>6 DEF Leaf
<1> QED
  BY <1>7 DEF t

(* v is t with the leaf p become something else.                           *)
Becomes(t, v, p) ==
    /\ v \in [DOMAIN t -> Nodes]
    /\ \A q \in DOMAIN t \ {p} : Kept(v, t, q)

(* The tree stays one.                                                     *)
LEMMA BecomesTree ==
    ASSUME NEW t, NEW p, NEW v, Tree(t), Leaf(t, p), Becomes(t, v, p)
    PROVE  Tree(v)
<1>1. DOMAIN v = DOMAIN t
  BY DEF Becomes
<1>2. \A q \in DOMAIN t \ {p} : OwnDir(t, q) => OwnDir(v, q)
  BY DEF Becomes, Kept, OwnDir
<1>3. \A q \in DOMAIN t \ {<<>>} : ParentOf(q) # p
  BY DEF Leaf, children
<1>4. p # <<>>
  BY DEF Leaf
<1> QED
  BY <1>1, <1>2, <1>3, <1>4 DEF Tree, Becomes

(* The node that the leaf's name leads to after the change.                *)
HeadOf(v, p) == IF v[p].hardTo = NoNode THEN p ELSE v[p].hardTo

(* Links stay counted when the leaf becomes a file or an alias of one, its *)
(* parent loses a link and the file the alias leads to wins one.           *)
LEMMA BecomesLinked ==
    ASSUME NEW t, NEW p, NEW v, Tree(t), Leaf(t, p), Becomes(t, v, p), Linked(t),
           v[p].hardTo = NoNode => v[p].ftype # "dir" /\ v[p].nlink = 1,
           v[p].hardTo # NoNode => /\ v[p].hardTo \in DOMAIN t \ {p}
                                   /\ t[v[p].hardTo].ftype # "dir",
           \A q \in DOMAIN t \ {p} :
              v[q].nlink = t[q].nlink - (IF q = ParentOf(p) THEN 1 ELSE 0)
                                      + (IF q = HeadOf(v, p) THEN 1 ELSE 0)
    PROVE  Linked(v)
<1> DEFINE par == ParentOf(p)
           h == HeadOf(v, p)
<1>1. /\ DOMAIN v = DOMAIN t
      /\ \A q \in DOMAIN t \ {p} : v[q].ftype = t[q].ftype /\ v[q].hardTo = t[q].hardTo
  BY DEF Becomes, Kept
<1>2. /\ p \in DOMAIN t /\ p # <<>> /\ t[p].ftype = "dir" /\ t[p].hardTo = NoNode
      /\ \A q \in DOMAIN t : t[q].hardTo # p
  BY DEF Leaf, OwnDir
<1>3. par \in DOMAIN t /\ t[par].ftype = "dir" /\ t[par].hardTo = NoNode
  BY <1>2 DEF Tree, OwnDir
<1>4. ~OwnDir(v, p)
  BY DEF OwnDir
<1>5. h # p => h \in DOMAIN t \ {p} /\ t[h].ftype # "dir"
  BY DEF HeadOf
<1>6. \A q \in DOMAIN t : t[q].nlink \in Int
  BY DEF Tree, Nodes
<1> SUFFICES ASSUME NEW r \in DOMAIN v, v[r].hardTo = NoNode
             PROVE  v[r].nlink = IF v[r].ftype = "dir" THEN 2 + Cardinality(SubDirs(v, r))
                                                       ELSE Cardinality(NamesOf(v, r))
  BY DEF Linked
<1> HIDE DEF par
<1>7. CASE r = p
  <2>1. NamesOf(v, p) = {p}
    BY <1>1, <1>2, <1>7 DEF NamesOf
  <2>2. Cardinality({p}) = 1
    BY FS_Singleton
  <2> QED
    BY <2>1, <2>2, <1>7
<1>8. CASE r # p /\ t[r].ftype = "dir"
  <2>1. t[r].nlink = 2 + Cardinality(SubDirs(t, r))
    BY <1>1, <1>8 DEF Linked
  <2>2. SubDirs(v, r) = SubDirs(t, r) \ {p}
    BY <1>1, <1>4 DEF SubDirs, children, OwnDir
  <2>3. IsFiniteSet(SubDirs(t, r)) /\ Cardinality(SubDirs(t, r)) \in Nat
    <3>1. SubDirs(t, r) \in SUBSET DOMAIN t /\ IsFiniteSet(DOMAIN t)
      BY DEF Tree, SubDirs, children
    <3>2. IsFiniteSet(SubDirs(t, r))
      BY <3>1, FS_Subset
    <3> QED
      BY <3>2, FS_CardinalityType
  <2>4. p \in SubDirs(t, r) <=> r = par
    BY <1>2 DEF SubDirs, children, OwnDir, par
  <2>5. Cardinality(SubDirs(v, r)) = Cardinality(SubDirs(t, r)) - (IF r = par THEN 1 ELSE 0)
    <3>1. Cardinality(SubDirs(t, r) \ {p}) =
             IF p \in SubDirs(t, r) THEN Cardinality(SubDirs(t, r)) - 1
                                    ELSE Cardinality(SubDirs(t, r))
      BY <2>3, FS_RemoveElement
    <3> QED
      BY <3>1, <2>2, <2>3, <2>4
  <2>6. r # h
    BY <1>5, <1>8
  <2>7. v[r].nlink = t[r].nlink - (IF r = par THEN 1 ELSE 0)
    BY <1>1, <1>6, <1>8, <2>6 DEF par
  <2>8. v[r].ftype = "dir"
    BY <1>1, <1>8
  <2> QED
    BY <2>1, <2>3, <2>5, <2>7, <2>8
<1>9. CASE r # p /\ t[r].ftype # "dir"
  <2>1. t[r].nlink = Cardinality(NamesOf(t, r)) /\ v[r].ftype # "dir"
    BY <1>1, <1>9 DEF Linked
  <2>2. r # par
    BY <1>3, <1>9
  <2>3. NamesOf(v, r) = NamesOf(t, r) \cup (IF h = r THEN {p} ELSE {})
    BY <1>1, <1>2, <1>9 DEF NamesOf, HeadOf
  <2>4. IsFiniteSet(NamesOf(t, r)) /\ Cardinality(NamesOf(t, r)) \in Nat
    <3>1. NamesOf(t, r) \in SUBSET DOMAIN t /\ IsFiniteSet(DOMAIN t)
      BY DEF Tree, NamesOf
    <3>2. IsFiniteSet(NamesOf(t, r))
      BY <3>1, FS_Subset
    <3> QED
      BY <3>2, FS_CardinalityType
  <2>5. p \notin NamesOf(t, r)
    BY <1>2, <1>9 DEF NamesOf
  <2>6. v[r].nlink = t[r].nlink + (IF r = h THEN 1 ELSE 0)
    BY <1>1, <1>6, <1>9, <2>2 DEF par
  <2>7. Cardinality(NamesOf(v, r)) = Cardinality(NamesOf(t, r)) + (IF r = h THEN 1 ELSE 0)
    <3>1. CASE h = r
      <4>1. NamesOf(v, r) = NamesOf(t, r) \cup {p}
        BY <3>1, <2>3
      <4> QED
        <5>1. Cardinality(NamesOf(t, r) \cup {p}) = Cardinality(NamesOf(t, r)) + 1
          BY <2>4, <2>5, FS_AddElement
        <5> QED
          BY <5>1, <4>1, <3>1
    <3>2. CASE h # r
      <4>1. NamesOf(v, r) = NamesOf(t, r)
        BY <3>2, <2>3
      <4> QED
        BY <4>1, <3>2, <2>4
    <3> QED
      BY <3>1, <3>2
  <2> QED
    BY <2>1, <2>6, <2>7
<1> QED
  BY <1>1, <1>7, <1>8, <1>9

(* What NotADir changes: links only.                                       *)
LEMMA NotADirFacts ==
    ASSUME NEW t, NEW p, Tree(t), Leaf(t, p)
    PROVE  /\ NotADir(t, p) \in [DOMAIN t -> Nodes]
           /\ \A q \in DOMAIN t :
                 /\ Kept(NotADir(t, p), t, q)
                 /\ NotADir(t, p)[q].nlink = IF q = p THEN 1
                                             ELSE IF q = ParentOf(p) THEN t[q].nlink - 1
                                             ELSE t[q].nlink
<1> DEFINE par == ParentOf(p)
           u == [t EXCEPT ![par].nlink = @ - 1]
<1>1. p \in DOMAIN t /\ p \in Seq(FileNames) /\ p # <<>> /\ t[p].ftype = "dir"
  BY DEF Leaf, OwnDir, Tree
<1>2. par \in DOMAIN t /\ par # p
  BY <1>1, FrontLast DEF Tree
<1>3. t \in [DOMAIN t -> Nodes]
  BY DEF Tree
<1>4. NotADir(t, p) = [u EXCEPT ![p].nlink = 1]
  BY <1>1 DEF NotADir
<1> HIDE DEF par
<1>5. /\ u \in [DOMAIN t -> Nodes]
      /\ u[par] = [t[par] EXCEPT !.nlink = @ - 1]
      /\ \A q \in DOMAIN t \ {par} : u[q] = t[q]
  <2>1. t[par] \in Nodes
    BY <1>2, <1>3
  <2>2. [t[par] EXCEPT !.nlink = @ - 1] \in Nodes
    BY <2>1 DEF Nodes
  <2> QED
    BY <2>2, <1>2, <1>3
<1>6. \A q \in DOMAIN t : /\ Kept(u, t, q)
                          /\ u[q].nlink = IF q = par THEN t[q].nlink - 1 ELSE t[q].nlink
  <2>1. \A q \in DOMAIN t : t[q] \in Nodes
    BY <1>3
  <2> HIDE DEF u
  <2>2. Kept(u, t, par) /\ u[par].nlink = t[par].nlink - 1
    <3>1. t[par] \in Nodes
      BY <2>1, <1>2
    <3> QED
      BY <3>1, <1>5 DEF Kept, Nodes
  <2>3. \A q \in DOMAIN t \ {par} : Kept(u, t, q) /\ u[q].nlink = t[q].nlink
    BY <1>5 DEF Kept
  <2> QED
    BY <2>2, <2>3
<1> HIDE DEF u
<1> DEFINE v == [u EXCEPT ![p].nlink = 1]
<1>7. /\ v \in [DOMAIN t -> Nodes]
      /\ v[p] = [u[p] EXCEPT !.nlink = 1]
      /\ \A q \in DOMAIN t \ {p} : v[q] = u[q]
  <2>1. u[p] \in Nodes
    BY <1>1, <1>5
  <2>2. [u[p] EXCEPT !.nlink = 1] \in Nodes
    BY <2>1 DEF Nodes
  <2> QED
    BY <2>2, <1>1, <1>5
<1>8. Kept(v, u, p) /\ v[p].nlink = 1
  <2>1. u[p] \in Nodes
    BY <1>1, <1>5
  <2> HIDE DEF v
  <2> QED
    BY <2>1, <1>7 DEF Kept, Nodes
<1> HIDE DEF v
<1>9. ASSUME NEW q \in DOMAIN t
      PROVE  /\ Kept(v, t, q)
             /\ v[q].nlink = IF q = p THEN 1 ELSE IF q = par THEN t[q].nlink - 1 ELSE t[q].nlink
  <2>1. CASE q = p
    BY <2>1, <1>6, <1>8 DEF Kept
  <2>2. CASE q # p
    BY <2>2, <1>6, <1>7 DEF Kept
  <2> QED
    BY <2>1, <2>2
<1> QED
  BY <1>4, <1>7, <1>9 DEF v, par

(* The tree v is the one of node and the way to p, what p is aside.        *)
Grown(p, v) ==
    /\ Tree(v)
    /\ DOMAIN v = DOMAIN node \cup Ancestors(p)
    /\ \A q \in DOMAIN node \ {p} : Kept(v, node, q)
    /\ \A q \in Missing(p) \ {p} : FreshDir(v, q)

(* It is when the leaf that lookup led to became something else.           *)
LEMMA BecomesGrown ==
    ASSUME Tree(node), Aliases, NEW p \in Seq(FileNames), ~LookupFails(p),
           Leaf(LookedUp(p), p), NEW v, Becomes(LookedUp(p), v, p)
    PROVE  Grown(p, v)
<1> DEFINE t == LookedUp(p)
<1>1. /\ DOMAIN t = DOMAIN node \cup Ancestors(p)
      /\ \A q \in DOMAIN node : Kept(t, node, q)
      /\ \A q \in Missing(p) : FreshDir(t, q)
      /\ Tree(t)
  BY LookedUpKeeps
<1>2. Tree(v)
  BY <1>1, BecomesTree
<1> HIDE DEF t
<1>3. DOMAIN v = DOMAIN t /\ \A q \in DOMAIN t \ {p} : Kept(v, t, q)
  BY DEF Becomes, t
<1>4. \A q \in DOMAIN node \ {p} : Kept(v, node, q)
  BY <1>1, <1>3 DEF Kept
<1>5. \A q \in Missing(p) \ {p} : FreshDir(v, q)
  BY <1>1, <1>3 DEF Kept, FreshDir, OwnDir, Missing
<1> QED
  BY <1>1, <1>2, <1>3, <1>4, <1>5 DEF Grown

NothingWritten == UNCHANGED <<pos, nextBlk, extents>>

(* What an entry of the tar does to the node of its path, by its kind.     *)
AddedNode(p, entry) ==
    \/ /\ entry.kind \in {"dir", "ignored"}
       /\ OwnDir(node', p) /\ node'[p].blkaddr = 0
       /\ NothingWritten
    \/ /\ entry.kind \in {"reg", "sym"}
       /\ entry.size \in Nat
       /\ node'[p].ftype = entry.kind /\ node'[p].hardTo = NoNode /\ node'[p].size = entry.size
       /\ \/ entry.size = 0 /\ NothingWritten
          \/ /\ entry.size > 0 /\ node'[p].blkaddr = nextBlk
             /\ extents' = extents \cup {[off |-> pos, size |-> entry.size, owner |-> p]}
             /\ Write(entry.size)
    \/ /\ entry.kind = "dev"
       /\ node'[p].ftype = "dev" /\ node'[p].hardTo = NoNode
       /\ NothingWritten
    \/ /\ entry.kind = "link"
       /\ entry.link \in DOMAIN node \cap DOMAIN tar
       /\ canonical(entry.link) \in DOMAIN tar /\ ~isDir(canonical(entry.link))
       /\ node'[p].ftype = "dir" /\ node'[p].hardTo = canonical(entry.link)
       /\ NothingWritten

Added(p, entry) ==
    /\ Record(p, entry)
    /\ Grown(p, node')
    /\ AddedNode(p, entry)
    /\ entry.kind # "ignored" /\ Linked(node) => Linked(node')

(* One field of one node set.                                              *)
SetNode(v, u, p) ==
    /\ v \in [DOMAIN u -> Nodes]
    /\ \A q \in DOMAIN u \ {p} : v[q] = u[q]
WithType(u, p, x) == [u EXCEPT ![p].ftype = x]
WithSize(u, p, x) == [u EXCEPT ![p].size = x]
WithAddr(u, p, x) == [u EXCEPT ![p].blkaddr = x]
WithLinks(u, p, x) == [u EXCEPT ![p].nlink = x]
WithHard(u, p, x) == [u EXCEPT ![p].hardTo = x]

(* ftype set.                                                              *)
LEMMA SetType ==
    ASSUME NEW u, NEW p \in DOMAIN u, u \in [DOMAIN u -> Nodes], NEW x \in {"dir", "reg", "sym", "dev"}
    PROVE  LET v == WithType(u, p, x) IN
           /\ SetNode(v, u, p)
           /\ v[p].ftype = x
           /\ v[p].size = u[p].size /\ v[p].blkaddr = u[p].blkaddr
           /\ v[p].nlink = u[p].nlink /\ v[p].hardTo = u[p].hardTo
<1> DEFINE n == [u[p] EXCEPT !.ftype = x]
<1>1. u[p] \in Nodes
  OBVIOUS
<1>2. /\ n \in Nodes /\ n.ftype = x
      /\ n.size = u[p].size /\ n.blkaddr = u[p].blkaddr
      /\ n.nlink = u[p].nlink /\ n.hardTo = u[p].hardTo
  BY <1>1 DEF Nodes
<1>3. WithType(u, p, x) = [u EXCEPT ![p] = n]
  BY DEF WithType
<1> HIDE DEF n
<1> QED
  BY <1>2, <1>3 DEF SetNode

(* size set.                                                               *)
LEMMA SetSize ==
    ASSUME NEW u, NEW p \in DOMAIN u, u \in [DOMAIN u -> Nodes], NEW x \in Nat
    PROVE  LET v == WithSize(u, p, x) IN
           /\ SetNode(v, u, p)
           /\ v[p].size = x
           /\ v[p].ftype = u[p].ftype /\ v[p].blkaddr = u[p].blkaddr
           /\ v[p].nlink = u[p].nlink /\ v[p].hardTo = u[p].hardTo
<1> DEFINE n == [u[p] EXCEPT !.size = x]
<1>1. u[p] \in Nodes
  OBVIOUS
<1>2. /\ n \in Nodes /\ n.size = x
      /\ n.ftype = u[p].ftype /\ n.blkaddr = u[p].blkaddr
      /\ n.nlink = u[p].nlink /\ n.hardTo = u[p].hardTo
  BY <1>1 DEF Nodes
<1>3. WithSize(u, p, x) = [u EXCEPT ![p] = n]
  BY DEF WithSize
<1> HIDE DEF n
<1> QED
  BY <1>2, <1>3 DEF SetNode

(* blkaddr set.                                                            *)
LEMMA SetAddr ==
    ASSUME NEW u, NEW p \in DOMAIN u, u \in [DOMAIN u -> Nodes], NEW x \in Nat
    PROVE  LET v == WithAddr(u, p, x) IN
           /\ SetNode(v, u, p)
           /\ v[p].blkaddr = x
           /\ v[p].ftype = u[p].ftype /\ v[p].size = u[p].size
           /\ v[p].nlink = u[p].nlink /\ v[p].hardTo = u[p].hardTo
<1> DEFINE n == [u[p] EXCEPT !.blkaddr = x]
<1>1. u[p] \in Nodes
  OBVIOUS
<1>2. /\ n \in Nodes /\ n.blkaddr = x
      /\ n.ftype = u[p].ftype /\ n.size = u[p].size
      /\ n.nlink = u[p].nlink /\ n.hardTo = u[p].hardTo
  BY <1>1 DEF Nodes
<1>3. WithAddr(u, p, x) = [u EXCEPT ![p] = n]
  BY DEF WithAddr
<1> HIDE DEF n
<1> QED
  BY <1>2, <1>3 DEF SetNode

(* nlink set.                                                              *)
LEMMA SetLinks ==
    ASSUME NEW u, NEW p \in DOMAIN u, u \in [DOMAIN u -> Nodes], NEW x \in Int
    PROVE  LET v == WithLinks(u, p, x) IN
           /\ SetNode(v, u, p)
           /\ v[p].nlink = x
           /\ v[p].ftype = u[p].ftype /\ v[p].size = u[p].size
           /\ v[p].blkaddr = u[p].blkaddr /\ v[p].hardTo = u[p].hardTo
<1> DEFINE n == [u[p] EXCEPT !.nlink = x]
<1>1. u[p] \in Nodes
  OBVIOUS
<1>2. /\ n \in Nodes /\ n.nlink = x
      /\ n.ftype = u[p].ftype /\ n.size = u[p].size
      /\ n.blkaddr = u[p].blkaddr /\ n.hardTo = u[p].hardTo
  BY <1>1 DEF Nodes
<1>3. WithLinks(u, p, x) = [u EXCEPT ![p] = n]
  BY DEF WithLinks
<1> HIDE DEF n
<1> QED
  BY <1>2, <1>3 DEF SetNode

(* hardTo set.                                                             *)
LEMMA SetHard ==
    ASSUME NEW u, NEW p \in DOMAIN u, u \in [DOMAIN u -> Nodes], NEW x \in Seq(FileNames)
    PROVE  LET v == WithHard(u, p, x) IN
           /\ SetNode(v, u, p)
           /\ v[p].hardTo = x
           /\ v[p].ftype = u[p].ftype /\ v[p].size = u[p].size
           /\ v[p].blkaddr = u[p].blkaddr /\ v[p].nlink = u[p].nlink
<1> DEFINE n == [u[p] EXCEPT !.hardTo = x]
<1>1. u[p] \in Nodes
  OBVIOUS
<1>2. /\ n \in Nodes /\ n.hardTo = x
      /\ n.ftype = u[p].ftype /\ n.size = u[p].size
      /\ n.blkaddr = u[p].blkaddr /\ n.nlink = u[p].nlink
  BY <1>1 DEF Nodes
<1>3. WithHard(u, p, x) = [u EXCEPT ![p] = n]
  BY DEF WithHard
<1> HIDE DEF n
<1> QED
  BY <1>2, <1>3 DEF SetNode

(* An entry of the tar, of any kind.                                       *)
LEMMA EntryDir ==
    ASSUME IInv, NEW p \in Seq(FileNames), p # <<>>, NewEntry(p), ~LookupFails(p),
           DirEntry(p), NEW entry, Record(p, entry), entry.kind = "dir"
    PROVE  Added(p, entry)
<1> DEFINE t == LookedUp(p)
<1>1. /\ DOMAIN t = DOMAIN node \cup Ancestors(p)
      /\ \A q \in DOMAIN node : Kept(t, node, q)
      /\ \A q \in Missing(p) : FreshDir(t, q)
      /\ Tree(t)
  BY LookedUpKeeps DEF IInv
<1>2. Linked(node) => Linked(t)
  BY LookedUpLinked DEF IInv
<1>3. node' = t
  BY DEF DirEntry
<1> HIDE DEF t
<1>4. OwnDir(t, p) /\ t[p].blkaddr = 0
  <2>1. CASE p \in DOMAIN node
    <3>1. OwnDir(node, p) /\ node[p].blkaddr = 0
      BY <2>1 DEF IInv, Entries, Dirs, NewEntry
    <3> QED
      BY <3>1, <2>1, <1>1 DEF Kept, OwnDir
  <2>2. CASE p \notin DOMAIN node
    BY <2>2, <1>1, AncestorFacts DEF Missing, FreshDir
  <2> QED
    BY <2>1, <2>2
<1>5. Grown(p, node')
  BY <1>1, <1>3 DEF Grown
<1>6. AddedNode(p, entry)
  BY <1>3, <1>4 DEF AddedNode, DirEntry, NothingWritten
<1> QED
  BY <1>2, <1>3, <1>5, <1>6 DEF Added

(* A file or a symbolic link.                                              *)
LEMMA EntryData ==
    ASSUME IInv, NEW p \in Seq(FileNames), p # <<>>, NewEntry(p), ~LookupFails(p),
           ~OverPopulated(p), NEW kind \in {"reg", "sym"}, NEW size \in Nat,
           DataEntry(p, kind, size), NEW entry, Record(p, entry),
           entry.kind = kind, entry.size = size
    PROVE  Added(p, entry)
<1> DEFINE t == LookedUp(p)
           u == NotADir(t, p)
           w == [u EXCEPT ![p].ftype = kind, ![p].nlink = 1]
           blk == IF size = 0 THEN 0 ELSE nextBlk
<1>1. Tree(t) /\ Leaf(t, p)
  BY LookedUpKeeps, LookedUpLeaf DEF IInv, NewEntry
<1>2. Linked(node) => Linked(t)
  BY LookedUpLinked DEF IInv
<1>3. /\ u \in [DOMAIN t -> Nodes]
      /\ \A q \in DOMAIN t :
            /\ Kept(u, t, q)
            /\ u[q].nlink = IF q = p THEN 1
                            ELSE IF q = ParentOf(p) THEN t[q].nlink - 1 ELSE t[q].nlink
  BY <1>1, NotADirFacts
<1>4. /\ node' = [w EXCEPT ![p].size = size, ![p].blkaddr = blk]
      /\ \/ size = 0 /\ NothingWritten
         \/ /\ size > 0
            /\ extents' = extents \cup {[off |-> pos, size |-> size, owner |-> p]}
            /\ Write(size)
  <2>1. streamData(w, p, size)
    BY DEF DataEntry
  <2> HIDE DEF w
  <2>2. CASE size = 0
    BY <2>1, <2>2 DEF streamData, NothingWritten
  <2>3. CASE size # 0
    <3>1. size > 0
      BY <2>3
    <3> QED
      BY <2>1, <2>3, <3>1 DEF streamData
  <2> QED
    BY <2>2, <2>3
<1>5. blk \in Nat
  BY DEF IInv, Written
<1>6. p \in DOMAIN t /\ t[p].hardTo = NoNode
  BY <1>1 DEF Leaf, OwnDir
<1> HIDE DEF t, blk
<1> HIDE DEF u
<1>7. /\ node' \in [DOMAIN t -> Nodes]
      /\ \A q \in DOMAIN t \ {p} : node'[q] = u[q]
      /\ node'[p].ftype = kind /\ node'[p].nlink = 1 /\ node'[p].hardTo = NoNode
      /\ node'[p].size = size /\ node'[p].blkaddr = blk
  <2>1. u[p] \in Nodes /\ u[p].hardTo = NoNode
    BY <1>3, <1>6 DEF Kept
  <2>2. DOMAIN u = DOMAIN t /\ p \in DOMAIN u /\ u \in [DOMAIN u -> Nodes]
    BY <1>3, <1>6
  <2> DEFINE w1 == WithType(u, p, kind)
             w2 == WithLinks(w1, p, 1)
             w3 == WithSize(w2, p, size)
             w4 == WithAddr(w3, p, blk)
  <2>3. node' = w4
    BY <1>4 DEF WithType, WithLinks, WithSize, WithAddr
  <2>4. SetNode(w1, u, p) /\ w1[p].ftype = kind /\ w1[p].hardTo = NoNode
    <3>1. kind \in {"dir", "reg", "sym", "dev"}
      OBVIOUS
    <3> QED
      BY <3>1, <2>1, <2>2, SetType
  <2> HIDE DEF w1
  <2>5. DOMAIN w1 = DOMAIN u /\ w1 \in [DOMAIN w1 -> Nodes]
    BY <2>4 DEF SetNode
  <2>6. /\ SetNode(w2, w1, p) /\ w2[p].nlink = 1 /\ w2[p].ftype = kind /\ w2[p].hardTo = NoNode
    <3>1. 1 \in Int
      OBVIOUS
    <3> QED
      BY <3>1, <2>2, <2>4, <2>5, SetLinks
  <2> HIDE DEF w2
  <2>7. DOMAIN w2 = DOMAIN w1 /\ w2 \in [DOMAIN w2 -> Nodes]
    BY <2>6 DEF SetNode
  <2>8. /\ SetNode(w3, w2, p) /\ w3[p].size = size
        /\ w3[p].nlink = 1 /\ w3[p].ftype = kind /\ w3[p].hardTo = NoNode
    <3>1. p \in DOMAIN w2 /\ size \in Nat
      BY <2>2, <2>5, <2>7
    <3>2. /\ SetNode(w3, w2, p) /\ w3[p].size = size
          /\ w3[p].nlink = w2[p].nlink /\ w3[p].ftype = w2[p].ftype
          /\ w3[p].hardTo = w2[p].hardTo
      BY <3>1, <2>7, SetSize
    <3> QED
      BY <3>2, <2>6
  <2> HIDE DEF w3
  <2>9. DOMAIN w3 = DOMAIN w2 /\ w3 \in [DOMAIN w3 -> Nodes]
    BY <2>8 DEF SetNode
  <2>10. /\ SetNode(w4, w3, p) /\ w4[p].blkaddr = blk /\ w4[p].size = size
         /\ w4[p].nlink = 1 /\ w4[p].ftype = kind /\ w4[p].hardTo = NoNode
    <3>1. p \in DOMAIN w3 /\ blk \in Nat
      BY <2>2, <2>5, <2>7, <2>9, <1>5
    <3>2. /\ SetNode(w4, w3, p) /\ w4[p].blkaddr = blk /\ w4[p].size = w3[p].size
          /\ w4[p].nlink = w3[p].nlink /\ w4[p].ftype = w3[p].ftype
          /\ w4[p].hardTo = w3[p].hardTo
      BY <3>1, <2>9, SetAddr
    <3> QED
      BY <3>2, <2>8
  <2> HIDE DEF w4
  <2>11. \A q \in DOMAIN t \ {p} : w4[q] = u[q]
    BY <2>2, <2>4, <2>5, <2>6, <2>7, <2>8, <2>9, <2>10 DEF SetNode
  <2>12. w4 \in [DOMAIN t -> Nodes]
    BY <2>2, <2>5, <2>7, <2>9, <2>10 DEF SetNode
  <2> QED
    BY <2>3, <2>10, <2>11, <2>12
<1>8. Becomes(t, node', p)
  BY <1>3, <1>7 DEF Becomes, Kept
<1>9. Grown(p, node')
  BY <1>1, <1>8, BecomesGrown DEF IInv, t
<1>10. Linked(node) => Linked(node')
  <2> HAVE Linked(node)
  <2>1. Linked(t)
    BY <1>2
  <2>2. HeadOf(node', p) = p
    BY <1>7 DEF HeadOf
  <2>3. \A q \in DOMAIN t \ {p} :
           node'[q].nlink = t[q].nlink - (IF q = ParentOf(p) THEN 1 ELSE 0)
                                       + (IF q = HeadOf(node', p) THEN 1 ELSE 0)
    <3> TAKE q \in DOMAIN t \ {p}
    <3>1. t[q].nlink \in Int
      BY <1>1 DEF Tree, Nodes
    <3>2. node'[q].nlink = IF q = ParentOf(p) THEN t[q].nlink - 1 ELSE t[q].nlink
      BY <1>3, <1>7
    <3> QED
      BY <3>1, <3>2, <2>2
  <2> QED
    BY <2>1, <2>3, <1>1, <1>7, <1>8, BecomesLinked
<1>11. AddedNode(p, entry)
  <2>1. size > 0 => blk = nextBlk
    BY DEF blk
  <2> QED
    BY <2>1, <1>4, <1>7 DEF AddedNode
<1> QED
  BY <1>9, <1>10, <1>11 DEF Added

(* A device or a fifo.                                                     *)
LEMMA EntryDevice ==
    ASSUME IInv, NEW p \in Seq(FileNames), p # <<>>, NewEntry(p), ~LookupFails(p),
           ~OverPopulated(p), DeviceEntry(p), NEW entry, Record(p, entry), entry.kind = "dev"
    PROVE  Added(p, entry)
<1> DEFINE t == LookedUp(p)
           u == NotADir(t, p)
<1>1. Tree(t) /\ Leaf(t, p)
  BY LookedUpKeeps, LookedUpLeaf DEF IInv, NewEntry
<1>2. Linked(node) => Linked(t)
  BY LookedUpLinked DEF IInv
<1>3. /\ u \in [DOMAIN t -> Nodes]
      /\ \A q \in DOMAIN t :
            /\ Kept(u, t, q)
            /\ u[q].nlink = IF q = p THEN 1
                            ELSE IF q = ParentOf(p) THEN t[q].nlink - 1 ELSE t[q].nlink
  BY <1>1, NotADirFacts
<1>4. node' = [u EXCEPT ![p].ftype = "dev", ![p].nlink = 1] /\ NothingWritten
  BY DEF DeviceEntry, NothingWritten
<1>6. p \in DOMAIN t /\ t[p].hardTo = NoNode
  BY <1>1 DEF Leaf, OwnDir
<1> HIDE DEF t
<1> HIDE DEF u
<1>7. /\ node' \in [DOMAIN t -> Nodes]
      /\ \A q \in DOMAIN t \ {p} : node'[q] = u[q]
      /\ node'[p].ftype = "dev" /\ node'[p].nlink = 1 /\ node'[p].hardTo = NoNode
  <2>1. u[p] \in Nodes /\ u[p].hardTo = NoNode
    BY <1>3, <1>6 DEF Kept
  <2>2. DOMAIN u = DOMAIN t /\ p \in DOMAIN u /\ u \in [DOMAIN u -> Nodes]
    BY <1>3, <1>6
  <2> DEFINE w1 == WithType(u, p, "dev")
             w2 == WithLinks(w1, p, 1)
  <2>3. node' = w2
    BY <1>4 DEF WithType, WithLinks
  <2>4. SetNode(w1, u, p) /\ w1[p].ftype = "dev" /\ w1[p].hardTo = NoNode
    BY <2>1, <2>2, SetType
  <2> HIDE DEF w1
  <2>5. DOMAIN w1 = DOMAIN u /\ w1 \in [DOMAIN w1 -> Nodes]
    BY <2>4 DEF SetNode
  <2>6. /\ SetNode(w2, w1, p) /\ w2[p].nlink = 1 /\ w2[p].ftype = "dev" /\ w2[p].hardTo = NoNode
    <3>1. 1 \in Int
      OBVIOUS
    <3> QED
      BY <3>1, <2>2, <2>4, <2>5, SetLinks
  <2> HIDE DEF w2
  <2>7. \A q \in DOMAIN t \ {p} : w2[q] = u[q]
    BY <2>2, <2>4, <2>5, <2>6 DEF SetNode
  <2>8. w2 \in [DOMAIN t -> Nodes]
    BY <2>2, <2>5, <2>6 DEF SetNode
  <2> QED
    BY <2>3, <2>6, <2>7, <2>8
<1>8. Becomes(t, node', p)
  BY <1>3, <1>7 DEF Becomes, Kept
<1>9. Grown(p, node')
  BY <1>1, <1>8, BecomesGrown DEF IInv, t
<1>10. Linked(node) => Linked(node')
  <2> HAVE Linked(node)
  <2>1. Linked(t)
    BY <1>2
  <2>2. HeadOf(node', p) = p
    BY <1>7 DEF HeadOf
  <2>3. \A q \in DOMAIN t \ {p} :
           node'[q].nlink = t[q].nlink - (IF q = ParentOf(p) THEN 1 ELSE 0)
                                       + (IF q = HeadOf(node', p) THEN 1 ELSE 0)
    <3> TAKE q \in DOMAIN t \ {p}
    <3>1. t[q].nlink \in Int
      BY <1>1 DEF Tree, Nodes
    <3>2. node'[q].nlink = IF q = ParentOf(p) THEN t[q].nlink - 1 ELSE t[q].nlink
      BY <1>3, <1>7
    <3> QED
      BY <3>1, <3>2, <2>2
  <2> QED
    BY <2>1, <2>3, <1>1, <1>7, <1>8, BecomesLinked
<1>11. AddedNode(p, entry)
  BY <1>4, <1>7 DEF AddedNode
<1> QED
  BY <1>9, <1>10, <1>11 DEF Added

(* An ignored entry: its node stays a directory that its parent does not   *)
(* count.                                                                  *)
LEMMA EntryIgnored ==
    ASSUME IInv, NEW p \in Seq(FileNames), p # <<>>, NewEntry(p), ~LookupFails(p),
           p \notin DOMAIN node, IgnoredEntry(p),
           NEW entry, Record(p, entry), entry.kind = "ignored"
    PROVE  Added(p, entry)
<1> DEFINE t == LookedUp(p)
<1>1. Tree(t) /\ Leaf(t, p)
  BY LookedUpKeeps, LookedUpLeaf DEF IInv, NewEntry, OverPopulated
<1>2. /\ node' \in [DOMAIN t -> Nodes]
      /\ \A q \in DOMAIN t : Kept(node', t, q)
  BY <1>1, NotADirFacts DEF IgnoredEntry
<1>3. Becomes(t, node', p)
  BY <1>2 DEF Becomes
<1>4. Grown(p, node')
  BY <1>1, <1>3, BecomesGrown DEF IInv
<1>5. p \in Missing(p)
  BY AncestorFacts DEF Missing
<1>6. FreshDir(t, p) /\ p \in DOMAIN t
  BY <1>1, <1>5, LookedUpKeeps DEF IInv, Leaf
<1>7. OwnDir(node', p) /\ node'[p].blkaddr = 0
  BY <1>2, <1>6 DEF FreshDir, Kept, OwnDir
<1>8. AddedNode(p, entry)
  BY <1>7 DEF AddedNode, IgnoredEntry, NothingWritten
<1> QED
  BY <1>4, <1>8 DEF Added

(* A hard link.                                                            *)
LEMMA EntryLink ==
    ASSUME IInv, NEW p \in Seq(FileNames), p # <<>>, NewEntry(p), ~LookupFails(p),
           ~OverPopulated(p), NEW target \in DOMAIN node \cap DOMAIN tar,
           tar[target].kind \in {"reg", "sym", "dev", "link"}, LinkEntry(p, target),
           NEW entry, Record(p, entry), entry.kind = "link", entry.link = target
    PROVE  Added(p, entry)
<1> DEFINE t == LookedUp(p)
           u == NotADir(t, p)
           c == canonical(target)
<1>1. /\ DOMAIN t = DOMAIN node \cup Ancestors(p)
      /\ \A q \in DOMAIN node : Kept(t, node, q)
      /\ Tree(t) /\ Leaf(t, p)
  BY LookedUpKeeps, LookedUpLeaf DEF IInv, NewEntry
<1>2. Linked(node) => Linked(t)
  BY LookedUpLinked DEF IInv
<1>3. /\ u \in [DOMAIN t -> Nodes]
      /\ \A q \in DOMAIN t :
            /\ Kept(u, t, q)
            /\ u[q].nlink = IF q = p THEN 1
                            ELSE IF q = ParentOf(p) THEN t[q].nlink - 1 ELSE t[q].nlink
  BY <1>1, NotADirFacts
<1>4. c \in DOMAIN node /\ c \in DOMAIN tar /\ node[c].ftype # "dir" /\ node[c].hardTo = NoNode
  <2>1. NodeOf(target, tar[target])
    BY DEF IInv, Entries
  <2>2. CASE node[target].hardTo = NoNode
    <3>1. tar[target].kind \in {"reg", "sym", "dev"}
      BY <2>1, <2>2 DEF NodeOf
    <3>2. node[target].ftype # "dir"
      BY <2>1, <3>1 DEF NodeOf
    <3> QED
      BY <2>2, <3>2 DEF canonical
  <2>3. CASE node[target].hardTo # NoNode
    BY <2>3 DEF IInv, Aliases, canonical
  <2> QED
    BY <2>2, <2>3
<1>5. /\ p \in DOMAIN t /\ t[p].ftype = "dir" /\ c \in DOMAIN t /\ c # p /\ c # NoNode
      /\ t[c].ftype # "dir" /\ c \in Seq(FileNames)
  <2>1. p \in DOMAIN t /\ t[p].ftype = "dir"
    BY <1>1 DEF Leaf, OwnDir
  <2>2. c \in DOMAIN t /\ c # p /\ t[c].ftype # "dir"
    BY <1>1, <1>4 DEF Kept, NewEntry
  <2>3. c \in Seq(FileNames) /\ c # NoNode
    BY <1>4, PathsOfNats DEF IInv, Tree
  <2> QED
    BY <2>1, <2>2, <2>3
<1>6. /\ node' = [[u EXCEPT ![p].hardTo = c] EXCEPT ![c].nlink = @ + 1]
      /\ NothingWritten
  BY DEF LinkEntry, NothingWritten
<1> HIDE DEF t, c
<1> HIDE DEF u
<1>7. /\ node' \in [DOMAIN t -> Nodes]
      /\ \A q \in DOMAIN t \ {p} : /\ Kept(node', u, q)
                                   /\ node'[q].nlink = u[q].nlink + (IF q = c THEN 1 ELSE 0)
      /\ node'[p].ftype = "dir" /\ node'[p].hardTo = c
  <2> DEFINE w1 == WithHard(u, p, c)
             w2 == WithLinks(w1, c, w1[c].nlink + 1)
  <2>1. node' = w2
    BY <1>6 DEF WithHard, WithLinks
  <2>2. DOMAIN u = DOMAIN t /\ p \in DOMAIN u /\ u \in [DOMAIN u -> Nodes]
    BY <1>3, <1>5
  <2>3. SetNode(w1, u, p) /\ w1[p].hardTo = c /\ w1[p].ftype = u[p].ftype
    BY <2>2, <1>5, SetHard
  <2>4. w1[p].ftype = "dir"
    BY <2>3, <1>3, <1>5 DEF Kept
  <2> HIDE DEF w1
  <2>5. DOMAIN w1 = DOMAIN t /\ w1 \in [DOMAIN w1 -> Nodes]
    BY <2>2, <2>3 DEF SetNode
  <2>6. c \in DOMAIN w1 /\ w1[c] \in Nodes
    BY <2>5, <1>5
  <2>7. w1[c].nlink + 1 \in Int
    BY <2>6 DEF Nodes
  <2>8. /\ SetNode(w2, w1, c) /\ w2[c].nlink = w1[c].nlink + 1
        /\ Kept(w2, w1, c)
    BY <2>5, <2>6, <2>7, SetLinks DEF Kept
  <2> HIDE DEF w2
  <2>9. w2 \in [DOMAIN t -> Nodes]
    BY <2>5, <2>8 DEF SetNode
  <2>10. w2[p].ftype = "dir" /\ w2[p].hardTo = c
    BY <2>3, <2>4, <2>5, <2>8, <1>5 DEF SetNode
  <2>11. ASSUME NEW q \in DOMAIN t \ {p}
         PROVE  Kept(w2, u, q) /\ w2[q].nlink = u[q].nlink + (IF q = c THEN 1 ELSE 0)
    <3>1. w1[q] = u[q] /\ u[q].nlink \in Int
      BY <2>2, <2>3 DEF SetNode, Nodes
    <3>2. CASE q = c
      BY <3>1, <3>2, <2>8 DEF Kept
    <3>3. CASE q # c
      <4>1. w2[q] = w1[q]
        BY <3>3, <2>5, <2>8 DEF SetNode
      <4> QED
        BY <4>1, <3>1, <3>3 DEF Kept
    <3> QED
      BY <3>2, <3>3
  <2> QED
    BY <2>1, <2>9, <2>10, <2>11
<1>8. Becomes(t, node', p)
  BY <1>3, <1>7 DEF Becomes, Kept
<1>9. Grown(p, node')
  BY <1>1, <1>8, BecomesGrown DEF IInv, t
<1>10. Linked(node) => Linked(node')
  <2> HAVE Linked(node)
  <2>1. Linked(t)
    BY <1>2
  <2>2. HeadOf(node', p) = c
    BY <1>5, <1>7 DEF HeadOf
  <2>3. \A q \in DOMAIN t \ {p} :
           node'[q].nlink = t[q].nlink - (IF q = ParentOf(p) THEN 1 ELSE 0)
                                       + (IF q = HeadOf(node', p) THEN 1 ELSE 0)
    <3> TAKE q \in DOMAIN t \ {p}
    <3>1. t[q].nlink \in Int
      BY <1>1 DEF Tree, Nodes
    <3>2. u[q].nlink = IF q = ParentOf(p) THEN t[q].nlink - 1 ELSE t[q].nlink
      BY <1>3
    <3>3. node'[q].nlink = u[q].nlink + (IF q = c THEN 1 ELSE 0)
      BY <1>7
    <3> QED
      BY <3>1, <3>2, <3>3, <2>2
  <2>4. node'[p].hardTo # NoNode
    BY <1>5, <1>7
  <2> QED
    BY <2>1, <2>3, <2>4, <1>1, <1>5, <1>7, <1>8, BecomesLinked
<1>11. AddedNode(p, entry)
  BY <1>4, <1>6, <1>7 DEF AddedNode, c, isDir
<1> QED
  BY <1>9, <1>10, <1>11 DEF Added

(* Every entry.                                                            *)
LEMMA EntryAdded ==
    ASSUME IInv, NEW p \in Paths, AddEntry(p)
    PROVE  p \in Seq(FileNames) /\ p # <<>> /\ NewEntry(p) /\ \E entry : Added(p, entry)
<1>1. p \in Seq(FileNames) /\ p # <<>>
  BY NameAssumption, BlockAssumption DEF FileNames, Names
<1>2. NewEntry(p) /\ ~LookupFails(p)
  BY DEF AddEntry
<1> DEFINE e(kind, size, link) == [kind |-> kind, size |-> size, link |-> link]
<1>3. \/ DirEntry(p) /\ Record(p, e("dir", 0, p))
      \/ /\ ~OverPopulated(p)
         /\ \E kind \in {"reg", "sym"}, size \in Sizes :
               DataEntry(p, kind, size) /\ Record(p, e(kind, size, p))
      \/ /\ ~OverPopulated(p)
         /\ \E target \in DOMAIN node \cap DOMAIN tar :
               /\ tar[target].kind \in {"reg", "sym", "dev", "link"}
               /\ LinkEntry(p, target)
               /\ Record(p, e("link", 0, target))
      \/ /\ ~OverPopulated(p)
         /\ DeviceEntry(p)
         /\ Record(p, e("dev", 0, p))
      \/ /\ p \notin DOMAIN node
         /\ IgnoredEntry(p)
         /\ Record(p, e("ignored", 0, p))
  BY DEF AddEntry
<1>4. \A kind, size, link : /\ e(kind, size, link).kind = kind
                            /\ e(kind, size, link).size = size
                            /\ e(kind, size, link).link = link
  OBVIOUS
<1> HIDE DEF e
<1>5. CASE DirEntry(p) /\ Record(p, e("dir", 0, p))
  BY <1>1, <1>2, <1>4, <1>5, EntryDir
<1>6. ASSUME ~OverPopulated(p), NEW kind \in {"reg", "sym"}, NEW size \in Sizes,
             DataEntry(p, kind, size), Record(p, e(kind, size, p))
      PROVE  \E entry : Added(p, entry)
  <2>1. size \in Nat
    BY BlockAssumption
  <2>2. e(kind, size, p).kind = kind /\ e(kind, size, p).size = size
    BY <1>4
  <2>3. Added(p, e(kind, size, p))
    BY <1>1, <1>2, <1>6, <2>1, <2>2, EntryData
  <2> QED
    BY <2>3
<1>7. ASSUME ~OverPopulated(p), NEW target \in DOMAIN node \cap DOMAIN tar,
             tar[target].kind \in {"reg", "sym", "dev", "link"},
             LinkEntry(p, target), Record(p, e("link", 0, target))
      PROVE  \E entry : Added(p, entry)
  <2>1. Added(p, e("link", 0, target))
    BY <1>1, <1>2, <1>4, <1>7, EntryLink
  <2> QED
    BY <2>1
<1>8. CASE ~OverPopulated(p) /\ DeviceEntry(p) /\ Record(p, e("dev", 0, p))
  BY <1>1, <1>2, <1>4, <1>8, EntryDevice
<1>9. CASE p \notin DOMAIN node /\ IgnoredEntry(p) /\ Record(p, e("ignored", 0, p))
  BY <1>1, <1>2, <1>4, <1>9, EntryIgnored
<1> QED
  BY <1>1, <1>2, <1>3, <1>5, <1>6, <1>7, <1>8, <1>9

(***************************************************************************)
(* The invariant                                                           *)
(***************************************************************************)
(* Aliases and entries after an entry.                                     *)
LEMMA AddedTree ==
    ASSUME IInv, NEW p \in Seq(FileNames), p # <<>>, NewEntry(p), NEW entry, Added(p, entry)
    PROVE  Aliases' /\ Entries'
<1>1. p \notin DOMAIN tar
  BY DEF NewEntry
<1>2. /\ DOMAIN tar' = DOMAIN tar \cup {p}
      /\ tar'[p] = entry
      /\ \A q \in DOMAIN tar : q # p /\ tar'[q] = tar[q]
  BY <1>1 DEF Added, Record
<1>3. /\ DOMAIN node' = DOMAIN node \cup Ancestors(p)
      /\ \A q \in DOMAIN node \ {p} : Kept(node', node, q)
      /\ \A q \in Missing(p) \ {p} : FreshDir(node', q)
  BY DEF Added, Grown
<1>4. AddedNode(p, entry)
  BY DEF Added
<1>5. p \in DOMAIN node'
  BY <1>3, AncestorFacts
<1>6. Aliases /\ Entries
  BY DEF IInv
<1>7. p # NoNode
  BY PathsOfNats
<1>8. \A q \in DOMAIN tar : q \in DOMAIN node \ {p} /\ canonical(q)' = canonical(q)
  BY <1>1, <1>3, <1>6 DEF Entries, Kept, canonical
<1>9. Aliases'
  <2> SUFFICES ASSUME NEW q \in DOMAIN node', node'[q].hardTo # NoNode
               PROVE  LET r == node'[q].hardTo IN
                      /\ r \in DOMAIN node' \cap DOMAIN tar'
                      /\ node'[r].hardTo = NoNode
                      /\ node'[r].ftype # "dir"
    BY DEF Aliases
  <2> DEFINE r == node'[q].hardTo
  <2>1. r \in DOMAIN node \cap DOMAIN tar /\ node[r].hardTo = NoNode /\ node[r].ftype # "dir"
    <3>1. CASE q = p
      <4>1. /\ entry.link \in DOMAIN node /\ r = canonical(entry.link)
            /\ r \in DOMAIN tar /\ ~isDir(r)
        BY <3>1, <1>4 DEF AddedNode, OwnDir
      <4>2. r \in Inodes
        BY <4>1, CanonicalFacts DEF IInv
      <4> QED
        BY <4>1, <4>2 DEF Inodes, isDir
    <3>2. CASE q # p /\ q \in DOMAIN node
      <4>1. node[q].hardTo = r
        BY <3>2, <1>3 DEF Kept
      <4> HIDE DEF r
      <4> QED
        BY <4>1, <3>2, <1>6 DEF Aliases, r
    <3>3. CASE q # p /\ q \notin DOMAIN node
      BY <3>3, <1>3 DEF Missing, FreshDir, OwnDir
    <3> QED
      BY <3>1, <3>2, <3>3
  <2> HIDE DEF r
  <2>2. Kept(node', node, r)
    BY <2>1, <1>1, <1>3
  <2> QED
    BY <2>1, <2>2, <1>2, <1>3 DEF Kept, r
<1>10. ASSUME NEW q \in DOMAIN tar'
       PROVE  NodeOf(q, tar[q])'
  <2>1. CASE q = p
    <3>1. tar'[q] = entry
      BY <2>1, <1>2
    <3>2. CASE entry.kind \in {"dir", "ignored"}
      BY <3>1, <3>2, <2>1, <1>4 DEF AddedNode, NodeOf, OwnDir
    <3>3. CASE entry.kind \in {"reg", "sym"}
      BY <3>1, <3>3, <2>1, <1>4 DEF AddedNode, NodeOf
    <3>4. CASE entry.kind = "dev"
      BY <3>1, <3>4, <2>1, <1>4 DEF AddedNode, NodeOf
    <3>5. CASE entry.kind = "link"
      <4>1. /\ entry.link \in DOMAIN tar
            /\ node'[p].hardTo = canonical(entry.link) /\ canonical(entry.link) \in DOMAIN tar
        BY <3>5, <1>4 DEF AddedNode
      <4>2. canonical(entry.link)' = node'[p].hardTo
        BY <4>1, <1>8
      <4>3. node'[p].hardTo # NoNode
        BY <4>1, <1>6, PathsOfNats DEF Entries, IInv, Tree
      <4> QED
        BY <3>1, <3>5, <4>1, <4>2, <4>3, <2>1, <1>2 DEF NodeOf
    <3> QED
      BY <3>2, <3>3, <3>4, <3>5, <1>4 DEF AddedNode
  <2>2. CASE q # p
    <3>1. /\ q \in DOMAIN tar /\ tar'[q] = tar[q] /\ NodeOf(q, tar[q])
          /\ q \in DOMAIN node \ {p}
      BY <2>2, <1>2, <1>6, <1>8 DEF Entries
    <3>2. Kept(node', node, q)
      BY <3>1, <1>3
    <3>3. CASE tar[q].kind = "link"
      <4>1. /\ node[q].hardTo # NoNode /\ tar[q].link \in DOMAIN tar
            /\ canonical(tar[q].link) = node[q].hardTo
        BY <3>1, <3>3 DEF NodeOf
      <4>2. canonical(tar[q].link)' = node'[q].hardTo
        BY <4>1, <3>1, <3>2, <1>8 DEF Kept
      <4> QED
        BY <4>1, <4>2, <3>1, <3>2, <3>3, <1>2 DEF NodeOf, Kept
    <3>4. CASE tar[q].kind # "link"
      BY <3>1, <3>2, <3>4 DEF NodeOf, Kept, OwnDir
    <3> QED
      BY <3>3, <3>4
  <2> QED
    BY <2>1, <2>2
<1>11. \A q \in DOMAIN node' \ DOMAIN tar' : OwnDir(node', q)
  <2> TAKE q \in DOMAIN node' \ DOMAIN tar'
  <2>1. q # p /\ q \notin DOMAIN tar
    BY <1>2
  <2>2. CASE q \in DOMAIN node
    <3>1. OwnDir(node, q)
      BY <2>1, <2>2, <1>6 DEF Entries
    <3> QED
      BY <3>1, <2>1, <2>2, <1>3 DEF Kept, OwnDir
  <2>3. CASE q \notin DOMAIN node
    BY <2>1, <2>3, <1>3 DEF Missing, FreshDir
  <2> QED
    BY <2>2, <2>3
<1>12. \A q \in DOMAIN node' \ {<<>>} : \E r \in DOMAIN tar' : q \in Ancestors(r)
  BY <1>2, <1>3, <1>6 DEF Entries
<1>13. DOMAIN tar' \subseteq DOMAIN node' /\ <<>> \notin DOMAIN tar'
  BY <1>2, <1>3, <1>5, <1>6 DEF Entries
<1>14. Entries'
  BY <1>10, <1>11, <1>12, <1>13 DEF Entries
<1> QED
  BY <1>9, <1>14

(* The image after an entry.                                               *)
LEMMA AddedWritten ==
    ASSUME IInv, NEW p \in Seq(FileNames), NewEntry(p), NEW entry, Added(p, entry)
    PROVE  Written'
<1>1. /\ DOMAIN node' = DOMAIN node \cup Ancestors(p)
      /\ \A q \in DOMAIN node \ {p} : Kept(node', node, q)
      /\ \A q \in Missing(p) \ {p} : FreshDir(node', q)
  BY DEF Added, Grown
<1>2. AddedNode(p, entry) /\ phase' = phase /\ blocks' = blocks
  BY DEF Added, Record
<1>3. DOMAIN blocks = {}
  BY DEF IInv, Written, NewEntry
<1>4. /\ nextBlk \in Nat \ {0} /\ BlockSize \in Nat \ {0} /\ pos = nextBlk * BlockSize
      /\ extents \subseteq [off : Nat, size : Nat, owner : Seq(FileNames)]
      /\ \A q \in DOMAIN node : node[q].ftype \in {"reg", "sym"} /\ node[q].size > 0 =>
            [off |-> node[q].blkaddr * BlockSize, size |-> node[q].size, owner |-> q] \in extents
      /\ \A x \in extents : BlockSize <= x.off /\ x.off + x.size <= pos
      /\ \A x, y \in extents : x = y \/ x.off + x.size <= y.off \/ y.off + y.size <= x.off
  BY BlockAssumption DEF IInv, Written, DataInPlace
<1>5. pos \in Nat /\ BlockSize <= pos
  <2>1. nextBlk * BlockSize = (nextBlk - 1) * BlockSize + BlockSize /\ (nextBlk - 1) * BlockSize \in Nat
    BY <1>4
  <2> QED
    BY <2>1, <1>4
<1> DEFINE file(q) == [off |-> node'[q].blkaddr * BlockSize, size |-> node'[q].size, owner |-> q]
<1>6. ASSUME extents \subseteq extents', NEW q \in DOMAIN node' \ {p},
             node'[q].ftype \in {"reg", "sym"}, node'[q].size > 0
      PROVE  file(q) \in extents'
  <2>1. q \in DOMAIN node
    BY <1>1, <1>6 DEF Missing, FreshDir, OwnDir
  <2> QED
    BY <2>1, <1>1, <1>4, <1>6 DEF Kept
<1> HIDE DEF file
<1>7. CASE NothingWritten
  <2>1. pos' = pos /\ nextBlk' = nextBlk /\ extents' = extents
    BY <1>7 DEF NothingWritten
  <2>2. ~(node'[p].ftype \in {"reg", "sym"} /\ node'[p].size > 0)
    <3>1. entry.size = 0 \/ entry.kind \notin {"reg", "sym"} \/ ~NothingWritten
      <4> SUFFICES ASSUME entry.kind \in {"reg", "sym"}, entry.size # 0
                   PROVE  ~NothingWritten
        OBVIOUS
      <4>1. Write(entry.size) /\ entry.size \in Nat /\ entry.size > 0
        BY <1>2 DEF AddedNode
      <4>2. BlocksFor(entry.size) \in Nat /\ BlocksFor(entry.size) > 0
        BY <4>1, BlocksForHold
      <4>3. nextBlk' = nextBlk + BlocksFor(entry.size)
        BY <4>1 DEF Write
      <4>4. nextBlk' # nextBlk
        BY <4>2, <4>3, <1>4
      <4> QED
        BY <4>4 DEF NothingWritten
    <3> QED
      BY <3>1, <1>2, <1>7 DEF AddedNode, OwnDir
  <2>3. \A q \in DOMAIN node' : node'[q].ftype \in {"reg", "sym"} /\ node'[q].size > 0 =>
           file(q) \in extents'
    BY <2>1, <2>2, <1>6
  <2> QED
    BY <2>1, <2>3, <1>2, <1>3, <1>4 DEF Written, DataInPlace, file
<1>8. CASE /\ entry.kind \in {"reg", "sym"} /\ entry.size \in Nat
           /\ node'[p].size = entry.size /\ node'[p].blkaddr = nextBlk
           /\ extents' = extents \cup {[off |-> pos, size |-> entry.size, owner |-> p]}
           /\ Write(entry.size)
  <2> DEFINE n == BlocksFor(entry.size)
             new == [off |-> pos, size |-> entry.size, owner |-> p]
  <2>1. n \in Nat /\ entry.size <= n * BlockSize /\ n * BlockSize \in Nat
    <3>1. n \in Nat /\ entry.size <= n * BlockSize
      BY <1>8, BlocksForHold
    <3> QED
      BY <3>1, <1>4
  <2>2. pos' = pos + n * BlockSize /\ nextBlk' = nextBlk + n
    BY <1>8 DEF Write
  <2> HIDE DEF n
  <2>3. pos' = nextBlk' * BlockSize
    BY <2>1, <2>2, <1>4
  <2>4. /\ new \in [off : Nat, size : Nat, owner : Seq(FileNames)]
        /\ new.off = pos /\ new.size = entry.size
    BY <1>5, <1>8
  <2>5. extents' = extents \cup {new}
    BY <1>8
  <2>6. file(p) = new
    BY <1>4, <1>8 DEF file
  <2> HIDE DEF new
  <2>7. \A q \in DOMAIN node' : node'[q].ftype \in {"reg", "sym"} /\ node'[q].size > 0 =>
           file(q) \in extents'
    BY <2>5, <2>6, <1>6
  <2>8. pos' \in Nat /\ pos <= pos' /\ pos + entry.size <= pos'
    BY <2>1, <2>2, <1>5, <1>8
  <2>9. \A x \in extents' : BlockSize <= x.off /\ x.off + x.size <= pos'
    <3> TAKE x \in extents'
    <3>1. CASE x \in extents
      <4>1. x.off \in Nat /\ x.size \in Nat /\ BlockSize <= x.off /\ x.off + x.size <= pos
        BY <3>1, <1>4
      <4> QED
        BY <4>1, <2>8, <1>5
    <3>2. CASE x = new
      BY <3>2, <2>4, <2>8, <1>5
    <3> QED
      BY <3>1, <3>2, <2>5
  <2>10. \A x, y \in extents' : x = y \/ x.off + x.size <= y.off \/ y.off + y.size <= x.off
    BY <2>4, <2>5, <1>4
  <2>11. extents' \subseteq [off : Nat, size : Nat, owner : Seq(FileNames)]
    BY <2>4, <2>5, <1>4
  <2>12. nextBlk' \in Nat \ {0}
    BY <2>1, <2>2, <1>4
  <2> QED
    BY <2>3, <2>7, <2>9, <2>10, <2>11, <2>12, <1>2, <1>3 DEF Written, DataInPlace, file
<1> QED
  BY <1>2, <1>7, <1>8 DEF AddedNode

(* AddEntry keeps the invariant.                                           *)
LEMMA AddEntryInv ==
    ASSUME IInv, NEW p \in Paths, AddEntry(p)
    PROVE  IInv'
<1>1. p \in Seq(FileNames) /\ p # <<>> /\ NewEntry(p)
  BY EntryAdded
<1>2. PICK entry : Added(p, entry)
  BY EntryAdded
<1>3. Aliases' /\ Entries'
  BY <1>1, <1>2, AddedTree
<1>4. Written'
  BY <1>1, <1>2, AddedWritten
<1>5. phase = "tar" /\ phase' = "tar" /\ p \notin DOMAIN tar
  BY <1>1, <1>2 DEF NewEntry, Added, Record
<1>6. Tree(node)'
  <2>1. Tree(node')
    BY <1>2 DEF Added, Grown
  <2> QED
    BY <2>1 DEF Tree, OwnDir
<1>7. LinkInv'
  <2> SUFFICES ASSUME \A q \in DOMAIN tar' : tar'[q].kind # "ignored"
               PROVE  Linked(node')
    BY DEF LinkInv, Linked, SubDirs, NamesOf, children, OwnDir
  <2>1. entry.kind # "ignored" /\ \A q \in DOMAIN tar : tar[q].kind # "ignored"
    BY <1>2, <1>5 DEF Added, Record
  <2>2. Linked(node)
    BY <2>1 DEF IInv, LinkInv
  <2> QED
    BY <2>1, <2>2, <1>2 DEF Added
<1>8. Dirs'
  <2>1. ASSUME NEW q \in DOMAIN node', OwnDir(node', q)
        PROVE  node'[q].blkaddr = 0
    <3>1. CASE q = p
      <4>1. NoNode \notin DOMAIN tar
        BY PathsOfNats DEF IInv, Entries, Tree
      <4> QED
        BY <4>1, <3>1, <2>1, <1>2 DEF Added, AddedNode, OwnDir
    <3>2. CASE q # p /\ q \in DOMAIN node
      <4>1. Kept(node', node, q)
        BY <3>2, <1>2 DEF Added, Grown
      <4> QED
        BY <4>1, <3>2, <2>1, <1>5 DEF Kept, OwnDir, IInv, Dirs
    <3>3. CASE q # p /\ q \notin DOMAIN node
      BY <3>3, <1>2 DEF Added, Grown, Missing, FreshDir
    <3> QED
      BY <3>1, <3>2, <3>3
  <2> QED
    BY <2>1, <1>5 DEF Dirs, OwnDir
<1>9. Table' /\ phase' \in Phases
  BY <1>5 DEF Table, Phases
<1> QED
  BY <1>3, <1>4, <1>6, <1>7, <1>8, <1>9 DEF IInv

SortedByNames(D) == SortedBy(D, LAMBDA d, e : d.name < e.name)

(* Dirents and nids depend on the types and aliases of the tree only.      *)
LEMMA DirentsKept ==
    ASSUME Tree(node), Aliases, DOMAIN node' = DOMAIN node,
           \A q \in DOMAIN node : node'[q].ftype = node[q].ftype /\ node'[q].hardTo = node[q].hardTo
    PROVE  /\ Inodes' = Inodes
           /\ \A p : nid(p)' = nid(p)
           /\ \A p : SortedDirents(p)' = SortedDirents(p)
<1>1. Inodes' = Inodes
  BY DEF Inodes
<1>2. \A p : nid(p)' = nid(p)
  BY <1>1 DEF nid
<1>3. \A q \in DOMAIN node : canonical(q)' = canonical(q) /\ canonical(q) \in DOMAIN node
  <2> TAKE q \in DOMAIN node
  <2>1. canonical(q) \in DOMAIN node
    BY CanonicalFacts DEF Inodes
  <2> QED
    BY <2>1 DEF canonical
<1>4. ASSUME NEW p
      PROVE  Dirents(p)' = Dirents(p)
  <2>1. children(node, p)' = children(node, p) /\ children(node, p) \subseteq DOMAIN node
    BY DEF children
  <2> DEFINE e(q) == [name |-> Last(q), nid |-> nid(canonical(q)), ftype |-> node[canonical(q)].ftype]
  <2>2. \A q \in children(node, p) : e(q)' = e(q)
    <3> TAKE q \in children(node, p)
    <3>1. q \in DOMAIN node
      BY <2>1
    <3>2. canonical(q)' = canonical(q) /\ canonical(q) \in DOMAIN node
      BY <3>1, <1>3
    <3>3. nid(canonical(q))' = nid(canonical(q))
      BY <3>2, <1>1 DEF nid
    <3>4. node'[canonical(q)'].ftype = node[canonical(q)].ftype
      BY <3>2
    <3> QED
      BY <3>3, <3>4
  <2>3. {e(q) : q \in children(node, p)}' = {e(q) : q \in children(node, p)}
    BY <2>1, <2>2
  <2>4. nid(p)' = nid(p) /\ nid(ParentOf(p))' = nid(ParentOf(p))
    BY <1>1, <1>2 DEF nid
  <2> QED
    BY <2>3, <2>4 DEF Dirents
<1>5. ASSUME NEW p
      PROVE  SortedDirents(p)' = SortedDirents(p)
  <2>1. SortedDirents(p) = SortedByNames(Dirents(p))
    BY DEF SortedDirents, SortedByNames
  <2>2. SortedDirents(p)' = SortedByNames(Dirents(p)')
    BY DEF SortedDirents, SortedByNames, SortedBy
  <2>3. Dirents(p)' = Dirents(p)
    BY <1>4
  <2> QED
    BY <2>1, <2>2, <2>3
<1> QED
  BY <1>1, <1>2, <1>5

(* The directory that WriteDir writes, its blocks behind all others.       *)
LEMMA WriteDirInv ==
    ASSUME IInv, NEW p \in DOMAIN node, WriteDir(p)
    PROVE  IInv'
<1> DEFINE pk == Packed(SortedDirents(p))
           n == Len(pk)
<1>1. /\ phase = "dirs" /\ phase' = "dirs"
      /\ p \in Inodes /\ isDir(p)
      /\ node' = [node EXCEPT ![p].blkaddr = nextBlk, ![p].size = DirSize(pk)]
      /\ blocks' = [b \in DOMAIN blocks \cup (nextBlk .. nextBlk + n - 1) |->
                       IF b \in DOMAIN blocks THEN blocks[b] ELSE pk[b - nextBlk + 1]]
      /\ Write(DirSize(pk))
      /\ UNCHANGED <<tar, extents, inodes, super>>
  BY DEF WriteDir
<1>2. Tree(node) /\ Aliases /\ Entries /\ Written /\ LinkInv /\ Dirs
  BY DEF IInv
<1>3. PackedWell(SortedDirents(p), pk)
  BY <1>2, SortedFacts
<1>4. n \in Nat \ {0} /\ DirSize(pk) \in Nat /\ BlocksFor(DirSize(pk)) = n
  BY <1>3 DEF PackedWell
<1>5. /\ nextBlk \in Nat \ {0} /\ BlockSize \in Nat \ {0} /\ pos = nextBlk * BlockSize
      /\ DOMAIN blocks \subseteq 0 .. nextBlk - 1
  BY <1>2, BlockAssumption DEF Written, DataInPlace
<1>6. OwnDir(node, p)
  BY <1>1 DEF OwnDir, isDir, Inodes
<1> HIDE DEF pk, n
<1>7. /\ DOMAIN node' = DOMAIN node /\ node' \in [DOMAIN node -> Nodes]
      /\ \A q \in DOMAIN node \ {p} : node'[q] = node[q]
      /\ node'[p].ftype = node[p].ftype /\ node'[p].hardTo = node[p].hardTo
      /\ node'[p].nlink = node[p].nlink
      /\ node'[p].blkaddr = nextBlk /\ node'[p].size = DirSize(pk)
  <2> DEFINE w1 == WithAddr(node, p, nextBlk)
             w2 == WithSize(w1, p, DirSize(pk))
  <2>1. node' = w2
    BY <1>1 DEF WithAddr, WithSize
  <2>2. node \in [DOMAIN node -> Nodes] /\ nextBlk \in Nat
    BY <1>2, <1>5 DEF Tree
  <2>3. /\ SetNode(w1, node, p) /\ w1[p].blkaddr = nextBlk
        /\ w1[p].ftype = node[p].ftype /\ w1[p].size = node[p].size
        /\ w1[p].nlink = node[p].nlink /\ w1[p].hardTo = node[p].hardTo
    BY <2>2, SetAddr
  <2> HIDE DEF w1
  <2>4. DOMAIN w1 = DOMAIN node /\ w1 \in [DOMAIN w1 -> Nodes] /\ p \in DOMAIN w1
    BY <2>3 DEF SetNode
  <2>5. DirSize(pk) \in Nat
    BY <1>4
  <2>6. /\ SetNode(w2, w1, p) /\ w2[p].size = DirSize(pk)
        /\ w2[p].ftype = w1[p].ftype /\ w2[p].blkaddr = w1[p].blkaddr
        /\ w2[p].nlink = w1[p].nlink /\ w2[p].hardTo = w1[p].hardTo
    BY <2>4, <2>5, SetSize
  <2> HIDE DEF w2
  <2> QED
    BY <2>1, <2>3, <2>4, <2>6 DEF SetNode
<1>8. \A q \in DOMAIN node : /\ node'[q].ftype = node[q].ftype /\ node'[q].hardTo = node[q].hardTo
                             /\ node'[q].nlink = node[q].nlink
  BY <1>7
<1>9. /\ \A q : SortedDirents(q)' = SortedDirents(q)
      /\ \A q \in DOMAIN node : OwnDir(node', q) <=> OwnDir(node, q)
  BY <1>2, <1>7, <1>8, DirentsKept DEF OwnDir
<1>10. Tree(node)'
  <2>1. Tree(node')
    BY <1>2, <1>7, <1>9 DEF Tree
  <2> QED
    BY <2>1 DEF Tree, OwnDir
<1>11. Aliases'
  BY <1>1, <1>2, <1>7, <1>8 DEF Aliases
<1>12. Entries'
  <2>1. \A q \in DOMAIN tar : q \in DOMAIN node /\ canonical(q)' = canonical(q)
    BY <1>2, <1>8 DEF Entries, canonical
  <2>2. ASSUME NEW q \in DOMAIN tar
        PROVE  NodeOf(q, tar[q])'
    <3>1. NodeOf(q, tar[q]) /\ q \in DOMAIN node /\ tar'[q] = tar[q]
      BY <1>1, <1>2 DEF Entries
    <3>2. tar[q].kind \in {"reg", "sym"} => q # p
      BY <3>1, <1>6 DEF NodeOf, OwnDir
    <3>3. tar[q].kind = "link" => canonical(tar[q].link)' = canonical(tar[q].link)
      BY <3>1, <2>1, <1>1 DEF NodeOf
    <3>4. CASE tar[q].kind = "link"
      BY <3>1, <3>3, <3>4, <1>1, <1>8 DEF NodeOf
    <3>5. CASE tar[q].kind \in {"reg", "sym"}
      BY <3>1, <3>2, <3>5, <1>7 DEF NodeOf
    <3>6. CASE tar[q].kind \notin {"link", "reg", "sym"}
      BY <3>1, <3>6, <1>8 DEF NodeOf, OwnDir
    <3> QED
      BY <3>4, <3>5, <3>6
  <2>3. \A q \in DOMAIN node' \ DOMAIN tar' : OwnDir(node', q)
    BY <1>1, <1>2, <1>7, <1>9 DEF Entries
  <2> QED
    BY <2>2, <2>3, <1>1, <1>2, <1>7 DEF Entries
<1>13. LinkInv'
  <2> SUFFICES ASSUME \A q \in DOMAIN tar' : tar'[q].kind # "ignored"
               PROVE  Linked(node')
    BY DEF LinkInv, Linked, SubDirs, NamesOf, children, OwnDir
  <2>1. Linked(node)
    BY <1>1, <1>2 DEF LinkInv
  <2>2. \A r \in DOMAIN node : /\ SubDirs(node', r) = SubDirs(node, r)
                               /\ NamesOf(node', r) = NamesOf(node, r)
    BY <1>7, <1>8, <1>9 DEF SubDirs, NamesOf, children
  <2> QED
    BY <2>1, <2>2, <1>7, <1>8 DEF Linked
<1>14. pos' = pos + n * BlockSize /\ nextBlk' = nextBlk + n
  BY <1>1, <1>4 DEF Write
<1>15. \A b \in DOMAIN blocks' : b \in DOMAIN blocks \/ b \in nextBlk .. nextBlk + n - 1
  BY <1>1
<1>16. Written'
  <2>1. n * BlockSize \in Nat /\ pos \in Nat
    BY <1>4, <1>5
  <2>2. nextBlk' \in Nat \ {0} /\ pos' = nextBlk' * BlockSize /\ pos <= pos' /\ pos' \in Nat
    BY <2>1, <1>4, <1>5, <1>14
  <2>3. DOMAIN blocks' \subseteq 0 .. nextBlk' - 1
    BY <1>4, <1>5, <1>14, <1>15
  <2>4. \A q \in DOMAIN node' : node'[q].ftype \in {"reg", "sym"} /\ node'[q].size > 0 =>
           [off |-> node'[q].blkaddr * BlockSize, size |-> node'[q].size, owner |-> q] \in extents'
    BY <1>1, <1>2, <1>6, <1>7 DEF Written, DataInPlace, OwnDir
  <2>5. \A x \in extents : /\ x.off \in Nat /\ x.size \in Nat
                           /\ BlockSize <= x.off /\ x.off + x.size <= pos
    BY <1>2 DEF Written, DataInPlace
  <2>6. \A x \in extents' : BlockSize <= x.off /\ x.off + x.size <= pos'
    <3> TAKE x \in extents'
    <3>1. /\ x.off \in Nat /\ x.size \in Nat
          /\ BlockSize <= x.off /\ x.off + x.size <= pos
      BY <2>5, <1>1
    <3> QED
      BY <3>1, <2>1, <2>2
  <2>7. ASSUME NEW x \in extents', NEW b \in DOMAIN blocks'
        PROVE  x.off + x.size <= b * BlockSize \/ (b + 1) * BlockSize <= x.off
    <3>1. CASE b \in DOMAIN blocks
      BY <3>1, <1>1, <1>2 DEF Written, DataInPlace
    <3>2. CASE b \in nextBlk .. nextBlk + n - 1
      <4>1. b \in Nat /\ nextBlk <= b
        BY <3>2, <1>4, <1>5
      <4>2. nextBlk * BlockSize <= b * BlockSize /\ b * BlockSize \in Nat
        <5>1. b * BlockSize = nextBlk * BlockSize + (b - nextBlk) * BlockSize
          BY <4>1, <1>5
        <5>2. (b - nextBlk) * BlockSize \in Nat /\ nextBlk * BlockSize \in Nat
          BY <4>1, <1>5
        <5> QED
          BY <5>1, <5>2
      <4>3. x.off \in Nat /\ x.size \in Nat /\ x.off + x.size <= pos
        BY <2>5, <1>1
      <4> QED
        BY <4>2, <4>3, <2>1, <1>5
    <3> QED
      BY <3>1, <3>2, <1>15
  <2> QED
    BY <2>2, <2>3, <2>4, <2>6, <2>7, <1>1, <1>2 DEF Written, DataInPlace
<1>17. Dirs'
  <2>1. \A b \in DOMAIN blocks : b \in DOMAIN blocks' /\ blocks'[b] = blocks[b]
    BY <1>1
  <2>2. \A b \in 1 .. n : /\ nextBlk + b - 1 \in DOMAIN blocks'
                          /\ blocks'[nextBlk + b - 1] = pk[b]
    <3> TAKE b \in 1 .. n
    <3> DEFINE a == nextBlk + b - 1
    <3>1. a \in nextBlk .. nextBlk + n - 1 /\ a \notin 0 .. nextBlk - 1 /\ a - nextBlk + 1 = b
      BY <1>4, <1>5
    <3> HIDE DEF a
    <3>2. a \in DOMAIN blocks' /\ a \notin DOMAIN blocks
      BY <3>1, <1>1, <1>5
    <3>3. blocks'[a] = pk[a - nextBlk + 1]
      BY <3>1, <3>2, <1>1
    <3> QED
      BY <3>1, <3>2, <3>3 DEF a
  <2>3. ASSUME NEW q \in DOMAIN node', OwnDir(node, q)', node'[q].blkaddr # 0
        PROVE  DirWritten(q)'
    <3>1. SortedDirents(q)' = SortedDirents(q) /\ OwnDir(node, q) /\ q \in DOMAIN node
      BY <2>3, <1>7, <1>9 DEF OwnDir
    <3> DEFINE pq == Packed(SortedDirents(q))
    <3>2. CASE q = p
      <4>1. Packed(SortedDirents(q)') = pk /\ Len(pk) = n
        BY <3>1, <3>2 DEF pk, n
      <4>2. /\ node'[q].size = DirSize(pk)
            /\ \A b \in 1 .. n : /\ node'[q].blkaddr + b - 1 \in DOMAIN blocks'
                                 /\ blocks'[node'[q].blkaddr + b - 1] = pk[b]
        BY <3>2, <2>2, <1>7
      <4> QED
        BY <4>1, <4>2 DEF DirWritten
    <3>3. CASE q # p
      <4>1. node'[q] = node[q]
        BY <3>1, <3>3, <1>7
      <4>2. DirWritten(q)
        BY <4>1, <3>1, <2>3, <1>1, <1>2 DEF Dirs
      <4>3. /\ node'[q].size = DirSize(pq)
            /\ \A b \in 1 .. Len(pq) : /\ node'[q].blkaddr + b - 1 \in DOMAIN blocks'
                                       /\ blocks'[node'[q].blkaddr + b - 1] = pq[b]
        BY <4>1, <4>2, <2>1 DEF DirWritten
      <4>4. Packed(SortedDirents(q)') = pq
        BY <3>1
      <4> HIDE DEF pq
      <4> QED
        BY <4>3, <4>4 DEF DirWritten
    <3> QED
      BY <3>2, <3>3
  <2> QED
    BY <2>3, <1>1 DEF Dirs
<1>18. Table' /\ phase' \in Phases
  BY <1>1 DEF Table, Phases
<1> QED
  BY <1>10, <1>11, <1>12, <1>13, <1>16, <1>17, <1>18 DEF IInv

(* Steps that leave the tree, the data and the dirent blocks alone.        *)
LEMMA TreeUnchanged ==
    ASSUME IInv, UNCHANGED <<tar, node, extents, blocks>>
    PROVE  /\ Tree(node)' /\ Aliases' /\ Entries' /\ LinkInv'
           /\ Inodes' = Inodes
           /\ \A p : nid(p)' = nid(p)
           /\ \A p \in DOMAIN node : DirWritten(p)' <=> DirWritten(p)
<1>1. Tree(node) /\ Aliases /\ Entries /\ LinkInv
  BY DEF IInv
<1>2. Tree(node)' /\ Aliases' /\ LinkInv'
  <2>1. Tree(node)'
    BY <1>1 DEF Tree, OwnDir
  <2>2. Aliases'
    BY <1>1 DEF Aliases
  <2>3. LinkInv'
    BY <1>1 DEF LinkInv, Linked, SubDirs, NamesOf, children, OwnDir
  <2> QED
    BY <2>1, <2>2, <2>3
<1>3. Entries'
  <2>1. \A q \in DOMAIN tar : NodeOf(q, tar[q])' <=> NodeOf(q, tar[q])
    BY DEF NodeOf, OwnDir, canonical
  <2> QED
    BY <2>1, <1>1 DEF Entries, OwnDir
<1>4. /\ Inodes' = Inodes
      /\ \A p : nid(p)' = nid(p)
      /\ \A p : SortedDirents(p)' = SortedDirents(p)
  BY <1>1, DirentsKept
<1>5. ASSUME NEW p \in DOMAIN node
      PROVE  DirWritten(p)' <=> DirWritten(p)
  <2>1. Packed(SortedDirents(p)') = Packed(SortedDirents(p))
    BY <1>4
  <2> QED
    BY <2>1 DEF DirWritten
<1> QED
  BY <1>2, <1>3, <1>4, <1>5

(* EndOfTar, DirsWritten and ConvertFails only move to another phase.      *)
LEMMA PhaseInv ==
    ASSUME IInv, EndOfTar \/ DirsWritten \/ ConvertFails
    PROVE  IInv'
<1>1. /\ UNCHANGED <<tar, node, pos, nextBlk, extents, blocks, inodes, super>>
      /\ \/ phase = "tar" /\ phase' = "dirs"
         \/ /\ phase = "dirs" /\ phase' = "inodes"
            /\ \A p \in Inodes : isDir(p) => node[p].blkaddr # 0
         \/ phase' = "failed"
  BY DEF EndOfTar, DirsWritten, ConvertFails
<1>2. /\ Tree(node)' /\ Aliases' /\ Entries' /\ LinkInv'
      /\ \A p \in DOMAIN node : DirWritten(p)' <=> DirWritten(p)
  BY <1>1, TreeUnchanged
<1>3. Written'
  BY <1>1 DEF IInv, Written, DataInPlace
<1>4. Dirs'
  <2>1. CASE phase = "tar" /\ phase' = "dirs"
    BY <2>1, <1>1 DEF IInv, Dirs, OwnDir
  <2>2. CASE /\ phase = "dirs" /\ phase' = "inodes"
             /\ \A p \in Inodes : isDir(p) => node[p].blkaddr # 0
    <3>1. \A p \in DOMAIN node : OwnDir(node, p) => node[p].blkaddr # 0
      BY <2>2 DEF OwnDir, Inodes, isDir
    <3>2. \A p \in DOMAIN node : OwnDir(node, p) => DirWritten(p)
      BY <3>1, <2>2 DEF IInv, Dirs
    <3>3. \A p \in DOMAIN node : OwnDir(node, p)' <=> OwnDir(node, p)
      BY <1>1 DEF OwnDir
    <3> QED
      BY <3>1, <3>2, <3>3, <2>2, <1>1, <1>2 DEF Dirs
  <2>3. CASE phase' = "failed"
    BY <2>3 DEF Dirs
  <2> QED
    BY <2>1, <2>2, <2>3, <1>1
<1>5. Table' /\ phase' \in Phases
  BY <1>1 DEF Table, Phases
<1> QED
  BY <1>2, <1>3, <1>4, <1>5 DEF IInv

(* Inodes are written where the nids say.                                  *)
LEMMA WriteInodesInv ==
    ASSUME IInv, WriteInodes
    PROVE  IInv'
<1> DEFINE at(p) == pos + 2 * SlotSize + InodeSize * Before(p)
           rec(p) == [ftype |-> node[p].ftype, size |-> node[p].size,
                      blkaddr |-> node[p].blkaddr, nlink |-> node[p].nlink]
           len == 2 * SlotSize + InodeSize * Cardinality(Inodes)
<1>1. /\ phase = "inodes" /\ phase' = "super"
      /\ inodes' = [off \in {at(p) : p \in Inodes} |-> rec(CHOOSE q \in Inodes : at(q) = off)]
      /\ super'.metaBlk = nextBlk
      /\ Write(len)
      /\ UNCHANGED <<tar, node, extents, blocks>>
  BY DEF WriteInodes, Before
<1>2. /\ Tree(node)' /\ Aliases' /\ Entries' /\ LinkInv' /\ Inodes' = Inodes
      /\ \A p : nid(p)' = nid(p)
      /\ \A p \in DOMAIN node : DirWritten(p)' <=> DirWritten(p)
  BY <1>1, TreeUnchanged
<1>3. /\ Cardinality(Inodes) \in Nat
      /\ \A p : Before(p) \in Nat /\ nid(p) = (1 + Before(p)) * 2
      /\ \A p, q \in Inodes : Before(p) = Before(q) => p = q
  BY NidFacts DEF IInv
<1>4. /\ nextBlk \in Nat \ {0} /\ BlockSize \in Nat \ {0} /\ pos = nextBlk * BlockSize
      /\ pos \in Nat
  <2>1. nextBlk \in Nat \ {0} /\ BlockSize \in Nat \ {0} /\ pos = nextBlk * BlockSize
    BY BlockAssumption DEF IInv, Written, DataInPlace
  <2> QED
    BY <2>1
<1>5. \A p : at(p) = pos + 64 + 64 * Before(p)
  BY DEF SlotSize, InodeSize
<1>6. \A p, q \in Inodes : at(p) = at(q) => p = q
  <2> TAKE p, q \in Inodes
  <2>1. Before(p) \in Nat /\ Before(q) \in Nat /\ (Before(p) = Before(q) => p = q)
    BY <1>3
  <2> QED
    BY <2>1, <1>4, <1>5
<1> HIDE DEF at
<1>7. \A p \in Inodes : at(p) \in DOMAIN inodes' /\ inodes'[at(p)] = rec(p)
  <2> TAKE p \in Inodes
  <2>1. (CHOOSE q \in Inodes : at(q) = at(p)) = p
    BY <1>6
  <2>2. at(p) \in {at(q) : q \in Inodes}
    OBVIOUS
  <2> HIDE DEF rec
  <2> QED
    BY <2>1, <2>2, <1>1
<1>8. \A p : InodeAt(nid(p))' = at(p)
  <2> TAKE p
  <2>1. Before(p) \in Nat /\ nid(p)' = (1 + Before(p)) * 2
    BY <1>2, <1>3
  <2>2. InodeAt(nid(p))' = nextBlk * BlockSize + nid(p)' * 32
    BY <1>1 DEF InodeAt, SlotSize
  <2> QED
    BY <2>1, <2>2, <1>4, <1>5
<1>9. Table'
  <2>1. ASSUME NEW p \in Inodes'
        PROVE  /\ InodeAt(nid(p))' \in DOMAIN inodes'
               /\ inodes'[InodeAt(nid(p))'] = rec(p)
    BY <1>2, <1>7, <1>8
  <2> QED
    BY <2>1, <1>1 DEF Table
<1>10. Written'
  <2> DEFINE k == BlocksFor(len)
  <2>1. len \in Nat
    BY <1>3 DEF SlotSize, InodeSize
  <2> HIDE DEF len
  <2>2. k \in Nat /\ k * BlockSize \in Nat
    <3>1. k \in Nat
      BY <2>1, BlocksForHold
    <3> QED
      BY <3>1, <1>4
  <2>3. pos' = pos + k * BlockSize /\ nextBlk' = nextBlk + k
    BY <1>1 DEF Write
  <2> HIDE DEF k
  <2>4. nextBlk' \in Nat \ {0} /\ pos' = nextBlk' * BlockSize /\ pos <= pos' /\ pos' \in Nat
    BY <2>2, <2>3, <1>4
  <2>5. DOMAIN blocks \subseteq 0 .. nextBlk' - 1
    BY <2>2, <2>3, <1>4 DEF IInv, Written
  <2>6. \A x \in extents : BlockSize <= x.off /\ x.off + x.size <= pos'
    <3> TAKE x \in extents
    <3>1. x.off \in Nat /\ x.size \in Nat /\ BlockSize <= x.off /\ x.off + x.size <= pos
      BY DEF IInv, Written, DataInPlace
    <3>2. pos \in Nat /\ pos' \in Nat /\ pos <= pos'
      BY <2>4, <1>4
    <3> QED
      BY <3>1, <3>2
  <2> QED
    BY <2>4, <2>5, <2>6, <1>1 DEF IInv, Written, DataInPlace
<1>11. Dirs'
  <2>1. \A p \in DOMAIN node : OwnDir(node, p)' <=> OwnDir(node, p)
    BY <1>1 DEF OwnDir
  <2> QED
    BY <2>1, <1>1, <1>2 DEF IInv, Dirs
<1>12. phase' \in Phases
  BY <1>1 DEF Phases
<1> QED
  BY <1>2, <1>9, <1>10, <1>11, <1>12 DEF IInv

(* The superblock points to the table and the root.                        *)
LEMMA WriteSuperblockInv ==
    ASSUME IInv, WriteSuperblock
    PROVE  IInv'
<1>1. /\ phase = "super" /\ phase' = "done"
      /\ super'.root = nid(<<>>) /\ super'.metaBlk = super.metaBlk
      /\ UNCHANGED <<tar, node, pos, nextBlk, extents, blocks, inodes>>
  BY DEF WriteSuperblock
<1>2. /\ Tree(node)' /\ Aliases' /\ Entries' /\ LinkInv' /\ Inodes' = Inodes
      /\ \A p : nid(p)' = nid(p)
      /\ \A p \in DOMAIN node : DirWritten(p)' <=> DirWritten(p)
  BY <1>1, TreeUnchanged
<1>3. Written'
  BY <1>1 DEF IInv, Written, DataInPlace
<1>4. Dirs'
  <2>1. \A p \in DOMAIN node : OwnDir(node, p)' <=> OwnDir(node, p)
    BY <1>1 DEF OwnDir
  <2> QED
    BY <2>1, <1>1, <1>2 DEF IInv, Dirs
<1>5. \A p : InodeAt(nid(p))' = InodeAt(nid(p))
  BY <1>1, <1>2 DEF InodeAt
<1>6. Table'
  <2>1. ASSUME NEW p \in Inodes'
        PROVE  /\ InodeAt(nid(p))' \in DOMAIN inodes'
               /\ inodes'[InodeAt(nid(p))'] =
                     [ftype |-> node[p].ftype, size |-> node[p].size,
                      blkaddr |-> node[p].blkaddr, nlink |-> node[p].nlink]
    BY <1>1, <1>2, <1>5 DEF IInv, Table
  <2>2. super'.root = nid(<<>>)'
    BY <1>1, <1>2
  <2> QED
    BY <2>1, <2>2, <1>1 DEF Table
<1>7. phase' \in Phases
  BY <1>1 DEF Phases
<1> QED
  BY <1>2, <1>3, <1>4, <1>6, <1>7 DEF IInv

(* The empty tree.                                                         *)
LEMMA InitInv == Init => IInv
<1> SUFFICES ASSUME Init
             PROVE  IInv
  OBVIOUS
<1>1. /\ tar = <<>> /\ node = [q \in {<<>>} |-> Dir(2)] /\ pos = BlockSize /\ nextBlk = 1
      /\ extents = {} /\ blocks = <<>> /\ phase = "tar"
  BY DEF Init
<1>2. DOMAIN node = {<<>>} /\ node[<<>>] = Dir(2) /\ DOMAIN tar = {} /\ DOMAIN blocks = {}
  <2>1. DOMAIN <<>> = {}
    BY EmptySeq
  <2> QED
    BY <2>1, <1>1
<1>3. Dir(2) \in Nodes /\ Dir(2).ftype = "dir" /\ Dir(2).hardTo = NoNode /\ Dir(2).nlink = 2
      /\ Dir(2).blkaddr = 0
  BY DEF Dir, Nodes
<1>4. Tree(node)
  <2>1. <<>> \in Seq(FileNames) /\ IsFiniteSet({<<>>})
    BY EmptySeq, FS_Singleton
  <2>2. node \in [DOMAIN node -> Nodes]
    BY <1>1, <1>3
  <2> QED
    BY <2>1, <2>2, <1>2, <1>3 DEF Tree, OwnDir
<1>5. Aliases /\ Entries
  BY <1>2, <1>3 DEF Aliases, Entries, OwnDir
<1>6. LinkInv
  <2>1. SubDirs(node, <<>>) = {}
    BY <1>2 DEF SubDirs, children
  <2>2. Cardinality(SubDirs(node, <<>>)) = 0
    BY <2>1, FS_EmptySet
  <2> QED
    BY <2>2, <1>2, <1>3 DEF LinkInv, Linked
<1>7. Written
  <2>1. 1 * BlockSize = BlockSize
    BY BlockAssumption
  <2> QED
    BY <2>1, <1>1, <1>2, <1>3 DEF Written, DataInPlace
<1>8. Dirs /\ Table /\ phase \in Phases
  BY <1>1, <1>2, <1>3 DEF Dirs, Table, Phases
<1> QED
  BY <1>4, <1>5, <1>6, <1>7, <1>8 DEF IInv

(* The inductive invariant holds: what is in the tar, in memory and in the *)
(* image agree at every step of Convert.                                   *)
THEOREM Invariance == Spec => []IInv
<1>1. ASSUME IInv, [Next]_vars
      PROVE  IInv'
  <2>1. CASE \E p \in Paths : AddEntry(p)
    BY <2>1, <1>1, AddEntryInv
  <2>2. CASE EndOfTar \/ DirsWritten \/ ConvertFails
    BY <2>2, <1>1, PhaseInv
  <2>3. CASE \E p \in DOMAIN node : WriteDir(p)
    BY <2>3, <1>1, WriteDirInv
  <2>4. CASE WriteInodes
    BY <2>4, <1>1, WriteInodesInv
  <2>5. CASE WriteSuperblock
    BY <2>5, <1>1, WriteSuperblockInv
  <2>6. CASE UNCHANGED vars
    <3>1. UNCHANGED <<tar, node, pos, nextBlk, extents, blocks, inodes, super, phase>>
      BY <2>6 DEF vars
    <3>2. /\ Tree(node)' /\ Aliases' /\ Entries' /\ LinkInv' /\ Inodes' = Inodes
          /\ \A p : nid(p)' = nid(p)
          /\ \A p \in DOMAIN node : DirWritten(p)' <=> DirWritten(p)
      BY <3>1, <1>1, TreeUnchanged
    <3>3. Written'
      BY <3>1, <1>1 DEF IInv, Written, DataInPlace
    <3>4. Dirs'
      <4>1. \A p \in DOMAIN node : OwnDir(node, p)' <=> OwnDir(node, p)
        BY <3>1 DEF OwnDir
      <4> QED
        BY <4>1, <3>1, <3>2, <1>1 DEF IInv, Dirs
    <3>5. Table'
      <4>1. \A p : InodeAt(nid(p))' = InodeAt(nid(p))
        BY <3>1, <3>2 DEF InodeAt
      <4> QED
        BY <4>1, <3>1, <3>2, <1>1 DEF IInv, Table
    <3> QED
      BY <3>1, <3>2, <3>3, <3>4, <3>5, <1>1 DEF IInv
  <2> QED
    BY <2>1, <2>2, <2>3, <2>4, <2>5, <2>6, <1>1 DEF Next
<1> QED
  BY <1>1, InitInv, PTL DEF Spec

(* File data stays where its inode says, and nothing written overlaps it,  *)
(* for every sequence of entries and sizes (streamData and padToBlock).    *)
THEOREM DataStaysInPlace == Spec => []DataInPlace
<1>1. IInv => DataInPlace
  BY DEF IInv, Written
<1> QED
  BY <1>1, Invariance, PTL

(***************************************************************************)
(* The finished image                                                      *)
(***************************************************************************)
(* The blocks of a directory in the finished image.                        *)
LEMMA DirBlocks ==
    ASSUME IInv, phase = "done", NEW p \in DOMAIN node, OwnDir(node, p),
           NEW pk, pk = Packed(SortedDirents(p)), NEW first, first = node[p].blkaddr
    PROVE  /\ first \in Nat /\ Len(pk) \in Nat \ {0}
           /\ BlocksFor(node[p].size) = Len(pk)
           /\ PackedWell(SortedDirents(p), pk)
           /\ Lists(SortedDirents(p), Dirents(p))
           /\ \A b \in first .. first + Len(pk) - 1 :
                 /\ b - first + 1 \in 1 .. Len(pk)
                 /\ b \in DOMAIN blocks
                 /\ blocks[b] = pk[b - first + 1]
<1>1. Tree(node) /\ Aliases /\ Dirs
  BY DEF IInv
<1>2. first \in Nat /\ first # 0 /\ DirWritten(p)
  <2>1. node[p] \in Nodes
    BY <1>1 DEF Tree
  <2>2. node[p].blkaddr \in Nat
    BY <2>1 DEF Nodes
  <2> QED
    BY <2>2, <1>1 DEF Dirs
<1>3. Lists(SortedDirents(p), Dirents(p)) /\ PackedWell(SortedDirents(p), pk)
  BY <1>1, SortedFacts
<1>4. Len(pk) \in Nat \ {0} /\ BlocksFor(DirSize(pk)) = Len(pk)
  BY <1>3 DEF PackedWell
<1>5. /\ node[p].size = DirSize(pk)
      /\ \A b \in 1 .. Len(pk) : first + b - 1 \in DOMAIN blocks /\ blocks[first + b - 1] = pk[b]
  BY <1>2 DEF DirWritten
<1>6. ASSUME NEW b \in first .. first + Len(pk) - 1
      PROVE  /\ b - first + 1 \in 1 .. Len(pk)
             /\ b \in DOMAIN blocks
             /\ blocks[b] = pk[b - first + 1]
  <2>1. b - first + 1 \in 1 .. Len(pk) /\ first + (b - first + 1) - 1 = b
    BY <1>2, <1>4
  <2> QED
    BY <2>1, <1>5
<1> QED
  BY <1>2, <1>3, <1>4, <1>5, <1>6

(* Every directory of the finished image can be searched: its blocks are   *)
(* there, none is overfull and the names ascend within and across them,    *)
(* for every set of names and block size (writeOneDir).                    *)
THEOREM DirectoriesSearchable == Spec => []DirsSearchable
<1>1. ASSUME IInv
      PROVE  DirsSearchable
  <2> SUFFICES ASSUME phase = "done", NEW p \in Inodes, isDir(p)
               PROVE  LET first == node[p].blkaddr
                          last == first + BlocksFor(node[p].size) - 1
                      IN  /\ first .. last \subseteq DOMAIN blocks
                          /\ \A b \in first .. last :
                                Used(blocks[b], 1, Len(blocks[b])) \in 1 .. BlockSize
                          /\ \A b, c \in first .. last :
                                \A i \in DOMAIN blocks[b], j \in DOMAIN blocks[c] :
                                   (b < c \/ (b = c /\ i < j)) =>
                                       blocks[b][i].name < blocks[c][j].name
    BY DEF DirsSearchable
  <2> DEFINE first == node[p].blkaddr
             es == SortedDirents(p)
             pk == Packed(es)
             last == first + Len(pk) - 1
  <2>1. p \in DOMAIN node /\ OwnDir(node, p)
    BY DEF Inodes, isDir, OwnDir
  <2>2. /\ first \in Nat /\ Len(pk) \in Nat \ {0}
        /\ BlocksFor(node[p].size) = Len(pk)
        /\ PackedWell(es, pk)
        /\ Lists(es, Dirents(p))
        /\ \A b \in first .. last :
              b - first + 1 \in 1 .. Len(pk) /\ b \in DOMAIN blocks /\ blocks[b] = pk[b - first + 1]
    BY <2>1, <1>1, DirBlocks
  <2> HIDE DEF first, es, pk
  <2>3. \A b \in 1 .. Len(pk) :
           /\ pk[b] \in Seq(DirentSet)
           /\ Used(pk[b], 1, Len(pk[b])) \in 1 .. BlockSize
    BY <2>2 DEF PackedWell
  <2>4. ASSUME NEW b \in first .. last, NEW c \in first .. last,
               NEW i \in DOMAIN blocks[b], NEW j \in DOMAIN blocks[c],
               b < c \/ (b = c /\ i < j)
        PROVE  blocks[b][i].name < blocks[c][j].name
    <3> DEFINE x == b - first + 1
               y == c - first + 1
    <3>1. x \in 1 .. Len(pk) /\ y \in 1 .. Len(pk) /\ blocks[b] = pk[x] /\ blocks[c] = pk[y]
      BY <2>2
    <3>2. x < y \/ (x = y /\ i < j)
      BY <2>2, <2>4
    <3>3. i \in 1 .. Len(pk[x]) /\ j \in 1 .. Len(pk[y])
      <4>1. pk[x] \in Seq(DirentSet) /\ pk[y] \in Seq(DirentSet)
        BY <2>3, <3>1
      <4> QED
        BY <4>1, <3>1, LenProperties
    <3> HIDE DEF x, y
    <3>4. PICK k, l \in 1 .. Len(es) : k < l /\ pk[x][i] = es[k] /\ pk[y][j] = es[l]
      <4>1. \A v, w \in 1 .. Len(pk) : \A m \in 1 .. Len(pk[v]), o \in 1 .. Len(pk[w]) :
               (v < w \/ (v = w /\ m < o)) =>
                   \E k, l \in 1 .. Len(es) : k < l /\ pk[v][m] = es[k] /\ pk[w][o] = es[l]
        BY <2>2 DEF PackedWell
      <4>2. \A m \in 1 .. Len(pk[x]), o \in 1 .. Len(pk[y]) :
               (x < y \/ (x = y /\ m < o)) =>
                   \E k, l \in 1 .. Len(es) : k < l /\ pk[x][m] = es[k] /\ pk[y][o] = es[l]
        BY <4>1, <3>1
      <4> QED
        BY <4>2, <3>2, <3>3
    <3>5. es[k].name < es[l].name
      BY <3>4, <2>2 DEF Lists
    <3> QED
      BY <3>1, <3>4, <3>5
  <2>5. \A b \in first .. last : Used(blocks[b], 1, Len(blocks[b])) \in 1 .. BlockSize
    BY <2>2, <2>3
  <2>6. first .. last \subseteq DOMAIN blocks
    BY <2>2
  <2> QED
    BY <2>2, <2>4, <2>5, <2>6 DEF first
<1> QED
  BY <1>1, Invariance, PTL

(* Link counts are those Linux expects, for every tar without entries that *)
(* are ignored (the nlink bookkeeping of lookup and addEntry).             *)
THEOREM LinksCounted == Spec => []LinkCounts
<1>1. ASSUME IInv
      PROVE  LinkCounts
  <2> SUFFICES ASSUME phase = "done", \A q \in DOMAIN tar : tar[q].kind # "ignored",
                      NEW p \in Inodes
               PROVE  inodes[InodeAt(nid(p))].nlink =
                         IF isDir(p)
                         THEN 2 + Cardinality({q \in children(node, p) \cap Inodes : isDir(q)})
                         ELSE Cardinality({q \in DOMAIN node : canonical(q) = p})
    BY DEF LinkCounts
  <2>1. inodes[InodeAt(nid(p))] =
            [ftype |-> node[p].ftype, size |-> node[p].size,
             blkaddr |-> node[p].blkaddr, nlink |-> node[p].nlink]
    BY <1>1 DEF IInv, Table
  <2>2. inodes[InodeAt(nid(p))].nlink = node[p].nlink
    BY <2>1
  <2>3. p \in DOMAIN node /\ node[p].hardTo = NoNode
    BY DEF Inodes
  <2>4. node[p].nlink = IF node[p].ftype = "dir" THEN 2 + Cardinality(SubDirs(node, p))
                                                 ELSE Cardinality(NamesOf(node, p))
    BY <2>3, <1>1 DEF IInv, LinkInv, Linked
  <2>5. SubDirs(node, p) = {q \in children(node, p) \cap Inodes : isDir(q)}
    BY DEF SubDirs, OwnDir, children, Inodes, isDir
  <2>6. NamesOf(node, p) = {q \in DOMAIN node : canonical(q) = p}
    BY DEF NamesOf, canonical
  <2> QED
    BY <2>2, <2>4, <2>5, <2>6 DEF isDir
<1> QED
  BY <1>1, Invariance, PTL

(* The prefixes of a path of the tree are directories of the tree.         *)
LEMMA PrefixesInTree ==
    ASSUME Tree(node), NEW p \in DOMAIN node
    PROVE  /\ p \in Seq(FileNames) /\ Len(p) \in Nat
           /\ \A k \in 0 .. Len(p) : SubSeq(p, 1, k) \in DOMAIN node
           /\ \A k \in 1 .. Len(p) : OwnDir(node, SubSeq(p, 1, k - 1))
<1> DEFINE n == Len(p)
           s(k) == SubSeq(p, 1, k)
<1>1. p \in Seq(FileNames) /\ n \in Nat
  BY DEF Tree
<1>2. \A k \in 1 .. n : ParentOf(s(k)) = s(k - 1) /\ s(k) # <<>>
  <2> TAKE k \in 1 .. n
  <2>1. k \in 0 .. n /\ k # 0
    BY <1>1
  <2> QED
    BY <2>1, <1>1, PrefixFacts, PrefixParent
<1>3. s(n) = p
  BY <1>1, SubSeqFull
<1> HIDE DEF s
<1>4. \A k \in 0 .. n : s(k) \in DOMAIN node
  <2> DEFINE Bad == {j \in 0 .. n : s(n - j) \notin DOMAIN node}
  <2> SUFFICES ASSUME Bad # {}
               PROVE  FALSE
    <3>1. ASSUME NEW k \in 0 .. n
          PROVE  n - k \in 0 .. n /\ n - (n - k) = k
      BY <1>1
    <3> QED
      BY <3>1
  <2>1. Bad \in SUBSET Nat
    BY <1>1
  <2>2. PICK j \in Bad : \A y \in Bad : j <= y
    <3> HIDE DEF Bad
    <3> QED
      BY <2>1, Least
  <2>3. j # 0
    BY <1>1, <1>3
  <2>4. /\ j - 1 \in 0 .. n /\ ~(j <= j - 1)
        /\ n - (j - 1) \in 1 .. n /\ (n - (j - 1)) - 1 = n - j
    BY <2>3, <1>1
  <2>5. s(n - (j - 1)) \in DOMAIN node
    BY <2>2, <2>4
  <2>6. s(n - j) \in DOMAIN node
    BY <2>4, <2>5, <1>2 DEF Tree
  <2> QED
    BY <2>6
<1>5. ASSUME NEW k \in 1 .. n
      PROVE  OwnDir(node, s(k - 1))
  <2>1. k \in 0 .. n
    BY <1>1
  <2> QED
    BY <2>1, <1>2, <1>4 DEF Tree
<1> QED
  BY <1>1, <1>4, <1>5 DEF s

(* The blocks of a directory hold its dirents, all of them.                *)
LEMMA ReadDirFacts ==
    ASSUME IInv, phase = "done", NEW p \in DOMAIN node, OwnDir(node, p)
    PROVE  /\ InodeAt(nid(p)) \in DOMAIN inodes
           /\ inodes[InodeAt(nid(p))].ftype = "dir"
           /\ ReadDir(inodes[InodeAt(nid(p))]) = Dirents(p)
<1> DEFINE i == inodes[InodeAt(nid(p))]
           first == node[p].blkaddr
           es == SortedDirents(p)
           pk == Packed(es)
           last == first + Len(pk) - 1
<1>1. /\ InodeAt(nid(p)) \in DOMAIN inodes
      /\ i.ftype = "dir" /\ i.blkaddr = first /\ i.size = node[p].size
  <2>1. p \in Inodes
    BY DEF Inodes, OwnDir
  <2>2. /\ InodeAt(nid(p)) \in DOMAIN inodes
        /\ i = [ftype |-> node[p].ftype, size |-> node[p].size,
                blkaddr |-> node[p].blkaddr, nlink |-> node[p].nlink]
    BY <2>1 DEF IInv, Table
  <2> HIDE DEF i
  <2> QED
    BY <2>2 DEF OwnDir
<1>2. /\ first \in Nat /\ Len(pk) \in Nat \ {0}
      /\ BlocksFor(node[p].size) = Len(pk)
      /\ PackedWell(es, pk)
      /\ Lists(es, Dirents(p))
      /\ \A b \in first .. last :
            b - first + 1 \in 1 .. Len(pk) /\ b \in DOMAIN blocks /\ blocks[b] = pk[b - first + 1]
  BY DirBlocks
<1> HIDE DEF i
<1>3. ReadDir(i) = UNION {Range(blocks[b]) : b \in first .. last}
  BY <1>1, <1>2 DEF ReadDir
<1> HIDE DEF first, es, pk
<1>4. \A x \in 1 .. Len(pk) :
         /\ DOMAIN pk[x] = 1 .. Len(pk[x])
         /\ \A j \in 1 .. Len(pk[x]) : pk[x][j] \in Range(es)
  BY <1>2, LenProperties DEF PackedWell
<1>5. \A e \in Range(es) : \E x \in 1 .. Len(pk) : \E j \in 1 .. Len(pk[x]) : pk[x][j] = e
  BY <1>2 DEF PackedWell
<1>6. Range(es) = Dirents(p)
  BY <1>2 DEF Lists
<1>7. ASSUME NEW b \in first .. last, NEW e \in Range(blocks[b])
      PROVE  e \in Range(es)
  <2>1. PICK x \in 1 .. Len(pk) : blocks[b] = pk[x]
    BY <1>2
  <2>2. PICK j \in DOMAIN pk[x] : e = pk[x][j]
    BY <2>1 DEF Range
  <2> QED
    BY <2>2, <1>4
<1>8. ASSUME NEW e \in Range(es)
      PROVE  \E b \in first .. last : e \in Range(blocks[b])
  <2>0. PICK x \in 1 .. Len(pk) : \E j \in 1 .. Len(pk[x]) : pk[x][j] = e
    BY <1>5
  <2>1. PICK j \in 1 .. Len(pk[x]) : pk[x][j] = e
    BY <2>0
  <2>2. first + x - 1 \in first .. last /\ (first + x - 1) - first + 1 = x
    BY <1>2
  <2>3. blocks[first + x - 1] = pk[x] /\ j \in DOMAIN pk[x]
    BY <2>2, <1>2, <1>4
  <2>4. e \in Range(blocks[first + x - 1])
    BY <2>1, <2>3 DEF Range
  <2> QED
    BY <2>2, <2>4
<1>9. ReadDir(i) = Range(es)
  BY <1>3, <1>7, <1>8
<1> QED
  BY <1>1, <1>6, <1>9 DEF i

(* A name in a directory leads to the inode of its path.                   *)
LEMMA ReadNameFacts ==
    ASSUME IInv, phase = "done", NEW p \in DOMAIN node \ {<<>>}
    PROVE  ReadName(nid(canonical(ParentOf(p))), Last(p)) = nid(canonical(p))
<1> DEFINE q == ParentOf(p)
           entry == [name |-> Last(p), nid |-> nid(canonical(p)), ftype |-> node[canonical(p)].ftype]
           found == {d \in Dirents(q) : d.name = Last(p)}
<1>1. Tree(node) /\ Aliases
  BY DEF IInv
<1>2. q \in DOMAIN node /\ OwnDir(node, q)
  BY <1>1 DEF Tree
<1>3. canonical(q) = q
  BY <1>2 DEF OwnDir, canonical
<1>4. nid(q) # 0
  <2>1. Before(q) \in Nat /\ nid(q) = (1 + Before(q)) * 2
    BY <1>1, NidFacts
  <2> QED
    BY <2>1
<1>5. p \in children(node, q)
  BY DEF children
<1>6. entry \in Dirents(q)
  BY <1>5 DEF Dirents
<1>7. \A d, e \in Dirents(q) : d.name = e.name => d = e
  BY <1>1, DirentsFacts
<1>8. entry.name = Last(p) /\ entry.nid = nid(canonical(p))
  OBVIOUS
<1> HIDE DEF entry
<1>9. found = {entry}
  BY <1>6, <1>7, <1>8
<1>10. /\ InodeAt(nid(q)) \in DOMAIN inodes
       /\ inodes[InodeAt(nid(q))].ftype = "dir"
       /\ ReadDir(inodes[InodeAt(nid(q))]) = Dirents(q)
  BY <1>2, ReadDirFacts
<1> HIDE DEF q
<1>11. ReadName(nid(q), Last(p)) = IF found = {} THEN 0 ELSE (CHOOSE d \in found : TRUE).nid
  BY <1>4, <1>10 DEF ReadName
<1> HIDE DEF found
<1>12. (CHOOSE d \in found : TRUE) = entry /\ found # {}
  BY <1>9
<1> QED
  BY <1>3, <1>8, <1>11, <1>12 DEF q

(* A path leads to its own inode, or to the one it is an alias of.         *)
LEMMA ReadPathFacts ==
    ASSUME IInv, phase = "done", NEW p \in DOMAIN node
    PROVE  ReadPath(p) = nid(canonical(p))
<1> DEFINE n == Len(p)
           f == [k \in 0 .. n |-> nid(canonical(SubSeq(p, 1, k)))]
<1>1. Tree(node)
  BY DEF IInv
<1>2. p \in Seq(FileNames) /\ n \in Nat /\ \A k \in 0 .. n : SubSeq(p, 1, k) \in DOMAIN node
  BY <1>1, PrefixesInTree
<1>3. f[0] = super.root
  <2>1. SubSeq(p, 1, 0) = <<>> /\ 0 \in 0 .. n
    <3>1. 0 \in 0 .. n
      BY <1>2
    <3> QED
      BY <3>1, <1>2, PrefixFacts
  <2>2. canonical(<<>>) = <<>>
    BY <1>1 DEF Tree, OwnDir, canonical
  <2>3. super.root = nid(<<>>)
    BY DEF IInv, Table
  <2> QED
    BY <2>1, <2>2, <2>3
<1>4. ASSUME NEW k \in 1 .. n
      PROVE  f[k] = ReadName(f[k - 1], p[k])
  <2>1. k \in 0 .. n /\ k - 1 \in 0 .. n /\ k # 0
    BY <1>2
  <2>2. /\ SubSeq(p, 1, k) \in DOMAIN node \ {<<>>}
        /\ ParentOf(SubSeq(p, 1, k)) = SubSeq(p, 1, k - 1)
        /\ Last(SubSeq(p, 1, k)) = p[k]
    BY <2>1, <1>2, PrefixFacts, PrefixParent
  <2>3. ReadName(nid(canonical(ParentOf(SubSeq(p, 1, k)))), Last(SubSeq(p, 1, k)))
            = nid(canonical(SubSeq(p, 1, k)))
    BY <2>2, ReadNameFacts
  <2> QED
    BY <2>1, <2>2, <2>3
<1>5. f[n] = nid(canonical(p))
  <2>1. n \in 0 .. n /\ SubSeq(p, 1, n) = p
    BY <1>2, SubSeqFull
  <2> QED
    BY <2>1
<1>6. DOMAIN f = 0 .. n /\ f = [k \in 0 .. n |-> f[k]]
  OBVIOUS
<1> HIDE DEF f
<1>7. f = [k \in 0 .. n |-> IF k = 0 THEN super.root ELSE ReadName(f[k - 1], p[k])]
  <2>1. \A k \in 0 .. n : f[k] = IF k = 0 THEN super.root ELSE ReadName(f[k - 1], p[k])
    BY <1>2, <1>3, <1>4
  <2> QED
    BY <2>1, <1>6
<1> DEFINE at == CHOOSE g : g = [k \in 0 .. n |->
                                   IF k = 0 THEN super.root ELSE ReadName(g[k - 1], p[k])]
<1>8. at = [k \in 0 .. n |-> IF k = 0 THEN super.root ELSE ReadName(at[k - 1], p[k])]
  BY <1>7
<1>9. ReadPath(p) = at[n]
  BY DEF ReadPath
<1> HIDE DEF at
<1>10. at[0] = f[0] /\ \A k \in 1 .. n : at[k] = ReadName(at[k - 1], p[k])
  <2>1. 0 \in 0 .. n /\ \A k \in 1 .. n : k \in 0 .. n /\ k # 0
    BY <1>2
  <2> QED
    BY <2>1, <1>3, <1>8
<1>11. \A k \in 0 .. n : at[k] = f[k]
  <2> DEFINE Bad == {k \in 0 .. n : at[k] # f[k]}
  <2> SUFFICES ASSUME Bad # {}
               PROVE  FALSE
    OBVIOUS
  <2>1. Bad \in SUBSET Nat
    BY <1>2
  <2>2. PICK k \in Bad : \A y \in Bad : k <= y
    <3> HIDE DEF Bad
    <3> QED
      BY <2>1, Least
  <2>3. k \in 1 .. n /\ k - 1 \in 0 .. n /\ ~(k <= k - 1)
    BY <1>2, <1>10
  <2>4. at[k - 1] = f[k - 1]
    BY <2>2, <2>3
  <2>5. at[k] = f[k]
    BY <2>3, <2>4, <1>4, <1>10
  <2> QED
    BY <2>5
<1> QED
  BY <1>2, <1>5, <1>9, <1>11

(* The finished image gives back the tar: every path leads to an inode of  *)
(* its entry's type, size and data, a hard link to its target's, and no    *)
(* directory holds what the tar did not name (Convert, end to end).        *)
THEOREM TarReadsBack == Spec => []ReadsBack
<1>1. ASSUME IInv
      PROVE  ReadsBack
  <2> SUFFICES ASSUME phase = "done"
               PROVE  ReadsBack
    BY DEF ReadsBack
  <2>1. Tree(node) /\ Aliases /\ Entries
    BY <1>1 DEF IInv
  <2> DEFINE Good(p) ==
          LET n == ReadPath(p) IN
          /\ n # 0 /\ InodeAt(n) \in DOMAIN inodes
          /\ LET i == inodes[InodeAt(n)] IN
             CASE tar[p].kind = "dir" -> i.ftype = "dir"
               [] tar[p].kind \in {"reg", "sym"} ->
                     /\ i.ftype = tar[p].kind
                     /\ i.size = tar[p].size
                     /\ i.size > 0 => [off |-> i.blkaddr * BlockSize, size |-> i.size,
                                       owner |-> p] \in extents
               [] tar[p].kind = "dev" -> i.ftype = "dev"
               [] tar[p].kind = "link" -> n = ReadPath(tar[p].link)
               [] OTHER -> TRUE
  <2>2. ASSUME NEW p \in DOMAIN tar
        PROVE  Good(p)
    <3> DEFINE c == canonical(p)
               i == inodes[InodeAt(nid(c))]
    <3>1. p \in DOMAIN node /\ NodeOf(p, tar[p])
      BY <2>1 DEF Entries
    <3>2. ReadPath(p) = nid(c) /\ c \in Inodes
      BY <3>1, <2>1, <1>1, ReadPathFacts, CanonicalFacts
    <3>3. /\ InodeAt(nid(c)) \in DOMAIN inodes
          /\ i.ftype = node[c].ftype /\ i.size = node[c].size /\ i.blkaddr = node[c].blkaddr
      <4>1. /\ InodeAt(nid(c)) \in DOMAIN inodes
            /\ i = [ftype |-> node[c].ftype, size |-> node[c].size,
                    blkaddr |-> node[c].blkaddr, nlink |-> node[c].nlink]
        BY <3>2, <1>1 DEF IInv, Table
      <4> HIDE DEF i, c
      <4> QED
        BY <4>1
    <3>4. nid(c) # 0
      <4>1. Before(c) \in Nat /\ nid(c) = (1 + Before(c)) * 2
        BY <2>1, NidFacts
      <4> QED
        BY <4>1
    <3>5. node[p].hardTo = NoNode => c = p
      BY DEF canonical
    <3> HIDE DEF c, i
    <3>6. CASE tar[p].kind \in {"dir", "ignored"}
      <4>1. OwnDir(node, p)
        BY <3>1, <3>6 DEF NodeOf
      <4>2. i.ftype = "dir"
        BY <4>1, <3>3, <3>5 DEF OwnDir
      <4> QED
        BY <4>2, <3>2, <3>3, <3>4, <3>6 DEF i
    <3>7. CASE tar[p].kind \in {"reg", "sym"}
      <4>1. node[p].ftype = tar[p].kind /\ node[p].hardTo = NoNode /\ node[p].size = tar[p].size
        BY <3>1, <3>7 DEF NodeOf
      <4>2. /\ i.ftype = tar[p].kind /\ i.size = tar[p].size
            /\ i.blkaddr = node[p].blkaddr /\ i.size = node[p].size
        BY <4>1, <3>3, <3>5
      <4>3. node[p].size > 0 =>
              [off |-> node[p].blkaddr * BlockSize, size |-> node[p].size, owner |-> p] \in extents
        BY <4>1, <3>1, <3>7, <1>1 DEF IInv, Written, DataInPlace
      <4> QED
        BY <4>2, <4>3, <3>2, <3>3, <3>4, <3>7 DEF i
    <3>8. CASE tar[p].kind = "dev"
      <4>1. node[p].ftype = "dev" /\ node[p].hardTo = NoNode
        BY <3>1, <3>8 DEF NodeOf
      <4>2. i.ftype = "dev"
        BY <4>1, <3>3, <3>5
      <4> QED
        BY <4>2, <3>2, <3>3, <3>4, <3>8 DEF i
    <3>9. CASE tar[p].kind = "link"
      <4> DEFINE q == tar[p].link
      <4>1. node[p].hardTo # NoNode /\ q \in DOMAIN tar /\ canonical(q) = node[p].hardTo
        BY <3>1, <3>9 DEF NodeOf
      <4>2. c = canonical(q) /\ q \in DOMAIN node
        BY <4>1, <2>1 DEF Entries, c, canonical
      <4>3. ReadPath(q) = nid(c)
        BY <4>2, <1>1, ReadPathFacts
      <4> QED
        BY <4>3, <3>2, <3>3, <3>4, <3>9
    <3> HIDE DEF Good
    <3>10. tar[p].kind \in {"dir", "ignored", "reg", "sym", "dev", "link"}
      BY <3>1 DEF NodeOf
    <3> QED
      BY <3>6, <3>7, <3>8, <3>9, <3>10
  <2>3. \A p \in DOMAIN node : p # <<>> => \E q \in DOMAIN tar : p \in Ancestors(q)
    BY <2>1 DEF Entries
  <2> QED
    BY <2>2, <2>3 DEF ReadsBack
<1> QED
  BY <1>1, Invariance, PTL

===============================================================================

----------------------------- MODULE ScanProofs -----------------------------
(***************************************************************************)
(* Proofs about internal/scanroot for any committed tree, and about any    *)
(* order of its calls (ScanReads) and their order in run() (ScanPipeline). *)
(***************************************************************************)
EXTENDS ScanReads, ScanPipeline, FiniteSetTheorems, NaturalsInduction, WellFoundedInduction, TLAPS

-----------------------------------------------------------------------------
(* Induction over the natural numbers                                      *)

Before == {pair \in Nat \X Nat : pair[1] < pair[2]}

\* The order of the natural numbers has no infinite descent.
LEMMA BeforeWellFounded == IsWellFoundedOn(Before, Nat)
BY NatLessThanWellFounded, Zenon DEF OpToRel, Before

\* Some number in a set of them is the least.
LEMMA LeastNumber ==
    ASSUME NEW T \in SUBSET Nat, T # {}
    PROVE  \E x \in T : \A y \in T : x <= y
<1>1. \A x, y \in Nat : <<y, x>> \in Before <=> y < x
  BY DEF Before
<1>2. PICK x \in T : \A y \in T : ~ (<<y, x>> \in Before)
  BY BeforeWellFounded, WFMin
<1>3. ASSUME NEW y \in T PROVE x <= y
  <2>1. ~ (y < x)
    BY <1>1, <1>2
  <2> QED
    BY <2>1
<1> QED
  BY <1>3

\* A set that has zero, and the successor of every number it has, has them all.
LEMMA SetInduction ==
    ASSUME NEW T, 0 \in T, \A n \in Nat : n \in T => n + 1 \in T
    PROVE  Nat \subseteq T
<1> SUFFICES ASSUME Nat \ T # {} PROVE FALSE
  OBVIOUS
<1>1. PICK x \in Nat \ T : \A y \in Nat \ T : x <= y
  BY LeastNumber
<1>2. x # 0 /\ x - 1 \in Nat /\ ~ (x <= x - 1)
  BY <1>1
<1>3. x - 1 \in T
  BY <1>1, <1>2
<1> QED
  BY <1>1, <1>2, <1>3
-----------------------------------------------------------------------------
(* The directories above a path                                            *)

\* A directory above a path is a beginning of it, shorter than the path.
LEMMA AboveIsPath ==
    ASSUME ScanRootAssumption, NEW p \in Paths, NEW d \in Ancestors(p)
    PROVE  /\ d \in Paths /\ d \in Seq(STRING) /\ p \in Seq(STRING)
           /\ Len(d) \in Nat /\ Len(p) \in Nat /\ 1 <= Len(d) /\ Len(d) < Len(p)
           /\ d = SubSeq(p, 1, Len(d))
<1>1. p \in Seq(STRING) /\ d \in Paths
  BY DEF ScanRootAssumption
<1>2. PICK i \in 1..(Len(p) - 1) : d = SubSeq(p, 1, i)
  BY DEF Ancestors
<1> QED
  BY <1>1, <1>2

\* Of two directories above a path the shorter one is above the longer one.
LEMMA AboveIsLinear ==
    ASSUME ScanRootAssumption, NEW p \in Paths, NEW d \in Ancestors(p), NEW e \in Ancestors(p)
    PROVE  /\ Len(d) = Len(e) => d = e
           /\ Len(e) < Len(d) => e \in Ancestors(d)
<1>1. Len(d) = Len(e) => d = e
  BY AboveIsPath
<1>2. ASSUME Len(e) < Len(d) PROVE e \in Ancestors(d)
  <2>1. e = SubSeq(p, 1, Len(e)) /\ d = SubSeq(p, 1, Len(d))
    BY AboveIsPath
  <2>2. e = SubSeq(d, 1, Len(e))
    BY <1>2, <2>1, AboveIsPath
  <2>3. Len(e) \in 1..(Len(d) - 1)
    BY <1>2, AboveIsPath
  <2> QED
    BY <2>2, <2>3 DEF Ancestors
<1> QED
  BY <1>1, <1>2

\* What is above a directory above a path is above the path.
LEMMA AboveIsTransitive ==
    ASSUME ScanRootAssumption, NEW p \in Paths, NEW d \in Ancestors(p), NEW e \in Ancestors(d)
    PROVE  e \in Ancestors(p)
<1>1. d \in Paths /\ d = SubSeq(p, 1, Len(d)) /\ p \in Seq(STRING) /\ Len(d) < Len(p)
  BY AboveIsPath
<1>2. e = SubSeq(d, 1, Len(e)) /\ Len(e) < Len(d) /\ 1 <= Len(e) /\ Len(e) \in Nat /\ Len(d) \in Nat
  BY <1>1, AboveIsPath
<1>3. e = SubSeq(p, 1, Len(e))
  BY <1>1, <1>2
<1>4. Len(e) \in 1..(Len(p) - 1)
  BY <1>1, <1>2
<1> QED
  BY <1>3, <1>4 DEF Ancestors

\* Among directories above a path there is a shortest one and a longest one.
LEMMA ExtremeAbove ==
    ASSUME ScanRootAssumption, NEW p \in Paths, NEW S \in SUBSET Ancestors(p), S # {}
    PROVE  /\ \E d \in S : \A e \in S : Len(d) <= Len(e)
           /\ \E d \in S : \A e \in S : Len(e) <= Len(d)
<1>0. Len(p) \in Nat /\ \A d \in S : Len(d) \in Nat /\ Len(d) < Len(p)
  BY AboveIsPath
<1>1. \E d \in S : \A e \in S : Len(d) <= Len(e)
  <2> DEFINE T == {Len(d) : d \in S}
  <2>1. T \in SUBSET Nat /\ T # {}
    BY <1>0
  <2>2. PICK x \in T : \A y \in T : x <= y
    BY <2>1, LeastNumber
  <2> QED
    BY <2>2
<1>2. \E d \in S : \A e \in S : Len(e) <= Len(d)
  <2> DEFINE T == {Len(p) - Len(d) : d \in S}
  <2>1. T \in SUBSET Nat /\ T # {}
    BY <1>0
  <2>2. PICK x \in T : \A y \in T : x <= y
    BY <2>1, LeastNumber
  <2>3. PICK d \in S : x = Len(p) - Len(d)
    BY <2>2
  <2>4. \A e \in S : Len(p) - Len(d) <= Len(p) - Len(e)
    BY <2>2, <2>3
  <2> QED
    BY <1>0, <2>4
<1> QED
  BY <1>1, <1>2
-----------------------------------------------------------------------------
(* What a path leads to                                                    *)

TreeFacts == ScanRootAssumption /\ tree \in Trees

\* There is a first obstacle, and nothing stands before it.
LEMMA FirstObstacle ==
    ASSUME TreeFacts, NEW p \in Paths, Obstacles(p) # {}
    PROVE  /\ Obstacle(p) \in Obstacles(p) /\ Obstacle(p) \in Ancestors(p) /\ Obstacle(p) \in Paths
           /\ \A e \in Obstacles(p) : Len(Obstacle(p)) <= Len(e)
           /\ tree[Obstacle(p)] \notin {"dir", "unlistable"}
           /\ Obstacles(Obstacle(p)) = {}
<1>0. ScanRootAssumption
  BY DEF TreeFacts
<1>1. Obstacles(p) \in SUBSET Ancestors(p)
  BY DEF Obstacles
<1>2. \E d \in Obstacles(p) : \A e \in Obstacles(p) : Len(d) <= Len(e)
  BY <1>0, <1>1, ExtremeAbove
<1>3. Obstacle(p) \in Obstacles(p) /\ \A e \in Obstacles(p) : Len(Obstacle(p)) <= Len(e)
  BY <1>2 DEF Obstacle
<1>4. Obstacle(p) \in Ancestors(p) /\ tree[Obstacle(p)] \notin {"dir", "unlistable"}
  BY <1>3 DEF Obstacles
<1>5. Obstacle(p) \in Paths
  BY <1>0, <1>4, AboveIsPath
<1>6. ASSUME NEW e \in Obstacles(Obstacle(p)) PROVE FALSE
  <2>1. e \in Ancestors(Obstacle(p)) /\ tree[e] \notin {"dir", "unlistable"}
    BY <1>6 DEF Obstacles
  <2>2. e \in Ancestors(p)
    BY <1>0, <1>4, <2>1, AboveIsTransitive
  <2>3. e \in Obstacles(p)
    BY <2>1, <2>2 DEF Obstacles
  <2>4. Len(e) < Len(Obstacle(p)) /\ Len(e) \in Nat /\ Len(Obstacle(p)) \in Nat
    BY <1>0, <1>5, <2>1, AboveIsPath
  <2> QED
    BY <1>3, <2>3, <2>4
<1> QED
  BY <1>3, <1>4, <1>5, <1>6

\* Every path has a kind, and something is committed below directories only.
LEMMA TreeKinds ==
    ASSUME TreeFacts, NEW p \in Paths
    PROVE  /\ tree[p] \in Kinds
           /\ tree[p] # "none" => \A d \in Ancestors(p) : tree[d] \in Directories
BY DEF TreeFacts, Trees, TreeOK

\* On the way to what is committed only a closed directory is an obstacle.
LEMMA CommittedIsBehindClosed ==
    ASSUME TreeFacts, NEW p \in Paths, tree[p] # "none", Obstacles(p) # {}
    PROVE  tree[Obstacle(p)] = "closed"
BY FirstObstacle, TreeKinds DEF Directories

\* How os.Stat answers for what is committed.
LEMMA ResolveCommitted ==
    ASSUME TreeFacts, NEW p \in Paths, tree[p] # "none"
    PROVE  \/ Resolve(p) = "denied"
           \/ /\ Obstacles(p) = {} /\ Lstat(p)
              /\ Resolve(p) = IF tree[p] = "inside" THEN "file"
                              ELSE IF tree[p] \in {"missing", "gone"} THEN "absent" ELSE tree[p]
<1>1. CASE Obstacles(p) = {}
  BY <1>1 DEF Resolve, Lstat
<1>2. CASE Obstacles(p) # {}
  <2>1. tree[Obstacle(p)] = "closed"
    BY <1>2, CommittedIsBehindClosed
  <2> QED
    BY <1>2, <2>1 DEF Resolve
<1> QED
  BY <1>1, <1>2

\* What stands in the way decides: through a link that leaves or loops there
\* is nothing to read, unless a directory before it is closed.
LEMMA ResolveBehind ==
    ASSUME TreeFacts, NEW p \in Paths, NEW d \in Ancestors(p), tree[d] \in {"outside", "loop", "closed"}
    PROVE  \/ Resolve(p) = "denied"
           \/ Resolve(p) = tree[d] /\ tree[d] # "closed"
<1>0. ScanRootAssumption /\ d \in Paths
  BY AboveIsPath DEF TreeFacts
<1>1. d \in Obstacles(p) /\ Obstacles(p) # {}
  BY DEF Obstacles
<1> DEFINE o == Obstacle(p)
<1>2. /\ o \in Ancestors(p) /\ Len(o) <= Len(d) /\ tree[o] \notin {"dir", "unlistable"}
      /\ o \in Paths
  BY <1>1, FirstObstacle
<1> HIDE DEF o
<1>3. Len(o) \in Nat /\ Len(d) \in Nat
  BY <1>0, <1>2, AboveIsPath
<1>4. CASE Len(o) < Len(d)
  <2>1. o \in Ancestors(d)
    BY <1>0, <1>2, <1>4, AboveIsLinear
  <2>2. tree[o] \in Directories
    BY <1>0, <2>1, TreeKinds
  <2>3. tree[o] = "closed"
    BY <1>2, <2>2 DEF Directories
  <2> QED
    BY <1>1, <2>3 DEF Resolve, o
<1>5. CASE Len(o) = Len(d)
  <2>1. o = d
    BY <1>0, <1>2, <1>5, AboveIsLinear
  <2> QED
    BY <1>1, <2>1 DEF Resolve, o
<1> QED
  BY <1>2, <1>3, <1>4, <1>5

\* What leads outside has the link on the way.
LEMMA OutsideHasLink ==
    ASSUME TreeFacts, NEW p \in Paths, Resolve(p) = "outside"
    PROVE  \E d \in Ancestors(p) \cup {p} : tree[d] = "outside"
<1>1. CASE Obstacles(p) = {}
  BY <1>1 DEF Resolve
<1>2. CASE Obstacles(p) # {}
  <2>1. tree[Obstacle(p)] = "outside"
    BY <1>2 DEF Resolve
  <2> QED
    BY <1>2, <2>1, FirstObstacle
<1> QED
  BY <1>1, <1>2

\* A failure other than absence is recorded at the path or above it.
LEMMA BlockerOnTheWay ==
    ASSUME TreeFacts, NEW p \in Paths, Resolve(p) \in {"denied", "loop", "locked", "unlistable", "closed"}
    PROVE  Blocker(p) = p \/ Blocker(p) \in Ancestors(p)
<1>1. CASE Lstat(p)
  BY <1>1 DEF Blocker
<1>2. CASE ~ Lstat(p)
  <2>1. Obstacles(p) # {}
    BY <1>2 DEF Lstat, Resolve
  <2>2. tree[Obstacle(p)] # "none"
    BY <2>1 DEF Resolve
  <2>3. Obstacle(p) \in Ancestors(p) /\ Lstat(Obstacle(p))
    BY <2>1, <2>2, FirstObstacle DEF Lstat
  <2> DEFINE S == {d \in Ancestors(p) : Lstat(d)}
  <2>4. S \in SUBSET Ancestors(p) /\ S # {}
    BY <2>3
  <2>5. \E d \in S : \A e \in S : Len(e) <= Len(d)
    BY <2>4, ExtremeAbove DEF TreeFacts
  <2>6. \E d \in Ancestors(p) : Lstat(d) /\ \A e \in Ancestors(p) : Lstat(e) => Len(e) <= Len(d)
    BY <2>5
  <2> QED
    BY <1>2, <2>6 DEF Blocker
<1> QED
  BY <1>1, <1>2

\* A committed file is read, refused, not readable, or a link to nothing.
LEMMA CommittedCases ==
    ASSUME TreeFacts, NEW p \in Paths, Committed(p)
    PROVE  \/ Resolve(p) \in {"file", "outside", "denied", "loop", "locked"}
           \/ IsDanglingLink(p)
<1>1. CASE tree[p] \in {"file", "locked"} \cup Links
  BY <1>1, ResolveCommitted DEF Links, IsDanglingLink
<1>2. CASE \E d \in Ancestors(p) : tree[d] \in {"outside", "loop"}
  BY <1>2, ResolveBehind
<1> QED
  BY <1>1, <1>2 DEF Committed
-----------------------------------------------------------------------------
(* Other spellings                                                         *)

\* What the components of p are found as, one after the other.
NextFound(p, n, d) == IF d = NoPath THEN NoPath ELSE Respell(d, p[n])

FoundUpTo(p, m, u) ==
    /\ u = [n \in 0..m |-> u[n]]
    /\ u[0] = <<>>
    /\ \A n \in 1..m : u[n] = NextFound(p, n, u[n - 1])

\* Every number of components has been looked for in turn.
LEMMA AllLookedFor ==
    ASSUME NEW p, NEW m \in Nat
    PROVE  \E u : FoundUpTo(p, m, u)
<1> DEFINE T == {n \in Nat : \E u : FoundUpTo(p, n, u)}
<1>1. 0 \in T
  <2> DEFINE u == [n \in 0..0 |-> <<>>]
  <2>1. FoundUpTo(p, 0, u)
    BY DEF FoundUpTo
  <2> QED
    BY <2>1
<1>2. ASSUME NEW k \in Nat, k \in T PROVE k + 1 \in T
  <2>1. PICK u : FoundUpTo(p, k, u)
    BY <1>2
  <2> DEFINE new == NextFound(p, k + 1, u[k])
             v == [n \in 0..(k + 1) |-> IF n = k + 1 THEN new ELSE u[n]]
  <2> HIDE DEF new
  <2>2. v = [n \in 0..(k + 1) |-> v[n]] /\ v[k + 1] = new /\ \A n \in 0..k : v[n] = u[n]
    OBVIOUS
  <2> HIDE DEF v
  <2>3. v[0] = <<>>
    BY <2>1, <2>2 DEF FoundUpTo
  <2>4. ASSUME NEW n \in 1..(k + 1) PROVE v[n] = NextFound(p, n, v[n - 1])
    <3>1. CASE n = k + 1
      <4>0. n - 1 = k /\ k \in 0..k
        BY <3>1
      <4>1. n - 1 = k /\ v[n - 1] = u[k]
        BY <2>2, <4>0
      <4> QED
        BY <2>2, <3>1, <4>1 DEF new
    <3>2. CASE n # k + 1
      <4>1. n \in 1..k /\ n \in 0..k /\ n - 1 \in 0..k
        BY <3>2
      <4>2. v[n] = u[n] /\ v[n - 1] = u[n - 1]
        BY <2>2, <4>1
      <4> QED
        BY <2>1, <4>1, <4>2 DEF FoundUpTo
    <3> QED
      BY <3>1, <3>2
  <2>5. FoundUpTo(p, k + 1, v)
    BY <2>2, <2>3, <2>4 DEF FoundUpTo
  <2> QED
    BY <2>5
<1> HIDE DEF T
<1>3. m \in T
  BY <1>1, <1>2, SetInduction
<1> QED
  BY <1>3 DEF T

\* resolveComponents ends with what the last component is found as.
LEMMA ResolveComponentsDef ==
    ASSUME ScanRootAssumption, NEW p \in Paths
    PROVE  \E u : FoundUpTo(p, Len(p), u) /\ ResolveComponents(p) = u[Len(p)]
<1> DEFINE Body(u) == [i \in 0..Len(p) |->
                         IF i = 0 THEN <<>> ELSE NextFound(p, i, u[i - 1])]
           U == CHOOSE u : u = Body(u)
<1>1. Len(p) \in Nat
  BY DEF ScanRootAssumption
<1>2. PICK u : FoundUpTo(p, Len(p), u)
  BY <1>1, AllLookedFor
<1>3. u = Body(u)
  <2>1. \A n \in 1..Len(p) : u[n] = NextFound(p, n, u[n - 1])
    BY <1>2 DEF FoundUpTo
  <2>2. u[0] = <<>> /\ u = [n \in 0..Len(p) |-> u[n]]
    BY <1>2 DEF FoundUpTo
  <2>3. ASSUME NEW n \in 0..Len(p)
        PROVE  u[n] = IF n = 0 THEN <<>> ELSE NextFound(p, n, u[n - 1])
    <3>1. CASE n = 0
      BY <2>2, <3>1
    <3>2. CASE n # 0
      <4>1. n \in 1..Len(p)
        BY <1>1, <3>2
      <4>2. u[n] = NextFound(p, n, u[n - 1])
        BY <2>1, <4>1
      <4> QED
        BY <3>2, <4>2
    <3> QED
      BY <3>1, <3>2
  <2> QED
    BY <2>2, <2>3
<1>4. U = Body(U)
  BY <1>3
<1>5. ResolveComponents(p) = U[Len(p)]
  BY DEF ResolveComponents, NextFound
<1> HIDE DEF U
<1>6. FoundUpTo(p, Len(p), U)
  <2>1. U[0] = <<>> /\ \A n \in 1..Len(p) : U[n] = NextFound(p, n, U[n - 1])
    BY <1>1, <1>4
  <2>2. U = [n \in 0..Len(p) |-> U[n]]
    BY <1>4
  <2> QED
    BY <2>1, <2>2 DEF FoundUpTo
<1> QED
  BY <1>5, <1>6

\* The entries next to each other in d that ignoring case makes equal to name.
SameName(d, name) ==
    {x \in Paths : /\ tree[x] # "none" /\ Len(x) = Len(d) + 1
                   /\ SubSeq(x, 1, Len(d)) = d /\ Fold[x[Len(x)]] = Fold[name]}

\* A path with one more name begins with the path.
LEMMA OneLonger ==
    ASSUME NEW S, NEW d \in Seq(S), NEW name \in S
    PROVE  /\ Len(Append(d, name)) = Len(d) + 1
           /\ SubSeq(Append(d, name), 1, Len(d)) = d
           /\ Append(d, name)[Len(d) + 1] = name
<1>1. Append(d, name) \in Seq(S) /\ Len(Append(d, name)) = Len(d) + 1 /\ Append(d, name)[Len(d) + 1] = name
  OBVIOUS
<1>2. \A i \in 1..Len(d) : SubSeq(Append(d, name), 1, Len(d))[i] = d[i]
  OBVIOUS
<1>3. SubSeq(Append(d, name), 1, Len(d)) \in Seq(S) /\ Len(SubSeq(Append(d, name), 1, Len(d))) = Len(d)
  BY <1>1
<1> QED
  BY <1>1, <1>2, <1>3

\* A component is found as itself or as its only other spelling.
LEMMA RespellCases ==
    ASSUME TreeFacts, NEW d \in Paths \cup {<<>>}, NEW name \in STRING, Respell(d, name) # NoPath
    PROVE  /\ Respell(d, name) \in Paths /\ Lstat(Respell(d, name))
           /\ Len(Respell(d, name)) = Len(d) + 1
           /\ SubSeq(Respell(d, name), 1, Len(d)) = d
           /\ \/ Respell(d, name)[Len(d) + 1] = name
              \/ SameName(d, name) = {Respell(d, name)}
<1> DEFINE r == Respell(d, name)
           same == {p \in Listed(d) : Fold[Last(p)] = Fold[name]}
<1>0. IsFiniteSet(Paths) /\ \A p \in Paths : p \in Seq(STRING)
  BY DEF TreeFacts, ScanRootAssumption
<1>3. d \in Seq(STRING) /\ Len(d) \in Nat
  <2>1. CASE d = <<>>
    BY <2>1
  <2>2. CASE d \in Paths
    BY <1>0, <2>2
  <2> QED
    BY <2>1, <2>2
<1>1. CASE Append(d, name) \in Paths /\ Lstat(Append(d, name))
  <2>1. r = Append(d, name)
    BY <1>1 DEF Respell
  <2>2. Len(Append(d, name)) = Len(d) + 1 /\ SubSeq(Append(d, name), 1, Len(d)) = d
        /\ Append(d, name)[Len(d) + 1] = name
    BY <1>3, OneLonger
  <2> QED
    BY <1>1, <2>1, <2>2
<1>2. CASE ~ (Append(d, name) \in Paths /\ Lstat(Append(d, name)))
  <2>1. Cardinality(same) = 1 /\ r = CHOOSE p \in same : TRUE
    BY <1>2 DEF Respell
  <2>2. same \subseteq Paths
    BY DEF Listed
  <2>3. IsFiniteSet(same)
    BY <1>0, <2>2, FS_Subset
  <2>4. PICK x : same = {x}
    BY <2>1, <2>3, FS_Singleton
  <2>5. r = x /\ x \in Listed(d)
    BY <2>1, <2>4
  <2>6. /\ d = <<>> \/ Resolve(d) = "dir"
        /\ Listed(d) = {p \in Paths : Len(p) = Len(d) + 1 /\ SubSeq(p, 1, Len(d)) = d /\ tree[p] # "none"}
    BY <2>5 DEF Listed
  <2>7. x \in Paths /\ Len(x) = Len(d) + 1 /\ SubSeq(x, 1, Len(d)) = d /\ tree[x] # "none"
    BY <2>5, <2>6
  <2>8. SameName(d, name) = same
    <3>1. \A p \in Paths : Last(p) = p[Len(p)]
      BY DEF Last
    <3> QED
      BY <2>6, <3>1 DEF SameName
  <2>9. Obstacles(x) = {}
    <3> SUFFICES ASSUME NEW e \in Obstacles(x) PROVE FALSE
      OBVIOUS
    <3>1. e \in Ancestors(x) /\ tree[e] \notin {"dir", "unlistable"}
      BY DEF Obstacles
    <3>2. e = SubSeq(x, 1, Len(e)) /\ Len(e) \in 1..Len(d)
      BY <1>3, <2>7, <3>1, AboveIsPath DEF TreeFacts
    <3>3. d # <<>> /\ d \in Paths
      BY <3>2
    <3>4. Resolve(d) = "dir"
      BY <2>6, <3>3
    <3>5. Obstacles(d) = {} /\ tree[d] = "dir"
      BY <3>4 DEF Resolve
    <3>6. CASE Len(e) = Len(d)
      BY <2>7, <3>1, <3>2, <3>5, <3>6
    <3>7. CASE Len(e) # Len(d)
      <4>0. Len(e) \in 1..(Len(d) - 1)
        BY <1>3, <3>2, <3>7
      <4>1. x \in Seq(STRING) /\ Len(e) \in 1..(Len(d) - 1)
        BY <1>0, <2>7, <4>0
      <4>2. e = SubSeq(d, 1, Len(e))
        BY <1>3, <2>7, <3>2, <4>1
      <4>3. e \in Obstacles(d)
        BY <3>1, <4>1, <4>2 DEF Obstacles, Ancestors
      <4> QED
        BY <3>5, <4>3
    <3> QED
      BY <3>6, <3>7
  <2> QED
    BY <2>4, <2>5, <2>7, <2>8, <2>9 DEF Lstat
<1> QED
  BY <1>1, <1>2

\* The beginning of a beginning.
LEMMA ShorterBeginning ==
    ASSUME NEW S, NEW f \in Seq(S), NEW i \in 1..Len(f)
    PROVE  SubSeq(SubSeq(f, 1, i), 1, i - 1) = SubSeq(f, 1, i - 1)
OBVIOUS

\* Component i of p is found in the directory the ones before it led to.
FoundAt(p, u, i) ==
    /\ u[i] \in Paths /\ Lstat(u[i]) /\ Len(u[i]) = i
    /\ SubSeq(u[i], 1, i - 1) = u[i - 1]
    /\ u[i][i] = p[i] \/ SameName(u[i - 1], p[i]) = {u[i]}

\* When the last component is found all of them are.
LEMMA EveryComponentFound ==
    ASSUME TreeFacts, NEW p \in Paths, NEW u, FoundUpTo(p, Len(p), u), u[Len(p)] # NoPath
    PROVE  \A i \in 1..Len(p) : FoundAt(p, u, i)
<1>0. p \in Seq(STRING) /\ Len(p) \in Nat
  BY DEF TreeFacts, ScanRootAssumption
<1>1. \A i \in 0..Len(p) : u[i] # NoPath
  <2> DEFINE T == {k \in Nat : k <= Len(p) => u[Len(p) - k] # NoPath}
  <2>1. 0 \in T
    BY <1>0
  <2>2. ASSUME NEW k \in Nat, k \in T PROVE k + 1 \in T
    <3>1. CASE k + 1 <= Len(p)
      <4>1. Len(p) - k \in 1..Len(p) /\ (Len(p) - k) - 1 = Len(p) - (k + 1)
        BY <1>0, <3>1
      <4>2. u[Len(p) - k] # NoPath
        BY <1>0, <2>2, <3>1
      <4>3. u[Len(p) - k] = NextFound(p, Len(p) - k, u[Len(p) - (k + 1)])
        BY <4>1 DEF FoundUpTo
      <4>4. u[Len(p) - (k + 1)] # NoPath
        BY <4>2, <4>3 DEF NextFound
      <4> QED
        BY <4>4
    <3>2. CASE ~ (k + 1 <= Len(p))
      BY <3>2
    <3> QED
      BY <3>1, <3>2
  <2> HIDE DEF T
  <2>3. Nat \subseteq T
    BY <2>1, <2>2, SetInduction
  <2> SUFFICES ASSUME NEW i \in 0..Len(p) PROVE u[i] # NoPath
    OBVIOUS
  <2>4. Len(p) - i \in Nat /\ Len(p) - i <= Len(p) /\ Len(p) - (Len(p) - i) = i
    BY <1>0
  <2>5. Len(p) - i \in T
    BY <2>3, <2>4
  <2> QED
    BY <2>4, <2>5 DEF T
<1>2. ASSUME NEW i \in 1..Len(p), u[i - 1] \in Paths \cup {<<>>}, Len(u[i - 1]) = i - 1
      PROVE  FoundAt(p, u, i)
  <2>1. u[i] # NoPath /\ u[i - 1] # NoPath
    <3>1. i \in 0..Len(p) /\ i - 1 \in 0..Len(p)
      BY <1>0
    <3> QED
      BY <1>1, <3>1
  <2>2. u[i] = Respell(u[i - 1], p[i])
    BY <2>1 DEF FoundUpTo, NextFound
  <2>3. p[i] \in STRING
    BY <1>0
  <2> DEFINE d == u[i - 1]
  <2>4. d \in Paths \cup {<<>>} /\ Len(d) = i - 1 /\ i - 1 + 1 = i /\ Respell(d, p[i]) # NoPath
    BY <1>0, <1>2, <2>1, <2>2
  <2> HIDE DEF d
  <2>5. /\ u[i] \in Paths /\ Lstat(u[i]) /\ Len(u[i]) = Len(d) + 1
        /\ SubSeq(u[i], 1, Len(d)) = d
        /\ u[i][Len(d) + 1] = p[i] \/ SameName(d, p[i]) = {u[i]}
    BY <2>2, <2>3, <2>4, RespellCases DEF d
  <2> QED
    BY <2>4, <2>5 DEF FoundAt, d
<1>3. \A i \in 1..Len(p) : FoundAt(p, u, i)
  <2> DEFINE T == {k \in Nat : k <= Len(p) => u[k] \in Paths \cup {<<>>} /\ Len(u[k]) = k}
  <2>1. 0 \in T
    BY DEF FoundUpTo
  <2>2. ASSUME NEW k \in Nat, k \in T PROVE k + 1 \in T
    <3>1. CASE k + 1 <= Len(p)
      <4>1. k + 1 \in 1..Len(p) /\ (k + 1) - 1 = k
        BY <1>0, <3>1
      <4>2. u[k] \in Paths \cup {<<>>} /\ Len(u[k]) = k
        BY <1>0, <2>2, <3>1
      <4>3. FoundAt(p, u, k + 1)
        BY <1>2, <4>1, <4>2
      <4> QED
        BY <4>3 DEF FoundAt
    <3>2. CASE ~ (k + 1 <= Len(p))
      BY <3>2
    <3> QED
      BY <3>1, <3>2
  <2> HIDE DEF T
  <2>3. Nat \subseteq T
    BY <2>1, <2>2, SetInduction
  <2> SUFFICES ASSUME NEW i \in 1..Len(p) PROVE FoundAt(p, u, i)
    OBVIOUS
  <2>4. i - 1 \in T /\ i - 1 <= Len(p)
    BY <1>0, <2>3
  <2>5. u[i - 1] \in Paths \cup {<<>>} /\ Len(u[i - 1]) = i - 1
    BY <2>4 DEF T
  <2> QED
    BY <1>2, <2>5
<1> QED
  BY <1>3

\* The last component's path begins with the paths of the ones before it.
LEMMA FoundIsPrefix ==
    ASSUME TreeFacts, NEW p \in Paths, NEW u, FoundUpTo(p, Len(p), u), u[Len(p)] # NoPath
    PROVE  \A i \in 0..Len(p) : SubSeq(u[Len(p)], 1, i) = u[i]
<1> DEFINE f == u[Len(p)]
           T == {k \in Nat : k <= Len(p) => SubSeq(f, 1, Len(p) - k) = u[Len(p) - k]}
<1>0. p \in Seq(STRING) /\ Len(p) \in Nat /\ 1 <= Len(p)
  <2>1. p \in Seq(STRING) /\ p # <<>>
    BY DEF TreeFacts, ScanRootAssumption
  <2> QED
    BY <2>1
<1>1. \A i \in 1..Len(p) : FoundAt(p, u, i)
  BY EveryComponentFound
<1>2. f \in Seq(STRING) /\ Len(f) = Len(p)
  <2>1. Len(p) \in 1..Len(p)
    BY <1>0
  <2>2. f \in Paths /\ Len(f) = Len(p)
    BY <1>1, <2>1 DEF FoundAt
  <2> QED
    BY <2>2 DEF TreeFacts, ScanRootAssumption
<1> HIDE DEF f
<1>3. 0 \in T
  <2>1. SubSeq(f, 1, Len(f)) = f
    BY <1>2
  <2> QED
    BY <1>0, <1>2, <2>1 DEF f
<1>4. ASSUME NEW k \in Nat, k \in T PROVE k + 1 \in T
  <2>1. CASE k + 1 <= Len(p)
    <3> DEFINE i == Len(p) - k
    <3>1. i \in 1..Len(p) /\ i - 1 = Len(p) - (k + 1)
      BY <1>0, <2>1
    <3>2. SubSeq(f, 1, i) = u[i]
      BY <1>0, <1>4, <2>1
    <3> HIDE DEF i
    <3>3. SubSeq(u[i], 1, i - 1) = u[i - 1]
      BY <1>1, <3>1 DEF FoundAt
    <3>4. SubSeq(SubSeq(f, 1, i), 1, i - 1) = SubSeq(f, 1, i - 1)
      BY <1>0, <1>2, <3>1, ShorterBeginning
    <3>5. SubSeq(f, 1, i - 1) = u[i - 1]
      BY <3>2, <3>3, <3>4
    <3> QED
      BY <3>1, <3>5
  <2>2. CASE ~ (k + 1 <= Len(p))
    BY <2>2
  <2> QED
    BY <2>1, <2>2
<1> HIDE DEF T
<1>5. Nat \subseteq T
  BY <1>3, <1>4, SetInduction
<1> SUFFICES ASSUME NEW i \in 0..Len(p) PROVE SubSeq(f, 1, i) = u[i]
  BY DEF f
<1>6. Len(p) - i \in Nat /\ Len(p) - i <= Len(p) /\ Len(p) - (Len(p) - i) = i
  BY <1>0
<1> QED
  BY <1>5, <1>6 DEF T

\* The path that is read is one of the tree.
LEMMA CaseResolveIsPath ==
    ASSUME TreeFacts, NEW p \in Paths
    PROVE  CaseResolve(p) \in Paths
<1>1. CASE ResolveComponents(p) # NoPath
  <2>1. PICK u : FoundUpTo(p, Len(p), u) /\ ResolveComponents(p) = u[Len(p)]
    BY ResolveComponentsDef DEF TreeFacts
  <2>2. \A i \in 1..Len(p) : FoundAt(p, u, i)
    BY <1>1, <2>1, EveryComponentFound
  <2>3. Len(p) \in 1..Len(p)
    <3>1. p \in Seq(STRING) /\ p # <<>>
      BY DEF TreeFacts, ScanRootAssumption
    <3> QED
      BY <3>1
  <2> QED
    BY <2>1, <2>2, <2>3 DEF CaseResolve, FoundAt
<1>2. CASE ResolveComponents(p) = NoPath
  BY <1>2 DEF CaseResolve
<1> QED
  BY <1>1, <1>2

\* found is the only path that asked is spelled like, and asked is not there.
OnlySpelling(asked, found) ==
    /\ ~ Lstat(asked) /\ Lstat(found) /\ Len(asked) = Len(found)
    /\ \A i \in 1..Len(asked) : asked[i] # found[i] =>
          {p \in Paths : /\ tree[p] # "none" /\ Len(p) = i
                         /\ SubSeq(p, 1, i - 1) = SubSeq(found, 1, i - 1)
                         /\ Fold[p[i]] = Fold[asked[i]]}
            = {SubSeq(found, 1, i)}

\* A path that is read under another spelling has only that one.
LEMMA OtherSpelling ==
    ASSUME TreeFacts, NEW p \in Paths, CaseResolve(p) # p
    PROVE  OnlySpelling(p, CaseResolve(p))
<1>1. LstatAbsent(p) /\ ResolveComponents(p) # NoPath /\ CaseResolve(p) = ResolveComponents(p)
  BY DEF CaseResolve
<1>2. PICK u : FoundUpTo(p, Len(p), u) /\ ResolveComponents(p) = u[Len(p)]
  BY ResolveComponentsDef DEF TreeFacts
<1> DEFINE f == u[Len(p)]
<1>3. \A i \in 1..Len(p) : FoundAt(p, u, i)
  BY <1>1, <1>2, EveryComponentFound
<1>4. \A i \in 0..Len(p) : SubSeq(f, 1, i) = u[i]
  BY <1>1, <1>2, FoundIsPrefix
<1>5. p \in Seq(STRING) /\ Len(p) \in Nat /\ Len(p) \in 1..Len(p)
  <2>1. p \in Seq(STRING) /\ p # <<>>
    BY DEF TreeFacts, ScanRootAssumption
  <2> QED
    BY <2>1
<1>6. f \in Paths /\ Lstat(f) /\ Len(f) = Len(p)
  BY <1>3, <1>5 DEF FoundAt
<1>7. f \in Seq(STRING)
  BY <1>6 DEF TreeFacts, ScanRootAssumption
<1> HIDE DEF f
<1>8. ASSUME NEW i \in 1..Len(p), p[i] # f[i]
      PROVE  {x \in Paths : /\ tree[x] # "none" /\ Len(x) = i
                            /\ SubSeq(x, 1, i - 1) = SubSeq(f, 1, i - 1)
                            /\ Fold[x[i]] = Fold[p[i]]}
               = {SubSeq(f, 1, i)}
  <2>1. i \in 0..Len(p) /\ i - 1 \in 0..Len(p) /\ (i - 1) + 1 = i
    BY <1>5
  <2>2. SubSeq(f, 1, i) = u[i] /\ SubSeq(f, 1, i - 1) = u[i - 1]
    BY <1>4, <2>1
  <2>3. f[i] = u[i][i]
    <3>1. i \in 1..Len(f)
      BY <1>6
    <3>2. SubSeq(f, 1, i)[i] = f[i]
      BY <1>7, <3>1
    <3> QED
      BY <2>2, <3>2
  <2>4. SameName(u[i - 1], p[i]) = {u[i]}
    BY <1>3, <1>8, <2>3 DEF FoundAt
  <2>5. Len(u[i - 1]) = i - 1
    BY <1>6, <1>7, <2>1, <2>2
  <2>6. SameName(u[i - 1], p[i]) =
          {x \in Paths : /\ tree[x] # "none" /\ Len(x) = i
                         /\ SubSeq(x, 1, i - 1) = u[i - 1]
                         /\ Fold[x[i]] = Fold[p[i]]}
    BY <2>1, <2>5 DEF SameName
  <2> QED
    BY <2>2, <2>4, <2>6
<1>9. ~ Lstat(p)
  BY <1>1 DEF LstatAbsent
<1> QED
  BY <1>1, <1>2, <1>6, <1>8, <1>9 DEF OnlySpelling, f
-----------------------------------------------------------------------------
(* The records                                                             *)

\* A link is recorded once: by the walk for its text, or by a read that it
\* led outside.
EscapesOK ==
    /\ \A e \in escapes : e \in [path : Paths, link : {e.link}, walked : BOOLEAN]
    /\ \A e, f \in escapes : e.path = f.path => e = f
    /\ \A e \in escapes : e.walked => e.path \in Walked /\ LinkLeaves(e.path)
    /\ \A e \in escapes : ~ e.walked => Resolve(e.path) = "outside"

Refused(q) == \E e \in escapes : e.path = q /\ ~ e.walked

\* The call op has left its record of q.
Recorded(op, q) ==
    /\ op \in {"ReadFile", "Open"} /\ Resolve(q) = "outside" => Refused(q)
    /\ NotRead(op, q) => Blocker(q) \in failed
    /\ op = "ReadFile" /\ IsDanglingLink(q) => q \in dangling

\* Every answer has its record, and every refusal and alias its answer.
ReadsInv ==
    /\ tree \in Trees
    /\ EscapesOK
    /\ \A a \in answers :
          /\ a[1] \in Operations /\ a[2] \in Asked
          /\ a[3] = Answer(a[1], CaseResolve(a[2]))
          /\ Recorded(a[1], CaseResolve(a[2]))
    /\ \A e \in escapes : ~ e.walked =>
          \E a \in answers : a[1] \in {"ReadFile", "Open"} /\ CaseResolve(a[2]) = e.path
    /\ \A a \in aliases :
          /\ a[1] \in Asked /\ a[2] = CaseResolve(a[1]) /\ a[1] # a[2]

\* The tree does not change, and so neither does what is found in it.
LEMMA TreeStays ==
    ASSUME UNCHANGED tree
    PROVE  /\ \A p : Resolve(p)' = Resolve(p)
           /\ \A p : CaseResolve(p)' = CaseResolve(p)
           /\ \A p : Blocker(p)' = Blocker(p)
           /\ \A p : IsDanglingLink(p)' = IsDanglingLink(p)
           /\ \A op, p : NotRead(op, p)' = NotRead(op, p)
           /\ \A op, p : Answer(op, p)' = Answer(op, p)
           /\ \A p : LinkLeaves(p)' = LinkLeaves(p)
           /\ Walked' = Walked
           /\ (tree \in Trees)' = (tree \in Trees)
<1>1. \A p : Resolve(p)' = Resolve(p)
  BY DEF Resolve, Obstacle, Obstacles
<1>2. \A p : CaseResolve(p)' = CaseResolve(p)
  BY DEF CaseResolve, ResolveComponents, LstatAbsent, Respell, Listed, Lstat, Resolve, Obstacle, Obstacles
<1>3. \A p : Blocker(p)' = Blocker(p)
  BY DEF Blocker, Lstat, Obstacle, Obstacles
<1>4. \A p : IsDanglingLink(p)' = IsDanglingLink(p)
  BY DEF IsDanglingLink, Lstat, Resolve, Obstacle, Obstacles
<1>5. \A op, p : NotRead(op, p)' = NotRead(op, p)
  BY DEF NotRead, Resolve, Obstacle, Obstacles
<1>6. \A op, p : Answer(op, p)' = Answer(op, p)
  BY DEF Answer, Resolve, Obstacle, Obstacles
<1>7. \A p : LinkLeaves(p)' = LinkLeaves(p)
  BY DEF LinkLeaves
<1>8. Walked' = Walked /\ (tree \in Trees)' = (tree \in Trees)
  BY DEF Walked
<1> QED
  BY <1>1, <1>2, <1>3, <1>4, <1>5, <1>6, <1>7, <1>8

\* A path asked for again is answered the same.
LEMMA AnswerStays ==
    ASSUME UNCHANGED tree
    PROVE  \A op, p : Answer(op, CaseResolve(p))' = Answer(op, CaseResolve(p))
<1> SUFFICES ASSUME NEW op, NEW p PROVE Answer(op, CaseResolve(p))' = Answer(op, CaseResolve(p))
  OBVIOUS
<1>1. PICK q : q = CaseResolve(p)
  OBVIOUS
<1>2. CaseResolve(p)' = q /\ Answer(op, q)' = Answer(op, q)
  BY <1>1, TreeStays
<1> QED
  BY <1>1, <1>2

\* Nothing that is recorded is forgotten, and a refusal stays one.
Grows ==
    /\ \A q : Refused(q) => Refused(q)'
    /\ \A e \in escapes : \E f \in escapes' : f.path = e.path
    /\ failed \subseteq failed' /\ dangling \subseteq dangling'

\* check records the path if it leads outside, and nothing else.
LEMMA CheckStep ==
    ASSUME TreeFacts, EscapesOK, UNCHANGED tree, NEW q \in Paths, Check(q)
    PROVE  /\ EscapesOK'
           /\ \A p : Refused(p) => Refused(p)'
           /\ \A e \in escapes : \E f \in escapes' : f.path = e.path
           /\ Resolve(q) = "outside" => Refused(q)'
           /\ \A p : Refused(p)' => Refused(p) \/ (p = q /\ Resolve(q) = "outside")
<1>1. CASE Resolve(q) # "outside"
  <2>1. escapes' = escapes
    BY <1>1 DEF Check
  <2> QED
    BY <1>1, <2>1, TreeStays DEF EscapesOK, Refused
<1>2. CASE Resolve(q) = "outside" /\ \E e \in escapes : e.path = q
  <2> DEFINE New(e) == IF e.path = q THEN [e EXCEPT !.walked = FALSE] ELSE e
  <2>1. escapes' = {New(e) : e \in escapes}
    BY <1>2 DEF Check
  <2>2. \A e \in escapes :
           /\ New(e) \in [path : Paths, link : {New(e).link}, walked : BOOLEAN]
           /\ New(e).path = e.path
           /\ New(e).walked <=> e.walked /\ e.path # q
    BY DEF EscapesOK
  <2> HIDE DEF New
  <2>3. EscapesOK'
    <3>1. \A e \in escapes' : e \in [path : Paths, link : {e.link}, walked : BOOLEAN]
      BY <2>1, <2>2
    <3>2. \A e, f \in escapes' : e.path = f.path => e = f
      BY <2>1, <2>2 DEF EscapesOK
    <3>3. \A e \in escapes' : e.walked => e.path \in Walked /\ LinkLeaves(e.path)
      BY <2>1, <2>2 DEF EscapesOK
    <3>4. \A e \in escapes' : ~ e.walked => Resolve(e.path) = "outside"
      BY <1>2, <2>1, <2>2 DEF EscapesOK
    <3> QED
      BY <3>1, <3>2, <3>3, <3>4, TreeStays DEF EscapesOK
  <2> QED
    BY <1>2, <2>1, <2>2, <2>3 DEF Refused
<1>3. CASE Resolve(q) = "outside" /\ ~ \E e \in escapes : e.path = q
  <2> DEFINE new == [path |-> q, link |-> FirstLink(q), walked |-> FALSE]
  <2>1. escapes' = escapes \cup {new}
    BY <1>3 DEF Check
  <2>2. new.path = q /\ new.walked = FALSE /\ new \in [path : Paths, link : {new.link}, walked : BOOLEAN]
    OBVIOUS
  <2> HIDE DEF new
  <2>3. EscapesOK'
    BY <1>3, <2>1, <2>2, TreeStays DEF EscapesOK
  <2> QED
    BY <1>3, <2>1, <2>2, <2>3 DEF Refused
<1> QED
  BY <1>1, <1>2, <1>3

\* The walk records tracked links by their text and refuses nothing.
LEMMA WalkStep ==
    ASSUME TreeFacts, EscapesOK, UNCHANGED tree, Walk(Tracked)
    PROVE  /\ EscapesOK' /\ Grows
           /\ \A p : Refused(p)' => Refused(p)
           /\ \A p \in Walked \cap Tracked : LinkLeaves(p) => \E e \in escapes' : e.path = p
<1> DEFINE S == {q \in Walked \cap Tracked : LinkLeaves(q) /\ \A e \in escapes : e.path # q}
           New(p) == [path |-> p, link |-> LinkText[p], walked |-> TRUE]
<1>1. escapes' = escapes \cup {New(p) : p \in S}
  BY DEF Walk, WalkedLinks
<1>2. \A p \in S : /\ p \in Paths /\ p \in Walked /\ LinkLeaves(p) /\ \A e \in escapes : e.path # p
                   /\ New(p).path = p /\ New(p).walked = TRUE
                   /\ New(p) \in [path : Paths, link : {New(p).link}, walked : BOOLEAN]
  BY DEF Walked
<1> HIDE DEF New
<1>3. EscapesOK'
  <2>1. \A e \in escapes' : e \in [path : Paths, link : {e.link}, walked : BOOLEAN]
    BY <1>1, <1>2 DEF EscapesOK
  <2>2. \A e, f \in escapes' : e.path = f.path => e = f
    BY <1>1, <1>2 DEF EscapesOK
  <2>3. \A e \in escapes' : e.walked => e.path \in Walked /\ LinkLeaves(e.path)
    BY <1>1, <1>2 DEF EscapesOK
  <2>4. \A e \in escapes' : ~ e.walked => Resolve(e.path) = "outside"
    BY <1>1, <1>2 DEF EscapesOK
  <2> QED
    BY <2>1, <2>2, <2>3, <2>4, TreeStays DEF EscapesOK
<1>4. Grows
  BY <1>1 DEF Grows, Refused, Walk
<1>5. \A p : Refused(p)' => Refused(p)
  BY <1>1, <1>2 DEF Refused
<1>6. ASSUME NEW p \in Walked \cap Tracked, LinkLeaves(p) PROVE \E e \in escapes' : e.path = p
  <2>1. CASE p \in S
    BY <1>1, <1>2, <2>1
  <2>2. CASE p \notin S
    BY <1>1, <1>6, <2>2
  <2> QED
    BY <2>1, <2>2
<1> QED
  BY <1>3, <1>4, <1>5, <1>6

\* One call leaves the record of what it found.
LEMMA CallStep ==
    ASSUME TreeFacts, EscapesOK, UNCHANGED tree, NEW op, NEW p \in Paths, Call(op, p)
    PROVE  /\ EscapesOK' /\ Grows
           /\ Recorded(op, CaseResolve(p))'
           /\ \A q : Refused(q)' =>
                \/ Refused(q)
                \/ op \in {"ReadFile", "Open"} /\ q = CaseResolve(p)
<1>1. PICK q \in Paths : q = CaseResolve(p)
  BY CaseResolveIsPath
<1>2. /\ IF op \in {"ReadFile", "Open"} THEN Check(q) ELSE UNCHANGED escapes
      /\ IF NotRead(op, q) THEN RecordFailure(q) ELSE UNCHANGED failed
      /\ dangling' = IF op = "ReadFile" /\ IsDanglingLink(q) THEN dangling \cup {q} ELSE dangling
  BY <1>1 DEF Call
<1>3. CaseResolve(p)' = q
  BY <1>1, TreeStays
<1>4. failed \subseteq failed' /\ dangling \subseteq dangling'
      /\ (NotRead(op, q) => Blocker(q) \in failed')
      /\ (op = "ReadFile" /\ IsDanglingLink(q) => q \in dangling')
  BY <1>2 DEF RecordFailure
<1>5. CASE op \in {"ReadFile", "Open"}
  <2>1. Check(q)
    BY <1>2, <1>5
  <2>2. /\ EscapesOK'
        /\ \A x : Refused(x) => Refused(x)'
        /\ \A e \in escapes : \E f \in escapes' : f.path = e.path
        /\ Resolve(q) = "outside" => Refused(q)'
        /\ \A x : Refused(x)' => Refused(x) \/ (x = q /\ Resolve(q) = "outside")
    BY <1>1, <2>1, CheckStep
  <2>3. Recorded(op, q)'
    BY <1>4, <2>2, TreeStays DEF Recorded
  <2> QED
    BY <1>1, <1>3, <1>4, <1>5, <2>2, <2>3 DEF Grows
<1>6. CASE op \notin {"ReadFile", "Open"}
  <2>1. escapes' = escapes
    BY <1>2, <1>6
  <2>2. EscapesOK' /\ \A x : Refused(x)' <=> Refused(x)
    BY <2>1, TreeStays DEF EscapesOK, Refused
  <2>3. Recorded(op, q)'
    BY <1>4, <1>6, TreeStays DEF Recorded
  <2> QED
    BY <1>1, <1>3, <1>4, <2>1, <2>2, <2>3 DEF Grows
<1> QED
  BY <1>5, <1>6
-----------------------------------------------------------------------------
(* Any calls in any order (ScanReads)                                      *)

\* What was recorded about an answer stays on record.
LEMMA RecordedStays ==
    ASSUME UNCHANGED tree, Grows, NEW op, NEW p, Recorded(op, CaseResolve(p))
    PROVE  Recorded(op, CaseResolve(p))'
<1>1. CaseResolve(p)' = CaseResolve(p)
  BY TreeStays
<1>2. PICK q : q = CaseResolve(p)
  OBVIOUS
<1>3. Recorded(op, q)'
  BY <1>2, TreeStays DEF Recorded, Grows
<1> QED
  BY <1>1, <1>2, <1>3

\* No read and no walk happened yet.
LEMMA ReadsInitially ==
    ASSUME ScanReadsAssumption, Init PROVE ReadsInv
BY DEF Init, RecordsInit, ReadsInv, EscapesOK

\* A read adds an answer, with the records of it.
LEMMA ReadKeepsInv ==
    ASSUME ScanRootAssumption, ScanReadsAssumption, ReadsInv,
           NEW op \in Operations, NEW p \in Asked, Read(op, p)
    PROVE  ReadsInv'
<1>0. TreeFacts /\ EscapesOK /\ UNCHANGED tree /\ Call(op, p) /\ p \in Paths
  BY DEF TreeFacts, ReadsInv, Read, ScanReadsAssumption
<1>1. /\ EscapesOK' /\ Grows
      /\ Recorded(op, CaseResolve(p))'
      /\ \A q : Refused(q)' =>
           \/ Refused(q)
           \/ op \in {"ReadFile", "Open"} /\ q = CaseResolve(p)
  BY <1>0, CallStep
<1> DEFINE new == <<op, p, Answer(op, CaseResolve(p))>>
<1>2. answers' = answers \cup {new}
  BY DEF Read
<1>3. new[1] = op /\ new[2] = p /\ new[3] = Answer(op, CaseResolve(p))
  OBVIOUS
<1> HIDE DEF new
<1>4. (tree \in Trees)'
  BY <1>0, TreeStays DEF TreeFacts
<1>5. ASSUME NEW a \in answers'
      PROVE  /\ a[1] \in Operations /\ a[2] \in Asked
             /\ a[3] = Answer(a[1], CaseResolve(a[2]))'
             /\ Recorded(a[1], CaseResolve(a[2]))'
  <2>1. \A o, q : Answer(o, CaseResolve(q))' = Answer(o, CaseResolve(q))
    BY <1>0, AnswerStays
  <2>2. CASE a \in answers
    <3>1. /\ a[1] \in Operations /\ a[2] \in Asked
          /\ a[3] = Answer(a[1], CaseResolve(a[2]))
          /\ Recorded(a[1], CaseResolve(a[2]))
      BY <2>2 DEF ReadsInv
    <3>2. PICK o, q : o = a[1] /\ q = a[2]
      OBVIOUS
    <3>3. Recorded(o, CaseResolve(q))'
      BY <1>0, <1>1, <3>1, <3>2, RecordedStays
    <3> QED
      BY <2>1, <3>1, <3>2, <3>3
  <2>3. CASE a = new
    BY <1>1, <1>3, <2>1, <2>3
  <2> QED
    BY <1>2, <2>2, <2>3
<1>6. ASSUME NEW e \in escapes', ~ e.walked
      PROVE  \E a \in answers' : a[1] \in {"ReadFile", "Open"} /\ CaseResolve(a[2])' = e.path
  <2>1. Refused(e.path)'
    BY <1>6 DEF Refused
  <2>2. CASE Refused(e.path)
    <3>1. PICK f \in escapes : f.path = e.path /\ ~ f.walked
      BY <2>2 DEF Refused
    <3>2. PICK a \in answers : a[1] \in {"ReadFile", "Open"} /\ CaseResolve(a[2]) = e.path
      BY <3>1 DEF ReadsInv
    <3> QED
      BY <1>0, <1>2, <3>2, TreeStays
  <2>3. CASE op \in {"ReadFile", "Open"} /\ e.path = CaseResolve(p)
    BY <1>0, <1>2, <1>3, <2>3, TreeStays
  <2> QED
    BY <1>1, <2>1, <2>2, <2>3
<1>7. ASSUME NEW a \in aliases'
      PROVE  a[1] \in Asked /\ a[2] = CaseResolve(a[1])' /\ a[1] # a[2]
  <2>1. a \in aliases \/ (a = <<p, CaseResolve(p)>> /\ CaseResolve(p) # p)
    BY <1>0, <1>7 DEF Call, RecordAlias
  <2>2. a[1] \in Asked /\ a[2] = CaseResolve(a[1]) /\ a[1] # a[2]
    BY <2>1 DEF ReadsInv
  <2> QED
    BY <1>0, <2>2, TreeStays
<1> QED
  BY <1>1, <1>4, <1>5, <1>6, <1>7 DEF ReadsInv

\* The walk adds escapes that no read has refused.
LEMMA WalkKeepsInv ==
    ASSUME ScanRootAssumption, ReadsInv, WalkTree
    PROVE  ReadsInv'
<1>0. TreeFacts /\ EscapesOK /\ UNCHANGED <<tree, answers>> /\ UNCHANGED aliases /\ Walk(Tracked)
  BY DEF TreeFacts, ReadsInv, WalkTree, Walk
<1>1. EscapesOK' /\ Grows /\ \A q : Refused(q)' => Refused(q)
  BY <1>0, WalkStep
<1>2. (tree \in Trees)'
  BY <1>0, TreeStays DEF TreeFacts
<1>3. ASSUME NEW a \in answers'
      PROVE  /\ a[1] \in Operations /\ a[2] \in Asked
             /\ a[3] = Answer(a[1], CaseResolve(a[2]))'
             /\ Recorded(a[1], CaseResolve(a[2]))'
  <2>1. \A o, q : Answer(o, CaseResolve(q))' = Answer(o, CaseResolve(q))
    BY <1>0, AnswerStays
  <2>2. /\ a[1] \in Operations /\ a[2] \in Asked
        /\ a[3] = Answer(a[1], CaseResolve(a[2]))
        /\ Recorded(a[1], CaseResolve(a[2]))
    BY <1>0, <1>3 DEF ReadsInv
  <2>3. PICK o, q : o = a[1] /\ q = a[2]
    OBVIOUS
  <2>4. Recorded(o, CaseResolve(q))'
    BY <1>0, <1>1, <2>2, <2>3, RecordedStays
  <2> QED
    BY <2>1, <2>2, <2>3, <2>4
<1>4. ASSUME NEW e \in escapes', ~ e.walked
      PROVE  \E a \in answers' : a[1] \in {"ReadFile", "Open"} /\ CaseResolve(a[2])' = e.path
  <2>1. Refused(e.path)
    BY <1>1, <1>4 DEF Refused
  <2>2. PICK f \in escapes : f.path = e.path /\ ~ f.walked
    BY <2>1 DEF Refused
  <2>3. PICK a \in answers : a[1] \in {"ReadFile", "Open"} /\ CaseResolve(a[2]) = e.path
    BY <2>2 DEF ReadsInv
  <2> QED
    BY <1>0, <2>3, TreeStays
<1>5. ASSUME NEW a \in aliases'
      PROVE  a[1] \in Asked /\ a[2] = CaseResolve(a[1])' /\ a[1] # a[2]
  BY <1>0, TreeStays DEF ReadsInv
<1> QED
  BY <1>1, <1>2, <1>3, <1>4, <1>5 DEF ReadsInv

\* Any number of calls keeps an answer and its record together.
THEOREM ReadsInvariant ==
    ASSUME ScanRootAssumption, ScanReadsAssumption
    PROVE  Spec => []ReadsInv
<1>1. Init => ReadsInv
  BY ReadsInitially
<1>2. ReadsInv /\ [Next]_vars => ReadsInv'
  <2> SUFFICES ASSUME ReadsInv, [Next]_vars PROVE ReadsInv'
    OBVIOUS
  <2>1. CASE WalkTree
    BY <2>1, WalkKeepsInv
  <2>2. CASE \E op \in Operations, p \in Asked : Read(op, p)
    BY <2>2, ReadKeepsInv
  <2>3. CASE UNCHANGED vars
    <3>1. UNCHANGED tree /\ UNCHANGED <<escapes, failed, dangling, aliases, answers>>
      BY <2>3 DEF vars, recorded
    <3>2. EscapesOK' /\ Grows
      BY <3>1, TreeStays DEF EscapesOK, Grows, Refused, ReadsInv
    <3>3. \A o, q : Answer(o, CaseResolve(q))' = Answer(o, CaseResolve(q))
      BY <3>1, AnswerStays
    <3>4. \A o, q : Recorded(o, CaseResolve(q)) => Recorded(o, CaseResolve(q))'
      BY <3>1, <3>2, RecordedStays
    <3> QED
      BY <3>1, <3>2, <3>3, <3>4, TreeStays DEF ReadsInv
  <2> QED
    BY <2>1, <2>2, <2>3 DEF Next
<1> QED
  BY <1>1, <1>2, PTL DEF Spec

\* Any caller's files that read as absent are explained by the records, for
\* any tree and any order of calls (ReadFile, check, absentOrRecorded).
THEOREM AbsenceIsExplained ==
    ASSUME ScanRootAssumption, ScanReadsAssumption
    PROVE  Spec => []AbsenceExplained
<1>1. ReadsInv => AbsenceExplained
  <2> SUFFICES ASSUME ReadsInv, NEW p \in Asked,
                      <<"ReadFile", p, "absent">> \in answers, Committed(CaseResolve(p))
               PROVE  LET q == CaseResolve(p) IN
                        \/ \E e \in escapes : e.path = q /\ ~ e.walked
                        \/ \E f \in failed : f = q \/ Below(f, q)
                        \/ q \in dangling
    BY DEF AbsenceExplained
  <2>0. TreeFacts /\ p \in Paths
    BY DEF TreeFacts, ReadsInv, ScanReadsAssumption
  <2>1. PICK q \in Paths : q = CaseResolve(p)
    BY <2>0, CaseResolveIsPath
  <2>2. Answer("ReadFile", q) = "absent" /\ Recorded("ReadFile", q)
    BY <2>1 DEF ReadsInv
  <2>3. Resolve(q) # "file"
    BY <2>2 DEF Answer
  <2>4. \/ Resolve(q) \in {"outside", "denied", "loop", "locked"}
        \/ IsDanglingLink(q)
    BY <2>0, <2>1, <2>3, CommittedCases
  <2>5. CASE Resolve(q) = "outside"
    BY <2>1, <2>2, <2>5 DEF Recorded, Refused
  <2>6. CASE Resolve(q) \in {"denied", "loop", "locked"}
    <3>1. Blocker(q) \in failed
      BY <2>2, <2>6 DEF Recorded, NotRead
    <3>2. Blocker(q) = q \/ Blocker(q) \in Ancestors(q)
      BY <2>0, <2>6, BlockerOnTheWay
    <3> QED
      BY <2>1, <3>1, <3>2 DEF Below
  <2>7. CASE IsDanglingLink(q)
    BY <2>1, <2>2, <2>7 DEF Recorded
  <2> QED
    BY <2>4, <2>5, <2>6, <2>7
<1> QED
  BY <1>1, ReadsInvariant, PTL

\* A path through a link that leaves is refused wherever the link is on the
\* way, if the walk or a read recorded it at all.
LEMMA RecordedLeadsOut ==
    ASSUME TreeFacts, EscapesOK, NEW e \in escapes,
           NEW d \in Ancestors(e.path) \cup {e.path}, tree[d] = "outside"
    PROVE  Resolve(e.path) = "outside"
<1>1. CASE ~ e.walked
  BY <1>1 DEF EscapesOK
<1>2. CASE e.walked
  <2>1. e.path \in Walked
    BY <1>2 DEF EscapesOK
  <2>2. \A a \in Ancestors(e.path) : tree[a] = "dir"
    BY <2>1 DEF Walked
  <2>3. Obstacles(e.path) = {} /\ tree[e.path] = "outside"
    BY <2>2 DEF Obstacles
  <2> QED
    BY <2>3 DEF Resolve
<1> QED
  BY <1>1, <1>2

\* Whether the walk or a read came first does not show in the records, for any
\* tree and any calls (check, RecordLink).
THEOREM OrderDoesNotShow ==
    ASSUME ScanRootAssumption, ScanReadsAssumption
    PROVE  Spec => []OrderIndependentEscapes
<1>1. ReadsInv => OrderIndependentEscapes
  <2> SUFFICES ASSUME ReadsInv PROVE OrderIndependentEscapes
    OBVIOUS
  <2>0. TreeFacts /\ EscapesOK
    BY DEF TreeFacts, ReadsInv
  <2>1. \A e, f \in escapes : e.path = f.path => e = f
    BY <2>0 DEF EscapesOK
  <2>2. ASSUME NEW e \in escapes, ~ e.walked
        PROVE  \E a \in answers :
                 /\ a[1] \in {"ReadFile", "Open"} /\ CaseResolve(a[2]) = e.path
                 /\ \E d \in Ancestors(e.path) \cup {e.path} : tree[d] = "outside"
    <3>1. e.path \in Paths /\ Resolve(e.path) = "outside"
      BY <2>0, <2>2 DEF EscapesOK
    <3>2. \E d \in Ancestors(e.path) \cup {e.path} : tree[d] = "outside"
      BY <2>0, <3>1, OutsideHasLink
    <3> QED
      BY <2>2, <3>2 DEF ReadsInv
  <2>3. ASSUME NEW e \in escapes, NEW a \in answers,
               a[1] \in {"ReadFile", "Open"}, CaseResolve(a[2]) = e.path,
               NEW d \in Ancestors(e.path) \cup {e.path}, tree[d] = "outside"
        PROVE  ~ e.walked
    <3>1. Resolve(e.path) = "outside"
      BY <2>0, <2>3, RecordedLeadsOut
    <3>2. Recorded(a[1], e.path)
      BY <2>3 DEF ReadsInv
    <3>3. Refused(e.path)
      BY <2>3, <3>1, <3>2 DEF Recorded
    <3> QED
      BY <2>1, <3>3 DEF Refused
  <2> QED
    BY <2>1, <2>2, <2>3 DEF OrderIndependentEscapes
<1> QED
  BY <1>1, ReadsInvariant, PTL

\* Another spelling is taken only when there is one to take, for any tree and
\* any way of ignoring case (caseResolve).
THEOREM AliasesAreUnambiguous ==
    ASSUME ScanRootAssumption, ScanReadsAssumption
    PROVE  Spec => []AliasesUnambiguous
<1>1. ReadsInv => AliasesUnambiguous
  <2> SUFFICES ASSUME ReadsInv, NEW a \in aliases PROVE OnlySpelling(a[1], a[2])
    BY DEF AliasesUnambiguous, OnlySpelling
  <2>1. TreeFacts /\ a[1] \in Paths /\ a[2] = CaseResolve(a[1]) /\ a[1] # a[2]
    BY DEF TreeFacts, ReadsInv, ScanReadsAssumption
  <2>2. PICK p \in Paths : p = a[1]
    BY <2>1
  <2>3. OnlySpelling(p, CaseResolve(p))
    BY <2>1, <2>2, OtherSpelling
  <2> QED
    BY <2>1, <2>2, <2>3
<1> QED
  BY <1>1, ReadsInvariant, PTL
-----------------------------------------------------------------------------
(* The stages of run() (ScanPipeline)                                      *)

\* The run has not been given up.
Going == stage < Len(Stages) \/ output # "none"

\* The read of stage number s is over, and what became of the file is on
\* record: a target, the list of files that do not parse until it is turned
\* into targets, and the refusal, until that is one.
LoadDone(s, loader, p) ==
    /\ Recorded("ReadFile", CaseResolve(p))
    /\ ~ Fatal(loader, p)
    /\ Loaded(p) =>
          \/ <<"content", p>> \in targets \/ <<"unreadable", p>> \in targets
          \/ loader = "optional" /\ p \in unreadable /\ (Stages[s] = "build" => stage <= 3)
    /\ stage > 6 /\ s < 6 /\ Resolve(CaseResolve(p)) = "outside" =>
          <<"escaped", CaseResolve(p)>> \in targets

Past(s, i) == s < stage \/ (s = stage /\ i < next)

ReadsDone ==
    \A s \in DOMAIN Stages : Stages[s] \in ReadingStages =>
        \A i \in DOMAIN Reads[Stages[s]] :
            LET read == Reads[Stages[s]][i] IN
            Past(s, i) /\ AsksFor(read) => LoadDone(s, read[1], read[2])

\* What a stage leaves behind when the run goes on.
StagesDone ==
    Going =>
        /\ ReadsDone
        /\ stage >= 3 => \A p \in Walked \cap Tracked : LinkLeaves(p) => \E e \in escapes : e.path = p
        /\ stage > 6 => \A p \in Walked \cap Tracked : LinkLeaves(p) => LinkReported(p)

\* A refusal is of a path that was asked for.
RefusedWereAsked ==
    \A e \in escapes : ~ e.walked => e.path \in AskedItself

\* How the run ends.
Ended ==
    /\ exit # "running" => stage = Len(Stages)
    /\ exit = "running" => output = "none" /\ stage < Len(Stages)
    /\ output = "baseline" \/ exit \in {"0", "1"} => failed = {} /\ output # "none"
    /\ output = "report" => reported = {t[2] : t \in targets} \cup dangling \cup failed

NoLinkTargetsYet == stage <= 6 => \A t \in targets : t[1] # "escaped"

RunInv ==
    /\ tree \in Trees /\ EscapesOK
    /\ stage \in DOMAIN Stages /\ next \in Nat \ {0}
    /\ NoLinkTargetsYet
    /\ StagesDone /\ RefusedWereAsked /\ Ended

RunFacts == ScanRootAssumption /\ ScanPipelineAssumption

\* The numbers of the stages.
LEMMA StageNumbers ==
    /\ DOMAIN Stages = 1..9 /\ Len(Stages) = 9
    /\ \A n \in 1..9 :
         /\ Stages[n] = "config" <=> n = 1
         /\ Stages[n] = "build" <=> n = 2
         /\ Stages[n] = "unreadable" <=> n = 3
         /\ Stages[n] = "policy" <=> n = 4
         /\ Stages[n] = "packages" <=> n = 5
         /\ Stages[n] = "escapes" <=> n = 6
         /\ Stages[n] = "rules" <=> n = 7
         /\ Stages[n] = "end" <=> n = 8
         /\ Stages[n] = "over" <=> n = 9
         /\ Stages[n] \in ReadingStages <=> n \in {2, 4, 5, 7}
<1>1. DOMAIN Stages = 1..9 /\ Len(Stages) = 9
  BY DEF Stages
<1>2. /\ Stages[1] = "config" /\ Stages[2] = "build" /\ Stages[3] = "unreadable"
      /\ Stages[4] = "policy" /\ Stages[5] = "packages" /\ Stages[6] = "escapes"
      /\ Stages[7] = "rules" /\ Stages[8] = "end" /\ Stages[9] = "over"
  BY DEF Stages
<1> SUFFICES ASSUME NEW n \in 1..9
             PROVE  /\ Stages[n] = "config" <=> n = 1
                    /\ Stages[n] = "build" <=> n = 2
                    /\ Stages[n] = "unreadable" <=> n = 3
                    /\ Stages[n] = "policy" <=> n = 4
                    /\ Stages[n] = "packages" <=> n = 5
                    /\ Stages[n] = "escapes" <=> n = 6
                    /\ Stages[n] = "rules" <=> n = 7
                    /\ Stages[n] = "end" <=> n = 8
                    /\ Stages[n] = "over" <=> n = 9
                    /\ Stages[n] \in ReadingStages <=> n \in {2, 4, 5, 7}
  BY <1>1
<1>3. n \in {1, 2, 3, 4, 5, 6, 7, 8, 9}
  OBVIOUS
<1> QED
  BY <1>2, <1>3 DEF ReadingStages

\* A read has a loader and a path, and is requested if it is asked for.
LEMMA ReadType ==
    ASSUME RunFacts, NEW s \in ReadingStages, NEW i \in DOMAIN Reads[s]
    PROVE  /\ Reads[s] \in Seq(Loaders \X Paths) /\ Len(Reads[s]) \in Nat /\ i \in 1..Len(Reads[s])
           /\ Reads[s][i][1] \in Loaders /\ Reads[s][i][2] \in Paths
           /\ AsksFor(Reads[s][i]) => Reads[s][i][2] \in Requested
<1>1. Reads[s] \in Seq(Loaders \X Paths)
  BY DEF RunFacts, ScanPipelineAssumption
<1>2. i \in 1..Len(Reads[s]) /\ Len(Reads[s]) \in Nat /\ Reads[s][i] \in Loaders \X Paths
  BY <1>1
<1>3. AsksFor(Reads[s][i]) => Reads[s][i][2] \in Requested
  BY DEF Requested
<1> QED
  BY <1>1, <1>2, <1>3

\* Neither the tree nor what parses changes.
LEMMA RunStays ==
    ASSUME UNCHANGED <<tree, malformed>>
    PROVE  /\ \A p : Loaded(p)' = Loaded(p)
           /\ \A l, p : Fatal(l, p)' = Fatal(l, p)
           /\ \A read : AsksFor(read)' = AsksFor(read)
           /\ Requested' = Requested /\ AskedItself' = AskedItself
<1>1. \A p : Loaded(p)' = Loaded(p)
  BY AnswerStays DEF Loaded
<1>2. \A p : Parses(p)' = Parses(p)
  BY TreeStays DEF Parses
<1>3. \A l, p : Fatal(l, p)' = Fatal(l, p)
  BY <1>1, <1>2 DEF Fatal
<1>4. \A read : AsksFor(read)' = AsksFor(read)
  BY DEF AsksFor, Found
<1>5. Requested' = Requested
  BY DEF Requested, AsksFor, Found
<1>6. AskedItself' = AskedItself
  BY <1>5, TreeStays DEF AskedItself
<1> QED
  BY <1>1, <1>3, <1>4, <1>5, <1>6

\* What is on record of a read stays there until a stage uses it.
LEMMA LoadStaysDone ==
    ASSUME UNCHANGED <<tree, malformed>>, Grows, targets \subseteq targets', unreadable \subseteq unreadable',
           stage \in DOMAIN Stages, stage' \in DOMAIN Stages,
           stage <= 3 => stage' <= 3, stage <= 6 => stage' <= 6,
           NEW s, NEW loader, NEW p, LoadDone(s, loader, p)
    PROVE  LoadDone(s, loader, p)'
<1>1. Recorded("ReadFile", CaseResolve(p))'
  BY RecordedStays DEF LoadDone
<1>2. ~ Fatal(loader, p)'
  BY RunStays DEF LoadDone
<1>3. stage \in 1..9 /\ stage' \in 1..9
  BY StageNumbers
<1>4. CaseResolve(p)' = CaseResolve(p)
  BY TreeStays
<1>5. PICK q : q = CaseResolve(p)
  OBVIOUS
<1>6. Resolve(q)' = Resolve(q)
  BY TreeStays
<1> QED
  BY <1>1, <1>2, <1>3, <1>4, <1>5, <1>6, RunStays DEF LoadDone

\* The report on a link depends on the targets for links only.
LEMMA LinkStaysReported ==
    ASSUME UNCHANGED <<tree, malformed>>, targets \subseteq targets',
           \A t \in targets' : t[1] = "escaped" => t \in targets,
           NEW p, LinkReported(p)
    PROVE  LinkReported(p)'
<1>1. AskedItself' = AskedItself
  BY RunStays
<1>2. <<"escaped", p>>[1] = "escaped"
  OBVIOUS
<1> QED
  BY <1>1, <1>2 DEF LinkReported, Below

\* A link to nothing is not read under another spelling, nor at all.
LEMMA LoadedIsNotDangling ==
    ASSUME NEW p, Loaded(p) PROVE ~ IsDanglingLink(p)
<1>1. Resolve(CaseResolve(p)) = "file"
  BY DEF Loaded, Answer
<1>2. CASE IsDanglingLink(p)
  <2>1. Lstat(p) /\ Resolve(p) = "absent"
    BY <1>2 DEF IsDanglingLink
  <2>2. CaseResolve(p) = p
    BY <2>1 DEF CaseResolve, LstatAbsent
  <2> QED
    BY <1>1, <2>1, <2>2
<1> QED
  BY <1>2

\* A loader gives a file that it read a target, or lists it as unreadable.
LEMMA LoadStep ==
    ASSUME NEW loader, NEW p, Load(loader, p), ~ Fatal(loader, p)
    PROVE  /\ targets \subseteq targets' /\ unreadable \subseteq unreadable'
           /\ \A t \in targets' : t[1] = "escaped" => t \in targets
           /\ Loaded(p) =>
                 \/ <<"content", p>> \in targets' \/ <<"unreadable", p>> \in targets'
                 \/ loader = "optional" /\ p \in unreadable'
<1>1. CASE loader = "optional" /\ Loaded(p) /\ ~ Parses(p)
  BY <1>1, LoadedIsNotDangling DEF Load, SkipUnreadable
<1>2. CASE ~ (loader = "optional" /\ Loaded(p) /\ ~ Parses(p))
  <2>1. /\ targets' = targets \cup (IF UnreadableNow(loader, p) THEN {<<"unreadable", p>>}
                                    ELSE IF Loaded(p) THEN {<<"content", p>>} ELSE {})
        /\ unreadable' = unreadable
    BY <1>2 DEF Load
  <2>2. <<"unreadable", p>>[1] # "escaped" /\ <<"content", p>>[1] # "escaped"
    OBVIOUS
  <2>3. \A t \in targets' : t \in targets \/ t = <<"unreadable", p>> \/ t = <<"content", p>>
    BY <2>1
  <2> QED
    BY <2>1, <2>2, <2>3
<1> QED
  BY <1>1, <1>2

\* A read leaves its records, and the run goes on or is given up.
LEMMA ReadNextInv ==
    ASSUME RunFacts, RunInv, ReadNext PROVE RunInv'
<1>1. PICK n \in 1..9, k \in Nat : n = stage /\ k = next
  BY StageNumbers DEF RunInv
<1> DEFINE loader == Reads[Stages[n]][k][1]
           p == Reads[Stages[n]][k][2]
           asked == AsksFor(Reads[Stages[n]][k])
<1>2. /\ Stages[n] \in ReadingStages /\ k <= Len(Reads[Stages[n]])
      /\ IF asked THEN Call("ReadFile", p) ELSE UNCHANGED recorded
      /\ IF asked /\ Fatal(loader, p)
         THEN Stop /\ UNCHANGED <<unreadable, targets>>
         ELSE /\ IF asked THEN Load(loader, p) ELSE UNCHANGED <<unreadable, targets>>
              /\ next' = next + 1
              /\ UNCHANGED <<stage, reported, exit, output>>
      /\ UNCHANGED <<tree, malformed>>
  BY <1>1 DEF ReadNext, Stage
<1>3. n \in {2, 4, 5, 7} /\ n < Len(Stages) /\ stage < Len(Stages)
  BY <1>1, <1>2, StageNumbers
<1>4. exit = "running" /\ output = "none" /\ Going
  BY <1>3 DEF RunInv, Ended, Going
<1>5. asked => p \in Paths /\ p \in Requested
  <2>1. ASSUME asked PROVE k \in DOMAIN Reads[Stages[n]]
    <3>1. Reads[Stages[n]] \in Seq(Loaders \X Paths)
      BY <1>2 DEF RunFacts, ScanPipelineAssumption
    <3>2. k # 0
      BY <1>1 DEF RunInv
    <3> QED
      BY <1>2, <3>1, <3>2
  <2> QED
    BY <1>2, <2>1, ReadType
<1>6. TreeFacts /\ EscapesOK /\ UNCHANGED tree
  BY <1>2 DEF TreeFacts, RunFacts, RunInv
<1> HIDE DEF loader, p, asked
<1>7. /\ EscapesOK' /\ Grows
      /\ asked => Recorded("ReadFile", CaseResolve(p))'
      /\ \A q : Refused(q)' => Refused(q) \/ (asked /\ q = CaseResolve(p))
  <2>1. CASE asked
    BY <1>2, <1>5, <1>6, <2>1, CallStep
  <2>2. CASE ~ asked
    <3>1. UNCHANGED <<escapes, failed, dangling, aliases>>
      BY <1>2, <2>2 DEF recorded
    <3> QED
      BY <1>6, <2>2, <3>1, TreeStays DEF EscapesOK, Grows, Refused
  <2> QED
    BY <2>1, <2>2
<1>8. RefusedWereAsked'
  <2> SUFFICES ASSUME NEW e \in escapes', ~ e.walked PROVE e.path \in AskedItself'
    BY DEF RefusedWereAsked
  <2>1. Refused(e.path)'
    BY DEF Refused
  <2>2. AskedItself' = AskedItself
    BY <1>2, RunStays
  <2>3. CASE Refused(e.path)
    BY <2>2, <2>3 DEF Refused, RunInv, RefusedWereAsked
  <2>4. CASE asked /\ e.path = CaseResolve(p)
    BY <1>5, <2>2, <2>4 DEF AskedItself
  <2> QED
    BY <1>7, <2>1, <2>3, <2>4
<1>9. (tree \in Trees)'
  BY <1>6, TreeStays DEF TreeFacts
<1>10. CASE asked /\ Fatal(loader, p)
  <2>1. exit' = "2" /\ stage' = 9 /\ UNCHANGED <<next, output>>
    BY <1>2, <1>10, StageNumbers DEF Stop
  <2>2. StagesDone'
    BY <1>4, <2>1, StageNumbers DEF StagesDone, Going
  <2>3. Ended'
    BY <1>4, <2>1, StageNumbers DEF Ended
  <2> QED
    BY <1>7, <1>8, <1>9, <2>1, <2>2, <2>3, StageNumbers DEF RunInv, NoLinkTargetsYet
<1>11. CASE ~ (asked /\ Fatal(loader, p))
  <2>1. /\ next' = k + 1 /\ UNCHANGED <<stage, reported, exit, output>>
        /\ IF asked THEN Load(loader, p) ELSE UNCHANGED <<unreadable, targets>>
    BY <1>1, <1>2, <1>11
  <2>2. /\ targets \subseteq targets' /\ unreadable \subseteq unreadable'
        /\ \A t \in targets' : t[1] = "escaped" => t \in targets
        /\ asked /\ Loaded(p) =>
              \/ <<"content", p>> \in targets' \/ <<"unreadable", p>> \in targets'
              \/ loader = "optional" /\ p \in unreadable'
    BY <1>11, <2>1, LoadStep
  <2>3. /\ ReadsDone
        /\ stage >= 3 => \A q \in Walked \cap Tracked : LinkLeaves(q) => \E e \in escapes : e.path = q
        /\ stage > 6 => \A q \in Walked \cap Tracked : LinkLeaves(q) => LinkReported(q)
    BY <1>4 DEF RunInv, StagesDone
  <2>4. \A s, l, q : LoadDone(s, l, q) => LoadDone(s, l, q)'
    BY <1>2, <1>7, <2>1, <2>2, LoadStaysDone DEF RunInv
  <2>5. asked => LoadDone(n, loader, p)'
    <3> SUFFICES ASSUME asked PROVE LoadDone(n, loader, p)'
      OBVIOUS
    <3>1. ~ Fatal(loader, p)'
      BY <1>2, <1>11, RunStays
    <3>2. Loaded(p)' = Loaded(p)
      BY <1>2, RunStays
    <3>3. stage' = n /\ (Stages[n] = "build" => stage' <= 3)
      BY <1>1, <2>1, StageNumbers
    <3>4. ~ (stage' > 6 /\ n < 6)
      BY <1>1, <2>1
    <3> QED
      BY <1>7, <2>2, <3>1, <3>2, <3>3, <3>4 DEF LoadDone
  <2>6. ReadsDone'
    <3> SUFFICES ASSUME NEW s \in DOMAIN Stages, Stages[s] \in ReadingStages,
                        NEW i \in DOMAIN Reads[Stages[s]],
                        Past(s, i)', AsksFor(Reads[Stages[s]][i])'
                 PROVE  LoadDone(s, Reads[Stages[s]][i][1], Reads[Stages[s]][i][2])'
      BY DEF ReadsDone
    <3>1. AsksFor(Reads[Stages[s]][i])
      BY <1>2, RunStays
    <3>2. i \in Nat /\ s \in 1..9
      BY ReadType, StageNumbers
    <3>3. CASE Past(s, i)
      BY <2>3, <2>4, <3>1, <3>3 DEF ReadsDone
    <3>4. CASE ~ Past(s, i)
      <4>1. s = n /\ i = k
        BY <1>1, <2>1, <3>2, <3>4 DEF Past
      <4> QED
        BY <2>5, <3>1, <4>1 DEF loader, p, asked
    <3> QED
      BY <3>3, <3>4
  <2>7. (stage >= 3)' => \A q \in Walked' \cap Tracked : LinkLeaves(q)' => \E e \in escapes' : e.path = q
    BY <1>6, <1>7, <2>1, <2>3, TreeStays DEF Grows
  <2>8. (stage > 6)' => \A q \in Walked' \cap Tracked : LinkLeaves(q)' => LinkReported(q)'
    <3>1. \A q : LinkReported(q) => LinkReported(q)'
      BY <1>2, <2>2, LinkStaysReported
    <3> QED
      BY <1>6, <2>1, <2>3, <3>1, TreeStays
  <2>9. StagesDone'
    BY <2>6, <2>7, <2>8 DEF StagesDone
  <2>10. Ended'
    BY <1>3, <1>4, <2>1 DEF Ended
  <2> QED
    BY <1>1, <1>7, <1>8, <1>9, <2>1, <2>2, <2>9, <2>10 DEF RunInv, NoLinkTargetsYet
<1> QED
  BY <1>10, <1>11

\* The configuration is read before anything is loaded.
LEMMA LoadConfigInv ==
    ASSUME RunFacts, RunInv, LoadConfig PROVE RunInv'
<1>1. /\ stage = 1 /\ exit = "running" /\ output = "none"
      /\ Check(OwnConfig) /\ UNCHANGED <<tree, failed, dangling, targets>>
      /\ \/ Stop
         \/ NextStage /\ UNCHANGED <<reported, exit, output>>
  BY StageNumbers DEF LoadConfig, Stage, ReadOwnFile, RunInv, Ended
<1>2. TreeFacts /\ EscapesOK /\ OwnConfig \in Paths
  BY DEF TreeFacts, RunFacts, RunInv, ScanPipelineAssumption
<1>3. EscapesOK' /\ \A p : Refused(p)' => Refused(p) \/ p = OwnConfig
  BY <1>1, <1>2, CheckStep
<1>4. RefusedWereAsked'
  <2>1. AskedItself' = AskedItself
    BY <1>1, RunStays DEF LoadConfig
  <2> QED
    BY <1>3, <2>1 DEF RefusedWereAsked, Refused, AskedItself, RunInv
<1>5. (tree \in Trees)'
  BY <1>1, <1>2, TreeStays DEF TreeFacts
<1>6. CASE Stop
  <2>1. exit' = "2" /\ stage' = 9 /\ UNCHANGED <<next, output>>
    BY <1>6, StageNumbers DEF Stop
  <2>2. StagesDone' /\ Ended'
    BY <1>1, <2>1, StageNumbers DEF StagesDone, Going, Ended
  <2> QED
    BY <1>3, <1>4, <1>5, <2>1, <2>2, StageNumbers DEF RunInv, NoLinkTargetsYet
<1>7. CASE NextStage /\ UNCHANGED <<reported, exit, output>>
  <2>1. stage' = 2 /\ next' = 1 /\ UNCHANGED <<reported, exit, output>>
    BY <1>1, <1>7 DEF NextStage
  <2>2. ReadsDone'
    <3>1. ASSUME NEW s \in DOMAIN Stages, Stages[s] \in ReadingStages,
                 NEW i \in DOMAIN Reads[Stages[s]], Past(s, i)'
          PROVE  FALSE
      <4>1. i \in Nat /\ 1 <= i
        BY <3>1, ReadType
      <4>2. s \in {2, 4, 5, 7}
        BY <3>1, StageNumbers
      <4> QED
        BY <2>1, <3>1, <4>1, <4>2 DEF Past
    <3> QED
      BY <3>1 DEF ReadsDone
  <2>3. StagesDone'
    BY <2>1, <2>2 DEF StagesDone
  <2>4. Ended'
    BY <1>1, <2>1, StageNumbers DEF Ended
  <2> QED
    BY <1>1, <1>3, <1>4, <1>5, <2>1, <2>3, <2>4, StageNumbers DEF RunInv, NoLinkTargetsYet
<1> QED
  BY <1>1, <1>6, <1>7

\* A stage whose reads are over has done all of them when the next one begins.
LEMMA ReadsStayDone ==
    ASSUME RunFacts, UNCHANGED <<tree, malformed>>, ReadsDone, NextStage,
           stage \in DOMAIN Stages, next \in Nat,
           Stage \in ReadingStages => next > Len(Reads[Stage]),
           \A s, l, p : LoadDone(s, l, p) => LoadDone(s, l, p)'
    PROVE  ReadsDone'
<1> SUFFICES ASSUME NEW s \in DOMAIN Stages, Stages[s] \in ReadingStages,
                    NEW i \in DOMAIN Reads[Stages[s]],
                    Past(s, i)', AsksFor(Reads[Stages[s]][i])'
             PROVE  LoadDone(s, Reads[Stages[s]][i][1], Reads[Stages[s]][i][2])'
  BY DEF ReadsDone
<1>1. AsksFor(Reads[Stages[s]][i])
  BY RunStays
<1>2. i \in 1..Len(Reads[Stages[s]]) /\ Len(Reads[Stages[s]]) \in Nat /\ s \in 1..9 /\ stage \in 1..9
  BY ReadType, StageNumbers
<1>3. stage' = stage + 1 /\ next' = 1
  BY DEF NextStage
<1>4. s <= stage
  BY <1>2, <1>3 DEF Past
<1>5. CASE s < stage
  BY <1>1, <1>5 DEF ReadsDone, Past
<1>6. CASE s = stage
  <2>1. next > Len(Reads[Stages[s]])
    BY <1>6 DEF Stage
  <2>2. Past(s, i)
    BY <1>2, <1>6, <2>1 DEF Past
  <2> QED
    BY <1>1, <2>2 DEF ReadsDone
<1> QED
  BY <1>2, <1>4, <1>5, <1>6

\* The walk for links comes after the reads of the builders.
LEMMA EndBuildInv ==
    ASSUME RunFacts, RunInv, EndBuild PROVE RunInv'
<1>1. /\ stage = 2 /\ stage' = 3 /\ next' = 1
      /\ UNCHANGED <<tree, malformed, unreadable, targets, reported, exit, output>>
      /\ Walk(Tracked)
  BY StageNumbers DEF EndBuild, Stage, NextStage, RunInv
<1>2. exit = "running" /\ output = "none" /\ Going
  BY <1>1, StageNumbers DEF RunInv, Ended, Going
<1>3. TreeFacts /\ EscapesOK
  BY DEF TreeFacts, RunFacts, RunInv
<1>4. /\ EscapesOK' /\ Grows /\ \A p : Refused(p)' => Refused(p)
      /\ \A p \in Walked \cap Tracked : LinkLeaves(p) => \E e \in escapes' : e.path = p
  BY <1>1, <1>3, WalkStep
<1>5. RefusedWereAsked'
  <2>1. AskedItself' = AskedItself
    BY <1>1, RunStays
  <2> QED
    BY <1>4, <2>1 DEF RefusedWereAsked, Refused, RunInv
<1>6. (tree \in Trees)'
  BY <1>1, <1>3, TreeStays DEF TreeFacts
<1>7. ReadsDone'
  <2>1. ReadsDone
    BY <1>2 DEF RunInv, StagesDone
  <2>2. \A s, l, p : LoadDone(s, l, p) => LoadDone(s, l, p)'
    BY <1>1, <1>4, LoadStaysDone, StageNumbers
  <2> QED
    BY <1>1, <2>1, <2>2, ReadsStayDone, StageNumbers DEF EndBuild, Stage, RunInv
<1>8. StagesDone'
  BY <1>1, <1>4, <1>7, TreeStays DEF StagesDone
<1>9. Ended'
  BY <1>1, <1>2, StageNumbers DEF Ended
<1> QED
  BY <1>1, <1>4, <1>5, <1>6, <1>8, <1>9, StageNumbers DEF RunInv, NoLinkTargetsYet

\* What a stage that reads nothing leaves alone.
LEMMA RecordsStay ==
    ASSUME RunFacts, RunInv, UNCHANGED <<tree, malformed, recorded>>
    PROVE  EscapesOK' /\ Grows /\ RefusedWereAsked' /\ (tree \in Trees)'
<1>1. UNCHANGED <<tree, escapes, failed, dangling>>
  BY DEF recorded
<1>2. EscapesOK' /\ Grows /\ (tree \in Trees)'
  BY <1>1, TreeStays DEF EscapesOK, Grows, Refused, RunInv
<1>3. AskedItself' = AskedItself
  BY RunStays
<1> QED
  BY <1>1, <1>2, <1>3 DEF RefusedWereAsked, RunInv

\* The end of the other stages that read.
LEMMA EndReadsInv ==
    ASSUME RunFacts, RunInv, EndReads PROVE RunInv'
<1>1. /\ stage \in {4, 5, 7} /\ stage' = stage + 1 /\ next' = 1
      /\ UNCHANGED <<tree, malformed, recorded, unreadable, targets, reported, exit, output>>
  BY StageNumbers DEF EndReads, Stage, NextStage, RunInv
<1>2. exit = "running" /\ output = "none" /\ Going
  BY <1>1, StageNumbers DEF RunInv, Ended, Going
<1>3. EscapesOK' /\ Grows /\ RefusedWereAsked' /\ (tree \in Trees)'
  BY <1>1, RecordsStay
<1>4. /\ ReadsDone
      /\ \A p \in Walked \cap Tracked : LinkLeaves(p) => \E e \in escapes : e.path = p
      /\ stage > 6 => \A p \in Walked \cap Tracked : LinkLeaves(p) => LinkReported(p)
  BY <1>1, <1>2 DEF RunInv, StagesDone
<1>5. ReadsDone'
  <2>1. \A s, l, p : LoadDone(s, l, p) => LoadDone(s, l, p)'
    BY <1>1, <1>3, LoadStaysDone, StageNumbers
  <2> QED
    BY <1>1, <1>4, <2>1, ReadsStayDone DEF EndReads, Stage, RunInv
<1>6. \A p : LinkReported(p) => LinkReported(p)'
  BY <1>1, LinkStaysReported
<1>7. StagesDone'
  BY <1>1, <1>3, <1>4, <1>5, <1>6, TreeStays DEF StagesDone, Grows
<1>8. Ended'
  BY <1>1, <1>2, StageNumbers DEF Ended
<1> QED
  BY <1>1, <1>3, <1>7, <1>8, StageNumbers DEF RunInv, NoLinkTargetsYet

\* Every file that did not parse becomes a target.
LEMMA UnreadableTargetsInv ==
    ASSUME RunFacts, RunInv, UnreadableTargets PROVE RunInv'
<1>1. /\ stage = 3 /\ stage' = 4 /\ next' = 1
      /\ UNCHANGED <<tree, malformed, recorded, unreadable, reported, exit, output>>
      /\ targets' = targets \cup {<<"unreadable", p>> : p \in unreadable}
  BY StageNumbers DEF UnreadableTargets, Stage, NextStage, RunInv
<1>2. exit = "running" /\ output = "none" /\ Going
  BY <1>1, StageNumbers DEF RunInv, Ended, Going
<1>3. EscapesOK' /\ Grows /\ RefusedWereAsked' /\ (tree \in Trees)'
  BY <1>1, RecordsStay
<1>4. /\ ReadsDone
      /\ \A p \in Walked \cap Tracked : LinkLeaves(p) => \E e \in escapes : e.path = p
  BY <1>1, <1>2 DEF RunInv, StagesDone
<1>5. ASSUME NEW s, NEW l, NEW p, LoadDone(s, l, p) PROVE LoadDone(s, l, p)'
  <2>1. Recorded("ReadFile", CaseResolve(p))'
    BY <1>1, <1>3, <1>5, RecordedStays DEF LoadDone
  <2>2. ~ Fatal(l, p)' /\ (Loaded(p)' => Loaded(p))
    BY <1>1, <1>5, RunStays DEF LoadDone
  <2>3. Loaded(p) => <<"content", p>> \in targets' \/ <<"unreadable", p>> \in targets'
    BY <1>1, <1>5 DEF LoadDone
  <2> QED
    BY <1>1, <2>1, <2>2, <2>3 DEF LoadDone
<1>6. ReadsDone'
  BY <1>1, <1>4, <1>5, ReadsStayDone, StageNumbers DEF UnreadableTargets, Stage, RunInv
<1>7. StagesDone'
  BY <1>1, <1>3, <1>4, <1>6, TreeStays DEF StagesDone, Grows
<1>8. Ended'
  BY <1>1, <1>2, StageNumbers DEF Ended
<1>9. NoLinkTargetsYet'
  <2>1. \A p : <<"unreadable", p>>[1] # "escaped"
    OBVIOUS
  <2>2. \A t \in targets : t[1] # "escaped"
    BY <1>1 DEF RunInv, NoLinkTargetsYet
  <2> QED
    BY <1>1, <2>1, <2>2 DEF NoLinkTargetsYet
<1> QED
  BY <1>1, <1>3, <1>7, <1>8, <1>9, StageNumbers DEF RunInv

\* Every recorded link becomes a target, unless a read through it has one.
LEMMA EscapedLinkTargetsInv ==
    ASSUME RunFacts, RunInv, EscapedLinkTargets PROVE RunInv'
<1>1. /\ stage = 6 /\ stage' = 7 /\ next' = 1
      /\ UNCHANGED <<tree, malformed, recorded, unreadable, reported, exit, output>>
      /\ targets' = targets \cup {<<"escaped", e.path>> : e \in {f \in escapes : ~ Covered(f)}}
  BY StageNumbers DEF EscapedLinkTargets, Stage, NextStage, RunInv
<1>2. exit = "running" /\ output = "none" /\ Going
  BY <1>1, StageNumbers DEF RunInv, Ended, Going
<1>3. EscapesOK' /\ Grows /\ RefusedWereAsked' /\ (tree \in Trees)'
  BY <1>1, RecordsStay
<1>4. /\ ReadsDone
      /\ \A p \in Walked \cap Tracked : LinkLeaves(p) => \E e \in escapes : e.path = p
  BY <1>1, <1>2 DEF RunInv, StagesDone
<1>5. \A q : Refused(q) => <<"escaped", q>> \in targets'
  BY <1>1 DEF Refused, Covered
<1>6. ASSUME NEW s, NEW l, NEW p, LoadDone(s, l, p) PROVE LoadDone(s, l, p)'
  <2>1. Recorded("ReadFile", CaseResolve(p))'
    BY <1>1, <1>3, <1>6, RecordedStays DEF LoadDone
  <2>2. ~ Fatal(l, p)' /\ (Loaded(p)' => Loaded(p))
    BY <1>1, <1>6, RunStays DEF LoadDone
  <2>3. PICK q : q = CaseResolve(p)
    OBVIOUS
  <2>4. CaseResolve(p)' = q /\ Resolve(q)' = Resolve(q)
    BY <1>1, <2>3, TreeStays
  <2>5. Resolve(q) = "outside" => <<"escaped", q>> \in targets'
    BY <1>5, <1>6, <2>3 DEF LoadDone, Recorded
  <2>6. Loaded(p) =>
          \/ <<"content", p>> \in targets' \/ <<"unreadable", p>> \in targets'
          \/ l = "optional" /\ p \in unreadable' /\ (Stages[s] = "build" => stage' <= 3)
    BY <1>1, <1>6 DEF LoadDone
  <2> QED
    BY <2>1, <2>2, <2>4, <2>5, <2>6 DEF LoadDone
<1>7. ReadsDone'
  BY <1>1, <1>4, <1>6, ReadsStayDone, StageNumbers DEF EscapedLinkTargets, Stage, RunInv
<1>8. ASSUME NEW p \in Walked \cap Tracked, LinkLeaves(p) PROVE LinkReported(p)'
  <2>1. \A q : <<"escaped", q>>[1] = "escaped" /\ <<"escaped", q>>[2] = q
    OBVIOUS
  <2>2. \A t \in targets' : t[1] = "escaped" => \E e \in escapes : ~ Covered(e) /\ t = <<"escaped", e.path>>
    BY <1>1 DEF RunInv, NoLinkTargetsYet
  <2>3. PICK e \in escapes : e.path = p
    BY <1>4, <1>8
  <2>4. \E t \in targets' : t[1] = "escaped" /\ (t[2] = p \/ Below(p, t[2]))
    <3>1. CASE Covered(e)
      <4>1. PICK f \in escapes : ~ f.walked /\ Below(p, f.path)
        BY <2>3, <3>1 DEF Covered
      <4>2. <<"escaped", f.path>> \in targets'
        BY <1>5, <4>1 DEF Refused
      <4> QED
        BY <2>1, <4>1, <4>2
    <3>2. CASE ~ Covered(e)
      <4>1. <<"escaped", p>> \in targets'
        BY <1>1, <2>3, <3>2
      <4> QED
        BY <2>1, <4>1
    <3> QED
      BY <3>1, <3>2
  <2>5. ASSUME p \notin AskedItself, <<"escaped", p>> \in targets',
               NEW t \in targets', t[1] = "escaped", Below(p, t[2])
        PROVE  FALSE
    <3>1. PICK g \in escapes : ~ Covered(g) /\ <<"escaped", p>> = <<"escaped", g.path>>
      BY <2>1, <2>2, <2>5
    <3>2. g.path = p /\ g.walked
      BY <2>1, <2>5, <3>1 DEF RunInv, RefusedWereAsked
    <3>3. PICK f \in escapes : t = <<"escaped", f.path>>
      BY <2>2, <2>5
    <3>4. Below(p, f.path)
      BY <2>1, <2>5, <3>3
    <3>5. f.walked
      BY <3>1, <3>2, <3>4 DEF Covered
    <3>6. f.path \in Walked
      BY <3>5 DEF RunInv, EscapesOK
    <3>7. tree[p] = "dir"
      BY <3>4, <3>6 DEF Walked, Below
    <3> QED
      BY <1>8, <3>7 DEF LinkLeaves
  <2>6. AskedItself' = AskedItself
    BY <1>1, RunStays
  <2> QED
    BY <2>4, <2>5, <2>6 DEF LinkReported, Below
<1>9. StagesDone'
  BY <1>1, <1>3, <1>4, <1>7, <1>8, TreeStays DEF StagesDone, Grows
<1>10. Ended'
  BY <1>1, <1>2, StageNumbers DEF Ended
<1> QED
  BY <1>1, <1>3, <1>9, <1>10, StageNumbers DEF RunInv, NoLinkTargetsYet

\* The report and the baseline end the run with all of its reads behind it.
LEMMA EndInv ==
    ASSUME RunFacts, RunInv, Report \/ WriteBaseline PROVE RunInv'
<1>1. /\ stage = 8 /\ stage' = 9 /\ next' = 1
      /\ UNCHANGED <<tree, malformed, recorded, unreadable, targets>>
  BY StageNumbers DEF Report, WriteBaseline, Stage, NextStage, RunInv
<1>2. exit = "running" /\ output = "none" /\ Going
  BY <1>1, StageNumbers DEF RunInv, Ended, Going
<1>3. EscapesOK' /\ Grows /\ RefusedWereAsked' /\ (tree \in Trees)' /\ UNCHANGED <<failed, dangling>>
  BY <1>1, RecordsStay DEF recorded
<1>4. /\ ReadsDone
      /\ \A p \in Walked \cap Tracked : LinkLeaves(p) => \E e \in escapes : e.path = p
      /\ \A p \in Walked \cap Tracked : LinkLeaves(p) => LinkReported(p)
  BY <1>1, <1>2 DEF RunInv, StagesDone
<1>5. \A s, l, p : LoadDone(s, l, p) => LoadDone(s, l, p)'
  BY <1>1, <1>3, LoadStaysDone, StageNumbers
<1>6. Stage \notin ReadingStages
  BY <1>1, StageNumbers DEF Stage
<1>7. ReadsDone'
  BY <1>1, <1>4, <1>5, <1>6, ReadsStayDone, StageNumbers DEF Report, WriteBaseline, RunInv
<1>8. \A p : LinkReported(p) => LinkReported(p)'
  BY <1>1, LinkStaysReported
<1>9. StagesDone'
  BY <1>1, <1>3, <1>4, <1>7, <1>8, TreeStays DEF StagesDone, Grows
<1>10. Ended'
  <2>1. CASE Report
    BY <1>1, <1>2, <1>3, <2>1, StageNumbers DEF Report, ExitAfterReport, ExitCodes, Ended
  <2>2. CASE WriteBaseline
    BY <1>1, <1>2, <1>3, <2>2, StageNumbers DEF WriteBaseline, Ended
  <2> QED
    BY <2>1, <2>2
<1> QED
  BY <1>1, <1>3, <1>9, <1>10, StageNumbers DEF RunInv, NoLinkTargetsYet

\* The records of every stage are there when the next ones need them.
THEOREM RunInvariant ==
    ASSUME ScanRootAssumption, ScanPipelineAssumption
    PROVE  RunSpec => []RunInv
<1>0. RunFacts
  BY DEF RunFacts
<1>1. RunInit => RunInv
  <2> SUFFICES ASSUME RunInit PROVE RunInv
    OBVIOUS
  <2>1. /\ tree \in Trees /\ escapes = {} /\ stage = 1 /\ next = 1
        /\ targets = {} /\ exit = "running" /\ output = "none"
    BY DEF RunInit, RecordsInit
  <2>2. EscapesOK /\ RefusedWereAsked
    BY <2>1 DEF EscapesOK, RefusedWereAsked
  <2>3. ReadsDone
    <3>1. ASSUME NEW s \in DOMAIN Stages, Stages[s] \in ReadingStages,
                 NEW i \in DOMAIN Reads[Stages[s]], Past(s, i)
          PROVE  FALSE
      <4>1. i \in Nat /\ s \in {2, 4, 5, 7}
        BY <1>0, <3>1, ReadType, StageNumbers
      <4> QED
        BY <2>1, <3>1, <4>1 DEF Past
    <3> QED
      BY <3>1 DEF ReadsDone
  <2>4. StagesDone /\ Ended /\ NoLinkTargetsYet
    BY <2>1, <2>3, StageNumbers DEF StagesDone, Ended, NoLinkTargetsYet
  <2> QED
    BY <2>1, <2>2, <2>4, StageNumbers DEF RunInv
<1>2. RunInv /\ [RunNext]_runVars => RunInv'
  <2> SUFFICES ASSUME RunInv, [RunNext]_runVars PROVE RunInv'
    OBVIOUS
  <2>1. CASE LoadConfig
    BY <1>0, <2>1, LoadConfigInv
  <2>2. CASE ReadNext
    BY <1>0, <2>2, ReadNextInv
  <2>3. CASE EndBuild
    BY <1>0, <2>3, EndBuildInv
  <2>4. CASE EndReads
    BY <1>0, <2>4, EndReadsInv
  <2>5. CASE UnreadableTargets
    BY <1>0, <2>5, UnreadableTargetsInv
  <2>6. CASE EscapedLinkTargets
    BY <1>0, <2>6, EscapedLinkTargetsInv
  <2>7. CASE Report \/ WriteBaseline
    BY <1>0, <2>7, EndInv
  <2>8. CASE UNCHANGED runVars
    <3>1. UNCHANGED <<tree, malformed, recorded, stage, next, unreadable, targets, reported, exit, output>>
      BY <2>8 DEF runVars
    <3>2. EscapesOK' /\ Grows /\ RefusedWereAsked' /\ (tree \in Trees)' /\ UNCHANGED <<failed, dangling>>
      BY <1>0, <3>1, RecordsStay DEF recorded
    <3>3. \A s, l, p : LoadDone(s, l, p) => LoadDone(s, l, p)'
      BY <3>1, <3>2, LoadStaysDone DEF RunInv
    <3>4. \A read : AsksFor(read)' = AsksFor(read)
      BY <3>1, RunStays
    <3>5. ReadsDone => ReadsDone'
      BY <3>1, <3>3, <3>4 DEF ReadsDone, Past
    <3>6. \A p : LinkReported(p) => LinkReported(p)'
      BY <3>1, LinkStaysReported
    <3>7. StagesDone'
      BY <3>1, <3>2, <3>5, <3>6, TreeStays DEF StagesDone, Going, Grows, RunInv
    <3> QED
      BY <3>1, <3>2, <3>7 DEF RunInv, Ended, NoLinkTargetsYet
  <2> QED
    BY <2>1, <2>2, <2>3, <2>4, <2>5, <2>6, <2>7, <2>8 DEF RunNext, Over
<1> QED
  BY <1>1, <1>2, PTL DEF RunSpec

\* When a run is over that was not given up, every file asked for has been
\* dealt with, in a stage that is early enough if it was asked for in time.
LEMMA RequestedDone ==
    ASSUME RunFacts, RunInv, output # "none", NEW p \in Requested
    PROVE  /\ stage = 9 /\ p \in Paths
           /\ \E s, l : LoadDone(s, l, p)
           /\ p \in InTime => \E s \in 1..5 : \E l : LoadDone(s, l, p) /\ (l = "optional" => Stages[s] = "build")
<1>1. stage = 9 /\ ReadsDone
  BY StageNumbers DEF RunInv, Ended, StagesDone, Going
<1>2. ASSUME NEW n \in ReadingStages, NEW i \in DOMAIN Reads[n], AsksFor(Reads[n][i])
      PROVE  \E s \in {2, 4, 5, 7} : /\ Stages[s] = n
                                     /\ LoadDone(s, Reads[n][i][1], Reads[n][i][2])
                                     /\ Reads[n][i][2] \in Paths
  <2>1. PICK s \in {2, 4, 5, 7} : Stages[s] = n
    BY StageNumbers DEF ReadingStages
  <2>2. s \in DOMAIN Stages /\ Past(s, i)
    BY <1>1, StageNumbers DEF Past
  <2>3. LoadDone(s, Reads[n][i][1], Reads[n][i][2])
    BY <1>1, <1>2, <2>1, <2>2 DEF ReadsDone
  <2> QED
    BY <2>1, <2>3, ReadType
<1>3. PICK r \in ReadingStages : \E i \in DOMAIN Reads[r] : AsksFor(Reads[r][i]) /\ p = Reads[r][i][2]
  BY DEF Requested
<1>4. p \in Paths /\ \E s, l : LoadDone(s, l, p)
  BY <1>2, <1>3
<1>5. ASSUME p \in InTime
      PROVE  \E s \in 1..5 : \E l : LoadDone(s, l, p) /\ (l = "optional" => Stages[s] = "build")
  <2>0. PICK m \in {"build", "policy", "packages"} : \E j \in DOMAIN Reads[m] :
           /\ AsksFor(Reads[m][j]) /\ p = Reads[m][j][2]
           /\ Reads[m][j][1] = "optional" => m = "build"
    BY <1>5 DEF InTime
  <2>1. PICK j \in DOMAIN Reads[m] :
           /\ AsksFor(Reads[m][j]) /\ p = Reads[m][j][2]
           /\ Reads[m][j][1] = "optional" => m = "build"
    BY <2>0
  <2>2. m \in ReadingStages /\ m # "rules"
    BY DEF ReadingStages
  <2>3. PICK s \in {2, 4, 5, 7} : Stages[s] = m /\ LoadDone(s, Reads[m][j][1], Reads[m][j][2])
    BY <1>2, <2>1, <2>2
  <2>4. s \in 1..5
    BY <2>2, <2>3, StageNumbers
  <2> QED
    BY <2>1, <2>3, <2>4
<1> QED
  BY <1>1, <1>4, <1>5

\* An exit code of 0 or 1, or a written baseline, means that every file the
\* scan looked for could be read if it exists, for any tree and any reads.
THEOREM ExitSaysComplete ==
    ASSUME ScanRootAssumption, ScanPipelineAssumption
    PROVE  RunSpec => []CompleteOrExit2
<1>0. RunFacts
  BY DEF RunFacts
<1>1. RunInv => CompleteOrExit2
  <2> SUFFICES ASSUME RunInv, exit \in {"0", "1"} \/ output = "baseline", NEW p \in Requested
               PROVE  /\ tree[CaseResolve(p)] \notin {"locked", "loop"}
                      /\ \A d \in Ancestors(p) : tree[d] \notin {"closed", "loop"}
    BY DEF CompleteOrExit2
  <2>1. failed = {} /\ output # "none" /\ TreeFacts
    BY <1>0 DEF RunInv, Ended, TreeFacts, RunFacts
  <2>2. p \in Paths /\ \E s, l : LoadDone(s, l, p)
    BY <1>0, <2>1, RequestedDone
  <2>3. PICK q \in Paths : q = CaseResolve(p)
    BY <2>1, <2>2, CaseResolveIsPath
  <2>4. ~ NotRead("ReadFile", q)
    BY <2>1, <2>2, <2>3 DEF LoadDone, Recorded
  <2>5. Resolve(q) \notin {"denied", "loop", "locked"}
    BY <2>4 DEF NotRead
  <2>6. tree[q] \notin {"locked", "loop"}
    BY <2>1, <2>5, ResolveCommitted
  <2>7. ASSUME NEW d \in Ancestors(p), tree[d] \in {"closed", "loop"} PROVE FALSE
    <3>1. Resolve(p) \in {"denied", "loop"}
      BY <2>1, <2>2, <2>7, ResolveBehind
    <3>2. q = p
      BY <2>3, <3>1 DEF CaseResolve, LstatAbsent
    <3> QED
      BY <2>5, <3>1, <3>2
  <2> QED
    BY <2>3, <2>6, <2>7
<1> QED
  BY <1>1, RunInvariant, PTL

\* Every tracked link that leaves has a target of CFG115 in the report, and
\* not a second one unless it was read as a file itself.
THEOREM LeavingLinksAreReported ==
    ASSUME ScanRootAssumption, ScanPipelineAssumption
    PROVE  RunSpec => []EveryLeavingLinkReported
<1>1. RunInv => EveryLeavingLinkReported
  BY StageNumbers DEF RunInv, Ended, StagesDone, Going, EveryLeavingLinkReported
<1> QED
  BY <1>1, RunInvariant, PTL

\* What is asked for in time does not go quiet, whatever else is read late.
THEOREM InTimeIsNamed ==
    ASSUME ScanRootAssumption, ScanPipelineAssumption
    PROVE  RunSpec => [](output = "report" => \A p \in InTime : Named(p))
<1>0. RunFacts
  BY DEF RunFacts
<1>1. RunInv => (output = "report" => \A p \in InTime : Named(p))
  <2> SUFFICES ASSUME RunInv, output = "report", NEW p \in InTime, Committed(CaseResolve(p))
               PROVE  \E q \in {p, CaseResolve(p)} \cup Ancestors(CaseResolve(p)) : q \in reported
    BY DEF Named
  <2>1. /\ TreeFacts /\ p \in Requested
        /\ reported = {t[2] : t \in targets} \cup dangling \cup failed
    BY <1>0 DEF RunInv, Ended, TreeFacts, RunFacts, InTime, Requested, ReadingStages
  <2>2. stage = 9 /\ p \in Paths
    BY <1>0, <2>1, RequestedDone
  <2>3. PICK s \in 1..5 : \E k : LoadDone(s, k, p) /\ (k = "optional" => Stages[s] = "build")
    BY <1>0, <2>1, RequestedDone
  <2>4. PICK l : LoadDone(s, l, p) /\ (l = "optional" => Stages[s] = "build")
    BY <2>3
  <2>5. PICK q \in Paths : q = CaseResolve(p)
    BY <2>1, <2>2, CaseResolveIsPath
  <2>6. \A k, x : <<k, x>> \in targets => x \in reported
    <3>1. \A k, x : <<k, x>>[2] = x
      OBVIOUS
    <3> QED
      BY <2>1, <3>1
  <2>7. Recorded("ReadFile", q)
    BY <2>4, <2>5 DEF LoadDone
  <2>8. CASE Resolve(q) = "file"
    <3>1. Loaded(p)
      BY <2>5, <2>8 DEF Loaded, Answer
    <3> QED
      BY <2>2, <2>4, <2>6, <3>1 DEF LoadDone
  <2>9. CASE Resolve(q) = "outside"
    <3>1. <<"escaped", q>> \in targets
      BY <2>2, <2>4, <2>5, <2>9 DEF LoadDone
    <3> QED
      BY <2>5, <2>6, <3>1
  <2>10. CASE Resolve(q) \in {"denied", "loop", "locked"}
    <3>1. Blocker(q) \in reported
      BY <2>1, <2>7, <2>10 DEF Recorded, NotRead
    <3>2. Blocker(q) = q \/ Blocker(q) \in Ancestors(q)
      BY <2>1, <2>10, BlockerOnTheWay
    <3> QED
      BY <2>5, <3>1, <3>2
  <2>11. CASE IsDanglingLink(q)
    BY <2>1, <2>5, <2>7, <2>11 DEF Recorded
  <2> QED
    BY <2>1, <2>5, <2>8, <2>9, <2>10, <2>11, CommittedCases
<1> QED
  BY <1>1, RunInvariant, PTL

\* As long as nothing that is there is asked for late, nothing goes quiet
\* (skipUnreadable).
THEOREM NothingIsQuiet ==
    ASSUME ScanRootAssumption, ScanPipelineAssumption
    PROVE  RunSpec => [](Late = {} => NothingGoesQuiet)
<1>1. (output = "report" => \A p \in InTime : Named(p)) => (Late = {} => NothingGoesQuiet)
  BY DEF NothingGoesQuiet, Late, Named
<1> QED
  BY <1>1, InTimeIsNamed, PTL
=============================================================================

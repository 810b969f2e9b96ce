--------------------------- MODULE ImportsProofs ---------------------------
(***************************************************************************)
(* Proofs about importTargets for any files, imports and number of hops.   *)
(***************************************************************************)
EXTENDS Imports, NaturalsInduction, WellFoundedInduction, TLAPS

\* The walk has marked as seen exactly the files that have a target.
SeenAreTargets == seen = Instructions \cup {out[i].file : i \in DOMAIN out}

\* Every file whose imports are followed, with its chain.
FromRoot(k) == Item(<<Roots[k]>>)
Known == {FromRoot(k) : k \in DOMAIN Roots} \cup ToSet(out)

QueueIsKnown == ToSet(queue) \subseteq Known

\* The queue holds two levels at most, the nearer one first.
BreadthFirst ==
    \A i, j \in DOMAIN queue :
        i <= j => Hops(queue[i]) <= Hops(queue[j]) /\ Hops(queue[j]) <= Hops(queue[1]) + 1

\* A chain follows imports down from a root and none is shorter.
Shortest(item) ==
    /\ item.file = item.chain[Len(item.chain)]
    /\ Head(item.chain) \in ToSet(Roots)
    /\ \A k \in 1..Hops(item) : item.chain[k + 1] \in Imported(item.chain[k])
    /\ item.file \in Reach(Expanded)[Hops(item)]
    /\ Hops(item) > 0 => item.file \notin Reach(Expanded)[Hops(item) - 1]

KnownAreShortest ==
    /\ \A item \in Known : Shortest(item) /\ Hops(item) <= MaxImportHops /\ item.file \in Expanded
    /\ \A item \in ToSet(out) : Hops(item) > 0

\* The k-th import of f is recorded, or is a target if it can be loaded.
Handled(f, k) ==
    /\ imports[f][k] = Elsewhere => <<f, k>> \in external
    /\ imports[f][k] \in readable => imports[f][k] \in seen

Followed ==
    /\ \A item \in Known :
         item \notin ToSet(queue) /\ Hops(item) < MaxImportHops =>
             \A k \in DOMAIN imports[item.file] : Handled(item.file, k)
    /\ queue # <<>> => \A k \in DOMAIN imports[Current.file] : k < pos => Handled(Current.file, k)

\* What is recorded as external is one in a file that is followed.
ExternalAreImports ==
    \A e \in external :
        /\ e[2] \in DOMAIN imports[e[1]] /\ imports[e[1]][e[2]] = Elsewhere
        /\ \E item \in Known : item.file = e[1] /\ Hops(item) < MaxImportHops

IInv ==
    /\ TypeOK /\ SeenAreTargets /\ OneTargetPerFile
    /\ QueueIsKnown /\ BreadthFirst /\ KnownAreShortest
    /\ Followed /\ ExternalAreImports
-----------------------------------------------------------------------------
(* Induction over the natural numbers, and functions defined by it         *)

Before == {pair \in Nat \X Nat : pair[1] < pair[2]}

\* The order of the natural numbers has no infinite descent.
LEMMA BeforeWellFounded == IsWellFoundedOn(Before, Nat)
BY NatLessThanWellFounded, Zenon DEF OpToRel, Before

\* A set that has zero, and the successor of every number it has, has them all.
LEMMA SetInduction ==
    ASSUME NEW T, 0 \in T, \A n \in Nat : n \in T => n + 1 \in T
    PROVE  Nat \subseteq T
<1> SUFFICES ASSUME Nat \ T # {} PROVE FALSE
  OBVIOUS
<1>1. \A x, y \in Nat : <<y, x>> \in Before <=> y < x
  BY DEF Before
<1>2. PICK x \in Nat \ T : \A y \in Nat \ T : ~ (<<y, x>> \in Before)
  BY BeforeWellFounded, WFMin
<1>3. x # 0 /\ x - 1 \in Nat /\ x - 1 < x
  BY <1>2
<1>4. x - 1 \in T
  BY <1>1, <1>2, <1>3
<1> QED
  BY <1>2, <1>3, <1>4

\* g lists the values that F gives when it is applied again and again to a.
Iteration(S, a, F, M, g) ==
    g \in [0..M -> S] /\ g[0] = a /\ \A n \in 1..M : g[n] = F[g[n - 1]]

\* A step that stays within S can be iterated M times.
LEMMA Iterates ==
    ASSUME NEW S, NEW a, a \in S, NEW F, \A s \in S : F[s] \in S, NEW M, M \in Nat
    PROVE  \E g : Iteration(S, a, F, M, g)
<1> DEFINE Ok(m, g) == g[0] = a /\ \A n \in 1..m : g[n] = F[g[n - 1]]
           T == {m \in Nat : \E g \in [0..m -> S] : Ok(m, g)}
<1>1. 0 \in T
  <2>1. [n \in 0..0 |-> a] \in [0..0 -> S] /\ Ok(0, [n \in 0..0 |-> a])
    OBVIOUS
  <2> QED
    BY <2>1
<1>2. ASSUME NEW m \in Nat, m \in T PROVE m + 1 \in T
  <2>1. PICK g \in [0..m -> S] : Ok(m, g)
    BY <1>2
  <2> DEFINE h == [n \in 0..(m + 1) |-> IF n = m + 1 THEN F[g[m]] ELSE g[n]]
  <2>2. h \in [0..(m + 1) -> S]
    OBVIOUS
  <2>3. \A n \in 0..m : h[n] = g[n]
    OBVIOUS
  <2>4. h[m + 1] = F[g[m]]
    OBVIOUS
  <2> HIDE DEF h
  <2>5. Ok(m + 1, h)
    <3>1. h[0] = a
      BY <2>1, <2>3
    <3>2. ASSUME NEW n \in 1..(m + 1) PROVE h[n] = F[h[n - 1]]
      <4>1. CASE n = m + 1
        BY <4>1, <2>3, <2>4
      <4>2. CASE n # m + 1
        BY <4>2, <2>1, <2>3
      <4> QED
        BY <4>1, <4>2
    <3> QED
      BY <3>1, <3>2
  <2> QED
    BY <2>2, <2>5
<1> HIDE DEF T
<1>3. M \in T
  BY <1>1, <1>2, SetInduction
<1> QED
  BY <1>3 DEF T, Iteration

\* The recursive function Levels satisfies the equations it is defined by.
LEMMA LevelsDef ==
    ASSUME ImportsAssumption, NEW text \in SUBSET Files, NEW through, NEW written
    PROVE  /\ Levels(written, text, through) \in [0..MaxImportHops -> SUBSET Files]
           /\ Levels(written, text, through)[0] = ToSet(Roots)
           /\ \A n \in 1..MaxImportHops :
                Levels(written, text, through)[n] = Hop(written, text, through, Levels(written, text, through)[n - 1])
<1> DEFINE Step(s) == Hop(written, text, through, s)
           Body(g) == [n \in 0..MaxImportHops |-> IF n = 0 THEN ToSet(Roots) ELSE Step(g[n - 1])]
           Sets == SUBSET Files
           F == [s \in Sets |-> Step(s)]
           L == Levels(written, text, through)
<1>1. ToSet(Roots) \in Sets /\ MaxImportHops \in Nat
  BY DEF ImportsAssumption, ToSet
<1>2. \A s \in Sets : Step(s) \in Sets
  BY DEF Hop
<1>3. L = CHOOSE g : g = Body(g)
  BY DEF Levels
<1> HIDE DEF L, Step, Sets
<1>4. \A s \in Sets : F[s] \in Sets
  BY <1>2
<1>5. \A s \in Sets : F[s] = Step(s)
  OBVIOUS
<1> HIDE DEF F
<1>6. PICK g : Iteration(Sets, ToSet(Roots), F, MaxImportHops, g)
  BY <1>1, <1>4, Iterates
<1>7. g = Body(g)
  <2>1. \A n \in 1..MaxImportHops : g[n - 1] \in Sets
    BY <1>1, <1>6 DEF Iteration
  <2>2. \A n \in 1..MaxImportHops : g[n] = Step(g[n - 1])
    BY <1>5, <1>6, <2>1 DEF Iteration
  <2> QED
    BY <1>6, <2>2 DEF Iteration
<1>8. L = Body(L)
  BY <1>3, <1>7
<1>9. DOMAIN L = 0..MaxImportHops /\ L[0] = ToSet(Roots)
  BY <1>1, <1>8
<1>10. \A n \in 1..MaxImportHops : L[n] = Step(L[n - 1])
  BY <1>1, <1>8
<1> HIDE DEF Body
<1>11. \A n \in 0..MaxImportHops : L[n] \in Sets
  <2> DEFINE T == {n \in Nat : n \in 0..MaxImportHops => L[n] \in Sets}
  <2>1. 0 \in T
    BY <1>1, <1>9
  <2>2. ASSUME NEW n \in Nat, n \in T PROVE n + 1 \in T
    <3>1. CASE n + 1 \in 0..MaxImportHops
      <4>1. L[n] \in Sets /\ L[n + 1] = Step(L[n])
        BY <1>1, <1>10, <2>2, <3>1
      <4> QED
        BY <1>2, <4>1
    <3> QED
      BY <3>1
  <2> HIDE DEF T
  <2>3. Nat \subseteq T
    BY <2>1, <2>2, SetInduction
  <2> QED
    BY <1>1, <2>3 DEF T
<1>12. L = [n \in 0..MaxImportHops |-> L[n]]
  BY <1>8 DEF Body
<1>13. L \in [0..MaxImportHops -> Sets]
  BY <1>11, <1>12
<1> QED
  BY <1>9, <1>10, <1>13 DEF Step, L, Sets

-----------------------------------------------------------------------------
(* Items and levels                                                        *)

\* The last file of a chain is the file of its item.
LEMMA ItemType ==
    ASSUME NEW chain \in Seq(Files) \ {<<>>}
    PROVE  /\ Item(chain) \in Items
           /\ Item(chain).file = chain[Len(chain)]
           /\ Item(chain).chain = chain
BY DEF Item, Items, Last

\* A chain that is one import longer belongs to the imported file.
LEMMA ImportedItem ==
    ASSUME NEW chain \in Seq(Files) \ {<<>>}, NEW f \in Files
    PROVE  /\ Item(Append(chain, f)) \in Items
           /\ Item(Append(chain, f)).file = f
           /\ Item(Append(chain, f)).chain = Append(chain, f)
<1>1. Append(chain, f) \in Seq(Files) \ {<<>>} /\ Append(chain, f)[Len(Append(chain, f))] = f
  OBVIOUS
<1> QED
  BY <1>1, ItemType

\* An item has a file, and a chain that counts its hops.
LEMMA ItemFields ==
    ASSUME NEW item \in Items
    PROVE  /\ item.file \in Files /\ item.chain \in Seq(Files) \ {<<>>}
           /\ Hops(item) \in Nat /\ Len(item.chain) = Hops(item) + 1
BY DEF Items, Hops

\* A root is a chain of its own.
LEMMA RootItem ==
    ASSUME ImportsAssumption, NEW k \in DOMAIN Roots
    PROVE  /\ FromRoot(k) \in Items
           /\ FromRoot(k).file = Roots[k]
           /\ FromRoot(k).chain = <<Roots[k]>>
           /\ Hops(FromRoot(k)) = 0
           /\ Roots[k] \in Instructions /\ Roots[k] \in ToSet(Roots)
<1>1. Roots[k] \in Instructions /\ Roots[k] \in Files /\ Roots[k] \in ToSet(Roots)
  BY DEF ImportsAssumption, ToSet
<1> DEFINE chain == <<Roots[k]>>
<1>2. chain \in Seq(Files) \ {<<>>} /\ Len(chain) = 1 /\ chain[1] = Roots[k]
  BY <1>1
<1>3. FromRoot(k) = Item(chain)
  BY DEF FromRoot
<1> HIDE DEF chain
<1>4. /\ Item(chain) \in Items /\ Item(chain).file = Roots[k]
      /\ Item(chain).chain = chain /\ Hops(Item(chain)) = 0
  BY <1>2, ItemType DEF Hops
<1> QED
  BY <1>1, <1>3, <1>4 DEF chain

\* Every file that is followed has a chain, and its hops are counted in Nat.
LEMMA KnownType ==
    ASSUME ImportsAssumption, TypeOK, NEW item \in Known
    PROVE  /\ item \in Items
           /\ item.file \in Files /\ item.chain \in Seq(Files) \ {<<>>}
           /\ Hops(item) \in Nat /\ Len(item.chain) = Hops(item) + 1
<1>1. CASE item \in ToSet(out)
  <2>1. item \in Items
    BY <1>1 DEF TypeOK, ToSet
  <2> QED
    BY <2>1, ItemFields
<1>2. CASE \E k \in DOMAIN Roots : item = FromRoot(k)
  <2>1. item \in Items
    BY <1>2, RootItem
  <2> QED
    BY <2>1, ItemFields
<1> QED
  BY <1>1, <1>2 DEF Known

\* Reach is computed level by level.
LEMMA ReachDef ==
    ASSUME ImportsAssumption, TypeOK
    PROVE  /\ Reach(Expanded) \in [0..MaxImportHops -> SUBSET Files]
           /\ Reach(Expanded)[0] = ToSet(Roots)
           /\ \A n \in 1..MaxImportHops :
                Reach(Expanded)[n] = Hop(imports, readable, Expanded, Reach(Expanded)[n - 1])
<1>1. readable \in SUBSET Files
  BY DEF TypeOK
<1> QED
  BY <1>1, LevelsDef DEF Reach

\* A level includes the ones above it.
LEMMA ReachMonotone ==
    ASSUME ImportsAssumption, TypeOK,
           NEW m \in 0..MaxImportHops, NEW n \in 0..MaxImportHops, m <= n
    PROVE  Reach(Expanded)[m] \subseteq Reach(Expanded)[n]
<1> DEFINE R == Reach(Expanded)
           T == {d \in Nat : m + d \in 0..MaxImportHops => R[m] \subseteq R[m + d]}
<1>0. MaxImportHops \in Nat
  BY DEF ImportsAssumption
<1>1. 0 \in T
  BY <1>0
<1>2. ASSUME NEW d \in Nat, d \in T PROVE d + 1 \in T
  <2>1. CASE m + (d + 1) \in 0..MaxImportHops
    <3>1. m + d \in 0..MaxImportHops /\ m + (d + 1) \in 1..MaxImportHops /\ (m + (d + 1)) - 1 = m + d
      BY <1>0, <2>1
    <3>2. R[m + (d + 1)] = Hop(imports, readable, Expanded, R[m + d])
      BY <3>1, ReachDef
    <3> QED
      BY <1>2, <3>1, <3>2 DEF Hop
  <2> QED
    BY <2>1
<1> HIDE DEF T
<1>3. Nat \subseteq T
  BY <1>1, <1>2, SetInduction
<1>4. n - m \in T /\ m + (n - m) = n
  BY <1>0, <1>3
<1> QED
  BY <1>4 DEF T

\* The imports of a file that is expanded are one level further down.
LEMMA ReachNext ==
    ASSUME ImportsAssumption, TypeOK, NEW n \in 0..MaxImportHops, n < MaxImportHops,
           NEW f
    PROVE  f \in Reach(Expanded)[n + 1] <=>
             \/ f \in Reach(Expanded)[n]
             \/ /\ f \in readable
                /\ \E g \in Reach(Expanded)[n] \cap Expanded : f \in Imported(g)
<1>1. n + 1 \in 1..MaxImportHops /\ (n + 1) - 1 = n
  BY DEF ImportsAssumption
<1>2. Reach(Expanded)[n + 1] = Hop(imports, readable, Expanded, Reach(Expanded)[n])
  BY <1>1, ReachDef
<1> QED
  BY <1>2 DEF Hop, Imported
-----------------------------------------------------------------------------
(* The breadth-first walk                                                  *)

\* A target that Claude Code expands is one the walk follows.
LEMMA ExpandedTargetIsKnown ==
    ASSUME ImportsAssumption, TypeOK, SeenAreTargets, NEW f \in seen \cap Expanded
    PROVE  \E item \in Known : item.file = f
<1>1. CASE f \in ToSet(Roots)
  <2>1. PICK k \in DOMAIN Roots : f = Roots[k]
    BY <1>1 DEF ToSet
  <2> QED
    BY <2>1, RootItem DEF Known
<1>2. CASE f \notin ToSet(Roots)
  <2>1. f \notin Instructions
    BY <1>2 DEF Expanded
  <2>2. PICK i \in DOMAIN out : f = out[i].file
    BY <2>1 DEF SeenAreTargets
  <2> QED
    BY <2>2 DEF Known, ToSet
<1> QED
  BY <1>1, <1>2

\* A file within n hops that the walk follows was found within n hops.
LEMMA FoundInTime ==
    ASSUME ImportsAssumption, TypeOK, KnownAreShortest,
           NEW item \in Known, NEW n \in 0..MaxImportHops, item.file \in Reach(Expanded)[n]
    PROVE  Hops(item) <= n
<1> SUFFICES ASSUME n < Hops(item) PROVE FALSE
  BY KnownType, ImportsAssumption DEF ImportsAssumption
<1>1. Hops(item) \in Nat /\ Hops(item) <= MaxImportHops /\ Hops(item) > 0
  BY KnownType DEF KnownAreShortest
<1>2. item.file \notin Reach(Expanded)[Hops(item) - 1]
  BY <1>1 DEF KnownAreShortest, Shortest
<1>3. Hops(item) - 1 \in 0..MaxImportHops /\ n <= Hops(item) - 1
  BY <1>1 DEF ImportsAssumption
<1> QED
  BY <1>2, <1>3, ReachMonotone

\* Once nothing found in fewer than m hops is left to follow, all files
\* within m hops are targets.
LEMMA Closure ==
    ASSUME ImportsAssumption, IInv, NEW m \in 0..MaxImportHops,
           \A item \in Known : Hops(item) < m => item \notin ToSet(queue)
    PROVE  Reach(Expanded)[m] \subseteq seen
<1> DEFINE R == Reach(Expanded)
           T == {n \in Nat : n <= m => R[n] \subseteq seen}
<1>0. MaxImportHops \in Nat /\ m \in Nat /\ m <= MaxImportHops
  BY DEF ImportsAssumption
<1>1. 0 \in T
  <2>1. R[0] = ToSet(Roots)
    BY ReachDef DEF IInv
  <2> QED
    BY <2>1 DEF IInv, SeenAreTargets, ImportsAssumption, ToSet
<1>2. ASSUME NEW n \in Nat, n \in T PROVE n + 1 \in T
  <2> SUFFICES ASSUME n + 1 <= m, NEW f \in R[n + 1] PROVE f \in seen
    OBVIOUS
  <2>1. n \in 0..MaxImportHops /\ n < MaxImportHops /\ n < m
    BY <1>0
  <2>2. R[n] \subseteq seen
    BY <1>2, <2>1
  <2> HIDE DEF T
  <2>3. CASE f \in R[n]
    BY <2>2, <2>3
  <2>4. CASE f \in readable /\ \E g \in R[n] \cap Expanded : f \in Imported(g)
    <3>1. PICK g \in R[n] \cap Expanded : f \in Imported(g)
      BY <2>4
    <3>2. PICK item \in Known : item.file = g
      BY <2>2, <3>1, ExpandedTargetIsKnown DEF IInv
    <3>3. Hops(item) \in Nat /\ Hops(item) <= n
      BY <2>1, <3>1, <3>2, FoundInTime, KnownType DEF IInv
    <3>4. Hops(item) < MaxImportHops /\ item \notin ToSet(queue)
      BY <1>0, <2>1, <3>3
    <3>5. PICK k \in DOMAIN imports[g] : imports[g][k] = f
      BY <3>1 DEF Imported, ToSet
    <3>6. Handled(g, k)
      BY <3>2, <3>4, <3>5 DEF IInv, Followed
    <3> QED
      BY <2>4, <3>5, <3>6 DEF Handled
  <2> QED
    BY <2>1, <2>3, <2>4, ReachNext DEF IInv
<1> HIDE DEF T
<1>3. m \in T
  BY <1>0, <1>1, <1>2, SetInduction
<1> QED
  BY <1>0, <1>3 DEF T

\* What is nearer than the head of the queue is a target already.
LEMMA NearerIsSeen ==
    ASSUME ImportsAssumption, IInv, queue # <<>>
    PROVE  Hops(Current) \in 0..MaxImportHops /\ Reach(Expanded)[Hops(Current)] \subseteq seen
<1>1. Current = queue[1] /\ 1 \in DOMAIN queue
  BY DEF Current, IInv, TypeOK
<1>2. Current \in Known
  BY <1>1 DEF IInv, QueueIsKnown, ToSet
<1>3. Hops(Current) \in Nat /\ Hops(Current) <= MaxImportHops /\ MaxImportHops \in Nat
  BY <1>2, KnownType DEF IInv, KnownAreShortest, ImportsAssumption
<1>4. ASSUME NEW item \in Known, Hops(item) < Hops(Current), item \in ToSet(queue) PROVE FALSE
  <2>1. PICK i \in DOMAIN queue : item = queue[i]
    BY <1>4 DEF ToSet
  <2>2. Hops(queue[1]) <= Hops(queue[i])
    <3>1. 1 <= i
      BY <2>1 DEF IInv, TypeOK
    <3> QED
      BY <3>1, <1>1, <2>1 DEF IInv, BreadthFirst
  <2> QED
    BY <1>1, <1>3, <1>4, <2>1, <2>2, KnownType DEF IInv
<1> QED
  BY <1>3, <1>4, Closure
-----------------------------------------------------------------------------
(* The steps                                                               *)

\* While the files do not change, a shortest chain remains one.
LEMMA StaysShortest ==
    ASSUME NEW item, Shortest(item), UNCHANGED <<imports, readable>>
    PROVE  Shortest(item)'
BY DEF Shortest, Reach, Imported

\* An import that is handled remains so.
LEMMA StaysHandled ==
    ASSUME NEW f, NEW k, Handled(f, k), UNCHANGED <<imports, readable>>,
           seen \subseteq seen', external \subseteq external'
    PROVE  Handled(f, k)'
BY DEF Handled

\* Nothing is a target but the instruction files when the walk starts, and
\* nothing is followed but the roots.
LEMMA InitInv == ASSUME ImportsAssumption, Init PROVE IInv
<1>1. imports \in [Files -> Seq(Files \cup {Elsewhere})]
  BY DEF Init, ImportsAssumption
<1>2. Len(Roots) \in Nat /\ DOMAIN Roots = 1..Len(Roots) /\ MaxImportHops \in Nat
  BY DEF ImportsAssumption
<1>3. /\ queue \in Seq(Items) /\ DOMAIN queue = DOMAIN Roots
      /\ \A k \in DOMAIN Roots : queue[k] = FromRoot(k)
  <2>1. queue = [k \in 1..Len(Roots) |-> FromRoot(k)]
    BY DEF Init, FromRoot
  <2> QED
    BY <1>2, <2>1, RootItem
<1>4. TypeOK
  BY <1>1, <1>3 DEF Init, TypeOK, ImportsAssumption
<1>5. SeenAreTargets /\ OneTargetPerFile /\ ExternalAreImports
  BY DEF Init, SeenAreTargets, OneTargetPerFile, ExternalAreImports
<1>6. Known = {FromRoot(k) : k \in DOMAIN Roots} /\ ToSet(queue) = Known /\ ToSet(out) = {}
  <2>1. ToSet(out) = {}
    BY DEF Init, ToSet
  <2>2. Known = {FromRoot(k) : k \in DOMAIN Roots}
    BY <2>1 DEF Known
  <2> QED
    BY <1>3, <2>1, <2>2 DEF ToSet
<1>7. BreadthFirst
  <2>1. \A k \in DOMAIN queue : Hops(queue[k]) = 0
    BY <1>3, RootItem
  <2>2. \A k \in DOMAIN queue : 1 \in DOMAIN queue
    BY <1>2, <1>3
  <2> QED
    BY <2>1, <2>2 DEF BreadthFirst
<1>8. KnownAreShortest
  <2>1. ASSUME NEW k \in DOMAIN Roots
        PROVE  Shortest(FromRoot(k)) /\ Hops(FromRoot(k)) = 0 /\ FromRoot(k).file \in Expanded
    <3> DEFINE chain == <<Roots[k]>>
    <3>1. Len(chain) = 1 /\ chain[1] = Roots[k] /\ Head(chain) = Roots[k]
      OBVIOUS
    <3> HIDE DEF chain
    <3>2. Reach(Expanded)[0] = ToSet(Roots)
      BY <1>4, ReachDef
    <3>3. /\ FromRoot(k).file = Roots[k] /\ FromRoot(k).chain = chain
          /\ Hops(FromRoot(k)) = 0 /\ Roots[k] \in ToSet(Roots)
      BY RootItem DEF chain
    <3>4. /\ FromRoot(k).file = FromRoot(k).chain[Len(FromRoot(k).chain)]
          /\ Head(FromRoot(k).chain) \in ToSet(Roots)
      BY <3>1, <3>3
    <3>5. \A j \in 1..Hops(FromRoot(k)) : FALSE
      BY <3>3
    <3>6. /\ FromRoot(k).file \in Reach(Expanded)[Hops(FromRoot(k))]
          /\ ~ (Hops(FromRoot(k)) > 0)
      BY <3>2, <3>3
    <3> QED
      BY <3>3, <3>4, <3>5, <3>6 DEF Shortest, Expanded
  <2>2. ASSUME NEW item \in Known
        PROVE  Shortest(item) /\ Hops(item) = 0 /\ item.file \in Expanded
    BY <1>6, <2>1
  <2>3. \A item \in Known : Hops(item) <= MaxImportHops
    BY <1>2, <2>2
  <2> QED
    BY <1>6, <2>2, <2>3 DEF KnownAreShortest
<1>9. Followed
  <2>1. ASSUME queue # <<>>, NEW k \in DOMAIN imports[Current.file], k < pos PROVE FALSE
    <3>1. Current.file \in Files
      BY <1>3, <2>1, ItemFields DEF Current
    <3>2. k \in Nat /\ k >= 1 /\ pos = 1
      BY <1>1, <2>1, <3>1 DEF Init
    <3> QED
      BY <2>1, <3>2
  <2> QED
    BY <1>6, <2>1 DEF Followed
<1> QED
  BY <1>4, <1>5, <1>6, <1>7, <1>8, <1>9 DEF IInv, QueueIsKnown

\* The first file of the queue and its imports are what the types say.
LEMMA CurrentType ==
    ASSUME ImportsAssumption, IInv, queue # <<>>
    PROVE  /\ Current = queue[1] /\ 1 \in DOMAIN queue /\ Current \in ToSet(queue)
           /\ Current \in Known /\ Current \in Items
           /\ Current.file \in Files
           /\ imports[Current.file] \in Seq(Files \cup {Elsewhere})
<1>1. Current = queue[1] /\ 1 \in DOMAIN queue /\ Current \in Items
  BY DEF Current, IInv, TypeOK
<1>2. Current \in ToSet(queue)
  BY <1>1 DEF ToSet
<1> QED
  BY <1>1, <1>2, ItemFields DEF IInv, QueueIsKnown, TypeOK

\* Leaving the first file, all whose imports are handled, changes no target.
LEMMA DequeueInv == ASSUME ImportsAssumption, IInv, Dequeue PROVE IInv'
<1> DEFINE rest == Tail(queue)
<1>1. /\ queue \in Seq(Items) /\ queue # <<>> /\ queue' = rest /\ pos' = 1
      /\ UNCHANGED <<imports, readable, seen, out, external>>
  BY DEF IInv, TypeOK, Dequeue
<1>2. /\ rest \in Seq(Items) /\ Len(rest) = Len(queue) - 1 /\ DOMAIN rest = 1..(Len(queue) - 1)
      /\ \A i \in DOMAIN rest : rest[i] = queue[i + 1] /\ i + 1 \in DOMAIN queue
  BY <1>1
<1>3. Known' = Known /\ ToSet(out)' = ToSet(out)
  BY <1>1 DEF Known
<1>4. ToSet(queue') \subseteq ToSet(queue) /\ ToSet(queue) \ ToSet(queue') \subseteq {Current}
  <2>1. \A i \in DOMAIN queue : i = 1 \/ (i - 1 \in DOMAIN rest /\ rest[i - 1] = queue[i])
    BY <1>1, <1>2
  <2>2. Current = queue[1]
    BY <1>1, CurrentType
  <2>3. ToSet(queue') = {rest[i] : i \in DOMAIN rest} /\ ToSet(queue) = {queue[i] : i \in DOMAIN queue}
    BY <1>1 DEF ToSet
  <2> HIDE DEF rest
  <2>4. ToSet(queue') \subseteq ToSet(queue)
    BY <1>2, <2>3
  <2> QED
    BY <2>1, <2>2, <2>3, <2>4
<1> HIDE DEF rest
<1>5. TypeOK'
  BY <1>1, <1>2 DEF IInv, TypeOK
<1>6. SeenAreTargets' /\ OneTargetPerFile'
  BY <1>1 DEF IInv, SeenAreTargets, OneTargetPerFile
<1>7. QueueIsKnown'
  BY <1>3, <1>4 DEF IInv, QueueIsKnown
<1>8. BreadthFirst'
  <2> SUFFICES ASSUME NEW i \in DOMAIN rest, NEW j \in DOMAIN rest, i <= j
               PROVE  Hops(rest[i]) <= Hops(rest[j]) /\ Hops(rest[j]) <= Hops(rest[1]) + 1
    BY <1>1 DEF BreadthFirst
  <2>1. /\ i + 1 \in DOMAIN queue /\ j + 1 \in DOMAIN queue /\ i + 1 <= j + 1
        /\ 1 \in DOMAIN rest /\ 2 \in DOMAIN queue /\ 1 \in DOMAIN queue
        /\ rest[i] = queue[i + 1] /\ rest[j] = queue[j + 1] /\ rest[1] = queue[2]
    BY <1>1, <1>2
  <2>2. \A k \in DOMAIN queue : Hops(queue[k]) \in Nat
    BY <1>1, ItemFields
  <2>3. /\ Hops(queue[i + 1]) <= Hops(queue[j + 1])
        /\ Hops(queue[j + 1]) <= Hops(queue[1]) + 1 /\ Hops(queue[1]) <= Hops(queue[2])
    BY <2>1 DEF IInv, BreadthFirst
  <2> QED
    BY <2>1, <2>2, <2>3
<1>9. KnownAreShortest'
  BY <1>1, <1>3, StaysShortest DEF IInv, KnownAreShortest, Expanded, Hops
<1>10. Followed'
  <2>1. ASSUME NEW item \in Known, item \notin ToSet(queue'), Hops(item) < MaxImportHops,
               NEW k \in DOMAIN imports[item.file]
        PROVE  Handled(item.file, k)
    <3>1. CASE item \notin ToSet(queue)
      BY <2>1, <3>1 DEF IInv, Followed
    <3>2. CASE item = Current
      <4>1. ~ Exhausted(Current)
        BY <2>1, <3>2, KnownType DEF IInv, Exhausted, ImportsAssumption
      <4>2. pos \notin DOMAIN imports[Current.file]
        BY <4>1, <1>1 DEF Dequeue, AtImport
      <4>3. k < pos
        BY <1>1, <2>1, <3>2, <4>2, CurrentType DEF IInv, TypeOK
      <4> QED
        BY <1>1, <2>1, <3>2, <4>3 DEF IInv, Followed
    <3> QED
      BY <1>4, <2>1, <3>1, <3>2
  <2>2. ASSUME queue' # <<>>, NEW k \in DOMAIN imports[Current'.file], k < 1 PROVE FALSE
    <3>1. Current' \in Items
      BY <1>1, <1>2, <2>2 DEF Current
    <3>2. imports[Current'.file] \in Seq(Files \cup {Elsewhere})
      BY <3>1, ItemFields DEF IInv, TypeOK
    <3> QED
      BY <2>2, <3>2
  <2>3. \A f, k : Handled(f, k) => Handled(f, k)'
    BY <1>1, StaysHandled
  <2> QED
    BY <1>1, <1>3, <2>1, <2>2, <2>3 DEF Followed, Hops
<1>11. ExternalAreImports'
  BY <1>1, <1>3 DEF IInv, ExternalAreImports, Hops
<1> QED
  BY <1>5, <1>6, <1>7, <1>8, <1>9, <1>10, <1>11 DEF IInv

\* Neither does an import that is recorded or skipped.
LEMMA NoTargetInv ==
    ASSUME ImportsAssumption, IInv, RecordExternal \/ SkipImport PROVE IInv'
<1>1. /\ AtImport /\ queue # <<>> /\ Hops(Current) < MaxImportHops
      /\ pos' = pos + 1 /\ UNCHANGED <<imports, readable, seen, queue, out>>
  <2>1. AtImport /\ ~ Exhausted(Current) /\ queue # <<>>
    BY DEF RecordExternal, SkipImport, AtImport
  <2>2. Hops(Current) \in Nat /\ MaxImportHops \in Nat
    BY <2>1, CurrentType, KnownType DEF IInv, ImportsAssumption
  <2> QED
    BY <2>1, <2>2 DEF RecordExternal, SkipImport, Exhausted
<1>2. /\ Current \in Known /\ Current.file \in Files /\ pos \in DOMAIN imports[Current.file]
      /\ pos \in Nat \ {0} /\ Current' = Current /\ Known' = Known /\ ToSet(queue)' = ToSet(queue)
  BY <1>1, CurrentType DEF AtImport, Current, Known, IInv, TypeOK
<1>3. \/ external' = external
      \/ external' = external \cup {<<Current.file, pos>>} /\ Import = Elsewhere
  BY DEF RecordExternal, SkipImport
<1>4. TypeOK'
  BY <1>1, <1>2, <1>3 DEF IInv, TypeOK
<1>5. SeenAreTargets' /\ OneTargetPerFile' /\ QueueIsKnown' /\ BreadthFirst'
  BY <1>1, <1>2 DEF IInv, SeenAreTargets, OneTargetPerFile, QueueIsKnown, BreadthFirst, Hops
<1>6. KnownAreShortest'
  BY <1>1, <1>2, StaysShortest DEF IInv, KnownAreShortest, Expanded, Hops
<1>7. ASSUME NEW f, NEW k, f = Current.file, k = pos PROVE Handled(f, k)'
  <2>1. CASE RecordExternal
    <3>1. imports[f][k] = Elsewhere /\ Elsewhere \notin readable
      BY <1>7, <2>1 DEF RecordExternal, Import, IInv, TypeOK, ImportsAssumption
    <3>2. <<f, k>> \in external'
      BY <1>7, <2>1 DEF RecordExternal
    <3> QED
      BY <1>1, <3>1, <3>2 DEF Handled
  <2>2. CASE SkipImport
    <3>1. imports[f][k] # Elsewhere /\ (imports[f][k] \in seen \/ imports[f][k] \notin readable)
      BY <1>7, <2>2 DEF SkipImport, Import, ImportsAssumption
    <3> QED
      BY <1>1, <3>1 DEF Handled
  <2> QED
    BY <2>1, <2>2
<1>8. Followed'
  <2>1. \A f, k : Handled(f, k) => Handled(f, k)'
    BY <1>1, <1>3, StaysHandled
  <2>2. ASSUME NEW f, f = Current.file, NEW k \in DOMAIN imports[f], k < pos + 1
        PROVE  Handled(f, k)'
    <3>1. k < pos \/ k = pos
      BY <1>2, <2>2, CurrentType, <1>1
    <3> QED
      BY <1>1, <1>7, <2>1, <2>2, <3>1 DEF IInv, Followed
  <2>3. ASSUME NEW x \in Known, x \notin ToSet(queue), Hops(x) < MaxImportHops,
               NEW k \in DOMAIN imports[x.file]
        PROVE  Handled(x.file, k)'
    BY <2>1, <2>3 DEF IInv, Followed
  <2> QED
    BY <1>1, <1>2, <2>2, <2>3 DEF Followed, Hops
<1>9. ExternalAreImports'
  BY <1>1, <1>2, <1>3 DEF IInv, ExternalAreImports, Import, Hops
<1> QED
  BY <1>4, <1>5, <1>6, <1>8, <1>9 DEF IInv

\* A followed import was not within the hops of the file that imports it, so
\* its chain is a shortest one.
LEMMA FollowedItem ==
    ASSUME ImportsAssumption, IInv, Follow,
           NEW item, item = Item(Append(Current.chain, Import))
    PROVE  /\ item \in Items /\ item.file = Import
           /\ Import \in Files \cap readable /\ Import \notin seen
           /\ Hops(Current) \in Nat /\ Hops(Current) < MaxImportHops
           /\ Hops(item) = Hops(Current) + 1
           /\ Shortest(item) /\ item.file \in Expanded
<1> DEFINE h == Hops(Current)
           chain == Current.chain
<1>1. /\ AtImport /\ ~ Exhausted(Current) /\ queue # <<>>
      /\ Import \in Files /\ Import \in readable /\ Import \notin seen
  BY DEF Follow, AtImport, IInv, TypeOK
<1>2. /\ Current \in Known /\ Current \in Items /\ Current.file \in Files
      /\ imports[Current.file] \in Seq(Files \cup {Elsewhere})
  BY <1>1, CurrentType
<1>3. /\ chain \in Seq(Files) \ {<<>>} /\ h \in Nat /\ Len(chain) = h + 1
      /\ Shortest(Current) /\ Current.file \in Expanded
  BY <1>2, KnownType DEF IInv, KnownAreShortest
<1>4. h < MaxImportHops /\ MaxImportHops \in Nat
  BY <1>1, <1>3 DEF Exhausted, ImportsAssumption
<1>5. Import \in Imported(Current.file)
  BY <1>1, <1>2 DEF AtImport, Import, Imported, ToSet
<1>6. /\ item \in Items /\ item.file = Import /\ item.chain = Append(chain, Import)
  BY <1>1, <1>3, ImportedItem
<1> HIDE DEF h, chain
<1>7. /\ Len(item.chain) = h + 2 /\ item.chain[h + 2] = Import
      /\ \A k \in 1..(h + 1) : item.chain[k] = chain[k]
      /\ Head(item.chain) = Head(chain)
  BY <1>1, <1>3, <1>6
<1>8. Hops(item) = h + 1
  BY <1>3, <1>7 DEF Hops
<1>9. \A k \in 1..Hops(item) : item.chain[k + 1] \in Imported(item.chain[k])
  <2> TAKE k \in 1..Hops(item)
  <2>1. CASE k = h + 1
    <3>1. chain[h + 1] = Current.file
      BY <1>3 DEF Shortest, chain
    <3> QED
      BY <1>3, <1>5, <1>7, <2>1, <3>1
  <2>2. CASE k # h + 1
    <3>1. k \in 1..h /\ k \in 1..(h + 1) /\ k + 1 \in 1..(h + 1)
      BY <1>3, <1>8, <2>2
    <3>2. chain[k + 1] \in Imported(chain[k])
      BY <1>3, <3>1 DEF Shortest, chain, h
    <3> QED
      BY <1>7, <3>1, <3>2
  <2> QED
    BY <2>1, <2>2
<1>10. Import \in Reach(Expanded)[h + 1]
  <2>1. Current.file \in Reach(Expanded)[h] \cap Expanded
    BY <1>3 DEF Shortest, h
  <2> QED
    <3>1. h \in 0..MaxImportHops
      BY <1>3, <1>4
    <3> QED
      BY <1>1, <1>4, <1>5, <2>1, <3>1, ReachNext DEF IInv
<1>11. Import \notin Reach(Expanded)[h]
  BY <1>1, NearerIsSeen DEF h
<1>12. Shortest(item)
  <2>1. Head(item.chain) \in ToSet(Roots)
    BY <1>3, <1>7 DEF Shortest, chain
  <2>2. item.file = item.chain[Len(item.chain)]
    BY <1>6, <1>7
  <2>3. Hops(item) - 1 = h
    BY <1>3, <1>8
  <2> QED
    BY <1>6, <1>8, <1>9, <1>10, <1>11, <2>1, <2>2, <2>3 DEF Shortest
<1>13. Import \in Expanded
  BY <1>1 DEF IInv, SeenAreTargets, Expanded
<1> QED
  BY <1>1, <1>3, <1>4, <1>6, <1>8, <1>12, <1>13 DEF h

\* A followed import was not a target before and is one after.
LEMMA FollowInv == ASSUME ImportsAssumption, IInv, Follow PROVE IInv'
<1> DEFINE item == Item(Append(Current.chain, Import))
<1>1. /\ item \in Items /\ item.file = Import
      /\ Import \in Files \cap readable /\ Import \notin seen
      /\ Hops(Current) \in Nat /\ Hops(Current) < MaxImportHops
      /\ Hops(item) = Hops(Current) + 1
      /\ Shortest(item) /\ item.file \in Expanded
  BY FollowedItem
<1>2. /\ queue' = Append(queue, item) /\ out' = Append(out, item)
      /\ seen' = seen \cup {Import} /\ pos' = pos + 1
      /\ UNCHANGED <<imports, readable, external>> /\ AtImport /\ queue # <<>>
  BY DEF Follow, AtImport
<1> HIDE DEF item
<1>3. /\ queue \in Seq(Items) /\ out \in Seq(Items) /\ queue' \in Seq(Items) /\ out' \in Seq(Items)
      /\ pos \in Nat \ {0} /\ pos \in DOMAIN imports[Current.file]
      /\ 1 \in DOMAIN queue /\ Current = queue[1] /\ Current \in Known
      /\ imports[Current.file] \in Seq(Files \cup {Elsewhere})
  <2>1. queue \in Seq(Items) /\ out \in Seq(Items) /\ pos \in Nat \ {0}
    BY DEF IInv, TypeOK
  <2>2. queue' \in Seq(Items) /\ out' \in Seq(Items)
    BY <1>1, <1>2, <2>1
  <2> QED
    BY <1>2, <2>1, <2>2, CurrentType DEF AtImport
<1>4. TypeOK'
  BY <1>1, <1>2, <1>3 DEF IInv, TypeOK
<1>5. /\ DOMAIN out' = DOMAIN out \cup {Len(out) + 1}
      /\ \A i \in DOMAIN out : out'[i] = out[i]
      /\ out'[Len(out) + 1] = item
  BY <1>1, <1>2, <1>3
<1>6. /\ DOMAIN queue' = DOMAIN queue \cup {Len(queue) + 1}
      /\ \A i \in DOMAIN queue : queue'[i] = queue[i] /\ i < Len(queue) + 1
      /\ queue'[Len(queue) + 1] = item /\ Current' = Current
  BY <1>1, <1>2, <1>3 DEF Current
<1>7. ToSet(out)' = ToSet(out) \cup {item} /\ ToSet(queue)' = ToSet(queue) \cup {item}
  BY <1>5, <1>6 DEF ToSet
<1>8. Known' = Known \cup {item}
  BY <1>7 DEF Known
<1>9. SeenAreTargets'
  BY <1>1, <1>2, <1>5 DEF IInv, SeenAreTargets
<1>10. OneTargetPerFile'
  BY <1>1, <1>5 DEF IInv, OneTargetPerFile, SeenAreTargets
<1>11. QueueIsKnown'
  BY <1>7, <1>8 DEF IInv, QueueIsKnown
<1>12. BreadthFirst'
  <2>1. \A i \in DOMAIN queue : Hops(queue[i]) \in Nat /\ Hops(queue[i]) <= Hops(queue[1]) + 1
    <3>1. \A i \in DOMAIN queue : 1 <= i
      BY <1>3
    <3> QED
      BY <1>3, <3>1, ItemFields DEF IInv, BreadthFirst
  <2> SUFFICES ASSUME NEW i \in DOMAIN queue', NEW j \in DOMAIN queue', i <= j
               PROVE  Hops(queue'[i]) <= Hops(queue'[j]) /\ Hops(queue'[j]) <= Hops(queue'[1]) + 1
    BY DEF BreadthFirst, Hops
  <2>2. CASE i \in DOMAIN queue /\ j \in DOMAIN queue
    BY <1>3, <1>6, <2>2 DEF IInv, BreadthFirst
  <2>3. CASE i \in DOMAIN queue /\ j = Len(queue) + 1
    BY <1>1, <1>3, <1>6, <2>1, <2>3
  <2>4. CASE i = Len(queue) + 1
    <3>1. j = Len(queue) + 1
      BY <1>3, <1>6, <2>4
    <3> QED
      BY <1>1, <1>3, <1>6, <2>4, <3>1
  <2> QED
    BY <1>6, <2>2, <2>3, <2>4
<1>13. KnownAreShortest'
  <2>1. \A x \in Known \cup {item} : Shortest(x) /\ Hops(x) <= MaxImportHops /\ x.file \in Expanded
    BY <1>1 DEF IInv, KnownAreShortest, ImportsAssumption
  <2>2. \A x \in ToSet(out) \cup {item} : Hops(x) > 0
    BY <1>1 DEF IInv, KnownAreShortest
  <2>3. \A x : Shortest(x) => Shortest(x)'
    BY <1>2, StaysShortest
  <2> QED
    BY <1>7, <1>8, <2>1, <2>2, <2>3 DEF KnownAreShortest, Hops, Expanded
<1>14. Followed'
  <2>1. \A f, k : Handled(f, k) => Handled(f, k)'
    BY <1>2, StaysHandled
  <2>2. ASSUME NEW f, f = Current.file, NEW k \in DOMAIN imports[f], k < pos + 1
        PROVE  Handled(f, k)'
    <3>1. CASE k < pos
      BY <1>2, <2>1, <2>2, <3>1 DEF IInv, Followed
    <3>2. CASE k = pos
      <4>1. imports[f][k] # Elsewhere /\ imports[f][k] \in seen'
        BY <1>1, <1>2, <2>2, <3>2 DEF Import, ImportsAssumption
      <4> QED
        BY <1>2, <4>1 DEF Handled
    <3> QED
      BY <1>3, <2>2, <3>1, <3>2
  <2>5. ASSUME NEW x \in Known', x \notin ToSet(queue)', Hops(x) < MaxImportHops,
               NEW k \in DOMAIN imports[x.file]
        PROVE  Handled(x.file, k)'
    <3>1. x \in Known /\ x \notin ToSet(queue)
      BY <1>7, <1>8, <2>5
    <3> QED
      BY <2>1, <2>5, <3>1 DEF IInv, Followed
  <2> QED
    BY <1>2, <1>6, <2>2, <2>5 DEF Followed, Hops
<1>15. ExternalAreImports'
  BY <1>2, <1>8 DEF IInv, ExternalAreImports, Hops
<1> QED
  BY <1>4, <1>9, <1>10, <1>11, <1>12, <1>13, <1>14, <1>15 DEF IInv
-----------------------------------------------------------------------------
(* The theorems                                                            *)

\* The targets, the chains that led to them and the imports that are left
\* stay consistent in every behaviour of the walk (importTargets, imports.go).
THEOREM InductiveInvariant == ASSUME ImportsAssumption PROVE Spec => []IInv
<1>1. Init => IInv
  BY InitInv
<1>2. ASSUME IInv, [Next]_vars PROVE IInv'
  <2>1. CASE UNCHANGED vars
    <3>1. /\ UNCHANGED <<imports, readable, seen, queue, pos, out, external>>
          /\ Known' = Known /\ Current' = Current /\ \A x : Hops(x)' = Hops(x)
      BY <2>1 DEF vars, Known, Current, Hops
    <3>2. (\A x : Shortest(x) => Shortest(x)') /\ (\A f, k : Handled(f, k) => Handled(f, k)')
      BY <3>1, StaysShortest, StaysHandled
    <3>3. TypeOK' /\ SeenAreTargets' /\ OneTargetPerFile'
      BY <1>2, <3>1 DEF IInv, TypeOK, SeenAreTargets, OneTargetPerFile
    <3>4. QueueIsKnown' /\ BreadthFirst' /\ ExternalAreImports'
      BY <1>2, <3>1 DEF IInv, QueueIsKnown, BreadthFirst, ExternalAreImports
    <3>5. KnownAreShortest' /\ Followed'
      BY <1>2, <3>1, <3>2 DEF IInv, KnownAreShortest, Followed, Expanded
    <3> QED
      BY <3>3, <3>4, <3>5 DEF IInv
  <2> QED
    BY <1>2, <2>1, DequeueInv, NoTargetInv, FollowInv DEF Next, Done
<1> QED
  BY <1>1, <1>2, PTL DEF Spec

\* The variables of the walk keep their types.
THEOREM TypeCorrect == ASSUME ImportsAssumption PROVE Spec => []TypeOK
<1>1. IInv => TypeOK
  BY DEF IInv
<1> QED
  BY <1>1, InductiveInvariant, PTL

\* However the files import each other, none is scanned twice (importTargets).
THEOREM NoFileScannedTwice == ASSUME ImportsAssumption PROVE Spec => []OneTargetPerFile
<1>1. IInv => OneTargetPerFile
  BY DEF IInv
<1> QED
  BY <1>1, InductiveInvariant, PTL

\* A file reachable by several chains is reported with a shortest one, from a
\* root and along imports that are written (importTargets).
THEOREM ChainsAreShortest == ASSUME ImportsAssumption PROVE Spec => []ShortestChain
<1>1. IInv => ShortestChain
  BY DEF IInv, KnownAreShortest, Known, Shortest, ShortestChain
<1> QED
  BY <1>1, InductiveInvariant, PTL

\* When the walk has ended, what is within n hops is a target.
LEMMA AllReached ==
    ASSUME ImportsAssumption, IInv, queue = <<>>, NEW n \in 0..MaxImportHops
    PROVE  Reach(Expanded)[n] \subseteq seen
<1>1. ToSet(queue) = {}
  BY DEF ToSet
<1> QED
  BY <1>1, Closure

\* When the walk ends, the targets are the instruction files and exactly the
\* files Claude Code loads within the hops (importTargets).
THEOREM WalkIsComplete == ASSUME ImportsAssumption PROVE Spec => []NothingMissed
<1>1. ASSUME IInv, queue = <<>> PROVE Targets = Instructions \cup Loaded
  <2>1. Targets = seen
    BY <1>1 DEF IInv, SeenAreTargets, Targets, ToSet
  <2>2. Instructions \subseteq seen
    BY <1>1 DEF IInv, SeenAreTargets
  <2>3. Loaded \subseteq seen
    BY <1>1, AllReached DEF Loaded, ImportsAssumption
  <2>4. ASSUME NEW i \in DOMAIN out PROVE out[i].file \in Loaded
    <3>1. out[i] \in Known
      BY DEF Known, ToSet
    <3>2. Hops(out[i]) \in Nat /\ Hops(out[i]) <= MaxImportHops /\ MaxImportHops \in Nat
      BY <1>1, <3>1, KnownType DEF IInv, KnownAreShortest, ImportsAssumption
    <3>3. out[i].file \in Reach(Expanded)[Hops(out[i])]
      BY <1>1, <3>1 DEF IInv, KnownAreShortest, Shortest
    <3> QED
      BY <1>1, <3>2, <3>3, ReachMonotone DEF Loaded, IInv
  <2> QED
    BY <1>1, <2>1, <2>2, <2>3, <2>4 DEF IInv, SeenAreTargets
<1>2. IInv => NothingMissed
  BY <1>1 DEF NothingMissed
<1> QED
  BY <1>2, InductiveInvariant, PTL

\* When the walk ends, CFG116 has every import that leaves the directory, of
\* every file whose imports are expanded, and no other (importTargets).
THEOREM ExternalImportsAreComplete ==
    ASSUME ImportsAssumption PROVE Spec => []ExternalImportsComplete
<1> DEFINE from == IF MaxImportHops = 0 THEN {} ELSE Expanded \cap Reach(Expanded)[MaxImportHops - 1]
           leaving(f) == {j \in DOMAIN imports[f] : imports[f][j] = Elsewhere}
<1>0. MaxImportHops \in Nat
  BY DEF ImportsAssumption
<1>1. ASSUME IInv, NEW item \in Known, Hops(item) < MaxImportHops PROVE item.file \in from
  <2>1. Hops(item) \in Nat /\ MaxImportHops # 0 /\ Hops(item) \in 0..MaxImportHops
        /\ MaxImportHops - 1 \in 0..MaxImportHops /\ Hops(item) <= MaxImportHops - 1
    BY <1>0, <1>1, KnownType DEF IInv
  <2>2. item.file \in Reach(Expanded)[Hops(item)] /\ item.file \in Expanded
    BY <1>1 DEF IInv, KnownAreShortest, Shortest
  <2> QED
    BY <1>1, <2>1, <2>2, ReachMonotone DEF IInv
<1>2. ASSUME IInv, queue = <<>>, NEW f \in from, NEW k \in leaving(f)
      PROVE  <<f, k>> \in external
  <2>1. MaxImportHops # 0 /\ MaxImportHops - 1 \in 0..MaxImportHops
        /\ f \in Expanded /\ f \in Reach(Expanded)[MaxImportHops - 1]
    BY <1>0, <1>2
  <2>2. f \in seen
    BY <1>2, <2>1, AllReached
  <2>3. PICK item \in Known : item.file = f
    BY <1>2, <2>1, <2>2, ExpandedTargetIsKnown DEF IInv
  <2>4. Hops(item) < MaxImportHops
    BY <1>0, <1>2, <2>1, <2>3, FoundInTime, KnownType DEF IInv
  <2>5. item \notin ToSet(queue)
    BY <1>2 DEF ToSet
  <2> QED
    BY <1>2, <2>3, <2>4, <2>5 DEF IInv, Followed, Handled
<1>3. ASSUME IInv, queue = <<>>, NEW e \in external
      PROVE  \E f \in from : \E k \in leaving(f) : e = <<f, k>>
  <2>1. PICK item \in Known : item.file = e[1] /\ Hops(item) < MaxImportHops
    BY <1>3 DEF IInv, ExternalAreImports
  <2>2. e = <<e[1], e[2]>> /\ e[2] \in leaving(e[1])
    BY <1>3 DEF IInv, TypeOK, ExternalAreImports
  <2> QED
    BY <1>1, <1>3, <2>1, <2>2
<1>4. ASSUME IInv, queue = <<>>
      PROVE  external = UNION {{<<f, k>> : k \in leaving(f)} : f \in from}
  <2> HIDE DEF from, leaving
  <2> QED
    BY <1>2, <1>3, <1>4
<1>5. IInv => ExternalImportsComplete
  BY <1>4 DEF ExternalImportsComplete
<1> QED
  BY <1>5, InductiveInvariant, PTL
=============================================================================

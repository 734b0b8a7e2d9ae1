------------------------- MODULE MetadataTree_proofs -------------------------
(* What the recursive definitions on metadata trees compute, for every tree *)
(* that is well-formed.                                                     *)
EXTENDS MetadataTree, TLAPS, FiniteSetTheorems, SequenceTheorems, WellFoundedInduction

-----------------------------------------------------------------------------
(* Least elements *)

\* A finite set of integers that is not empty has a least element.
LEMMA FiniteMinimum ==
    ASSUME NEW S \in SUBSET Int, IsFiniteSet(S), S # {}
    PROVE  Min(S) \in S /\ \A x \in S : Min(S) <= x
<1>. DEFINE HasLeast(R) == \E x \in R : \A y \in R : x <= y
            T == {R \in FiniteSubsetsOf(S) : R # {} /\ ~HasLeast(R)}
<1>1. SUFFICES T = {}
  <2>1. S \in FiniteSubsetsOf(S)
    BY DEF FiniteSubsetsOf
  <2>2. HasLeast(S)
    BY <1>1, <2>1
  <2>. QED
    BY <2>2 DEF Min
<1>2. SUFFICES ASSUME T # {}
      PROVE  FALSE
  OBVIOUS
<1>3. PICK R \in T : \A Q \in T : ~ (<<Q, R>> \in StrictSubsetOrdering(S))
  BY <1>2, FS_StrictSubsetOrderingWellFounded, WFMin
<1>4. PICK e \in R : TRUE
  BY <1>3
<1>5. R \subseteq S /\ IsFiniteSet(R) /\ e \in Int
  BY <1>3, <1>4 DEF FiniteSubsetsOf
<1>6. IsFiniteSet(R \ {e}) /\ R \ {e} \in FiniteSubsetsOf(S)
  BY <1>5, FS_RemoveElement DEF FiniteSubsetsOf
<1>7. <<R \ {e}, R>> \in StrictSubsetOrdering(S)
  BY <1>4, <1>5 DEF StrictSubsetOrdering
<1>8. R \ {e} = {} \/ HasLeast(R \ {e})
  BY <1>3, <1>6, <1>7
<1>9. HasLeast(R)
  <2>1. CASE R \ {e} = {}
    BY <1>5, <2>1
  <2>2. CASE HasLeast(R \ {e})
    <3>1. PICK m \in R \ {e} : \A y \in R \ {e} : m <= y
      BY <2>2
    <3>2. m \in Int /\ \A y \in R : y \in Int
      BY <1>5, <3>1
    <3>3. \/ \A y \in R : m <= y
          \/ \A y \in R : e <= y
      BY <1>5, <3>1, <3>2
    <3>. QED
      BY <1>4, <3>1, <3>3
  <2>. QED
    BY <1>8, <2>1, <2>2
<1>. QED
  BY <1>3, <1>9

\* A set of natural numbers that is not empty has a least element.
LEMMA LeastNatural ==
    ASSUME NEW T \in SUBSET Nat, T # {}
    PROVE  \E x \in T : \A y \in T : x <= y
<1>1. PICK e \in Nat : e \in T
  OBVIOUS
<1>. DEFINE Low == {y \in T : y <= e}
<1>2. IsFiniteSet(Low) /\ Low # {} /\ Low \in SUBSET Int
  <2>1. Low \subseteq 0 .. e
    <3>1. SUFFICES ASSUME NEW y \in Low
          PROVE  y \in 0 .. e
      OBVIOUS
    <3>2. y \in Nat /\ y <= e
      OBVIOUS
    <3>. QED
      BY <3>2
  <2>2. IsFiniteSet(0 .. e)
    BY <2>1, FS_Interval
  <2>. QED
    BY <1>1, <2>1, <2>2, FS_Subset
<1>3. Min(Low) \in Low /\ \A y \in Low : Min(Low) <= y
  BY <1>2, FiniteMinimum
<1>4. \A y \in T : Min(Low) <= y
  <2>1. Min(Low) \in Nat /\ Min(Low) <= e /\ \A y \in T : y \in Nat
    BY <1>3
  <2>. QED
    BY <1>1, <1>3, <2>1
<1>. QED
  BY <1>3, <1>4

-----------------------------------------------------------------------------
(* Trees *)

\* What the lemmas need of a tree; a filter may have taken nodes away from it.
Shape(t) ==
    /\ IsFiniteSet(Nodes(t)) /\ t.groups \intersect t.sites = {}
    /\ t.root \in Nodes(t) /\ t.above[t.root] = <<>>
    /\ \A n \in Nodes(t) : t.above[n] \in Seq(t.groups)
    /\ \A n \in Nodes(t) \ {t.root} :
          t.above[n] # <<>> /\ Tail(t.above[n]) = t.above[Parent(t, n)]
    /\ \A n \in Nodes(t) : t.validUntil[n] \in 0 .. SAMLTIME_MAX

Depth(t, n) == Len(t.above[n])
IsLeast(time, times) == time \in times /\ \A other \in times : time <= other
Ends(t, nodes) == {t.validUntil[n] : n \in nodes}

LEMMA WellFormedShape ==
    ASSUME NEW t, WellFormed(t)
    PROVE  Shape(t)
BY DEF WellFormed, Shape

\* The way up from a node is its parent and the way up from there.
LEMMA ParentIsAbove ==
    ASSUME NEW t, Shape(t), NEW n \in Nodes(t) \ {t.root}
    PROVE  /\ Parent(t, n) \in t.groups /\ Parent(t, n) \in Nodes(t)
           /\ Depth(t, n) \in Nat /\ Depth(t, Parent(t, n)) \in Nat
           /\ Depth(t, n) = Depth(t, Parent(t, n)) + 1
           /\ Ancestors(t, n) = Path(t, Parent(t, n))
<1>. DEFINE p == Parent(t, n)
            s == t.above[n]
            u == t.above[p]
<1>1. s \in Seq(t.groups) /\ s # <<>> /\ p = Head(s) /\ u = Tail(s)
  BY DEF Shape, Parent
<1>2. p \in t.groups /\ p \in Nodes(t) /\ p = s[1]
  BY <1>1 DEF Nodes
<1>. HIDE DEF p, s, u
<1>3. u \in Seq(t.groups) /\ Len(s) \in Nat /\ Len(u) \in Nat /\ Len(s) = Len(u) + 1
  BY <1>1, HeadTailProperties, LenProperties
<1>4. \A i \in 1 .. Len(u) : u[i] = s[i + 1]
  BY <1>1, HeadTailProperties
<1>5. DOMAIN s = 1 .. Len(s) /\ DOMAIN u = 1 .. Len(u)
  BY <1>1, <1>3
<1>6. {s[i] : i \in DOMAIN s} = {p} \union {u[i] : i \in DOMAIN u}
  <2>1. ASSUME NEW i \in DOMAIN s
        PROVE  s[i] \in {p} \union {u[j] : j \in DOMAIN u}
    <3>1. CASE i = 1
      BY <1>2, <3>1
    <3>2. CASE i # 1
      <4>1. i - 1 \in 1 .. Len(u) /\ u[i - 1] = s[i]
        BY <1>3, <1>4, <1>5, <3>2
      <4>. QED
        BY <1>5, <4>1
    <3>. QED
      BY <3>1, <3>2
  <2>2. ASSUME NEW j \in DOMAIN u
        PROVE  u[j] \in {s[i] : i \in DOMAIN s}
    <3>1. j + 1 \in DOMAIN s /\ u[j] = s[j + 1]
      BY <1>3, <1>4, <1>5
    <3>. QED
      BY <3>1
  <2>3. p \in {s[i] : i \in DOMAIN s}
    <3>1. 1 \in DOMAIN s
      BY <1>3, <1>5
    <3>. QED
      BY <1>2, <3>1
  <2>. QED
    BY <2>1, <2>2, <2>3
<1>. QED
  BY <1>2, <1>3, <1>6 DEF Ancestors, Path, Depth, p, s, u

\* The root is at depth 0 and has nothing above it.
LEMMA RootIsTop ==
    ASSUME NEW t, Shape(t)
    PROVE  Depth(t, t.root) = 0 /\ Ancestors(t, t.root) = {} /\ Path(t, t.root) = {t.root}
BY DEF Shape, Depth, Ancestors, Path

\* What is above a node is in the tree, is a group, and so is what is above that.
LEMMA PathsGoUp ==
    ASSUME NEW t, Shape(t), NEW n \in Nodes(t)
    PROVE  /\ Ancestors(t, n) \subseteq t.groups /\ Path(t, n) \subseteq Nodes(t)
           /\ \A a \in Path(t, n) : Path(t, a) \subseteq Path(t, n)
           /\ \A a \in Ancestors(t, n) : Path(t, a) \subseteq Ancestors(t, n)
           /\ Depth(t, n) \in Nat
           /\ \A a \in Ancestors(t, n) : Depth(t, a) \in Nat /\ Depth(t, a) < Depth(t, n)
<1>. DEFINE Good(m) ==
              /\ Ancestors(t, m) \subseteq t.groups /\ Path(t, m) \subseteq Nodes(t)
              /\ \A a \in Path(t, m) : Path(t, a) \subseteq Path(t, m)
              /\ \A a \in Ancestors(t, m) : Path(t, a) \subseteq Ancestors(t, m)
              /\ Depth(t, m) \in Nat
              /\ \A a \in Ancestors(t, m) : Depth(t, a) \in Nat /\ Depth(t, a) < Depth(t, m)
            Bad == {d \in Nat : \E m \in Nodes(t) : Depth(t, m) = d /\ ~Good(m)}
<1>1. \A m \in Nodes(t) : Depth(t, m) \in Nat
  BY DEF Shape, Depth
<1>2. ASSUME Bad # {}
      PROVE  FALSE
  <2>1. PICK d \in Bad : \A e \in Bad : d <= e
    BY <1>2, LeastNatural
  <2>2. PICK m \in Nodes(t) : Depth(t, m) = d /\ ~Good(m)
    BY <2>1
  <2>3. CASE m = t.root
    BY <2>2, <2>3, RootIsTop, <1>1 DEF Path
  <2>4. CASE m # t.root
    <3>. DEFINE p == Parent(t, m)
    <3>1. /\ p \in t.groups /\ p \in Nodes(t) /\ Depth(t, m) = Depth(t, p) + 1
          /\ Depth(t, p) \in Nat /\ Ancestors(t, m) = Path(t, p)
      BY <2>4, ParentIsAbove
    <3>2. Depth(t, p) < d
      BY <2>2, <3>1
    <3>3. Good(p)
      BY <2>1, <3>1, <3>2, <2>2
    <3>4. \A a \in Path(t, p) : Depth(t, a) \in Nat /\ Depth(t, a) <= Depth(t, p)
      BY <3>1, <3>3 DEF Path
    <3>5. Path(t, m) = {m} \union Path(t, p) /\ Path(t, p) = {p} \union Ancestors(t, p)
      BY <3>1 DEF Path
    <3>6. Ancestors(t, m) \subseteq t.groups /\ Path(t, m) \subseteq Nodes(t)
      BY <3>1, <3>3, <3>5
    <3>7. \A a \in Ancestors(t, m) : Path(t, a) \subseteq Ancestors(t, m)
      BY <3>1, <3>3
    <3>8. \A a \in Path(t, m) : Path(t, a) \subseteq Path(t, m)
      BY <3>1, <3>5, <3>7
    <3>9. \A a \in Ancestors(t, m) : Depth(t, a) \in Nat /\ Depth(t, a) < Depth(t, m)
      BY <3>1, <3>4
    <3>. QED
      BY <2>2, <3>6, <3>7, <3>8, <3>9, <1>1
  <2>. QED
    BY <2>3, <2>4
<1>3. Good(n)
  BY <1>1, <1>2
<1>. QED
  BY <1>3

\* The root is on every path.
LEMMA RootIsOnEveryPath ==
    ASSUME NEW t, Shape(t)
    PROVE  \A n \in Nodes(t) : t.root \in Path(t, n)
<1>. DEFINE Bad == {d \in Nat : \E n \in Nodes(t) : Depth(t, n) = d /\ t.root \notin Path(t, n)}
<1>1. SUFFICES ASSUME Bad # {}
      PROVE  FALSE
  BY PathsGoUp
<1>2. PICK d \in Bad : \A e \in Bad : d <= e
  BY <1>1, LeastNatural
<1>3. PICK n \in Nodes(t) : Depth(t, n) = d /\ t.root \notin Path(t, n)
  BY <1>2
<1>4. n # t.root
  BY <1>3, RootIsTop
<1>5. /\ Parent(t, n) \in Nodes(t) /\ Depth(t, Parent(t, n)) \in Nat
      /\ Depth(t, Parent(t, n)) < d /\ t.root \notin Path(t, Parent(t, n))
  BY <1>3, <1>4, ParentIsAbove DEF Path
<1>. QED
  BY <1>2, <1>5

-----------------------------------------------------------------------------
(* The index *)

\* Times in a tree that is not empty.
LEMMA EndsAreTimes ==
    ASSUME NEW t, Shape(t), NEW nodes \in SUBSET Nodes(t)
    PROVE  Ends(t, nodes) \subseteq 0 .. SAMLTIME_MAX /\ IsFiniteSet(Ends(t, nodes))
<1>1. Ends(t, nodes) \subseteq 0 .. SAMLTIME_MAX
  BY DEF Shape, Ends
<1>2. IsFiniteSet(0 .. SAMLTIME_MAX)
  BY FS_Interval, LimitAssumption
<1>. QED
  BY <1>1, <1>2, FS_Subset

\* A node ends with its parent or on its own, whichever comes first.
LEMMA SoonerOfTwo ==
    ASSUME NEW S \in SUBSET Int, NEW a, NEW b \in Int, IsLeast(a, S)
    PROVE  IsLeast(Sooner(a, b), S \union {b})
BY DEF IsLeast, Sooner

\* The recursion of indexEntity and indexGroup down the tree.
FenceStep(t, f, n) ==
    IF n = t.root THEN Sooner(SAMLTIME_MAX, t.validUntil[n])
    ELSE Sooner(f[Parent(t, n)], t.validUntil[n])

\* A function that takes each node's end from that of its parent gives the
\* first end on the node's path.
LEMMA FenceStepsDescend ==
    ASSUME NEW t, Shape(t), NEW f, \A n \in Nodes(t) : f[n] = FenceStep(t, f, n)
    PROVE  \A n \in Nodes(t) : IsLeast(f[n], Ends(t, Path(t, n)))
<1>. DEFINE Good(n) == IsLeast(f[n], Ends(t, Path(t, n)))
            Bad == {d \in Nat : \E n \in Nodes(t) : Depth(t, n) = d /\ ~Good(n)}
<1>1. ASSUME NEW n \in Nodes(t), n # t.root => Good(Parent(t, n))
      PROVE  Good(n)
  <2>1. t.validUntil[n] \in Nat /\ t.validUntil[n] <= SAMLTIME_MAX /\ SAMLTIME_MAX \in Nat
    BY LimitAssumption DEF Shape
  <2>2. CASE n = t.root
    <3>1. f[n] = t.validUntil[n]
      BY <2>1, <2>2 DEF FenceStep, Sooner
    <3>2. Ends(t, Path(t, n)) = {t.validUntil[n]}
      BY <2>2, RootIsTop DEF Ends
    <3>. QED
      BY <2>1, <3>1, <3>2 DEF IsLeast
  <2>3. CASE n # t.root
    <3>. DEFINE p == Parent(t, n)
    <3>1. p \in Nodes(t) /\ Path(t, n) = {n} \union Path(t, p)
      BY <2>3, ParentIsAbove DEF Path
    <3>2. Path(t, p) \subseteq Nodes(t)
      BY <3>1, PathsGoUp
    <3>3. Ends(t, Path(t, p)) \in SUBSET Int
      BY <3>2, EndsAreTimes, LimitAssumption
    <3>4. Ends(t, Path(t, n)) = Ends(t, Path(t, p)) \union {t.validUntil[n]}
      BY <3>1 DEF Ends
    <3>5. IsLeast(f[p], Ends(t, Path(t, p)))
      BY <1>1, <2>3
    <3>6. f[n] = Sooner(f[p], t.validUntil[n])
      BY <2>3 DEF FenceStep
    <3>. QED
      BY <2>1, <3>3, <3>4, <3>5, <3>6, SoonerOfTwo
  <2>. QED
    BY <2>2, <2>3
<1>2. Bad = {}
  <2>1. SUFFICES ASSUME Bad # {}
        PROVE  FALSE
    OBVIOUS
  <2>2. PICK d \in Bad : \A e \in Bad : d <= e
    BY <2>1, LeastNatural
  <2>3. PICK n \in Nodes(t) : Depth(t, n) = d /\ ~Good(n)
    BY <2>2
  <2>4. n # t.root /\ ~Good(Parent(t, n))
    BY <1>1, <2>3
  <2>5. Parent(t, n) \in Nodes(t) /\ Depth(t, Parent(t, n)) \in Nat /\ Depth(t, Parent(t, n)) < d
    BY <2>3, <2>4, ParentIsAbove
  <2>. QED
    BY <2>2, <2>4, <2>5
<1>. QED
  BY <1>2, PathsGoUp

\* Such a function exists.
LEMMA FencesExist ==
    ASSUME NEW t, Shape(t)
    PROVE  \E f : f = [n \in Nodes(t) |-> FenceStep(t, f, n)]
<1>. DEFINE g == [n \in Nodes(t) |-> Min(Ends(t, Path(t, n)))]
<1>1. ASSUME NEW n \in Nodes(t)
      PROVE  IsLeast(g[n], Ends(t, Path(t, n))) /\ g[n] \in Int
  <2>1. Path(t, n) \subseteq Nodes(t) /\ n \in Path(t, n)
    BY PathsGoUp DEF Path
  <2>2. Ends(t, Path(t, n)) \in SUBSET Int /\ IsFiniteSet(Ends(t, Path(t, n)))
    BY <2>1, EndsAreTimes, LimitAssumption
  <2>3. Ends(t, Path(t, n)) # {}
    BY <2>1 DEF Ends
  <2>. QED
    BY <2>2, <2>3, FiniteMinimum DEF IsLeast
<1>2. ASSUME NEW n \in Nodes(t)
      PROVE  g[n] = FenceStep(t, g, n)
  <2>1. t.validUntil[n] \in Nat /\ t.validUntil[n] <= SAMLTIME_MAX /\ SAMLTIME_MAX \in Nat
    BY LimitAssumption DEF Shape
  <2>2. CASE n = t.root
    <3>1. Ends(t, Path(t, n)) = {t.validUntil[n]}
      BY <2>2, RootIsTop DEF Ends
    <3>2. g[n] = t.validUntil[n]
      BY <1>1, <3>1 DEF IsLeast
    <3>. QED
      BY <2>1, <2>2, <3>2 DEF FenceStep, Sooner
  <2>3. CASE n # t.root
    <3>. DEFINE p == Parent(t, n)
    <3>1. p \in Nodes(t) /\ Path(t, n) = {n} \union Path(t, p)
      BY <2>3, ParentIsAbove DEF Path
    <3>2. Ends(t, Path(t, p)) \in SUBSET Int
      BY <3>1, PathsGoUp, EndsAreTimes, LimitAssumption
    <3>3. Ends(t, Path(t, n)) = Ends(t, Path(t, p)) \union {t.validUntil[n]}
      BY <3>1 DEF Ends
    <3>4. IsLeast(g[p], Ends(t, Path(t, p))) /\ IsLeast(g[n], Ends(t, Path(t, n)))
      BY <1>1, <3>1
    <3>5. IsLeast(Sooner(g[p], t.validUntil[n]), Ends(t, Path(t, n)))
      BY <2>1, <3>2, <3>3, <3>4, SoonerOfTwo
    <3>6. Ends(t, Path(t, n)) \in SUBSET Int
      BY <2>1, <3>2, <3>3
    <3>7. g[n] = Sooner(g[p], t.validUntil[n])
      <4>. HIDE DEF g
      <4>. QED
        BY <3>4, <3>5, <3>6 DEF IsLeast
    <3>. QED
      BY <2>3, <3>7 DEF FenceStep
  <2>. QED
    BY <2>2, <2>3
<1>3. g = [n \in Nodes(t) |-> FenceStep(t, g, n)]
  BY <1>2
<1>. QED
  BY <1>3

\* The index knows each node until the first end of validity on its path.
THEOREM FencesAreFirstEnds ==
    ASSUME NEW t, Shape(t)
    PROVE  \A n \in Nodes(t) : IsLeast(Fences(t)[n], Ends(t, Path(t, n)))
<1>1. Fences(t) = CHOOSE f : f = [n \in Nodes(t) |-> FenceStep(t, f, n)]
  BY DEF Fences, FenceStep
<1>2. Fences(t) = [n \in Nodes(t) |-> FenceStep(t, Fences(t), n)]
  BY <1>1, FencesExist
<1>3. \A n \in Nodes(t) : Fences(t)[n] = FenceStep(t, Fences(t), n)
  BY <1>2
<1>. QED
  BY <1>3, FenceStepsDescend

\* The nodes of the subtree at n.
Under(t, n) == {m \in Nodes(t) : n \in Path(t, m)}
Times(f, nodes) == {f[n] : n \in nodes}

\* Whatever is below a node is at or below one of its children.
LEMMA BelowAChild ==
    ASSUME NEW t, Shape(t), NEW n \in Nodes(t)
    PROVE  \A m \in Nodes(t) : n \in Ancestors(t, m) => \E c \in Children(t, n) : c \in Path(t, m)
<1>. DEFINE Good(m) == n \in Ancestors(t, m) => \E c \in Children(t, n) : c \in Path(t, m)
            Bad == {d \in Nat : \E m \in Nodes(t) : Depth(t, m) = d /\ ~Good(m)}
<1>1. SUFFICES ASSUME Bad # {}
      PROVE  FALSE
  BY PathsGoUp
<1>2. PICK d \in Bad : \A e \in Bad : d <= e
  BY <1>1, LeastNatural
<1>3. PICK m \in Nodes(t) : Depth(t, m) = d /\ ~Good(m)
  BY <1>2
<1>4. m # t.root
  BY <1>3, RootIsTop
<1>. DEFINE p == Parent(t, m)
<1>5. p \in Nodes(t) /\ Depth(t, p) \in Nat /\ Depth(t, p) < d /\ Ancestors(t, m) = Path(t, p)
  BY <1>3, <1>4, ParentIsAbove
<1>6. CASE p = n
  BY <1>3, <1>4, <1>6 DEF Children, Path
<1>7. CASE p # n
  <2>1. n \in Ancestors(t, p) /\ Good(p)
    BY <1>2, <1>3, <1>5, <1>7 DEF Path
  <2>. QED
    BY <1>3, <1>5, <2>1 DEF Path
<1>. QED
  BY <1>6, <1>7

\* A subtree is its top and the subtrees at the children of that, and each of
\* those is smaller.
LEMMA SubtreeSplits ==
    ASSUME NEW t, Shape(t), NEW n \in Nodes(t)
    PROVE  /\ Under(t, n) = {n} \union UNION {Under(t, c) : c \in Children(t, n)}
           /\ \A c \in Children(t, n) : n \notin Under(t, c)
<1>1. ASSUME NEW c \in Children(t, n)
      PROVE  /\ c \in Nodes(t) /\ n \in Path(t, c) /\ Ancestors(t, c) = Path(t, n)
             /\ Depth(t, c) = Depth(t, n) + 1
  BY ParentIsAbove DEF Children, Path
<1>2. ASSUME NEW c \in Children(t, n), NEW m \in Under(t, c)
      PROVE  m \in Under(t, n)
  BY <1>1, PathsGoUp DEF Under
<1>3. ASSUME NEW m \in Under(t, n), m # n
      PROVE  \E c \in Children(t, n) : m \in Under(t, c)
  BY <1>3, BelowAChild DEF Under, Path
<1>4. n \in Under(t, n)
  BY DEF Under, Path
<1>5. ASSUME NEW c \in Children(t, n)
      PROVE  n \notin Under(t, c)
  <2>1. SUFFICES ASSUME c \in Path(t, n)
        PROVE  FALSE
    BY DEF Under
  <2>2. Depth(t, n) \in Nat
    BY PathsGoUp
  <2>3. c # n
    BY <1>1, <2>2
  <2>4. Depth(t, c) < Depth(t, n)
    BY <2>1, <2>3, PathsGoUp DEF Path
  <2>. QED
    BY <1>1, <2>2, <2>4
<1>. QED
  BY <1>2, <1>3, <1>4, <1>5

\* The first of the ends in a subtree is that of its top or the first of the
\* ends in the subtree of a child.
LEMMA FirstOfSubtree ==
    ASSUME NEW t, Shape(t), NEW n \in Nodes(t),
           NEW f, \A m \in Nodes(t) : f[m] \in 0 .. SAMLTIME_MAX,
           NEW b, \A c \in Children(t, n) : IsLeast(b[c], Times(f, Under(t, c)))
    PROVE  IsLeast(Min({f[n]} \union {b[c] : c \in Children(t, n)}), Times(f, Under(t, n)))
<1>. DEFINE B == {f[n]} \union {b[c] : c \in Children(t, n)}
<1>1. n \in Under(t, n) /\ \A c \in Children(t, n) : Under(t, c) \subseteq Under(t, n)
  BY SubtreeSplits
<1>2. B \subseteq Times(f, Under(t, n))
  BY <1>1 DEF Times, IsLeast
<1>3. Times(f, Under(t, n)) \subseteq 0 .. SAMLTIME_MAX
  BY DEF Times, Under
<1>4. IsFiniteSet(B) /\ B \in SUBSET Int /\ B # {}
  <2>1. IsFiniteSet(0 .. SAMLTIME_MAX)
    BY FS_Interval, LimitAssumption
  <2>2. B \subseteq 0 .. SAMLTIME_MAX /\ 0 .. SAMLTIME_MAX \subseteq Int
    BY <1>2, <1>3, LimitAssumption
  <2>. QED
    BY <2>1, <2>2, FS_Subset
<1>5. IsLeast(Min(B), B)
  BY <1>4, FiniteMinimum DEF IsLeast
<1>6. ASSUME NEW m \in Under(t, n)
      PROVE  Min(B) <= f[m]
  <2>1. CASE m = n
    BY <1>5, <2>1 DEF IsLeast
  <2>2. CASE m # n
    <3>1. PICK c \in Children(t, n) : m \in Under(t, c)
      BY <2>2, SubtreeSplits
    <3>2. b[c] <= f[m] /\ Min(B) <= b[c]
      BY <1>5, <3>1 DEF IsLeast, Times
    <3>3. b[c] \in Int /\ f[m] \in Int /\ Min(B) \in Int
      <4>1. b[c] \in B /\ Min(B) \in B
        BY <1>5 DEF IsLeast
      <4>. QED
        BY <1>4, <4>1, LimitAssumption DEF Under
    <3>. QED
      BY <3>2, <3>3
  <2>. QED
    BY <2>1, <2>2
<1>. QED
  BY <1>2, <1>5, <1>6 DEF IsLeast, Times

\* The recursion of the index up the tree.
BelowStep(t, f, b, n) == Min({f[n]} \union {b[c] : c \in Children(t, n)})

LEMMA BelowStepsAscend ==
    ASSUME NEW t, Shape(t), NEW f, \A m \in Nodes(t) : f[m] \in 0 .. SAMLTIME_MAX,
           NEW b, \A n \in Nodes(t) : b[n] = BelowStep(t, f, b, n)
    PROVE  \A n \in Nodes(t) : IsLeast(b[n], Times(f, Under(t, n)))
<1>. DEFINE Good(n) == IsLeast(b[n], Times(f, Under(t, n)))
            Bad == {Under(t, n) : n \in {m \in Nodes(t) : ~Good(m)}}
<1>1. SUFFICES ASSUME Bad # {}
      PROVE  FALSE
  OBVIOUS
<1>2. IsFiniteSet(Nodes(t)) /\ Bad \subseteq FiniteSubsetsOf(Nodes(t))
  <2>1. ASSUME NEW n
        PROVE  Under(t, n) \subseteq Nodes(t) /\ IsFiniteSet(Under(t, n))
    <3>1. Under(t, n) \subseteq Nodes(t)
      BY DEF Under
    <3>. QED
      BY <3>1, FS_Subset DEF Shape
  <2>. QED
    BY <2>1 DEF FiniteSubsetsOf, Shape
<1>3. PICK S \in Bad : \A R \in Bad : ~ (<<R, S>> \in StrictSubsetOrdering(Nodes(t)))
  BY <1>1, <1>2, FS_StrictSubsetOrderingWellFounded, WFMin
<1>4. PICK n \in Nodes(t) : S = Under(t, n) /\ ~Good(n)
  BY <1>3
<1>5. ASSUME NEW c \in Children(t, n)
      PROVE  Good(c)
  <2>1. c \in Nodes(t)
    BY DEF Children
  <2>2. Under(t, c) \subseteq Under(t, n) /\ n \in Under(t, n) /\ n \notin Under(t, c)
    BY <1>4, SubtreeSplits
  <2>3. Under(t, n) \in SUBSET Nodes(t) /\ Under(t, c) \in SUBSET Nodes(t)
    BY DEF Under
  <2>4. <<Under(t, c), S>> \in StrictSubsetOrdering(Nodes(t))
    BY <1>4, <2>2, <2>3 DEF StrictSubsetOrdering
  <2>5. Under(t, c) \notin Bad
    BY <1>3, <2>4
  <2>. QED
    BY <2>1, <2>5
<1>6. Good(n)
  <2>1. \A c \in Children(t, n) : IsLeast(b[c], Times(f, Under(t, c)))
    BY <1>5
  <2>2. IsLeast(BelowStep(t, f, b, n), Times(f, Under(t, n)))
    BY <2>1, FirstOfSubtree DEF BelowStep
  <2>. QED
    BY <2>2
<1>. QED
  BY <1>4, <1>6

LEMMA BelowExists ==
    ASSUME NEW t, Shape(t), NEW f, \A m \in Nodes(t) : f[m] \in 0 .. SAMLTIME_MAX
    PROVE  \E b : b = [n \in Nodes(t) |-> BelowStep(t, f, b, n)]
<1>. DEFINE g == [n \in Nodes(t) |-> Min(Times(f, Under(t, n)))]
<1>1. ASSUME NEW n \in Nodes(t)
      PROVE  IsLeast(g[n], Times(f, Under(t, n))) /\ Times(f, Under(t, n)) \in SUBSET Int
  <2>1. Times(f, Under(t, n)) \subseteq 0 .. SAMLTIME_MAX /\ n \in Under(t, n)
    BY DEF Times, Under, Path
  <2>2. Times(f, Under(t, n)) # {}
    BY <2>1 DEF Times
  <2>3. IsFiniteSet(Times(f, Under(t, n))) /\ Times(f, Under(t, n)) \in SUBSET Int
    <3>1. IsFiniteSet(0 .. SAMLTIME_MAX) /\ 0 .. SAMLTIME_MAX \subseteq Int
      BY FS_Interval, LimitAssumption
    <3>. QED
      BY <2>1, <3>1, FS_Subset
  <2>. QED
    BY <2>2, <2>3, FiniteMinimum DEF IsLeast
<1>2. ASSUME NEW n \in Nodes(t)
      PROVE  g[n] = BelowStep(t, f, g, n)
  <2>. HIDE DEF g
  <2>1. \A c \in Children(t, n) : IsLeast(g[c], Times(f, Under(t, c)))
    BY <1>1 DEF Children
  <2>2. IsLeast(BelowStep(t, f, g, n), Times(f, Under(t, n)))
    BY <2>1, FirstOfSubtree DEF BelowStep
  <2>. QED
    BY <1>1, <2>2 DEF IsLeast
<1>3. g = [n \in Nodes(t) |-> BelowStep(t, f, g, n)]
  BY <1>2
<1>. QED
  BY <1>3

\* The index passes on the first end of validity in the whole tree.
THEOREM SoonestIsFirstEnd ==
    ASSUME NEW t, Shape(t)
    PROVE  IsLeast(Soonest(t), Ends(t, Nodes(t))) /\ Soonest(t) \in 0 .. SAMLTIME_MAX
<1>. DEFINE f == Fences(t)
            b == CHOOSE b : b = [n \in Nodes(t) |-> BelowStep(t, f, b, n)]
<1>1. \A n \in Nodes(t) : IsLeast(f[n], Ends(t, Path(t, n)))
  BY FencesAreFirstEnds
<1>2. \A n \in Nodes(t) : Path(t, n) \subseteq Nodes(t) /\ n \in Path(t, n)
  BY PathsGoUp DEF Path
<1>3. Ends(t, Nodes(t)) \subseteq 0 .. SAMLTIME_MAX
  BY EndsAreTimes
<1>4. \A n \in Nodes(t) : f[n] \in Ends(t, Nodes(t)) /\ f[n] <= t.validUntil[n]
  BY <1>1, <1>2 DEF IsLeast, Ends
<1>5. \A n \in Nodes(t) : f[n] \in 0 .. SAMLTIME_MAX
  BY <1>3, <1>4
<1>6. Soonest(t) = b[t.root]
  BY DEF Soonest, BelowStep
<1>7. b = [n \in Nodes(t) |-> BelowStep(t, f, b, n)]
  <2>. HIDE DEF f
  <2>. QED
    BY <1>5, BelowExists
<1>8. IsLeast(b[t.root], Times(f, Under(t, t.root)))
  <2>. HIDE DEF f, b
  <2>1. \A n \in Nodes(t) : b[n] = BelowStep(t, f, b, n)
    BY <1>7
  <2>. QED
    BY <1>5, <2>1, BelowStepsAscend DEF Shape
<1>9. Under(t, t.root) = Nodes(t)
  <2>1. \A n \in Nodes(t) : t.root \in Path(t, n)
    BY RootIsOnEveryPath
  <2>. QED
    BY <2>1 DEF Under
<1>. HIDE DEF f, b
<1>10. \A n \in Nodes(t) : b[t.root] <= f[n] /\ b[t.root] \in Ends(t, Nodes(t))
  BY <1>4, <1>8, <1>9 DEF IsLeast, Times
<1>11. \A n \in Nodes(t) : b[t.root] <= t.validUntil[n]
  <2>1. \A n \in Nodes(t) : t.validUntil[n] \in Int
    BY LimitAssumption DEF Shape
  <2>2. b[t.root] \in Int
    BY <1>3, <1>10, LimitAssumption DEF Shape
  <2>3. \A n \in Nodes(t) : f[n] \in Int
    BY <1>5, LimitAssumption
  <2>. QED
    BY <1>4, <1>10, <2>1, <2>2, <2>3
<1>. QED
  BY <1>3, <1>6, <1>10, <1>11 DEF IsLeast, Ends, Shape

-----------------------------------------------------------------------------
(* The filters *)

\* What one filter takes away, and what it leaves.
Gone(f, t) == Removed(f, Edit(f, t)) \ {t.root}
KeptBy(f, t) == {n \in Nodes(t) : Path(t, n) \intersect Gone(f, t) = {}}

\* What editing changes.
LEMMA EditFields ==
    ASSUME NEW f, NEW t, DOMAIN t = TreeFields
    PROVE  LET u == Edit(f, t)
           IN /\ DOMAIN u = TreeFields
              /\ u.root = t.root /\ u.groups = t.groups /\ u.sites = t.sites
              /\ u.above = t.above /\ u.name = t.name /\ u.validUntil = t.validUntil
              /\ u.signature = t.signature
              /\ u.roles = [s \in DOMAIN t.roles |-> {r \in t.roles[s] : KeepsRole(f, r)}]
              /\ u.tags = [n \in DOMAIN t.tags |-> t.tags[n] \union Applied(f, t, n)]
BY DEF Edit, TreeFields

\* What pruning changes.
LEMMA PruneFields ==
    ASSUME NEW t, NEW gone, DOMAIN t = TreeFields
    PROVE  LET u == Prune(t, gone)
               kept == {n \in Nodes(t) : Path(t, n) \intersect gone = {}}
           IN /\ DOMAIN u = TreeFields
              /\ u.root = t.root /\ u.groups = t.groups \intersect kept
              /\ u.sites = t.sites \intersect kept
              /\ u.above = t.above /\ u.name = t.name /\ u.validUntil = t.validUntil
              /\ u.signature = t.signature /\ u.roles = t.roles /\ u.tags = t.tags
BY DEF Prune, TreeFields

\* What doFilter leaves is a tree.
LEMMA FilterLeavesATree ==
    ASSUME NEW f, NEW t, Shape(t), DOMAIN t = TreeFields
    PROVE  LET u == doFilter(f, t)
           IN /\ DOMAIN u = TreeFields /\ Shape(u) /\ Nodes(u) = KeptBy(f, t)
              /\ u.root = t.root /\ u.groups = t.groups \intersect KeptBy(f, t)
              /\ u.sites = t.sites \intersect KeptBy(f, t)
              /\ u.above = t.above /\ u.name = t.name /\ u.validUntil = t.validUntil
              /\ u.signature = t.signature
              /\ u.roles = [s \in DOMAIN t.roles |-> {r \in t.roles[s] : KeepsRole(f, r)}]
              /\ u.tags = [n \in DOMAIN t.tags |-> t.tags[n] \union Applied(f, t, n)]
<1>. DEFINE e == Edit(f, t)
            u == doFilter(f, t)
            kept == {n \in Nodes(e) : Path(e, n) \intersect Gone(f, t) = {}}
<1>1. /\ DOMAIN e = TreeFields
      /\ e.root = t.root /\ e.groups = t.groups /\ e.sites = t.sites
      /\ e.above = t.above /\ e.name = t.name /\ e.validUntil = t.validUntil
      /\ e.signature = t.signature
      /\ e.roles = [s \in DOMAIN t.roles |-> {r \in t.roles[s] : KeepsRole(f, r)}]
      /\ e.tags = [n \in DOMAIN t.tags |-> t.tags[n] \union Applied(f, t, n)]
  BY EditFields
<1>2. u = Prune(e, Gone(f, t))
  BY DEF doFilter, Gone
<1>3. /\ DOMAIN u = TreeFields
      /\ u.root = e.root /\ u.groups = e.groups \intersect kept /\ u.sites = e.sites \intersect kept
      /\ u.above = e.above /\ u.name = e.name /\ u.validUntil = e.validUntil
      /\ u.signature = e.signature /\ u.roles = e.roles /\ u.tags = e.tags
  <2>. HIDE DEF e
  <2>. QED
    BY <1>1, <1>2, PruneFields
<1>4. kept = KeptBy(f, t)
  BY <1>1 DEF KeptBy, Nodes, Path, Ancestors
<1>. HIDE DEF e, u, kept
<1>5. Nodes(u) = KeptBy(f, t)
  BY <1>1, <1>3, <1>4 DEF Nodes, KeptBy
<1>6. \A n \in KeptBy(f, t) : Path(t, n) \subseteq KeptBy(f, t)
  BY PathsGoUp DEF KeptBy
<1>7. Shape(u)
  <2>1. IsFiniteSet(Nodes(u)) /\ u.groups \intersect u.sites = {}
    <3>1. KeptBy(f, t) \subseteq Nodes(t)
      BY DEF KeptBy
    <3>. QED
      BY <1>1, <1>3, <1>5, <3>1, FS_Subset DEF Shape
  <2>2. u.root \in Nodes(u) /\ u.above[u.root] = <<>>
    <3>1. t.root \in KeptBy(f, t)
      BY RootIsTop DEF KeptBy, Gone, Shape
    <3>. QED
      BY <1>1, <1>3, <1>5, <3>1 DEF Shape
  <2>3. ASSUME NEW n \in Nodes(u)
        PROVE  u.above[n] \in Seq(u.groups)
    <3>1. n \in Nodes(t) /\ n \in KeptBy(f, t) /\ t.above[n] \in Seq(t.groups)
      BY <1>5 DEF KeptBy, Shape
    <3>2. \A i \in DOMAIN t.above[n] : t.above[n][i] \in t.groups \intersect KeptBy(f, t)
      BY <1>6, <3>1, PathsGoUp DEF Ancestors, Path
    <3>3. t.above[n] \in Seq(t.groups \intersect KeptBy(f, t))
      BY <3>1, <3>2
    <3>. QED
      BY <1>1, <1>3, <1>4, <3>3
  <2>4. ASSUME NEW n \in Nodes(u) \ {u.root}
        PROVE  u.above[n] # <<>> /\ Tail(u.above[n]) = u.above[Parent(u, n)]
    BY <1>1, <1>3, <1>5 DEF KeptBy, Shape, Parent
  <2>5. \A n \in Nodes(u) : u.validUntil[n] \in 0 .. SAMLTIME_MAX
    BY <1>1, <1>3, <1>5 DEF KeptBy, Shape
  <2>. QED
    BY <2>1, <2>2, <2>3, <2>4, <2>5 DEF Shape
<1>. QED
  BY <1>1, <1>3, <1>4, <1>5, <1>7 DEF u

\* Whether an entity is included in a list depends on names and tags on its path.
LEMMA IncludedSame ==
    ASSUME NEW f, NEW t, NEW u, NEW s, u.name = t.name, u.above = t.above,
           \A n \in Path(t, s) : u.tags[n] = t.tags[n]
    PROVE  Included(f, u, s) <=> Included(f, t, s)
<1>1. Path(u, s) = Path(t, s)
  BY DEF Path, Ancestors
<1>2. \A names : \A n : Named(u, n, names) <=> Named(t, n, names)
  BY DEF Named
<1>3. \A m : NameMatches(m, u, s) <=> NameMatches(m, t, s)
  BY <1>1, <1>2 DEF NameMatches
<1>4. \A m : TagsMatch(m, u, s) <=> TagsMatch(m, t, s)
  BY <1>1 DEF TagsMatch
<1>. QED
  BY <1>2, <1>3, <1>4 DEF Included, Matches

\* What a filter thinks of an entity depends on that, on the signatures there,
\* and on the roles of the entity.
LEMMA AdmitsSame ==
    ASSUME NEW f, NEW t, NEW u, NEW s,
           u.root = t.root, u.name = t.name, u.above = t.above, u.signature = t.signature,
           u.roles[s] = t.roles[s], \A n \in Path(t, s) : u.tags[n] = t.tags[n]
    PROVE  Admits(f, u, s) <=> Admits(f, t, s)
<1>1. Path(u, s) = Path(t, s) /\ Ancestors(u, s) = Ancestors(t, s)
  BY DEF Path, Ancestors
<1>2. Included(f, u, s) <=> Included(f, t, s)
  BY IncludedSame
<1>3. \A n : Named(u, n, f.names) <=> Named(t, n, f.names)
  BY DEF Named
<1>. QED
  BY <1>1, <1>2, <1>3 DEF Admits

\* A filter that does not reject the tree leaves the entities it admits.
LEMMA FilterLeavesTheAdmitted ==
    ASSUME NEW f, NEW t, Shape(t), DOMAIN t = TreeFields,
           Nodes(t) \subseteq DOMAIN t.tags,
           NEW now, ~Rejects(f, t, now), NEW s \in t.sites, s \in DOMAIN t.roles
    PROVE  s \in KeptBy(f, t) <=> Admits(f, t, s)
<1>. DEFINE e == Edit(f, t)
<1>1. /\ e.root = t.root /\ e.groups = t.groups /\ e.sites = t.sites
      /\ e.above = t.above /\ e.name = t.name /\ e.signature = t.signature
      /\ e.roles = [n \in DOMAIN t.roles |-> {r \in t.roles[n] : KeepsRole(f, r)}]
      /\ e.tags = [n \in DOMAIN t.tags |-> t.tags[n] \union Applied(f, t, n)]
  BY EditFields
<1>. HIDE DEF e
<1>2. /\ Nodes(e) = Nodes(t) /\ \A n : Ancestors(e, n) = Ancestors(t, n)
      /\ \A names : \A n : Named(e, n, names) <=> Named(t, n, names)
  BY <1>1 DEF Nodes, Ancestors, Named
<1>3. /\ s \in Nodes(t) /\ s \notin t.groups /\ Ancestors(t, s) \subseteq t.groups
      /\ Path(t, s) = {s} \union Ancestors(t, s) /\ Path(t, s) \subseteq Nodes(t)
      /\ Ancestors(t, s) \intersect t.sites = {}
  BY PathsGoUp DEF Nodes, Path, Shape
<1>4. s \in KeptBy(f, t) <=> Path(t, s) \intersect (Removed(f, e) \ {t.root}) = {}
  BY <1>3 DEF KeptBy, Gone, e
<1>5. s = t.root => Ancestors(t, s) = {} /\ t.root \notin t.groups
  BY <1>3, RootIsTop
<1>6. CASE f.kind = "Blacklist"
  <2>1. \A n \in t.sites : Included(f, e, n) <=> Included(f, t, n)
    <3>1. \A n \in Nodes(t) : e.tags[n] = t.tags[n]
      BY <1>1, <1>6 DEF Applied
    <3>2. \A n \in t.sites : Path(t, n) \subseteq Nodes(t)
      BY PathsGoUp DEF Nodes
    <3>. QED
      BY <1>1, <3>1, <3>2, IncludedSame
  <2>2. Removed(f, e) = {n \in t.sites : Included(f, t, n)} \union {g \in t.groups : Named(t, g, f.names)}
    BY <1>1, <1>2, <1>6, <2>1 DEF Removed
  <2>3. Admits(f, t, s) <=>
          ~Included(f, t, s) /\ \A g \in Ancestors(t, s) \ {t.root} : ~Named(t, g, f.names)
    BY <1>6 DEF Admits
  <2>4. s = t.root => ~Included(f, t, s)
    BY <1>5, <1>6 DEF Rejects
  <2>. QED
    BY <1>3, <1>4, <1>5, <2>2, <2>3, <2>4
<1>7. CASE f.kind = "Whitelist"
  <2>1. \A n \in t.sites : Included(f, e, n) <=> Included(f, t, n)
    <3>1. \A n \in Nodes(t) : e.tags[n] = t.tags[n]
      BY <1>1, <1>7 DEF Applied
    <3>2. \A n \in t.sites : Path(t, n) \subseteq Nodes(t)
      BY PathsGoUp DEF Nodes
    <3>. QED
      BY <1>1, <3>1, <3>2, IncludedSame
  <2>2. Removed(f, e) = {n \in t.sites : ~Included(f, t, n)}
    BY <1>1, <1>7, <2>1 DEF Removed
  <2>3. Admits(f, t, s) <=> Included(f, t, s)
    BY <1>7 DEF Admits
  <2>4. s = t.root => Included(f, t, s)
    BY <1>7 DEF Rejects
  <2>. QED
    BY <1>3, <1>4, <1>5, <2>2, <2>3, <2>4
<1>8. CASE f.kind = "EntityRole"
  <2>1. Removed(f, e) = Roleless(f, e) \union Emptied(f, e)
    BY <1>8 DEF Removed
  <2>2. s \in Roleless(f, e) <=>
          f.removeRolelessEntityDescriptors /\ ~\E r \in t.roles[s] : KeepsRole(f, r)
    BY <1>1 DEF Roleless
  <2>3. Emptied(f, e) \subseteq t.groups /\ Roleless(f, e) \subseteq t.sites
    BY <1>1 DEF Emptied, Roleless
  <2>4. s \notin Roleless(f, e) => Ancestors(t, s) \intersect Emptied(f, e) = {}
    BY <1>1, <1>2 DEF Emptied
  <2>5. Admits(f, t, s) <=> s = t.root \/ s \notin Roleless(f, e)
    BY <1>8, <2>2 DEF Admits
  <2>. QED
    BY <1>3, <1>4, <1>5, <2>1, <2>3, <2>4, <2>5
<1>9. CASE f.kind = "Signature"
  <2>1. Removed(f, e) = {n \in Nodes(t) : t.signature[n] = "bad"}
    BY <1>1, <1>2, <1>9 DEF Removed
  <2>2. Admits(f, t, s) <=> \A n \in Path(t, s) : t.signature[n] # "bad"
    BY <1>9 DEF Admits
  <2>3. t.signature[t.root] # "bad"
    BY <1>9 DEF Rejects
  <2>. QED
    BY <1>3, <1>4, <2>1, <2>2, <2>3
<1>10. CASE f.kind \notin {"Blacklist", "Whitelist", "EntityRole", "Signature"}
  <2>1. Removed(f, e) = {} /\ Admits(f, t, s)
    BY <1>10 DEF Removed, Admits
  <2>. QED
    BY <1>4, <2>1
<1>. QED
  BY <1>6, <1>7, <1>8, <1>9, <1>10

\* One filter after the other: the equation of doFilters.
FilterStep(filters, t, after, i) == IF i = 0 THEN t ELSE doFilter(filters[i], after[i - 1])

LEMMA FilterStepsExist ==
    ASSUME NEW filters, NEW t, NEW k \in Nat
    PROVE  \E g : g = [i \in 0 .. k |-> FilterStep(filters, t, g, i)]
<1>. DEFINE Has(m) == \E g : g = [i \in 0 .. m |-> FilterStep(filters, t, g, i)]
            Bad == {m \in Nat : ~Has(m)}
<1>1. SUFFICES ASSUME Bad # {}
      PROVE  FALSE
  OBVIOUS
<1>2. PICK m \in Bad : \A j \in Bad : m <= j
  BY <1>1, LeastNatural
<1>3. CASE m = 0
  <2>. DEFINE g == [i \in 0 .. 0 |-> t]
  <2>1. g = [i \in 0 .. 0 |-> FilterStep(filters, t, g, i)]
    BY DEF FilterStep
  <2>. QED
    BY <1>2, <1>3, <2>1
<1>4. CASE m # 0
  <2>1. m - 1 \in Nat /\ ~(m - 1 \in Bad)
    BY <1>2, <1>4
  <2>2. PICK h : h = [i \in 0 .. (m - 1) |-> FilterStep(filters, t, h, i)]
    BY <2>1
  <2>. DEFINE g == [i \in 0 .. m |-> IF i = m THEN doFilter(filters[m], h[m - 1]) ELSE h[i]]
  <2>3. ASSUME NEW i \in 0 .. m
        PROVE  g[i] = FilterStep(filters, t, g, i)
    <3>1. CASE i = m
      <4>1. m - 1 \in 0 .. m /\ m - 1 # m
        BY <1>2, <2>1
      <4>2. g[m - 1] = h[m - 1] /\ g[m] = doFilter(filters[m], h[m - 1])
        BY <1>2, <4>1
      <4>. QED
        BY <1>4, <3>1, <4>2 DEF FilterStep
    <3>2. CASE i = 0
      <4>1. g[0] = h[0] /\ 0 \in 0 .. (m - 1)
        BY <1>2, <1>4, <2>1
      <4>2. h[0] = t
        BY <2>2, <4>1 DEF FilterStep
      <4>. QED
        BY <3>2, <4>1, <4>2 DEF FilterStep
    <3>3. CASE i # m /\ i # 0
      <4>1. i \in 0 .. (m - 1) /\ i - 1 \in 0 .. m /\ i - 1 # m
        BY <1>2, <3>3
      <4>2. g[i] = h[i] /\ g[i - 1] = h[i - 1]
        BY <3>3, <4>1
      <4>3. h[i] = doFilter(filters[i], h[i - 1])
        BY <2>2, <3>3, <4>1 DEF FilterStep
      <4>. QED
        BY <3>3, <4>2, <4>3 DEF FilterStep
    <3>. QED
      BY <3>1, <3>2, <3>3
  <2>4. g = [i \in 0 .. m |-> FilterStep(filters, t, g, i)]
    <3>1. g = [i \in 0 .. m |-> g[i]]
      OBVIOUS
    <3>. HIDE DEF g
    <3>. QED
      BY <2>3, <3>1
  <2>. QED
    BY <1>2, <2>4
<1>. QED
  BY <1>3, <1>4

LEMMA FiltersStepByStep ==
    ASSUME NEW filters, Len(filters) \in Nat, NEW t
    PROVE  /\ doFilters(filters, t)[0] = t
           /\ \A i \in 1 .. Len(filters) :
                doFilters(filters, t)[i] = doFilter(filters[i], doFilters(filters, t)[i - 1])
<1>. DEFINE D == doFilters(filters, t)
<1>1. D = CHOOSE g : g = [i \in 0 .. Len(filters) |-> FilterStep(filters, t, g, i)]
  BY DEF doFilters, FilterStep
<1>2. D = [i \in 0 .. Len(filters) |-> FilterStep(filters, t, D, i)]
  BY <1>1, FilterStepsExist
<1>. HIDE DEF D
<1>3. \A i \in 0 .. Len(filters) : D[i] = FilterStep(filters, t, D, i)
  BY <1>2
<1>4. D[0] = t
  BY <1>3 DEF FilterStep
<1>5. ASSUME NEW i \in 1 .. Len(filters)
      PROVE  D[i] = doFilter(filters[i], D[i - 1])
  <2>1. i \in 0 .. Len(filters) /\ i # 0
    OBVIOUS
  <2>. QED
    BY <1>3, <2>1 DEF FilterStep
<1>. QED
  BY <1>4, <1>5 DEF D

\* What editing by the first filters changes.
LEMMA EditedFields ==
    ASSUME NEW filters, NEW t, NEW i, DOMAIN t = TreeFields
    PROVE  LET e == Edited(filters, t, i)
           IN /\ e.root = t.root /\ e.groups = t.groups /\ e.sites = t.sites
              /\ e.above = t.above /\ e.name = t.name /\ e.signature = t.signature
              /\ e.roles = [s \in DOMAIN t.roles |->
                               {r \in t.roles[s] : \A j \in 1 .. i : KeepsRole(filters[j], r)}]
              /\ e.tags = [n \in DOMAIN t.tags |->
                               t.tags[n] \union UNION {Applied(filters[j], t, n) : j \in 1 .. i}]
BY DEF Edited, TreeFields

\* What the first filters make of a document is the document as they edit it,
\* with the entities that each of them admits.
FilteredBy(filters, t, i, u) ==
    /\ DOMAIN u = TreeFields /\ Shape(u)
    /\ u.root = t.root /\ u.above = t.above /\ u.name = t.name
    /\ u.validUntil = t.validUntil /\ u.signature = t.signature
    /\ u.groups \subseteq t.groups
    /\ u.sites = {s \in t.sites : \A j \in 1 .. i : Admits(filters[j], Edited(filters, t, j - 1), s)}
    /\ DOMAIN u.roles = t.sites /\ DOMAIN u.tags = Nodes(t)
    /\ \A s \in u.sites : u.roles[s] = Edited(filters, t, i).roles[s]
    /\ \A n \in Nodes(u) : u.tags[n] = Edited(filters, t, i).tags[n]

LEMMA NextFilter ==
    ASSUME NEW filters, NEW t, WellFormed(t), NEW now, NEW i \in Nat, NEW u,
           FilteredBy(filters, t, i, u), ~Rejects(filters[i + 1], u, now)
    PROVE  FilteredBy(filters, t, i + 1, doFilter(filters[i + 1], u))
<1>. DEFINE f == filters[i + 1]
            w == doFilter(f, u)
            e == Edited(filters, t, i)
            e1 == Edited(filters, t, i + 1)
<1>1. DOMAIN t = TreeFields /\ DOMAIN t.roles = t.sites /\ DOMAIN t.tags = Nodes(t) /\ t.groups \intersect t.sites = {}
  BY DEF WellFormed
<1>2. /\ DOMAIN u = TreeFields /\ Shape(u) /\ u.groups \subseteq t.groups /\ u.sites \subseteq t.sites
      /\ DOMAIN u.roles = t.sites /\ DOMAIN u.tags = Nodes(t)
      /\ Nodes(u) \subseteq Nodes(t)
  BY DEF FilteredBy, Nodes
<1>3. /\ DOMAIN w = TreeFields /\ Shape(w) /\ Nodes(w) = KeptBy(f, u)
      /\ w.root = u.root /\ w.groups = u.groups \intersect KeptBy(f, u)
      /\ w.sites = u.sites \intersect KeptBy(f, u)
      /\ w.above = u.above /\ w.name = u.name /\ w.validUntil = u.validUntil
      /\ w.signature = u.signature
      /\ w.roles = [s \in DOMAIN u.roles |-> {r \in u.roles[s] : KeepsRole(f, r)}]
      /\ w.tags = [n \in DOMAIN u.tags |-> u.tags[n] \union Applied(f, u, n)]
  BY <1>2, FilterLeavesATree
<1>4. /\ e.root = t.root /\ e.above = t.above /\ e.name = t.name /\ e.signature = t.signature
      /\ e.roles = [s \in DOMAIN t.roles |->
                       {r \in t.roles[s] : \A j \in 1 .. i : KeepsRole(filters[j], r)}]
      /\ e.tags = [n \in DOMAIN t.tags |->
                       t.tags[n] \union UNION {Applied(filters[j], t, n) : j \in 1 .. i}]
  BY <1>1, EditedFields
<1>5. /\ e1.roles = [s \in DOMAIN t.roles |->
                       {r \in t.roles[s] : \A j \in 1 .. (i + 1) : KeepsRole(filters[j], r)}]
      /\ e1.tags = [n \in DOMAIN t.tags |->
                       t.tags[n] \union UNION {Applied(filters[j], t, n) : j \in 1 .. (i + 1)}]
  BY <1>1, EditedFields
<1>6. 1 .. (i + 1) = (1 .. i) \union {i + 1}
  OBVIOUS
<1>7. /\ u.root = t.root /\ u.above = t.above /\ u.name = t.name
      /\ u.validUntil = t.validUntil /\ u.signature = t.signature
      /\ u.sites = {s \in t.sites : \A j \in 1 .. i : Admits(filters[j], Edited(filters, t, j - 1), s)}
      /\ \A s \in u.sites : u.roles[s] = e.roles[s]
      /\ \A n \in Nodes(u) : u.tags[n] = e.tags[n]
  BY DEF FilteredBy
<1>. HIDE DEF w, e, e1, f
<1>8. ASSUME NEW s \in u.sites
      PROVE  s \in KeptBy(f, u) <=> Admits(f, e, s)
  <2>1. s \in KeptBy(f, u) <=> Admits(f, u, s)
    <3>1. Nodes(u) \subseteq DOMAIN u.tags /\ s \in DOMAIN u.roles /\ ~Rejects(f, u, now)
      BY <1>2 DEF f
    <3>. QED
      BY <1>2, <3>1, FilterLeavesTheAdmitted
  <2>2. s \in Nodes(u)
    BY DEF Nodes
  <2>3. \A n \in Path(u, s) : u.tags[n] = e.tags[n]
    BY <1>2, <1>7, <2>2, PathsGoUp
  <2>4. Path(u, s) = Path(e, s)
    BY <1>4, <1>7 DEF Path, Ancestors
  <2>5. Admits(f, u, s) <=> Admits(f, e, s)
    BY <1>4, <1>7, <2>3, <2>4, AdmitsSame
  <2>. QED
    BY <2>1, <2>5
<1>9. w.sites = {s \in t.sites : \A j \in 1 .. (i + 1) : Admits(filters[j], Edited(filters, t, j - 1), s)}
  <2>1. (i + 1) - 1 = i
    OBVIOUS
  <2>2. w.sites = {s \in u.sites : Admits(f, e, s)}
    BY <1>3, <1>8
  <2>. QED
    BY <1>6, <1>7, <2>1, <2>2 DEF f, e
<1>10. ASSUME NEW s \in w.sites
       PROVE  w.roles[s] = e1.roles[s]
  <2>1. s \in u.sites /\ s \in t.sites
    BY <1>2, <1>3
  <2>2. w.roles[s] = {r \in e.roles[s] : KeepsRole(f, r)}
    BY <1>2, <1>3, <1>7, <2>1
  <2>. QED
    BY <1>1, <1>4, <1>5, <1>6, <2>1, <2>2 DEF f
<1>11. ASSUME NEW n \in Nodes(w)
       PROVE  w.tags[n] = e1.tags[n]
  <2>1. n \in Nodes(u) /\ n \in Nodes(t)
    BY <1>2, <1>3 DEF KeptBy
  <2>2. n \in u.sites <=> n \in t.sites
    BY <1>1, <1>2, <2>1 DEF Nodes
  <2>3. Applied(f, u, n) = Applied(f, t, n)
    BY <1>7, <2>2 DEF Applied
  <2>4. w.tags[n] = e.tags[n] \union Applied(f, t, n)
    BY <1>2, <1>3, <1>7, <2>1, <2>3
  <2>. QED
    BY <1>1, <1>4, <1>5, <1>6, <2>1, <2>4 DEF f
<1>12. DOMAIN w.roles = t.sites /\ DOMAIN w.tags = Nodes(t) /\ w.groups \subseteq t.groups
  BY <1>2, <1>3
<1>. QED
  BY <1>3, <1>7, <1>9, <1>10, <1>11, <1>12 DEF FilteredBy, f, w, e1

\* When no filter rejects a document, what they leave one after the other is
\* what each of them by itself admits.
THEOREM FiltersLeaveTheAdmitted ==
    ASSUME NEW filters, Len(filters) \in Nat, DOMAIN filters = 1 .. Len(filters),
           NEW t, WellFormed(t), NEW now, Filterable(filters, t, now)
    PROVE  /\ \A i \in 0 .. Len(filters) : FilteredBy(filters, t, i, doFilters(filters, t)[i])
           /\ doFilters(filters, t)[Len(filters)].sites = AdmittedBy(filters, t)
<1>. DEFINE D == doFilters(filters, t)
            Bad == {i \in Nat : i <= Len(filters) /\ ~FilteredBy(filters, t, i, D[i])}
<1>1. FilteredBy(filters, t, 0, t)
  <2>1. Shape(t) /\ DOMAIN t = TreeFields /\ DOMAIN t.roles = t.sites /\ DOMAIN t.tags = Nodes(t)
    BY WellFormedShape DEF WellFormed
  <2>. DEFINE e == Edited(filters, t, 0)
  <2>2. /\ e.roles = [s \in DOMAIN t.roles |->
                        {r \in t.roles[s] : \A j \in 1 .. 0 : KeepsRole(filters[j], r)}]
        /\ e.tags = [n \in DOMAIN t.tags |->
                        t.tags[n] \union UNION {Applied(filters[j], t, n) : j \in 1 .. 0}]
    BY <2>1, EditedFields
  <2>3. 1 .. 0 = {}
    OBVIOUS
  <2>. HIDE DEF e
  <2>4. ASSUME NEW s \in t.sites
        PROVE  t.roles[s] = e.roles[s]
    <3>1. e.roles[s] = {r \in t.roles[s] : \A j \in {} : KeepsRole(filters[j], r)}
      BY <2>1, <2>2, <2>3
    <3>. QED
      BY <3>1
  <2>5. ASSUME NEW n \in Nodes(t)
        PROVE  t.tags[n] = e.tags[n]
    BY <2>1, <2>2, <2>3
  <2>6. t.sites = {s \in t.sites : \A j \in 1 .. 0 : Admits(filters[j], Edited(filters, t, j - 1), s)}
    BY <2>3
  <2>. QED
    BY <2>1, <2>4, <2>5, <2>6 DEF FilteredBy, e
<1>2. D[0] = t /\ \A i \in 1 .. Len(filters) : D[i] = doFilter(filters[i], D[i - 1])
  BY FiltersStepByStep
<1>3. \A i \in 1 .. Len(filters) : ~Rejects(filters[i], D[i - 1], now)
  BY DEF Filterable
<1>. HIDE DEF D
<1>4. Bad = {}
  <2>1. SUFFICES ASSUME Bad # {}
        PROVE  FALSE
    OBVIOUS
  <2>2. PICK i \in Bad : \A j \in Bad : i <= j
    BY <2>1, LeastNatural
  <2>3. i # 0
    BY <1>1, <1>2, <2>2
  <2>4. i - 1 \in Nat /\ i - 1 <= Len(filters) /\ i \in 1 .. Len(filters) /\ ~(i <= i - 1)
    BY <2>2, <2>3
  <2>5. FilteredBy(filters, t, i - 1, D[i - 1])
    BY <2>2, <2>4
  <2>6. D[i] = doFilter(filters[i], D[i - 1]) /\ ~Rejects(filters[i], D[i - 1], now)
    BY <1>2, <1>3, <2>4
  <2>7. (i - 1) + 1 = i
    BY <2>2
  <2>8. FilteredBy(filters, t, i, D[i])
    BY <2>4, <2>5, <2>6, <2>7, NextFilter
  <2>. QED
    BY <2>2, <2>8
<1>5. \A i \in 0 .. Len(filters) : FilteredBy(filters, t, i, D[i])
  BY <1>4
<1>6. D[Len(filters)].sites = AdmittedBy(filters, t)
  BY <1>5 DEF FilteredBy, AdmittedBy
<1>. QED
  BY <1>5, <1>6 DEF D
=============================================================================

-------------------------- MODULE XMLElement_proofs --------------------------
(* Proofs about the children of an XML object, for every library whose     *)
(* classes are soundly described, and for any number of changes.           *)
EXTENDS XMLElement, TLAPS, FiniteSetTheorems, SequenceTheorems, WellFoundedInduction

-----------------------------------------------------------------------------
(* Sequences of cells *)

\* Two sequences, one behind the other.
LEMMA Joined ==
    ASSUME NEW S, NEW f \in Seq(S), NEW b \in Seq(S)
    PROVE  /\ f \o b \in Seq(S) /\ Len(f \o b) = Len(f) + Len(b)
           /\ Len(f) \in Nat /\ Len(b) \in Nat
           /\ \A i \in 1..Len(f) : (f \o b)[i] = f[i]
           /\ \A i \in 1..Len(b) : (f \o b)[Len(f) + i] = b[i]
<1>1. Len(f) \in Nat /\ Len(b) \in Nat
  OBVIOUS
<1>. QED
  BY <1>1, ConcatProperties

\* One element more, at a place: those behind it move up.
LEMMA Inserted ==
    ASSUME NEW S, NEW s \in Seq(S), NEW p \in 1..(Len(s) + 1), NEW e \in S
    PROVE  /\ InsertAt(s, p, e) \in Seq(S) /\ Len(InsertAt(s, p, e)) = Len(s) + 1
           /\ \A i \in 1..(p - 1) : InsertAt(s, p, e)[i] = s[i]
           /\ InsertAt(s, p, e)[p] = e
           /\ \A i \in p..Len(s) : InsertAt(s, p, e)[i + 1] = s[i]
<1>. DEFINE front == SubSeq(s, 1, p - 1)
            upTo == front \o <<e>>
            back == SubSeq(s, p, Len(s))
            all == upTo \o back
<1>0. \A i \in 1..Len(s) : s[i] \in S
  OBVIOUS
<1>1. Len(s) \in Nat /\ p \in Nat /\ 1 <= p /\ p <= Len(s) + 1
  OBVIOUS
<1>2. front \in Seq(S) /\ Len(front) = p - 1 /\ \A i \in 1..(p - 1) : front[i] = s[i]
  BY <1>0, <1>1, SubSeqProperties
<1>3. /\ back \in Seq(S) /\ Len(back) = Len(s) - p + 1
      /\ \A i \in 1..(Len(s) - p + 1) : back[i] = s[p + i - 1]
  BY <1>0, <1>1, SubSeqProperties
<1>. HIDE DEF front, back
<1>4. <<e>> \in Seq(S) /\ Len(<<e>>) = 1 /\ <<e>>[1] = e
  OBVIOUS
<1>5. /\ upTo \in Seq(S) /\ Len(upTo) = Len(front) + Len(<<e>>)
      /\ \A i \in 1..Len(front) : upTo[i] = front[i]
      /\ \A i \in 1..Len(<<e>>) : upTo[Len(front) + i] = <<e>>[i]
  BY <1>2, <1>4, Joined
<1>. HIDE DEF upTo
<1>6. Len(upTo) = p /\ upTo[p] = e /\ \A i \in 1..(p - 1) : upTo[i] = s[i]
  BY <1>1, <1>2, <1>4, <1>5
<1>7. /\ all \in Seq(S) /\ Len(all) = Len(upTo) + Len(back)
      /\ \A i \in 1..Len(upTo) : all[i] = upTo[i]
      /\ \A i \in 1..Len(back) : all[Len(upTo) + i] = back[i]
  <2>1. upTo \in Seq(S) /\ back \in Seq(S)
    BY <1>3, <1>5
  <2>. QED
    BY <2>1, Joined
<1>8. InsertAt(s, p, e) = all
  BY DEF InsertAt, upTo, front, back
<1>. HIDE DEF all
<1>9. Len(all) = Len(s) + 1
  BY <1>1, <1>3, <1>6, <1>7
<1>10. all[p] = e /\ \A i \in 1..(p - 1) : all[i] = s[i]
  BY <1>1, <1>6, <1>7
<1>11. ASSUME NEW i \in p..Len(s)
       PROVE  all[i + 1] = s[i]
  <2>. DEFINE k == i + 1 - p
  <2>1. k \in 1..(Len(s) - p + 1) /\ p + k = i + 1 /\ p + k - 1 = i
    BY <1>1
  <2>. HIDE DEF k
  <2>2. all[Len(upTo) + k] = back[k]
    BY <1>3, <1>7, <2>1
  <2>3. back[k] = s[p + k - 1]
    BY <1>3, <2>1
  <2>. QED
    BY <1>6, <2>1, <2>2, <2>3
<1>. QED
  BY <1>7, <1>8, <1>9, <1>10, <1>11

\* One element less: those behind it move down.
LEMMA Removed ==
    ASSUME NEW S, NEW s \in Seq(S), NEW p \in 1..Len(s)
    PROVE  /\ RemoveAt(s, p) \in Seq(S) /\ Len(RemoveAt(s, p)) = Len(s) - 1
           /\ \A i \in 1..(p - 1) : RemoveAt(s, p)[i] = s[i]
           /\ \A i \in p..(Len(s) - 1) : RemoveAt(s, p)[i] = s[i + 1]
<1>. DEFINE front == SubSeq(s, 1, p - 1)
            back == SubSeq(s, p + 1, Len(s))
            all == front \o back
<1>0. \A i \in 1..Len(s) : s[i] \in S
  OBVIOUS
<1>1. Len(s) \in Nat /\ p \in Nat /\ 1 <= p /\ p <= Len(s)
  OBVIOUS
<1>3. front \in Seq(S) /\ Len(front) = p - 1 /\ \A i \in 1..(p - 1) : front[i] = s[i]
  BY <1>0, <1>1, SubSeqProperties
<1>4. /\ back \in Seq(S) /\ Len(back) = Len(s) - (p + 1) + 1
      /\ \A i \in 1..(Len(s) - (p + 1) + 1) : back[i] = s[(p + 1) + i - 1]
  BY <1>0, <1>1, SubSeqProperties
<1>. HIDE DEF front, back
<1>5. /\ all \in Seq(S) /\ Len(all) = Len(front) + Len(back)
      /\ \A i \in 1..Len(front) : all[i] = front[i]
      /\ \A i \in 1..Len(back) : all[Len(front) + i] = back[i]
  <2>1. front \in Seq(S) /\ back \in Seq(S)
    BY <1>3, <1>4
  <2>. QED
    BY <2>1, Joined
<1>6. RemoveAt(s, p) = all
  BY DEF RemoveAt, front, back
<1>. HIDE DEF all
<1>7. Len(all) = Len(s) - 1
  BY <1>1, <1>3, <1>4, <1>5
<1>8. \A i \in 1..(p - 1) : all[i] = s[i]
  BY <1>1, <1>3, <1>5
<1>9. ASSUME NEW i \in p..(Len(s) - 1)
      PROVE  all[i] = s[i + 1]
  <2>. DEFINE k == i - (p - 1)
  <2>1. k \in 1..(Len(s) - (p + 1) + 1) /\ (p - 1) + k = i /\ (p + 1) + k - 1 = i + 1
    BY <1>1
  <2>. HIDE DEF k
  <2>2. all[Len(front) + k] = back[k]
    BY <1>4, <1>5, <2>1
  <2>3. back[k] = s[(p + 1) + k - 1]
    BY <1>4, <2>1
  <2>. QED
    BY <1>3, <2>1, <2>2, <2>3
<1>. QED
  BY <1>5, <1>6, <1>7, <1>8, <1>9

\* A set of numbers that is not empty has a least member.
LEMMA SmallestOf ==
    ASSUME NEW T \in SUBSET Nat, T # {}
    PROVE  \E x \in T : \A y \in T : x <= y
<1>. DEFINE R == {ss \in Nat \X Nat : ss[1] < ss[2]}
<1>1. IsWellFoundedOn(R, Nat)
  BY NatLessThanWellFounded DEF OpToRel
<1>2. PICK x \in T : \A y \in T : ~ (<<y, x>> \in R)
  <2>. HIDE DEF R
  <2>. QED
    BY <1>1, WFMin
<1>3. ASSUME NEW y \in T
      PROVE  x <= y
  <2>1. x \in Nat /\ y \in Nat /\ <<y, x>> \in Nat \X Nat
    OBVIOUS
  <2>2. ~(y < x)
    BY <1>2, <2>1
  <2>. QED
    BY <2>1, <2>2
<1>. QED
  BY <1>3

\* A finite set of numbers has a k-th member, for each k up to its size.
Below(S, i) == {j \in S : j <= i}
LEMMA HasNth ==
    ASSUME NEW n \in Nat, NEW S \in SUBSET (1..n), NEW k \in 1..Cardinality(S)
    PROVE  \E i \in S : Cardinality(Below(S, i)) = k
<1>. DEFINE T == {i \in S : Cardinality(Below(S, i)) >= k}
<1>0. IsFiniteSet(S) /\ \A i \in S : i \in Nat /\ i <= n
  <2>1. IsFiniteSet(1..n) /\ S \in SUBSET (1..n)
    BY FS_Interval
  <2>2. IsFiniteSet(S)
    BY <2>1, FS_Subset
  <2>. QED
    BY <2>1, <2>2
<1>1. \A i \in S : IsFiniteSet(Below(S, i)) /\ Cardinality(Below(S, i)) \in Nat
  BY <1>0, FS_Subset, FS_CardinalityType DEF Below
<1>2. Cardinality(S) \in Nat /\ S # {}
  BY <1>0, FS_CardinalityType, FS_EmptySet
<1>3. \A R \in SUBSET S : R # {} => \E i \in R : \A j \in R : j <= i
  <2>. SUFFICES ASSUME NEW R \in SUBSET S, R # {} PROVE \E i \in R : \A j \in R : j <= i
    OBVIOUS
  <2>. DEFINE U == {n - r : r \in R}
  <2>1. \A r \in R : r \in Nat /\ n - r \in Nat
    BY <1>0
  <2>2. U \subseteq Nat /\ U # {}
    BY <2>1
  <2>3. PICK m \in U : \A u \in U : m <= u
    <3>. HIDE DEF U
    <3>. QED
      BY <2>2, SmallestOf
  <2>4. PICK i \in R : m = n - i
    BY <2>3
  <2>5. \A j \in R : n - i <= n - j
    BY <2>3, <2>4
  <2>. QED
    BY <2>1, <2>4, <2>5
<1>4. T # {}
  <2>1. PICK i \in S : \A j \in S : j <= i
    BY <1>2, <1>3
  <2>2. Below(S, i) = S
    BY <2>1 DEF Below
  <2>. QED
    BY <1>2, <2>2
<1>5. PICK i \in T : \A j \in T : i <= j
  <2>1. T \subseteq Nat
    BY <1>0
  <2>. HIDE DEF T
  <2>. QED
    BY <1>4, <2>1, SmallestOf
<1>6. SUFFICES ASSUME Cardinality(Below(S, i)) > k PROVE FALSE
  BY <1>1, <1>5
<1>. DEFINE R == Below(S, i) \ {i}
<1>7. IsFiniteSet(R) /\ Cardinality(R) = Cardinality(Below(S, i)) - 1
  BY <1>1, FS_RemoveElement DEF Below
<1>8. R # {}
  BY <1>1, <1>6, <1>7, FS_EmptySet
<1>9. PICK j \in R : \A l \in R : l <= j
  BY <1>3, <1>8 DEF Below
<1>10. Below(S, j) = R
  <2>1. j \in S /\ j \in Nat /\ i \in Nat /\ j < i
    BY <1>0, <1>9 DEF Below
  <2>2. \A l \in S : l <= j => l \in R
    BY <1>0, <2>1 DEF Below
  <2>3. \A l \in R : l \in S /\ l <= j
    BY <1>9 DEF Below
  <2>. QED
    BY <2>2, <2>3 DEF Below
<1>11. j \in T /\ j < i
  BY <1>1, <1>6, <1>7, <1>9, <1>10 DEF Below
<1>. QED
  BY <1>5, <1>11

\* The members of a set of numbers, counted in their order: there is but one way.
Enumerates(f, n, A) ==
  /\ n \in Nat /\ f \in [1..n -> A]
  /\ \A k, l \in 1..n : k < l => f[k] < f[l]
  /\ \A i \in A : \E k \in 1..n : f[k] = i

\* Two increasing lists of the same numbers are one list.
LEMMA SameEnumeration ==
    ASSUME NEW A \in SUBSET Nat, NEW f, NEW n, Enumerates(f, n, A),
           NEW g, NEW m, Enumerates(g, m, A)
    PROVE  n = m /\ f = g
<1>. DEFINE Apart == {k \in Nat : k \in 1..n /\ k \in 1..m /\ f[k] # g[k]}
<1>1. /\ n \in Nat /\ m \in Nat
      /\ \A k \in 1..n : f[k] \in A /\ f[k] \in Nat
      /\ \A k \in 1..m : g[k] \in A /\ g[k] \in Nat
  BY DEF Enumerates
<1>2. Apart = {}
  <2>. SUFFICES ASSUME Apart # {} PROVE FALSE
    OBVIOUS
  <2>1. PICK k \in Apart : \A j \in Apart : k <= j
    BY SmallestOf
  <2>2. k \in 1..n /\ k \in 1..m /\ f[k] # g[k] /\ k \in Nat
    OBVIOUS
  <2>3. \A j \in Nat : j \in 1..n /\ j \in 1..m /\ j < k => f[j] = g[j]
    BY <2>1, <2>2
  <2>. HIDE DEF Apart
  <2>4. CASE f[k] < g[k]
    <3>1. PICK l \in 1..m : g[l] = f[k]
      BY <1>1, <2>2 DEF Enumerates
    <3>2. l < k
      <4>1. ~(k < l) /\ l # k
        BY <1>1, <2>2, <2>4, <3>1 DEF Enumerates
      <4>. QED
        BY <1>1, <2>2, <4>1
    <3>3. l \in 1..n /\ f[l] < f[k]
      BY <1>1, <2>2, <3>2 DEF Enumerates
    <3>. QED
      BY <1>1, <2>2, <2>3, <3>1, <3>2, <3>3
  <2>5. CASE g[k] < f[k]
    <3>1. PICK l \in 1..n : f[l] = g[k]
      BY <1>1, <2>2 DEF Enumerates
    <3>2. l < k
      <4>1. ~(k < l) /\ l # k
        BY <1>1, <2>2, <2>5, <3>1 DEF Enumerates
      <4>. QED
        BY <1>1, <2>2, <4>1
    <3>3. l \in 1..m /\ g[l] < g[k]
      BY <1>1, <2>2, <3>2 DEF Enumerates
    <3>. QED
      BY <1>1, <2>2, <2>3, <3>1, <3>2, <3>3
  <2>. QED
    BY <1>1, <2>2, <2>4, <2>5
<1>3. \A k \in Nat : k \in 1..n /\ k \in 1..m => f[k] = g[k]
  BY <1>2
<1>. HIDE DEF Apart
<1>4. ~(n < m)
  <2>. SUFFICES ASSUME n < m PROVE FALSE
    OBVIOUS
  <2>1. n + 1 \in 1..m /\ n + 1 \in Nat
    BY <1>1
  <2>2. PICK l \in 1..n : f[l] = g[n + 1]
    BY <1>1, <2>1 DEF Enumerates
  <2>3. l \in 1..m /\ l < n + 1 /\ l \in Nat
    BY <1>1
  <2>4. g[l] < g[n + 1] /\ f[l] = g[l]
    BY <1>3, <2>1, <2>3 DEF Enumerates
  <2>. QED
    BY <1>1, <2>1, <2>2, <2>4
<1>5. ~(m < n)
  <2>. SUFFICES ASSUME m < n PROVE FALSE
    OBVIOUS
  <2>1. m + 1 \in 1..n /\ m + 1 \in Nat
    BY <1>1
  <2>2. PICK l \in 1..m : g[l] = f[m + 1]
    BY <1>1, <2>1 DEF Enumerates
  <2>3. l \in 1..n /\ l < m + 1 /\ l \in Nat
    BY <1>1
  <2>4. f[l] < f[m + 1] /\ f[l] = g[l]
    BY <1>3, <2>1, <2>3 DEF Enumerates
  <2>. QED
    BY <1>1, <2>1, <2>2, <2>4
<1>6. n = m
  BY <1>1, <1>4, <1>5
<1>7. \A k \in 1..n : f[k] = g[k]
  BY <1>1, <1>3, <1>6
<1>. QED
  BY <1>6, <1>7 DEF Enumerates

\* The cells that hold a child, counted in their order.
FilledAt(cells) == {i \in DOMAIN cells : cells[i].child # None}

\* Filled lists the cells that hold a child in the order of their positions.
LEMMA FilledInOrder ==
    ASSUME NEW S, NEW cells \in Seq(S)
    PROVE  /\ FilledAt(cells) \in SUBSET Nat /\ FilledAt(cells) \subseteq DOMAIN cells
           /\ \E n \in Nat : \E nth : /\ Enumerates(nth, n, FilledAt(cells))
                                      /\ Filled(cells) = [k \in 1..n |-> cells[nth[k]]]
<1>. DEFINE filled == {i \in DOMAIN cells : cells[i].child # None}
            Nth(k) == CHOOSE i \in filled : Cardinality({j \in filled : j <= i}) = k
            n == Cardinality(filled)
<1>1. Len(cells) \in Nat /\ DOMAIN cells = 1..Len(cells) /\ \A i \in DOMAIN cells : cells[i] \in S
  BY LenProperties
<1>2. filled \in SUBSET (1..Len(cells)) /\ \A i \in filled : i \in Nat /\ cells[i].child # None
  BY <1>1
<1>3. IsFiniteSet(filled) /\ n \in Nat
  <2>1. IsFiniteSet(1..Len(cells))
    BY <1>1, FS_Interval
  <2>2. IsFiniteSet(filled)
    BY <1>2, <2>1, FS_Subset
  <2>. QED
    BY <2>2, FS_CardinalityType
<1>4. Filled(cells) = [k \in 1..n |-> cells[Nth(k)]]
  BY DEF Filled
<1>5. filled \subseteq DOMAIN cells
  OBVIOUS
<1>. HIDE DEF filled, n
<1>6. \A k \in 1..n : Nth(k) \in filled /\ Cardinality(Below(filled, Nth(k))) = k
  <2>. SUFFICES ASSUME NEW k \in 1..n
       PROVE  Nth(k) \in filled /\ Cardinality(Below(filled, Nth(k))) = k
    OBVIOUS
  <2>1. k \in 1..Cardinality(filled)
    BY DEF n
  <2>2. \E i \in filled : Cardinality(Below(filled, i)) = k
    BY <1>1, <1>2, <2>1, HasNth
  <2>. QED
    BY <2>2 DEF Below
<1>. HIDE DEF Nth
<1>7. ASSUME NEW k \in 1..n, NEW l \in 1..n, k < l
      PROVE  Nth(k) < Nth(l)
  <2>. PICK i \in filled : i = Nth(k) /\ Cardinality(Below(filled, i)) = k
    BY <1>6
  <2>. PICK j \in filled : j = Nth(l) /\ Cardinality(Below(filled, j)) = l
    BY <1>6
  <2>1. i \in Nat /\ j \in Nat /\ k \in Nat /\ l \in Nat
    BY <1>2, <1>3
  <2>2. SUFFICES ASSUME j <= i PROVE FALSE
    BY <2>1
  <2>3. Below(filled, j) \in SUBSET Below(filled, i)
    <3>1. \A x \in filled : x <= j => x <= i
      BY <1>2, <2>1, <2>2
    <3>. QED
      BY <3>1 DEF Below
  <2>4. IsFiniteSet(Below(filled, i))
    BY <1>3, FS_Subset DEF Below
  <2>5. l <= k
    BY <2>3, <2>4, FS_Subset
  <2>. QED
    BY <1>7, <2>1, <2>5
<1>8. \A i \in filled : \E k \in 1..n : Nth(k) = i
  <2>. SUFFICES ASSUME NEW i \in filled PROVE \E k \in 1..n : Nth(k) = i
    OBVIOUS
  <2>. DEFINE k == Cardinality(Below(filled, i))
  <2>1. IsFiniteSet(Below(filled, i)) /\ i \in Below(filled, i) /\ Below(filled, i) \in SUBSET filled
    BY <1>2, <1>3, FS_Subset DEF Below
  <2>2. k \in Nat /\ k <= n /\ k # 0
    <3>1. k <= n
      BY <1>3, <2>1, FS_Subset DEF n
    <3>. QED
      BY <2>1, <3>1, FS_CardinalityType, FS_EmptySet
  <2>3. k \in 1..n
    BY <1>3, <2>2
  <2>4. PICK j \in filled : j = Nth(k) /\ Cardinality(Below(filled, j)) = k
    BY <1>6, <2>3
  <2>5. ASSUME NEW a \in filled, NEW b \in filled, a < b
        PROVE  Cardinality(Below(filled, a)) # Cardinality(Below(filled, b))
    <3>1. a \in Nat /\ b \in Nat
      BY <1>2
    <3>2. Below(filled, a) \in SUBSET Below(filled, b)
      <4>1. \A z \in filled : z <= a => z <= b
        BY <1>2, <2>5, <3>1
      <4>. QED
        BY <4>1 DEF Below
    <3>3. b \in Below(filled, b) /\ b \notin Below(filled, a)
      BY <2>5, <3>1 DEF Below
    <3>4. IsFiniteSet(Below(filled, b))
      BY <1>3, FS_Subset DEF Below
    <3>. QED
      BY <3>2, <3>3, <3>4, FS_Subset
  <2>6. i = j
    <3>1. i \in Nat /\ j \in Nat
      BY <1>2
    <3>2. ~(i < j) /\ ~(j < i)
      BY <2>4, <2>5
    <3>. QED
      BY <3>1, <3>2
  <2>. QED
    BY <2>3, <2>4, <2>6
<1>. DEFINE nth == [k \in 1..n |-> Nth(k)]
<1>9. nth \in [1..n -> filled] /\ \A k \in 1..n : nth[k] = Nth(k)
  BY <1>6
<1>10. Filled(cells) = [k \in 1..n |-> cells[nth[k]]]
  BY <1>4
<1>. HIDE DEF nth
<1>11. Enumerates(nth, n, filled)
  BY <1>3, <1>7, <1>8, <1>9 DEF Enumerates
<1>12. filled = FilledAt(cells)
  BY DEF filled, FilledAt
<1>. QED
  BY <1>2, <1>3, <1>5, <1>10, <1>11, <1>12

\* The document lists the children of the cells that hold one, in the order of
\* the cells.
LEMMA DocumentKeepsOrder ==
    ASSUME NEW S, NEW cells \in Seq(S)
    PROVE  /\ Filled(cells) \in Seq(S)
           /\ \A k \in DOMAIN Filled(cells) : \E i \in DOMAIN cells :
                Filled(cells)[k] = cells[i] /\ cells[i].child # None
           /\ \A k, l \in DOMAIN Filled(cells) : k < l =>
                \E i, j \in DOMAIN cells :
                  /\ i < j /\ Filled(cells)[k] = cells[i] /\ Filled(cells)[l] = cells[j]
                  /\ cells[i].child # None /\ cells[j].child # None
<1>. DEFINE filled == FilledAt(cells)
<1>1. /\ \A i \in DOMAIN cells : cells[i] \in S
      /\ \A i \in filled : i \in DOMAIN cells /\ cells[i].child # None
  BY LenProperties DEF FilledAt
<1>2. PICK n, nth : /\ n \in Nat
                    /\ Enumerates(nth, n, filled)
                    /\ Filled(cells) = [k \in 1..n |-> cells[nth[k]]]
  BY FilledInOrder
<1>. HIDE DEF filled
<1>3. \A k \in 1..n : nth[k] \in filled /\ Filled(cells)[k] = cells[nth[k]]
  BY <1>2 DEF Enumerates
<1>4. DOMAIN Filled(cells) = 1..n
  BY <1>2
<1>5. Filled(cells) \in Seq(S)
  <2>1. Filled(cells) \in [1..n -> S]
    BY <1>1, <1>2, <1>3
  <2>2. n \in Nat
    BY <1>2
  <2>. QED
    BY <2>1, <2>2
<1>. QED
  BY <1>1, <1>2, <1>3, <1>4, <1>5 DEF Enumerates

-----------------------------------------------------------------------------
(* The layout *)

Cells(class) == FilledCells(class) \cup EmptyCells(class)

\* A filled cell is a slot with its child or a member of a list.
FilledSlot(class, cell) ==
  \E m \in class.interface.singles : \E child \in Candidates(class, m) :
    cell = Cell(m, child, TRUE)
ListMember(class, cell) ==
  \E m \in class.interface.lists : \E child \in Candidates(class, m) :
    cell = Cell(m, child, FALSE)
LEMMA FilledCell ==
    ASSUME NEW class, NEW cell
    PROVE  cell \in FilledCells(class) <=> FilledSlot(class, cell) \/ ListMember(class, cell)
<1>. DEFINE Single(m) == {Cell(m, child, TRUE) : child \in Candidates(class, m)}
            Listed(m) == {Cell(m, child, FALSE) : child \in Candidates(class, m)}
<1>1. cell \in SlotCells(class) <=> \E m \in class.interface.singles : cell \in Single(m)
  BY DEF SlotCells
<1>2. cell \in ListCells(class) <=> \E m \in class.interface.lists : cell \in Listed(m)
  BY DEF ListCells
<1>3. \A m : cell \in Single(m) <=> \E child \in Candidates(class, m) : cell = Cell(m, child, TRUE)
  BY Zenon
<1>4. \A m : cell \in Listed(m) <=> \E child \in Candidates(class, m) : cell = Cell(m, child, FALSE)
  BY Zenon
<1>. HIDE DEF Single, Listed
<1>5. cell \in SlotCells(class) <=> FilledSlot(class, cell)
  BY <1>1, <1>3, Zenon DEF FilledSlot
<1>6. cell \in ListCells(class) <=> ListMember(class, cell)
  BY <1>2, <1>4, Zenon DEF ListMember
<1>. QED
  BY <1>5, <1>6, Zenon DEF FilledCells

\* What the cells of a class are.
LEMMA CellFacts ==
    ASSUME NEW class, NEW cell \in Cells(class), HasPlaces(class)
    PROVE  /\ cell = Cell(cell.member, cell.child, cell.fixed)
           /\ cell.fixed \in BOOLEAN
           /\ cell.fixed => IsSlot(class.impl, cell.member)
           /\ ~cell.fixed => IsList(class.impl, cell.member)
           /\ cell.child \in Tokens(class) \cup {None}
           /\ ~cell.fixed => cell.child # None
           /\ cell.child # None => cell \in FilledCells(class)
<1>1. CASE cell \in EmptyCells(class)
  <2>1. PICK k \in DOMAIN class.impl.slots : cell = Cell(class.impl.slots[k], None, TRUE)
    BY <1>1 DEF EmptyCells
  <2>2. cell.member = class.impl.slots[k] /\ cell.child = None /\ cell.fixed = TRUE
    BY <2>1 DEF Cell
  <2>. QED
    BY <2>1, <2>2 DEF IsSlot
<1>2. ASSUME NEW m \in class.interface.singles, NEW child \in Candidates(class, m),
             cell = Cell(m, child, TRUE)
      PROVE  /\ cell.member = m /\ cell.child = child /\ cell.fixed = TRUE
             /\ IsSlot(class.impl, m) /\ child \in Tokens(class) /\ child # None
  BY <1>2 DEF Cell, HasPlaces, Members
<1>3. ASSUME NEW m \in class.interface.lists, NEW child \in Candidates(class, m),
             cell = Cell(m, child, FALSE)
      PROVE  /\ cell.member = m /\ cell.child = child /\ cell.fixed = FALSE
             /\ IsList(class.impl, m) /\ child \in Tokens(class) /\ child # None
  BY <1>3 DEF Cell, HasPlaces, Members
<1>4. CASE cell \in FilledCells(class)
  <2>1. FilledSlot(class, cell) \/ ListMember(class, cell)
    BY <1>4, FilledCell
  <2>2. CASE FilledSlot(class, cell)
    <3>1. PICK m \in class.interface.singles : \E child \in Candidates(class, m) :
            cell = Cell(m, child, TRUE)
      BY <2>2, Zenon DEF FilledSlot
    <3>2. PICK child \in Candidates(class, m) : cell = Cell(m, child, TRUE)
      BY <3>1
    <3>. QED
      BY <1>2, <1>4, <3>2
  <2>3. CASE ListMember(class, cell)
    <3>1. PICK m \in class.interface.lists : \E child \in Candidates(class, m) :
            cell = Cell(m, child, FALSE)
      BY <2>3, Zenon DEF ListMember
    <3>2. PICK child \in Candidates(class, m) : cell = Cell(m, child, FALSE)
      BY <3>1
    <3>. QED
      BY <1>3, <1>4, <3>2
  <2>. QED
    BY <2>1, <2>2, <2>3
<1>. QED
  BY <1>1, <1>4 DEF Cells

\* The cells an object of a class may hold, whoever put the child there: reading
\* a document may put it in another member than a caller would.
HeldMembers(class) == ToSet(class.impl.slots) \cup {pair[1] : pair \in class.impl.lists}
HeldCells(class) ==
  {cell \in [member : HeldMembers(class), child : Tokens(class) \cup {None}, fixed : BOOLEAN] :
     /\ cell.fixed => IsSlot(class.impl, cell.member)
     /\ ~cell.fixed => IsList(class.impl, cell.member) /\ cell.child # None
     /\ cell.fixed /\ cell.child # None => ~IsList(class.impl, cell.member)}

\* What a cell that a member can hold is made of.
LEMMA HeldFacts ==
    ASSUME NEW class, NEW cell \in HeldCells(class)
    PROVE  /\ cell = Cell(cell.member, cell.child, cell.fixed)
           /\ cell.fixed \in BOOLEAN
           /\ cell.fixed => IsSlot(class.impl, cell.member)
           /\ ~cell.fixed => IsList(class.impl, cell.member) /\ cell.child # None
           /\ cell.fixed /\ cell.child # None => ~IsList(class.impl, cell.member)
           /\ cell.child \in Tokens(class) \cup {None}
BY DEF HeldCells, Cell

\* A slot, and a child in a list, are cells that a member can hold.
LEMMA IsHeld ==
    ASSUME NEW class, NEW member, NEW child \in Tokens(class) \cup {None}, NEW fixed \in BOOLEAN,
           fixed => IsSlot(class.impl, member),
           ~fixed => IsList(class.impl, member) /\ child # None,
           fixed /\ child # None => ~IsList(class.impl, member)
    PROVE  Cell(member, child, fixed) \in HeldCells(class)
<1>. DEFINE cell == Cell(member, child, fixed)
<1>1. cell.member = member /\ cell.child = child /\ cell.fixed = fixed
  BY DEF Cell
<1>2. member \in HeldMembers(class)
  BY DEF HeldMembers, ToSet, IsSlot, IsList
<1>3. cell \in [member : HeldMembers(class), child : Tokens(class) \cup {None}, fixed : BOOLEAN]
  BY <1>2 DEF Cell
<1>4. /\ cell.fixed => IsSlot(class.impl, cell.member)
      /\ ~cell.fixed => IsList(class.impl, cell.member) /\ cell.child # None
      /\ cell.fixed /\ cell.child # None => ~IsList(class.impl, cell.member)
  BY <1>1
<1>. HIDE DEF cell
<1>5. cell \in HeldCells(class)
  BY <1>3, <1>4 DEF HeldCells
<1>. QED
  BY <1>5 DEF cell

\* Every cell of a soundly described class is one that a member can hold.
LEMMA CellsAreHeld ==
    ASSUME NEW class, HasPlaces(class)
    PROVE  Cells(class) \subseteq HeldCells(class)
<1>. SUFFICES ASSUME NEW cell \in Cells(class) PROVE cell \in HeldCells(class)
  OBVIOUS
<1>1. /\ cell = Cell(cell.member, cell.child, cell.fixed)
      /\ cell.fixed \in BOOLEAN
      /\ cell.fixed => IsSlot(class.impl, cell.member)
      /\ ~cell.fixed => IsList(class.impl, cell.member)
      /\ cell.child \in Tokens(class) \cup {None}
      /\ ~cell.fixed => cell.child # None
      /\ cell.child # None => cell \in FilledCells(class)
  BY CellFacts
<1>2. ASSUME cell.fixed, cell.child # None
      PROVE  ~IsList(class.impl, cell.member)
  <2>1. FilledSlot(class, cell) \/ ListMember(class, cell)
    BY <1>1, <1>2, FilledCell
  <2>2. ~ListMember(class, cell)
    <3>. SUFFICES ASSUME NEW m, NEW child, cell = Cell(m, child, FALSE) PROVE FALSE
      BY Zenon DEF ListMember
    <3>1. cell.fixed = FALSE
      BY DEF Cell
    <3>. QED
      BY <1>2, <3>1
  <2>3. PICK m \in class.interface.singles : \E child \in Candidates(class, m) :
          cell = Cell(m, child, TRUE)
    BY <2>1, <2>2, Zenon DEF FilledSlot
  <2>4. cell.member = m
    BY <2>3 DEF Cell
  <2>. QED
    BY <2>4 DEF HasPlaces
<1>3. PICK m, child, fixed : m = cell.member /\ child = cell.child /\ fixed = cell.fixed
  OBVIOUS
<1>4. Cell(m, child, fixed) \in HeldCells(class)
  <2>1. child \in Tokens(class) \cup {None} /\ fixed \in BOOLEAN
    BY <1>1, <1>3
  <2>2. /\ fixed => IsSlot(class.impl, m)
        /\ ~fixed => IsList(class.impl, m) /\ child # None
        /\ fixed /\ child # None => ~IsList(class.impl, m)
    BY <1>1, <1>2, <1>3
  <2>. QED
    BY <2>1, <2>2, IsHeld
<1>. QED
  BY <1>1, <1>3, <1>4

\* The layout, of cells taken from a given set.
ArrangedIn(class, S, cells) ==
  /\ cells \in Seq(S)
  /\ \A i, j \in DOMAIN cells : i < j => MayPrecede(class.impl, cells[i], cells[j])
  /\ \A k \in DOMAIN class.impl.slots :
       \E i \in DOMAIN cells : cells[i].fixed /\ cells[i].member = class.impl.slots[k]
Arranged(class, cells) == ArrangedIn(class, HeldCells(class), cells)

\* LaidOut is ArrangedIn for the cells of the class, and so for the cells
\* that a member can hold, those included that a reader or a copy makes.
LEMMA LaidOutIsArranged ==
    ASSUME NEW class, NEW cells
    PROVE  /\ LaidOut(class, cells) <=> ArrangedIn(class, Cells(class), cells)
           /\ LaidOut(class, cells) /\ HasPlaces(class) => Arranged(class, cells)
<1>1. LaidOut(class, cells) <=> ArrangedIn(class, Cells(class), cells)
  BY DEF LaidOut, ArrangedIn, Cells
<1>2. ASSUME LaidOut(class, cells), HasPlaces(class)
      PROVE  Arranged(class, cells)
  <2>1. PICK S : S = Cells(class)
    OBVIOUS
  <2>2. PICK T : T = HeldCells(class)
    OBVIOUS
  <2>3. S \subseteq T
    BY <1>2, <2>1, <2>2, CellsAreHeld
  <2>4. cells \in Seq(S)
    BY <1>1, <1>2, <2>1 DEF ArrangedIn
  <2>5. cells \in Seq(T)
    BY <2>3, <2>4
  <2>. QED
    BY <1>1, <1>2, <2>2, <2>5 DEF ArrangedIn, Arranged
<1>. QED
  BY <1>1, <1>2

\* The cell of a slot is where SlotOf says.
LEMMA SlotFound ==
    ASSUME NEW class, NEW S, NEW cells, ArrangedIn(class, S, cells),
           NEW slot, IsSlot(class.impl, slot)
    PROVE  /\ SlotOf(cells, slot) \in DOMAIN cells
           /\ cells[SlotOf(cells, slot)].fixed /\ cells[SlotOf(cells, slot)].member = slot
<1>1. PICK k \in DOMAIN class.impl.slots : class.impl.slots[k] = slot
  BY DEF IsSlot
<1>2. \E i \in DOMAIN cells : cells[i].fixed /\ cells[i].member = slot
  BY <1>1 DEF ArrangedIn
<1>. QED
  BY <1>2 DEF SlotOf

\* A cell's place is the number of its slot or of the fence of its list.
LEMMA Placed ==
    ASSUME NEW class, HasPlaces(class), NEW cell \in HeldCells(class)
    PROVE  LET slots == class.impl.slots
               place == PlaceIn(class.impl, cell)
               fence == FenceOf(class.impl, cell.member)
           IN /\ place \in 1..(Len(slots) + 1) /\ Len(slots) \in Nat
              /\ cell.fixed => place <= Len(slots) /\ slots[place] = cell.member
              /\ ~cell.fixed =>
                   \/ fence = END /\ place = Len(slots) + 1
                   \/ fence # END /\ IsSlot(class.impl, fence) /\ place <= Len(slots)
                      /\ slots[place] = fence
<1>. DEFINE slots == class.impl.slots
            place == PlaceIn(class.impl, cell)
            fence == FenceOf(class.impl, cell.member)
<1>1. Len(slots) \in Nat /\ DOMAIN slots = 1..Len(slots)
  BY LenProperties DEF HasPlaces
<1>2. ASSUME NEW slot, IsSlot(class.impl, slot)
      PROVE  LET k == CHOOSE k \in DOMAIN slots : slots[k] = slot
             IN k \in 1..Len(slots) /\ slots[k] = slot
  BY <1>1, <1>2 DEF IsSlot
<1>3. CASE cell.fixed
  <2>1. IsSlot(class.impl, cell.member) /\ cell.member # END
    BY <1>3, HeldFacts DEF HasPlaces
  <2>2. place = CHOOSE k \in DOMAIN slots : slots[k] = cell.member
    BY <1>3, <2>1 DEF PlaceIn
  <2>3. place \in 1..Len(slots) /\ slots[place] = cell.member
    BY <1>2, <2>1, <2>2
  <2>. HIDE DEF place, slots
  <2>4. place \in 1..(Len(slots) + 1) /\ place <= Len(slots)
    BY <1>1, <2>3
  <2>. QED
    BY <1>1, <1>3, <2>3, <2>4 DEF place, slots
<1>4. CASE ~cell.fixed
  <2>1. PICK pair \in class.impl.lists : pair[1] = cell.member /\ fence = pair[2]
    BY <1>4, HeldFacts DEF IsList, FenceOf
  <2>2. fence = END \/ (fence # END /\ IsSlot(class.impl, fence))
    BY <2>1 DEF HasPlaces
  <2>3. CASE fence = END
    <3>1. place = Len(slots) + 1
      BY <1>4, <2>3 DEF PlaceIn
    <3>. HIDE DEF place, slots, fence
    <3>2. place \in 1..(Len(slots) + 1)
      BY <1>1, <3>1
    <3>. QED
      BY <1>1, <1>4, <2>3, <3>1, <3>2 DEF place, slots, fence
  <2>4. CASE fence # END /\ IsSlot(class.impl, fence)
    <3>1. place = CHOOSE k \in DOMAIN slots : slots[k] = fence
      BY <1>4, <2>4 DEF PlaceIn
    <3>2. place \in 1..Len(slots) /\ slots[place] = fence
      BY <1>2, <2>4, <3>1
    <3>. HIDE DEF place, slots, fence
    <3>3. place \in 1..(Len(slots) + 1) /\ place <= Len(slots)
      BY <1>1, <3>2
    <3>. QED
      BY <1>1, <1>4, <2>4, <3>2, <3>3 DEF place, slots, fence
  <2>. QED
    BY <2>2, <2>3, <2>4
<1>. QED
  BY <1>3, <1>4, HeldFacts

\* What must come before, whenever it was added: of one list place, the members
\* before the slot.
Precedes(impl, a, b) ==
  \/ PlaceIn(impl, a) < PlaceIn(impl, b)
  \/ PlaceIn(impl, a) = PlaceIn(impl, b) /\ ~a.fixed /\ b.fixed

\* A new member of a list goes behind whatever precedes it and before the rest.
LEMMA InsertedInPlace ==
    ASSUME NEW class, HasPlaces(class), NEW cells, Arranged(class, cells),
           NEW new \in HeldCells(class), ~new.fixed
    PROVE  LET p == InsertionPoint(class.impl, cells, new.member)
           IN /\ p \in 1..(Len(cells) + 1)
              /\ \A i \in 1..(p - 1) : MayPrecede(class.impl, cells[i], new)
              /\ \A i \in p..Len(cells) : Precedes(class.impl, new, cells[i])
<1>. DEFINE impl == class.impl
            slots == class.impl.slots
            fence == FenceOf(class.impl, new.member)
            p == InsertionPoint(class.impl, cells, new.member)
<1>1. /\ cells \in Seq(HeldCells(class)) /\ Len(cells) \in Nat /\ DOMAIN cells = 1..Len(cells)
      /\ \A i \in DOMAIN cells : cells[i] \in HeldCells(class)
  BY LenProperties DEF Arranged, ArrangedIn
<1>2. \A i, j \in DOMAIN cells : i < j => MayPrecede(impl, cells[i], cells[j])
  BY DEF Arranged, ArrangedIn
<1>3. /\ PlaceIn(impl, new) \in Nat /\ Len(slots) \in Nat
      /\ \/ fence = END /\ PlaceIn(impl, new) = Len(slots) + 1
         \/ fence # END /\ IsSlot(impl, fence) /\ PlaceIn(impl, new) <= Len(slots)
            /\ slots[PlaceIn(impl, new)] = fence
  BY Placed
<1>4. \A i \in DOMAIN cells :
        /\ PlaceIn(impl, cells[i]) \in Nat /\ PlaceIn(impl, cells[i]) <= Len(slots) + 1
        /\ cells[i].fixed => PlaceIn(impl, cells[i]) <= Len(slots)
  BY <1>1, Placed
<1>5. CASE fence = END
  <2>1. p = Len(cells) + 1
    BY <1>5 DEF InsertionPoint
  <2>. HIDE DEF p, slots
  <2>2. \A i \in DOMAIN cells : MayPrecede(impl, cells[i], new)
    BY <1>3, <1>4, <1>5 DEF MayPrecede
  <2>3. /\ p \in 1..(Len(cells) + 1) /\ \A i \in 1..(p - 1) : i \in DOMAIN cells
        /\ \A i \in p..Len(cells) : FALSE
    BY <1>1, <2>1
  <2>. QED
    BY <2>2, <2>3 DEF p
<1>6. CASE fence # END /\ IsSlot(impl, fence)
  <2>1. p = SlotOf(cells, fence)
    BY <1>6 DEF InsertionPoint
  <2>2. p \in DOMAIN cells /\ cells[p].fixed /\ cells[p].member = fence
    BY <1>6, <2>1, SlotFound DEF Arranged
  <2>. HIDE DEF p
  <2>3. PlaceIn(impl, cells[p]) = PlaceIn(impl, new)
    BY <1>6, <2>2 DEF PlaceIn
  <2>4. ASSUME NEW i \in 1..(p - 1)
        PROVE  MayPrecede(impl, cells[i], new)
    <3>1. i \in DOMAIN cells /\ i < p
      BY <1>1, <2>2
    <3>. QED
      BY <1>2, <2>2, <2>3, <3>1 DEF MayPrecede
  <2>5. ASSUME NEW i \in p..Len(cells)
        PROVE  Precedes(impl, new, cells[i])
    <3>1. i \in DOMAIN cells /\ (i = p \/ p < i)
      BY <1>1, <2>2
    <3>2. CASE i = p
      BY <2>2, <2>3, <3>2 DEF Precedes
    <3>3. CASE p < i
      <4>1. MayPrecede(impl, cells[p], cells[i])
        BY <1>2, <2>2, <3>1, <3>3
      <4>. QED
        BY <2>2, <2>3, <4>1 DEF MayPrecede, Precedes
    <3>. QED
      BY <3>1, <3>2, <3>3
  <2>6. p \in 1..(Len(cells) + 1)
    BY <1>1, <2>2
  <2>. QED
    BY <2>4, <2>5, <2>6 DEF p
<1>. QED
  BY <1>3, <1>5, <1>6

\* The cell of a list's member and that of a singleton.
ListCell(list, child) == Cell(list, child, FALSE)
SlotCell(member, child) == Cell(member, child, TRUE)

\* All of the cells, and a new one before the one at p.
Pushed(impl, cells, p, new, all) ==
  /\ p \in 1..(Len(cells) + 1)
  /\ DOMAIN all = 1..(Len(cells) + 1)
  /\ \A i \in 1..(p - 1) : all[i] = cells[i] /\ MayPrecede(impl, cells[i], new)
  /\ all[p] = new
  /\ \A i \in p..Len(cells) : all[i + 1] = cells[i] /\ Precedes(impl, new, cells[i])

\* push_back puts the new cell where it belongs and moves up those behind it.
LEMMA AddChildInPlace ==
    ASSUME NEW class, HasPlaces(class), NEW S \in SUBSET HeldCells(class),
           NEW cells, ArrangedIn(class, S, cells),
           NEW list, NEW child, NEW new \in S, new = ListCell(list, child)
    PROVE  /\ ArrangedIn(class, S, AddChild(class.impl, cells, list, child))
           /\ Pushed(class.impl, cells, InsertionPoint(class.impl, cells, list), new,
                     AddChild(class.impl, cells, list, child))
<1>. DEFINE p == InsertionPoint(class.impl, cells, list)
            all == InsertAt(cells, p, new)
<1>0. Arranged(class, cells)
  <2>1. PICK T : T = HeldCells(class)
    OBVIOUS
  <2>2. cells \in Seq(T)
    BY <2>1 DEF ArrangedIn
  <2>. QED
    BY <2>1, <2>2 DEF ArrangedIn, Arranged
<1>1. new \in S /\ new \in HeldCells(class) /\ new.member = list /\ ~new.fixed
  BY DEF ListCell, Cell
<1>2. cells \in Seq(S) /\ Len(cells) \in Nat /\ DOMAIN cells = 1..Len(cells)
  BY LenProperties DEF ArrangedIn
<1>3. /\ p \in 1..(Len(cells) + 1)
      /\ \A i \in 1..(p - 1) : MayPrecede(class.impl, cells[i], new)
      /\ \A i \in p..Len(cells) : Precedes(class.impl, new, cells[i])
  BY <1>0, <1>1, InsertedInPlace
<1>. HIDE DEF p
<1>3a. \A i \in p..Len(cells) : MayPrecede(class.impl, new, cells[i])
  BY <1>3 DEF Precedes, MayPrecede
<1>4. /\ all \in Seq(S) /\ Len(all) = Len(cells) + 1
      /\ \A i \in 1..(p - 1) : all[i] = cells[i]
      /\ all[p] = new
      /\ \A i \in p..Len(cells) : all[i + 1] = cells[i]
  <2>1. p \in 1..(Len(cells) + 1) /\ cells \in Seq(S) /\ new \in S
    BY <1>1, <1>2, <1>3
  <2>. QED
    BY <2>1, Inserted
<1>5. AddChild(class.impl, cells, list, child) = all
  BY DEF AddChild, ListCell, p
<1>. HIDE DEF all
<1>6. DOMAIN all = 1..(Len(cells) + 1)
  BY <1>4, LenProperties
\* Each new index is that of an old cell or of the new one.
<1>7. ASSUME NEW i \in DOMAIN all
      PROVE  \/ i \in 1..(p - 1) /\ i \in DOMAIN cells /\ all[i] = cells[i]
             \/ i = p
             \/ p < i /\ i - 1 \in p..Len(cells) /\ i - 1 \in DOMAIN cells /\ all[i] = cells[i - 1]
  <2>1. i \in Nat /\ p \in Nat /\ 1 <= i /\ i <= Len(cells) + 1 /\ 1 <= p /\ p <= Len(cells) + 1
    BY <1>2, <1>3, <1>6
  <2>2. CASE i < p
    BY <1>2, <1>4, <2>1, <2>2
  <2>3. CASE i > p
    <3>1. i - 1 \in p..Len(cells) /\ (i - 1) + 1 = i /\ i - 1 \in DOMAIN cells
      BY <1>2, <2>1, <2>3
    <3>. QED
      BY <1>4, <2>3, <3>1
  <2>. QED
    BY <2>1, <2>2, <2>3
<1>8. \A i, j \in DOMAIN cells : i < j => MayPrecede(class.impl, cells[i], cells[j])
  BY DEF ArrangedIn
<1>9. ASSUME NEW i \in DOMAIN all, NEW j \in DOMAIN all, i < j
      PROVE  MayPrecede(class.impl, all[i], all[j])
  <2>0. i \in Nat /\ j \in Nat /\ p \in Nat
    BY <1>2, <1>3, <1>6
  <2>1. CASE i = p
    BY <1>3a, <1>4, <1>7, <1>9, <2>0, <2>1
  <2>2. CASE j = p
    BY <1>3, <1>4, <1>7, <1>9, <2>0, <2>2
  <2>3. CASE i # p /\ j # p
    <3>1. CASE i < p /\ j < p
      BY <1>7, <1>8, <1>9, <2>0, <3>1
    <3>2. CASE i < p /\ j > p
      <4>1. i < j - 1
        BY <2>0, <3>2
      <4>. QED
        BY <1>7, <1>8, <2>0, <3>2, <4>1
    <3>3. CASE i > p /\ j > p
      <4>1. i - 1 < j - 1
        BY <1>9, <2>0
      <4>. QED
        BY <1>7, <1>8, <2>0, <3>3, <4>1
    <3>. QED
      BY <1>9, <2>0, <2>3, <3>1, <3>2, <3>3
  <2>. QED
    BY <2>1, <2>2, <2>3
<1>10. ASSUME NEW k \in DOMAIN class.impl.slots
       PROVE  \E i \in DOMAIN all : all[i].fixed /\ all[i].member = class.impl.slots[k]
  <2>1. PICK i \in DOMAIN cells : cells[i].fixed /\ cells[i].member = class.impl.slots[k]
    BY DEF ArrangedIn
  <2>2. i \in Nat /\ p \in Nat /\ 1 <= i /\ i <= Len(cells)
    BY <1>2, <1>3
  <2>3. CASE i < p
    <3>1. i \in 1..(p - 1) /\ i \in DOMAIN all
      BY <1>2, <1>6, <2>2, <2>3
    <3>. QED
      BY <1>4, <2>1, <3>1
  <2>4. CASE i >= p
    <3>1. i \in p..Len(cells) /\ i + 1 \in DOMAIN all
      BY <1>2, <1>6, <2>2, <2>4
    <3>. QED
      BY <1>4, <2>1, <3>1
  <2>. QED
    BY <2>2, <2>3, <2>4
<1>. QED
  <2>1. ArrangedIn(class, S, all)
    BY <1>4, <1>9, <1>10 DEF ArrangedIn
  <2>. QED
    BY <1>2, <1>3, <1>4, <1>5, <1>6, <2>1 DEF p, Pushed

\* A child that is added to a list keeps the layout.
LEMMA AddChildKeepsLayout ==
    ASSUME NEW class, HasPlaces(class), NEW cells, LaidOut(class, cells),
           NEW list \in class.interface.lists, NEW child \in Candidates(class, list)
    PROVE  LaidOut(class, AddChild(class.impl, cells, list, child))
<1>1. Cell(list, child, FALSE) \in Cells(class)
  <2>1. PICK new : new = Cell(list, child, FALSE)
    OBVIOUS
  <2>2. ListMember(class, new)
    BY <2>1, Zenon DEF ListMember
  <2>. QED
    BY <2>1, <2>2, FilledCell DEF Cells
<1>2. PICK S : S = Cells(class)
  OBVIOUS
<1>3. S \in SUBSET HeldCells(class) /\ ArrangedIn(class, S, cells) /\ ListCell(list, child) \in S
  BY <1>1, <1>2, CellsAreHeld, LaidOutIsArranged DEF ListCell
<1>4. ArrangedIn(class, S, AddChild(class.impl, cells, list, child))
  BY <1>3, AddChildInPlace
<1>. QED
  BY <1>2, <1>4, LaidOutIsArranged

\* erase keeps the layout: only members of lists are erased.
LEMMA RemoveKeepsLayout ==
    ASSUME NEW class, NEW cells, LaidOut(class, cells),
           NEW p \in DOMAIN cells, ~cells[p].fixed
    PROVE  LaidOut(class, RemoveAt(cells, p))
<1>. DEFINE all == RemoveAt(cells, p)
<1>1. cells \in Seq(Cells(class)) /\ Len(cells) \in Nat /\ DOMAIN cells = 1..Len(cells)
  BY LenProperties DEF LaidOut, Cells
<1>2. p \in 1..Len(cells) /\ p \in Nat
  BY <1>1
<1>3. /\ all \in Seq(Cells(class)) /\ Len(all) = Len(cells) - 1
      /\ \A i \in 1..(p - 1) : all[i] = cells[i]
      /\ \A i \in p..(Len(cells) - 1) : all[i] = cells[i + 1]
  <2>. PICK S : S = Cells(class)
    OBVIOUS
  <2>1. p \in 1..Len(cells) /\ cells \in Seq(S)
    BY <1>1, <1>2
  <2>. QED
    BY <2>1, Removed
<1>. HIDE DEF all
<1>4. DOMAIN all = 1..(Len(cells) - 1)
  BY <1>3, LenProperties
<1>5. ASSUME NEW i \in DOMAIN all
      PROVE  \/ i < p /\ i \in DOMAIN cells /\ all[i] = cells[i]
             \/ p <= i /\ i + 1 \in DOMAIN cells /\ all[i] = cells[i + 1]
  <2>1. i \in Nat /\ 1 <= i /\ i <= Len(cells) - 1 /\ 1 <= p
    BY <1>1, <1>2, <1>4
  <2>2. CASE i < p
    BY <1>1, <1>2, <1>3, <2>1, <2>2
  <2>3. CASE p <= i
    BY <1>1, <1>2, <1>3, <2>1, <2>3
  <2>. QED
    BY <1>2, <2>1, <2>2, <2>3
<1>6. ASSUME NEW i \in DOMAIN all, NEW j \in DOMAIN all, i < j
      PROVE  MayPrecede(class.impl, all[i], all[j])
  <2>0. i \in Nat /\ j \in Nat /\ i < j + 1 /\ i + 1 < j + 1
    BY <1>1, <1>4, <1>6
  <2>1. \A k, l \in DOMAIN cells : k < l => MayPrecede(class.impl, cells[k], cells[l])
    BY DEF LaidOut
  <2>2. CASE j < p
    BY <1>2, <1>5, <1>6, <2>0, <2>1, <2>2
  <2>3. CASE i < p /\ p <= j
    BY <1>2, <1>5, <2>0, <2>1, <2>3
  <2>4. CASE p <= i /\ p <= j
    BY <1>2, <1>5, <2>0, <2>1, <2>4
  <2>. QED
    BY <1>2, <1>6, <2>0, <2>2, <2>3, <2>4
<1>7. ASSUME NEW k \in DOMAIN class.impl.slots
      PROVE  \E i \in DOMAIN all : all[i].fixed /\ all[i].member = class.impl.slots[k]
  <2>1. PICK i \in DOMAIN cells : cells[i].fixed /\ cells[i].member = class.impl.slots[k]
    BY DEF LaidOut
  <2>2. i # p
    BY <2>1
  <2>3. i \in Nat /\ 1 <= i /\ i <= Len(cells)
    BY <1>1
  <2>4. CASE i < p
    <3>1. i \in 1..(p - 1) /\ i \in DOMAIN all
      BY <1>1, <1>2, <1>4, <2>3, <2>4
    <3>. QED
      BY <1>3, <2>1, <3>1
  <2>5. CASE p < i
    <3>1. i - 1 \in p..(Len(cells) - 1) /\ i - 1 \in DOMAIN all /\ (i - 1) + 1 = i
      BY <1>1, <1>2, <1>4, <2>3, <2>5
    <3>. QED
      BY <1>3, <2>1, <3>1
  <2>. QED
    BY <1>2, <2>2, <2>3, <2>4, <2>5
<1>. QED
  BY <1>3, <1>6, <1>7 DEF LaidOut, Cells, all

\* A cell's place depends on its member only.
LEMMA ReplacedKeepsLayout ==
    ASSUME NEW class, NEW S, NEW cells, ArrangedIn(class, S, cells), NEW p \in DOMAIN cells,
           NEW new \in S, new.member = cells[p].member,
           new.fixed, cells[p].fixed
    PROVE  ArrangedIn(class, S, [cells EXCEPT ![p] = new])
<1>. DEFINE all == [cells EXCEPT ![p] = new]
<1>1. cells \in Seq(S) /\ Len(cells) \in Nat /\ DOMAIN cells = 1..Len(cells)
  BY LenProperties DEF ArrangedIn
<1>2. /\ DOMAIN all = DOMAIN cells /\ all[p] = new
      /\ \A i \in DOMAIN cells : i # p => all[i] = cells[i]
  BY <1>1
<1>3. all \in Seq(S)
  <2>1. \A i \in 1..Len(cells) : cells[i] \in S
    BY <1>1
  <2>2. all \in [1..Len(cells) -> S]
    BY <1>1, <2>1
  <2>. QED
    BY <1>1, <2>2
<1>. HIDE DEF all
<1>4. ASSUME NEW i \in DOMAIN cells
      PROVE  PlaceIn(class.impl, all[i]) = PlaceIn(class.impl, cells[i])
             /\ (all[i].fixed <=> cells[i].fixed) /\ all[i].member = cells[i].member
  <2>1. CASE i # p
    BY <1>2, <2>1
  <2>2. CASE i = p
    <3>1. all[i] = new /\ new.fixed /\ cells[i].fixed /\ new.member = cells[i].member
      BY <1>2, <2>2
    <3>2. PlaceIn(class.impl, new) = PlaceIn(class.impl, cells[i])
      BY <3>1 DEF PlaceIn
    <3>. QED
      BY <3>1, <3>2
  <2>. QED
    BY <2>1, <2>2
<1>5. ASSUME NEW i \in DOMAIN cells, NEW j \in DOMAIN cells, i < j
      PROVE  MayPrecede(class.impl, all[i], all[j])
  <2>1. MayPrecede(class.impl, cells[i], cells[j])
    BY <1>5 DEF ArrangedIn
  <2>. QED
    BY <1>4, <2>1 DEF MayPrecede
<1>6. ASSUME NEW k \in DOMAIN class.impl.slots
      PROVE  \E i \in DOMAIN all : all[i].fixed /\ all[i].member = class.impl.slots[k]
  <2>1. PICK i \in DOMAIN cells : cells[i].fixed /\ cells[i].member = class.impl.slots[k]
    BY DEF ArrangedIn
  <2>. QED
    BY <1>2, <1>4, <2>1
<1>. QED
  BY <1>2, <1>3, <1>5, <1>6 DEF ArrangedIn, all

\* Setting a singleton replaces its cell.
LEMMA SetChildInPlace ==
    ASSUME NEW class, NEW S \in SUBSET HeldCells(class), NEW cells, ArrangedIn(class, S, cells),
           NEW member, IsSlot(class.impl, member), NEW child,
           NEW new \in S, new = SlotCell(member, child)
    PROVE  LET p == SlotOf(cells, member)
               all == SetChild(cells, member, child)
           IN /\ ArrangedIn(class, S, all)
              /\ p \in DOMAIN cells /\ cells[p].fixed /\ cells[p].member = member
              /\ DOMAIN all = DOMAIN cells /\ all[p] = new
              /\ \A i \in DOMAIN cells : i # p => all[i] = cells[i]
<1>. DEFINE p == SlotOf(cells, member)
<1>2. p \in DOMAIN cells /\ cells[p].fixed /\ cells[p].member = member
  BY SlotFound
<1>3. cells[p] \in HeldCells(class)
  BY <1>2, LenProperties DEF ArrangedIn
<1>4. cells[p] = Cell(cells[p].member, cells[p].child, cells[p].fixed)
      /\ cells[p].fixed \in BOOLEAN
  BY <1>3, HeldFacts
<1>5. SetChild(cells, member, child) = [cells EXCEPT ![p] = new]
  <2>1. [cells[p] EXCEPT !.child = child] = Cell(cells[p].member, child, cells[p].fixed)
    BY <1>4 DEF Cell
  <2>2. [cells[p] EXCEPT !.child = child] = new
    BY <1>2, <1>4, <2>1 DEF SlotCell
  <2>. HIDE DEF p
  <2>3. SetChild(cells, member, child) = [cells EXCEPT ![p] = [cells[p] EXCEPT !.child = child]]
    BY DEF SetChild, p
  <2>. QED
    BY <2>2, <2>3
<1>6. new.member = member /\ new.fixed /\ new \in S
  BY DEF SlotCell, Cell
<1>. HIDE DEF p
<1>7. ArrangedIn(class, S, [cells EXCEPT ![p] = new])
  <2>1. new.member = cells[p].member
    BY <1>2, <1>6
  <2>. QED
    BY <1>2, <1>6, <2>1, ReplacedKeepsLayout
<1>8. /\ DOMAIN [cells EXCEPT ![p] = new] = DOMAIN cells /\ [cells EXCEPT ![p] = new][p] = new
      /\ \A i \in DOMAIN cells : i # p => [cells EXCEPT ![p] = new][i] = cells[i]
  BY <1>2
<1>. QED
  BY <1>2, <1>5, <1>7, <1>8 DEF p

\* The setters of a singleton keep the layout.
LEMMA SetChildKeepsLayout ==
    ASSUME NEW class, HasPlaces(class), NEW cells, LaidOut(class, cells),
           NEW member \in class.interface.singles,
           NEW child \in Candidates(class, member) \cup {None}
    PROVE  LaidOut(class, SetChild(cells, member, child))
<1>1. IsSlot(class.impl, member)
  BY DEF HasPlaces
<1>2. PICK new : new = Cell(member, child, TRUE)
  OBVIOUS
<1>3. new \in Cells(class)
  <2>1. CASE child = None
    <3>1. PICK k \in DOMAIN class.impl.slots : class.impl.slots[k] = member
      BY <1>1 DEF IsSlot
    <3>. QED
      BY <1>2, <2>1, <3>1 DEF Cells, EmptyCells
  <2>2. CASE child \in Candidates(class, member)
    <3>1. FilledSlot(class, new)
      BY <1>2, <2>2, Zenon DEF FilledSlot
    <3>. QED
      BY <3>1, FilledCell DEF Cells
  <2>. QED
    BY <2>1, <2>2
<1>4. PICK S : S = Cells(class)
  OBVIOUS
<1>5. S \in SUBSET HeldCells(class) /\ ArrangedIn(class, S, cells) /\ SlotCell(member, child) \in S
  BY <1>2, <1>3, <1>4, CellsAreHeld, LaidOutIsArranged DEF SlotCell
<1>6. ArrangedIn(class, S, SetChild(cells, member, child))
  BY <1>1, <1>5, SetChildInPlace
<1>. QED
  BY <1>4, <1>6, LaidOutIsArranged

\* An object built empty has one cell for each slot, in their order.
LEMMA FreshIsLaidOut ==
    ASSUME NEW class, HasPlaces(class)
    PROVE  LaidOut(class, Fresh(class.impl))
<1>. DEFINE slots == class.impl.slots
            fresh == Fresh(class.impl)
<1>1. Len(slots) \in Nat /\ DOMAIN slots = 1..Len(slots)
  BY LenProperties DEF HasPlaces
<1>2. /\ DOMAIN fresh = DOMAIN slots
      /\ \A i \in DOMAIN slots : fresh[i] = Cell(slots[i], None, TRUE)
  BY DEF Fresh
<1>3. \A i \in DOMAIN slots : fresh[i] \in Cells(class)
  BY <1>2 DEF Cells, EmptyCells
<1>4. fresh \in Seq(Cells(class))
  <2>1. fresh \in [1..Len(slots) -> Cells(class)]
    BY <1>1, <1>3 DEF Fresh
  <2>. QED
    BY <1>1, <2>1
<1>5. \A i \in DOMAIN slots : fresh[i].fixed /\ fresh[i].member = slots[i]
  <2>. SUFFICES ASSUME NEW i \in DOMAIN slots
       PROVE  fresh[i].fixed /\ fresh[i].member = slots[i]
    OBVIOUS
  <2>1. PICK cell : cell = fresh[i]
    OBVIOUS
  <2>2. cell = Cell(slots[i], None, TRUE)
    BY <1>2, <2>1
  <2>3. cell.fixed = TRUE /\ cell.member = slots[i]
    BY <2>2 DEF Cell
  <2>. QED
    BY <2>1, <2>3
<1>6. ASSUME NEW i \in DOMAIN slots
      PROVE  PlaceIn(class.impl, fresh[i]) = i
  <2>1. IsSlot(class.impl, slots[i])
    BY DEF IsSlot
  <2>2. slots[i] # END
    BY <2>1 DEF HasPlaces
  <2>3. PlaceIn(class.impl, fresh[i]) = CHOOSE k \in DOMAIN slots : slots[k] = slots[i]
    BY <1>5, <2>2 DEF PlaceIn
  <2>4. \A k \in DOMAIN slots : slots[k] = slots[i] => k = i
    BY DEF HasPlaces
  <2>. QED
    BY <2>3, <2>4
<1>7. \A i, j \in DOMAIN fresh : i < j => MayPrecede(class.impl, fresh[i], fresh[j])
  BY <1>2, <1>6 DEF MayPrecede
<1>. QED
  BY <1>2, <1>4, <1>5, <1>7 DEF LaidOut, Cells

-----------------------------------------------------------------------------
(* Children put back one by one *)

\* The cells to be put, in the order in which they have to end up.
Sorted(class, T) ==
  /\ T \in Seq(HeldCells(class))
  /\ \A k \in DOMAIN T : T[k].child # None
  /\ \A k, l \in DOMAIN T : k < l => MayPrecede(class.impl, T[k], T[l])

\* An object has exactly some of these as its filled cells, in their order.
HasExactlyAt(into, T, I, at) ==
  /\ at \in [I -> FilledAt(into)]
  /\ \A k, l \in I : k < l => at[k] < at[l]
  /\ \A j \in FilledAt(into) : \E k \in I : at[k] = j
  /\ \A k \in I : into[at[k]] = T[k]
HasExactly(into, T, I) == \E at : HasExactlyAt(into, T, I, at)

\* All of them: then these are its filled cells.
LEMMA HasThemAll ==
    ASSUME NEW S, NEW into \in Seq(S), NEW R, NEW T \in Seq(R), HasExactly(into, T, DOMAIN T)
    PROVE  Filled(into) = T
<1>1. PICK at : HasExactlyAt(into, T, DOMAIN T, at)
  BY DEF HasExactly
<1>2. PICK N : N = Len(T)
  OBVIOUS
<1>3. N \in Nat /\ DOMAIN T = 1..N /\ T = [k \in 1..N |-> T[k]]
  BY <1>2, LenProperties
<1>4. PICK A : A = FilledAt(into)
  OBVIOUS
<1>5. A \in SUBSET Nat
  BY <1>4, FilledInOrder
<1>6. PICK n, nth : /\ n \in Nat
                    /\ Enumerates(nth, n, A)
                    /\ Filled(into) = [k \in 1..n |-> into[nth[k]]]
  BY <1>4, FilledInOrder
<1>7. Enumerates(at, N, A)
  BY <1>1, <1>3, <1>4 DEF HasExactlyAt, Enumerates
<1>8. N = n /\ at = nth
  BY <1>5, <1>6, <1>7, SameEnumeration
<1>9. \A k \in 1..N : into[nth[k]] = T[k]
  BY <1>1, <1>3, <1>8 DEF HasExactlyAt
<1>. QED
  BY <1>3, <1>6, <1>8, <1>9

\* One more of them, between those that come before and those that come after.
LEMMA OneMore ==
    ASSUME NEW T, NEW I \in SUBSET Nat, NEW x \in Nat, x \notin I,
           NEW into, NEW at, HasExactlyAt(into, T, I, at), NEW A \in SUBSET Nat, A = FilledAt(into),
           NEW all, NEW B \in SUBSET Nat, B = FilledAt(all), NEW p \in B, all[p] = T[x],
           NEW up \in [A -> B],
           \A j \in A : all[up[j]] = into[j],
           \A i, j \in A : i < j => up[i] < up[j],
           \A i \in B : i = p \/ \E j \in A : up[j] = i,
           \A k \in I : (k < x => up[at[k]] < p) /\ (x < k => p < up[at[k]])
    PROVE  HasExactly(all, T, I \cup {x})
<1>. DEFINE I1 == I \cup {x}
            at1 == [k \in I1 |-> IF k = x THEN p ELSE up[at[k]]]
<1>1. \A k \in I : k # x /\ at[k] \in A /\ at1[k] = up[at[k]] /\ up[at[k]] \in B
  BY DEF HasExactlyAt
<1>2. at1[x] = p
  OBVIOUS
<1>3. at1 \in [I1 -> B]
  BY <1>1
<1>. HIDE DEF at1
<1>4. ASSUME NEW k \in I1, NEW l \in I1, k < l
      PROVE  at1[k] < at1[l]
  <2>1. CASE k # x /\ l # x
    <3>1. k \in I /\ l \in I /\ at[k] < at[l]
      BY <1>4, <2>1 DEF HasExactlyAt
    <3>. QED
      BY <1>1, <3>1
  <2>2. CASE k = x /\ l # x
    BY <1>1, <1>2, <1>4, <2>2
  <2>3. CASE k # x /\ l = x
    BY <1>1, <1>2, <1>4, <2>3
  <2>4. k \in Nat /\ l \in Nat
    OBVIOUS
  <2>. QED
    BY <1>4, <2>1, <2>2, <2>3, <2>4
<1>5. ASSUME NEW j \in B
      PROVE  \E k \in I1 : at1[k] = j
  <2>1. CASE j = p
    BY <1>2, <2>1
  <2>2. CASE j # p
    <3>1. PICK i \in A : up[i] = j
      BY <2>2
    <3>2. PICK k \in I : at[k] = i
      BY DEF HasExactlyAt
    <3>. QED
      BY <1>1, <3>1, <3>2
  <2>. QED
    BY <2>1, <2>2
<1>6. ASSUME NEW k \in I1
      PROVE  all[at1[k]] = T[k]
  <2>1. CASE k = x
    BY <1>2, <2>1
  <2>2. CASE k # x
    <3>1. k \in I /\ into[at[k]] = T[k]
      BY <2>2 DEF HasExactlyAt
    <3>. QED
      BY <1>1, <3>1
  <2>. QED
    BY <2>1, <2>2
<1>. HIDE DEF I1
<1>7. HasExactlyAt(all, T, I1, at1)
  BY <1>3, <1>4, <1>5, <1>6 DEF HasExactlyAt
<1>. QED
  BY <1>7 DEF HasExactly, I1

\* Cells that must come in one order have it.
LEMMA SortedOrder ==
    ASSUME NEW class, HasPlaces(class), NEW T, Sorted(class, T),
           NEW k \in DOMAIN T, NEW l \in DOMAIN T
    PROVE  /\ Precedes(class.impl, T[k], T[l]) => k < l
           /\ T[k].fixed /\ T[l].fixed /\ PlaceIn(class.impl, T[k]) = PlaceIn(class.impl, T[l]) => k = l
<1>1. k \in Nat /\ l \in Nat /\ T[k] \in HeldCells(class) /\ T[l] \in HeldCells(class)
  BY LenProperties DEF Sorted
<1>2. PlaceIn(class.impl, T[k]) \in Nat /\ PlaceIn(class.impl, T[l]) \in Nat
  BY <1>1, Placed
<1>3. /\ k < l => MayPrecede(class.impl, T[k], T[l])
      /\ l < k => MayPrecede(class.impl, T[l], T[k])
  BY DEF Sorted
<1>4. ASSUME Precedes(class.impl, T[k], T[l])
      PROVE  k < l
  <2>1. k # l
    BY <1>2, <1>4 DEF Precedes
  <2>2. ~(l < k)
    BY <1>2, <1>3, <1>4 DEF Precedes, MayPrecede
  <2>. QED
    BY <1>1, <2>1, <2>2
<1>5. ASSUME T[k].fixed, T[l].fixed, PlaceIn(class.impl, T[k]) = PlaceIn(class.impl, T[l])
      PROVE  k = l
  <2>1. ~(l < k) /\ ~(k < l)
    BY <1>2, <1>3, <1>5 DEF MayPrecede
  <2>. QED
    BY <1>1, <2>1
<1>. QED
  BY <1>4, <1>5

\* Put puts one more where it belongs, in whatever order they are put, as long
\* as those of one list place come in their order.
LEMMA PutContains ==
    ASSUME NEW class, HasPlaces(class), NEW T, Sorted(class, T),
           NEW into, Arranged(class, into),
           NEW I \in SUBSET DOMAIN T, HasExactly(into, T, I),
           NEW x \in DOMAIN T, x \notin I,
           \A k \in I :
             (~T[x].fixed /\ ~T[k].fixed
                /\ PlaceIn(class.impl, T[k]) = PlaceIn(class.impl, T[x])) => k < x
    PROVE  LET all == Put(class.impl, into, T[x].member, T[x].child)
           IN /\ Arranged(class, all) /\ HasExactly(all, T, I \cup {x})
              /\ T[x].fixed => HasSlotFree(into, T[x].member)
<1>. DEFINE impl == class.impl
            A == FilledAt(into)
<1>1. PICK at : HasExactlyAt(into, T, I, at)
  BY DEF HasExactly
<1>2. PICK new : new = T[x]
  OBVIOUS
<1>3. DOMAIN T \subseteq Nat /\ \A k \in DOMAIN T : T[k] \in HeldCells(class)
  BY LenProperties DEF Sorted
<1>4. new \in HeldCells(class) /\ new.child # None
  BY <1>2, <1>3 DEF Sorted
<1>5. /\ new = Cell(new.member, new.child, new.fixed) /\ new.fixed \in BOOLEAN
      /\ new.fixed => IsSlot(impl, new.member) /\ ~IsList(impl, new.member)
      /\ ~new.fixed => IsList(impl, new.member)
  BY <1>4, HeldFacts
<1>6. /\ into \in Seq(HeldCells(class)) /\ Len(into) \in Nat /\ DOMAIN into = 1..Len(into)
      /\ \A i \in DOMAIN into : into[i] \in HeldCells(class)
  BY LenProperties DEF Arranged, ArrangedIn
<1>7. A \in SUBSET Nat /\ A \subseteq DOMAIN into /\ \A i \in DOMAIN into : i \in A <=> into[i].child # None
  BY <1>6 DEF FilledAt
<1>8. \A k \in I : k \in DOMAIN T /\ k \in Nat /\ k # x /\ at[k] \in A /\ into[at[k]] = T[k]
  BY <1>1, <1>3 DEF HasExactlyAt
<1>9. \A k \in I : /\ Precedes(impl, T[k], new) => k < x
                   /\ Precedes(impl, new, T[k]) => x < k
                   /\ T[k].fixed /\ new.fixed => PlaceIn(impl, T[k]) # PlaceIn(impl, new)
  BY <1>2, <1>8, SortedOrder
<1>10. x \in Nat /\ I \in SUBSET Nat
  BY <1>3
<1>11. \A k \in I : ~new.fixed /\ ~T[k].fixed /\ PlaceIn(impl, T[k]) = PlaceIn(impl, new) => k < x
  BY <1>2
<1>12. ArrangedIn(class, HeldCells(class), into)
  BY DEF Arranged
<1>. HIDE DEF A
\* A member of a list.
<1>13. CASE ~new.fixed
  <2>0. PICK m, c : m = new.member /\ c = new.child
    OBVIOUS
  <2>. DEFINE all == AddChild(impl, into, m, c)
              p == InsertionPoint(impl, into, m)
              B == FilledAt(all)
              up == [j \in A |-> IF j < p THEN j ELSE j + 1]
  <2>1. new = ListCell(m, c)
    <3>1. new.fixed = FALSE
      BY <1>5, <1>13
    <3>. QED
      BY <1>5, <2>0, <3>1 DEF ListCell, SlotCell
  <2>2. /\ ArrangedIn(class, HeldCells(class), all)
        /\ p \in 1..(Len(into) + 1) /\ DOMAIN all = 1..(Len(into) + 1)
        /\ \A i \in 1..(p - 1) : all[i] = into[i] /\ MayPrecede(impl, into[i], new)
        /\ all[p] = new
        /\ \A i \in p..Len(into) : all[i + 1] = into[i] /\ Precedes(impl, new, into[i])
    <3>1. PICK S : S = HeldCells(class)
      OBVIOUS
    <3>2. S \in SUBSET HeldCells(class) /\ ArrangedIn(class, S, into) /\ new \in S
      BY <1>4, <1>12, <2>1, <3>1
    <3>3. ArrangedIn(class, S, all) /\ Pushed(impl, into, p, new, all)
      BY <2>1, <3>2, AddChildInPlace
    <3>. HIDE DEF all, p
    <3>. QED
      BY <3>1, <3>3 DEF Pushed
  <2>3. Put(impl, into, new.member, new.child) = all
    BY <1>5, <1>13, <2>0 DEF Put
  <2>. HIDE DEF all, p
  <2>4. p \in Nat /\ 1 <= p /\ p <= Len(into) + 1 /\ p \in DOMAIN all
    BY <1>6, <2>2
  <2>5. ASSUME NEW j \in A
        PROVE  /\ j < p => up[j] = j /\ all[j] = into[j] /\ MayPrecede(impl, into[j], new)
               /\ p <= j => up[j] = j + 1 /\ all[j + 1] = into[j] /\ Precedes(impl, new, into[j])
               /\ j < p \/ p <= j
               /\ up[j] \in DOMAIN all /\ into[j].child # None
    <3>1. j \in Nat /\ 1 <= j /\ j <= Len(into) /\ into[j].child # None
      BY <1>6, <1>7
    <3>2. CASE j < p
      <4>1. j \in 1..(p - 1) /\ j \in DOMAIN all
        BY <2>2, <2>4, <3>1, <3>2
      <4>. QED
        BY <2>2, <2>4, <3>1, <3>2, <4>1
    <3>3. CASE p <= j
      <4>1. j \in p..Len(into) /\ j + 1 \in DOMAIN all /\ ~(j < p)
        BY <1>6, <2>2, <2>4, <3>1, <3>3
      <4>. QED
        BY <2>2, <2>4, <3>1, <3>3, <4>1
    <3>. QED
      BY <2>4, <3>1, <3>2, <3>3
  <2>6. B \in SUBSET Nat /\ \A i \in DOMAIN all : i \in B <=> all[i].child # None
    BY <1>6, <2>2 DEF FilledAt
  <2>7. p \in B
    BY <1>4, <2>2, <2>4, <2>6
  <2>8. up \in [A -> B] /\ \A j \in A : all[up[j]] = into[j]
    BY <2>5, <2>6
  <2>9. \A i, j \in A : i < j => up[i] < up[j]
    BY <1>7, <2>4
  <2>10. ASSUME NEW i \in B, i # p
         PROVE  \E j \in A : up[j] = i
    <3>1. i \in Nat /\ 1 <= i /\ i <= Len(into) + 1 /\ all[i].child # None
      BY <1>6, <2>2, <2>6 DEF FilledAt
    <3>2. CASE i < p
      <4>1. i \in 1..(p - 1) /\ i \in DOMAIN into
        BY <1>6, <2>4, <3>1, <3>2
      <4>2. i \in A
        BY <1>7, <2>2, <3>1, <4>1
      <4>. QED
        BY <3>2, <4>2
    <3>3. CASE p < i
      <4>1. i - 1 \in p..Len(into) /\ i - 1 \in DOMAIN into /\ (i - 1) + 1 = i /\ ~(i - 1 < p)
        BY <1>6, <2>4, <3>1, <3>3
      <4>2. i - 1 \in A
        BY <1>7, <2>2, <3>1, <4>1
      <4>. QED
        BY <4>1, <4>2
    <3>. QED
      BY <2>4, <2>10, <3>1, <3>2, <3>3
  <2>. HIDE DEF up, B
  <2>11. ASSUME NEW k \in I
         PROVE  (k < x => up[at[k]] < p) /\ (x < k => p < up[at[k]])
    <3>1. PICK j \in A : j = at[k] /\ into[j] = T[k]
      BY <1>8
    <3>2. j \in Nat /\ k \in Nat /\ T[k] \in HeldCells(class)
      BY <1>3, <1>7, <1>8
    <3>3. CASE j < p
      <4>1. k < x
        <5>1. MayPrecede(impl, T[k], new)
          BY <2>5, <3>1, <3>3
        <5>. QED
          BY <1>9, <1>11, <1>13, <5>1 DEF MayPrecede, Precedes
      <4>. QED
        BY <1>10, <2>5, <3>1, <3>2, <3>3, <4>1
    <3>4. CASE p <= j
      <4>1. x < k
        BY <1>9, <2>5, <3>1, <3>4
      <4>2. p < j + 1
        BY <2>4, <3>2, <3>4
      <4>. QED
        BY <1>10, <2>5, <3>1, <3>2, <3>4, <4>1, <4>2
    <3>. QED
      BY <2>5, <3>3, <3>4
  <2>12. HasExactly(all, T, I \cup {x})
    <3>1. \A i \in B : i = p \/ \E j \in A : up[j] = i
      BY <2>10
    <3>2. A \in SUBSET Nat /\ B \in SUBSET Nat /\ p \in B /\ all[p] = T[x] /\ A = FilledAt(into)
          /\ B = FilledAt(all)
      BY <1>2, <1>7, <2>2, <2>6, <2>7 DEF A, B
    <3>. QED
      BY <1>1, <1>10, <2>8, <2>9, <2>11, <3>1, <3>2, OneMore
  <2>. QED
    BY <1>2, <1>13, <2>2, <2>3, <2>12 DEF Arranged
\* A singleton.
<1>14. CASE new.fixed
  <2>0. PICK m, c : m = new.member /\ c = new.child
    OBVIOUS
  <2>. DEFINE all == SetChild(into, m, c)
              p == SlotOf(into, m)
              B == FilledAt(all)
              up == [j \in A |-> j]
  <2>1. new = SlotCell(m, c)
    <3>1. new.fixed = TRUE
      BY <1>5, <1>14
    <3>. QED
      BY <1>5, <2>0, <3>1 DEF ListCell, SlotCell
  <2>2. /\ ArrangedIn(class, HeldCells(class), all)
        /\ p \in DOMAIN into /\ into[p].fixed /\ into[p].member = new.member
        /\ DOMAIN all = DOMAIN into /\ all[p] = new
        /\ \A i \in DOMAIN into : i # p => all[i] = into[i]
    <3>1. PICK S : S = HeldCells(class)
      OBVIOUS
    <3>2. S \in SUBSET HeldCells(class) /\ ArrangedIn(class, S, into) /\ new \in S
      BY <1>4, <1>12, <2>1, <3>1
    <3>3. IsSlot(impl, m)
      BY <1>5, <1>14, <2>0
    <3>4. /\ ArrangedIn(class, S, all)
          /\ p \in DOMAIN into /\ into[p].fixed /\ into[p].member = m
          /\ DOMAIN all = DOMAIN into /\ all[p] = new
          /\ \A i \in DOMAIN into : i # p => all[i] = into[i]
      BY <2>1, <3>2, <3>3, SetChildInPlace
    <3>. HIDE DEF all, p
    <3>. QED
      BY <2>0, <3>1, <3>4
  <2>3. Put(impl, into, new.member, new.child) = all
    BY <1>5, <1>14, <2>0 DEF Put
  <2>. HIDE DEF all, p
  <2>4. PlaceIn(impl, into[p]) = PlaceIn(impl, new)
    BY <1>14, <2>2 DEF PlaceIn
  <2>5. p \notin A
    <3>. SUFFICES ASSUME p \in A PROVE FALSE
      OBVIOUS
    <3>1. PICK k \in I : at[k] = p
      BY <1>1 DEF HasExactlyAt, A
    <3>2. into[p] = T[k]
      BY <1>8, <3>1
    <3>. QED
      BY <1>9, <1>14, <2>2, <2>4, <3>2
  <2>6. HasSlotFree(into, new.member)
    BY <1>7, <2>0, <2>2, <2>5 DEF HasSlotFree, p
  <2>7. B \in SUBSET Nat /\ \A i \in DOMAIN into : i \in B <=> all[i].child # None
    BY <1>6, <2>2 DEF FilledAt
  <2>8. p \in B
    BY <1>4, <2>2, <2>7
  <2>9. \A j \in A : j # p /\ all[j] = into[j] /\ j \in B /\ up[j] = j
    BY <1>7, <2>2, <2>5, <2>7
  <2>10. up \in [A -> B] /\ \A i, j \in A : i < j => up[i] < up[j]
    BY <2>9
  <2>11. \A i \in B : i = p \/ i \in A
    BY <1>7, <2>2, <2>7 DEF FilledAt
  <2>. HIDE DEF up, B
  <2>12. ASSUME NEW k \in I
         PROVE  (k < x => at[k] < p) /\ (x < k => p < at[k])
    <3>1. PICK j \in A : j = at[k] /\ into[j] = T[k]
      BY <1>8
    <3>2. j \in Nat /\ k \in Nat /\ p \in Nat /\ j # p /\ j \in DOMAIN into
      BY <1>6, <1>7, <1>8, <2>2, <2>5
    <3>3. CASE j < p
      <4>1. MayPrecede(impl, into[j], into[p])
        BY <1>12, <2>2, <3>2, <3>3 DEF ArrangedIn
      <4>2. Precedes(impl, T[k], new)
        BY <1>14, <2>4, <3>1, <4>1 DEF MayPrecede, Precedes
      <4>3. k < x
        BY <1>9, <4>2
      <4>. QED
        BY <1>10, <3>1, <3>2, <3>3, <4>3
    <3>4. CASE p < j
      <4>1. MayPrecede(impl, into[p], into[j])
        BY <1>12, <2>2, <3>2, <3>4 DEF ArrangedIn
      <4>2. Precedes(impl, new, T[k])
        BY <1>14, <2>2, <2>4, <3>1, <4>1 DEF MayPrecede, Precedes
      <4>3. x < k
        BY <1>9, <4>2
      <4>. QED
        BY <1>10, <3>1, <3>2, <3>4, <4>3
    <3>. QED
      BY <3>2, <3>3, <3>4
  <2>13. HasExactly(all, T, I \cup {x})
    <3>1. \A j \in A : all[up[j]] = into[j]
      BY <2>9
    <3>2. \A i \in B : i = p \/ \E j \in A : up[j] = i
      BY <2>9, <2>11
    <3>3. \A k \in I : (k < x => up[at[k]] < p) /\ (x < k => p < up[at[k]])
      BY <1>8, <2>9, <2>12
    <3>4. A \in SUBSET Nat /\ B \in SUBSET Nat /\ p \in B /\ all[p] = T[x] /\ A = FilledAt(into)
          /\ B = FilledAt(all)
      BY <1>2, <1>7, <2>2, <2>7, <2>8 DEF A, B
    <3>. QED
      BY <1>1, <1>10, <2>10, <3>1, <3>2, <3>3, <3>4, OneMore
  <2>. QED
    BY <1>2, <2>2, <2>3, <2>6, <2>13 DEF Arranged
<1>. QED
  BY <1>5, <1>13, <1>14

\* Induction up to a number.
LEMMA CountedUp ==
    ASSUME NEW N \in Nat, NEW T \in SUBSET (0..N), 0 \in T,
           \A n \in 1..N : n - 1 \in T => n \in T
    PROVE  \A n \in 0..N : n \in T
<1>. DEFINE Left == (0..N) \ T
<1>1. SUFFICES ASSUME Left # {} PROVE FALSE
  OBVIOUS
<1>2. Left \in SUBSET Nat
  OBVIOUS
<1>3. PICK n \in Left : \A m \in Left : n <= m
  <2>. HIDE DEF Left
  <2>. QED
    BY <1>1, <1>2, SmallestOf
<1>4. n \in 1..N /\ n - 1 \in 0..N /\ ~(n <= n - 1)
  OBVIOUS
<1>5. n - 1 \in T
  BY <1>3, <1>4
<1>. QED
  BY <1>4, <1>5

\* An object without children has none of them.
LEMMA FreshHasNone ==
    ASSUME NEW class, HasPlaces(class), NEW T
    PROVE  Arranged(class, Fresh(class.impl)) /\ HasExactly(Fresh(class.impl), T, {})
<1>1. Arranged(class, Fresh(class.impl))
  BY FreshIsLaidOut, LaidOutIsArranged
<1>2. FilledAt(Fresh(class.impl)) = {}
  <2>. SUFFICES ASSUME NEW i \in DOMAIN class.impl.slots
       PROVE  Fresh(class.impl)[i].child = None
    BY DEF FilledAt, Fresh
  <2>1. Fresh(class.impl)[i] = SlotCell(class.impl.slots[i], None)
    BY DEF Fresh, SlotCell
  <2>. QED
    BY <2>1 DEF SlotCell, Cell
<1>3. HasExactlyAt(Fresh(class.impl), T, {}, [k \in {} |-> 0])
  BY <1>2 DEF HasExactlyAt
<1>. QED
  BY <1>1, <1>3 DEF HasExactly

\* The document, child by child: the equation of Unmarshall.
ReadUpTo(class, document, read, n) ==
  IF n = 0 THEN Fresh(class.impl) ELSE ReadChild(class, read[n - 1], document[n])

\* There is a function that satisfies that equation: one for a shorter
\* document extends to the next child.
LEMMA ReadStepsExist ==
    ASSUME NEW class, NEW document, NEW N \in Nat
    PROVE  \E g : g = [n \in 0..N |-> ReadUpTo(class, document, g, n)]
<1>. DEFINE T == {m \in 0..N : \E g : g = [n \in 0..m |-> ReadUpTo(class, document, g, n)]}
<1>1. 0 \in T
  <2>. DEFINE g == [n \in 0..0 |-> Fresh(class.impl)]
  <2>1. g = [n \in 0..0 |-> ReadUpTo(class, document, g, n)]
    BY DEF ReadUpTo
  <2>. QED
    BY <2>1
<1>2. ASSUME NEW m \in 1..N, m - 1 \in T
      PROVE  m \in T
  <2>1. PICK h : h = [n \in 0..(m - 1) |-> ReadUpTo(class, document, h, n)]
    BY <1>2
  <2>. DEFINE g == [n \in 0..m |-> IF n = m THEN ReadChild(class, h[m - 1], document[m]) ELSE h[n]]
  <2>2. m \in Nat /\ m # 0 /\ m - 1 \in 0..m /\ m - 1 # m /\ 0 \in 0..(m - 1)
    OBVIOUS
  <2>3. ASSUME NEW n \in 0..m
        PROVE  g[n] = ReadUpTo(class, document, g, n)
    <3>1. CASE n = m
      <4>1. g[m - 1] = h[m - 1] /\ g[m] = ReadChild(class, h[m - 1], document[m])
        BY <2>2
      <4>. QED
        BY <2>2, <3>1, <4>1 DEF ReadUpTo
    <3>2. CASE n = 0
      <4>1. g[0] = h[0] /\ h[0] = Fresh(class.impl)
        BY <2>1, <2>2 DEF ReadUpTo
      <4>. QED
        BY <3>2, <4>1 DEF ReadUpTo
    <3>3. CASE n # m /\ n # 0
      <4>1. n \in 0..(m - 1) /\ n - 1 \in 0..m /\ n - 1 # m
        BY <3>3
      <4>2. g[n] = h[n] /\ g[n - 1] = h[n - 1]
        BY <3>3, <4>1
      <4>3. h[n] = ReadChild(class, h[n - 1], document[n])
        BY <2>1, <3>3, <4>1 DEF ReadUpTo
      <4>. QED
        BY <3>3, <4>2, <4>3 DEF ReadUpTo
    <3>. QED
      BY <3>1, <3>2, <3>3
  <2>4. g = [n \in 0..m |-> ReadUpTo(class, document, g, n)]
    <3>1. g = [n \in 0..m |-> g[n]]
      OBVIOUS
    <3>. HIDE DEF g
    <3>. QED
      BY <2>3, <3>1
  <2>5. \E f : f = [n \in 0..m |-> ReadUpTo(class, document, f, n)]
    <3>. HIDE DEF g
    <3>. QED
      BY <2>4
  <2>. QED
    BY <2>5
<1>. HIDE DEF T
<1>3. \A m \in 0..N : m \in T
  <2>1. T \in SUBSET (0..N)
    BY DEF T
  <2>. QED
    BY <1>1, <1>2, <2>1, CountedUp
<1>. QED
  BY <1>3 DEF T

\* Unmarshall goes through the document child by child.
LEMMA ReadStepByStep ==
    ASSUME NEW class, NEW document, NEW N \in Nat, Len(document) = N
    PROVE  \E read : /\ Unmarshall(class, document) = read[N]
                     /\ read[0] = Fresh(class.impl)
                     /\ \A n \in 1..N : read[n] = ReadChild(class, read[n - 1], document[n])
<1>. DEFINE read == CHOOSE g : g = [n \in 0..N |-> ReadUpTo(class, document, g, n)]
<1>1. Unmarshall(class, document) = read[N]
  BY DEF Unmarshall, ReadUpTo
<1>2. read = [n \in 0..N |-> ReadUpTo(class, document, read, n)]
  BY ReadStepsExist
<1>. HIDE DEF read
<1>3. \A n \in 0..N : read[n] = ReadUpTo(class, document, read, n)
  BY <1>2
<1>4. read[0] = Fresh(class.impl)
  BY <1>3 DEF ReadUpTo
<1>5. ASSUME NEW n \in 1..N
      PROVE  read[n] = ReadChild(class, read[n - 1], document[n])
  <2>1. n \in 0..N /\ n # 0
    OBVIOUS
  <2>. QED
    BY <1>3, <2>1 DEF ReadUpTo
<1>. QED
  BY <1>1, <1>4, <1>5

\* The first of some numbers.
LEMMA FirstOf ==
    ASSUME NEW A \in SUBSET Nat, A # {}
    PROVE  First(A) \in A /\ \A j \in A : First(A) <= j
BY SmallestOf DEF First

\* A child that has a reader goes to the member of the first, when that is a
\* list or its slot is free.
LEMMA ReadByFirst ==
    ASSUME NEW class, DOMAIN class.impl.reads \subseteq Nat,
           NEW child, Readers(class, child) # {},
           NEW into, into # Rejected,
           \/ IsList(class.impl, Reader(class, child))
           \/ HasSlotFree(into, Reader(class, child))
    PROVE  ReadChild(class, into, child) = Put(class.impl, into, Reader(class, child), child)
<1>. DEFINE readers == Readers(class, child)
            takers == Takers(class, into, child)
            i == First(readers)
<1>1. readers \in SUBSET Nat /\ takers \subseteq readers
  BY DEF Readers, Takers
<1>2. i \in readers /\ \A j \in readers : i <= j
  BY <1>1, FirstOf
<1>3. i \in takers
  BY <1>2 DEF Takers, Reader
<1>4. First(takers) = i
  <2>1. takers \in SUBSET Nat /\ takers # {}
    BY <1>1, <1>3
  <2>2. First(takers) \in takers /\ First(takers) <= i
    BY <1>3, <2>1, FirstOf
  <2>3. First(takers) \in Nat /\ i \in Nat /\ i <= First(takers)
    BY <1>1, <1>2, <2>2
  <2>. QED
    BY <2>2, <2>3
<1>5. ProcessChild(class, into, child) = Put(class.impl, into, Reader(class, child), child)
  BY <1>4 DEF ProcessChild, Reader
<1>. QED
  BY <1>3, <1>5 DEF ReadChild

\* What could not be read is no layout of any class.
LEMMA ArrangedIsRead ==
    ASSUME NEW class, NEW cells, Arranged(class, cells)
    PROVE  cells # Rejected
<1>. SUFFICES ASSUME cells = Rejected PROVE FALSE
  OBVIOUS
<1>1. PICK cell : cell = ListCell(None, None)
  OBVIOUS
<1>2. cells = <<cell>>
  BY <1>1 DEF Rejected, ListCell
<1>3. cell \in HeldCells(class)
  <2>1. cells \in Seq(HeldCells(class)) /\ 1 \in DOMAIN cells /\ cells[1] = cell
    BY <1>2 DEF Arranged, ArrangedIn
  <2>. QED
    BY <2>1, LenProperties
<1>4. ~cell.fixed /\ cell.child = None
  BY <1>1 DEF ListCell, Cell
<1>. QED
  BY <1>3, <1>4, HeldFacts

\* A document whose children are read, in the order of their places, into the
\* members of given cells is read into these.
LEMMA ReadInOrder ==
    ASSUME NEW class, HasPlaces(class), DOMAIN class.impl.reads \subseteq Nat,
           NEW T, Sorted(class, T), NEW document, Len(document) = Len(T),
           \A k \in DOMAIN T : /\ document[k] = T[k].child /\ Readers(class, document[k]) # {}
                               /\ Reader(class, document[k]) = T[k].member
    PROVE  LET back == Unmarshall(class, document)
           IN Arranged(class, back) /\ Filled(back) = T
<1>1. PICK N : N = Len(T)
  OBVIOUS
<1>2. N \in Nat /\ DOMAIN T = 1..N /\ \A k \in DOMAIN T : T[k] \in HeldCells(class)
  BY <1>1, LenProperties DEF Sorted
<1>3. PICK read : /\ Unmarshall(class, document) = read[N]
                  /\ read[0] = Fresh(class.impl)
                  /\ \A n \in 1..N : read[n] = ReadChild(class, read[n - 1], document[n])
  BY <1>1, <1>2, ReadStepByStep
<1>. DEFINE Good == {n \in 0..N : Arranged(class, read[n]) /\ HasExactly(read[n], T, 1..n)}
<1>4. 0 \in Good
  <2>1. 1..0 = {}
    OBVIOUS
  <2>. QED
    BY <1>2, <1>3, <2>1, FreshHasNone
<1>5. ASSUME NEW n \in 1..N, n - 1 \in Good
      PROVE  n \in Good
  <2>1. PICK into : into = read[n - 1]
    OBVIOUS
  <2>2. Arranged(class, into) /\ HasExactly(into, T, 1..(n - 1))
    BY <1>5, <2>1
  <2>3. n \in DOMAIN T /\ n \in Nat /\ 1..(n - 1) \in SUBSET DOMAIN T /\ n \notin 1..(n - 1)
        /\ (1..(n - 1)) \cup {n} = 1..n
    BY <1>2
  <2>4. \A k \in 1..(n - 1) : k < n
    BY <2>3
  <2>5. PICK m, c : m = T[n].member /\ c = T[n].child
    OBVIOUS
  <2>6. LET all == Put(class.impl, into, m, c)
        IN /\ Arranged(class, all) /\ HasExactly(all, T, (1..(n - 1)) \cup {n})
           /\ T[n].fixed => HasSlotFree(into, m)
    <3>. PICK I : I = 1..(n - 1)
      OBVIOUS
    <3>. QED
      BY <2>2, <2>3, <2>4, <2>5, PutContains
  <2>7. read[n] = Put(class.impl, into, m, c)
    <3>1. document[n] = c /\ Readers(class, c) # {} /\ Reader(class, c) = m
      BY <2>3, <2>5
    <3>2. IsList(class.impl, m) \/ HasSlotFree(into, m)
      BY <1>2, <2>3, <2>5, <2>6, HeldFacts
    <3>3. into # Rejected
      BY <2>2, ArrangedIsRead
    <3>. QED
      BY <1>3, <2>1, <3>1, <3>2, <3>3, ReadByFirst
  <2>8. Arranged(class, read[n]) /\ HasExactly(read[n], T, 1..n)
    BY <2>3, <2>6, <2>7
  <2>. QED
    BY <2>3, <2>8
<1>6. N \in Good
  <2>1. Good \in SUBSET (0..N) /\ N \in 0..N
    BY <1>2
  <2>. HIDE DEF Good
  <2>. QED
    BY <1>2, <1>4, <1>5, <2>1, CountedUp
<1>7. Arranged(class, read[N]) /\ HasExactly(read[N], T, DOMAIN T)
  BY <1>2, <1>6
<1>8. Filled(read[N]) = T
  <2>1. PICK S, cells : S = HeldCells(class) /\ cells = read[N]
    OBVIOUS
  <2>2. cells \in Seq(S) /\ T \in Seq(S) /\ HasExactly(cells, T, DOMAIN T)
    BY <1>7, <2>1 DEF Arranged, ArrangedIn, Sorted
  <2>. QED
    BY <2>1, <2>2, HasThemAll
<1>. QED
  BY <1>3, <1>7, <1>8

\* The filled cells of a laid out object are sorted.
LEMMA FilledIsSorted ==
    ASSUME NEW class, HasPlaces(class), NEW cells, LaidOut(class, cells)
    PROVE  /\ Sorted(class, Filled(cells))
           /\ \A k \in DOMAIN Filled(cells) : /\ Filled(cells)[k] \in FilledCells(class)
                                              /\ Filled(cells)[k] \in Cells(class)
<1>1. PICK S, T : S = Cells(class) /\ T = Filled(cells)
  OBVIOUS
<1>2. /\ cells \in Seq(S) /\ \A i \in DOMAIN cells : cells[i] \in S
      /\ \A i, j \in DOMAIN cells : i < j => MayPrecede(class.impl, cells[i], cells[j])
  BY <1>1, LenProperties DEF LaidOut, Cells
<1>3. /\ T \in Seq(S)
      /\ \A k \in DOMAIN T : \E i \in DOMAIN cells : T[k] = cells[i] /\ cells[i].child # None
      /\ \A k, l \in DOMAIN T : k < l =>
           \E i, j \in DOMAIN cells :
             /\ i < j /\ T[k] = cells[i] /\ T[l] = cells[j]
             /\ cells[i].child # None /\ cells[j].child # None
  BY <1>1, <1>2, DocumentKeepsOrder
<1>4. \A k \in DOMAIN T : T[k].child # None /\ T[k] \in Cells(class) /\ T[k] \in FilledCells(class)
  BY <1>1, <1>2, <1>3, CellFacts
<1>5. \A k, l \in DOMAIN T : k < l => MayPrecede(class.impl, T[k], T[l])
  BY <1>2, <1>3
<1>6. PICK H : H = HeldCells(class)
  OBVIOUS
<1>7. T \in Seq(H)
  <2>1. S \subseteq H
    BY <1>1, <1>6, CellsAreHeld
  <2>. QED
    BY <1>3, <2>1
<1>. QED
  BY <1>1, <1>4, <1>5, <1>6, <1>7 DEF Sorted

\* A group, child by child: the equation of CopyGroup.
CopyUpTo(class, group, into, children, copied, n) ==
  IF n = 0 THEN into ELSE CopyChild(class, group, copied[n - 1], children[n])

\* There is a function that satisfies that equation.
LEMMA CopyStepsExist ==
    ASSUME NEW class, NEW group, NEW into, NEW children,
           NEW N \in Nat
    PROVE  \E g : g = [n \in 0..N |-> CopyUpTo(class, group, into, children, g, n)]
<1>. DEFINE T == {m \in 0..N : \E g : g = [n \in 0..m |-> CopyUpTo(class, group, into, children, g, n)]}
<1>1. 0 \in T
  <2>. DEFINE g == [n \in 0..0 |-> into]
  <2>1. g = [n \in 0..0 |-> CopyUpTo(class, group, into, children, g, n)]
    BY DEF CopyUpTo
  <2>. QED
    BY <2>1
<1>2. ASSUME NEW m \in 1..N, m - 1 \in T
      PROVE  m \in T
  <2>1. PICK h : h = [n \in 0..(m - 1) |-> CopyUpTo(class, group, into, children, h, n)]
    BY <1>2
  <2>. DEFINE g == [n \in 0..m |-> IF n = m THEN CopyChild(class, group, h[m - 1], children[m]) ELSE h[n]]
  <2>2. m \in Nat /\ m # 0 /\ m - 1 \in 0..m /\ m - 1 # m /\ 0 \in 0..(m - 1)
    OBVIOUS
  <2>3. ASSUME NEW n \in 0..m
        PROVE  g[n] = CopyUpTo(class, group, into, children, g, n)
    <3>1. CASE n = m
      <4>1. g[m - 1] = h[m - 1] /\ g[m] = CopyChild(class, group, h[m - 1], children[m])
        BY <2>2
      <4>. QED
        BY <2>2, <3>1, <4>1 DEF CopyUpTo
    <3>2. CASE n = 0
      <4>1. g[0] = h[0] /\ h[0] = into
        BY <2>1, <2>2 DEF CopyUpTo
      <4>. QED
        BY <3>2, <4>1 DEF CopyUpTo
    <3>3. CASE n # m /\ n # 0
      <4>1. n \in 0..(m - 1) /\ n - 1 \in 0..m /\ n - 1 # m
        BY <3>3
      <4>2. g[n] = h[n] /\ g[n - 1] = h[n - 1]
        BY <3>3, <4>1
      <4>3. h[n] = CopyChild(class, group, h[n - 1], children[n])
        BY <2>1, <3>3, <4>1 DEF CopyUpTo
      <4>. QED
        BY <3>3, <4>2, <4>3 DEF CopyUpTo
    <3>. QED
      BY <3>1, <3>2, <3>3
  <2>4. g = [n \in 0..m |-> CopyUpTo(class, group, into, children, g, n)]
    <3>1. g = [n \in 0..m |-> g[n]]
      OBVIOUS
    <3>. HIDE DEF g
    <3>. QED
      BY <2>3, <3>1
  <2>5. \E f : f = [n \in 0..m |-> CopyUpTo(class, group, into, children, f, n)]
    <3>. HIDE DEF g
    <3>. QED
      BY <2>4
  <2>. QED
    BY <2>5
<1>. HIDE DEF T
<1>3. \A m \in 0..N : m \in T
  <2>1. T \in SUBSET (0..N)
    BY DEF T
  <2>. QED
    BY <1>1, <1>2, <2>1, CountedUp
<1>. QED
  BY <1>3 DEF T

\* CopyGroup goes through the children one by one.
LEMMA CopyStepByStep ==
    ASSUME NEW class, NEW group, NEW into, NEW children,
           NEW N \in Nat, Len(children) = N
    PROVE  \E copied : /\ CopyGroup(class, group, into, children) = copied[N]
                     /\ copied[0] = into
                     /\ \A n \in 1..N : copied[n] = CopyChild(class, group, copied[n - 1], children[n])
<1>. DEFINE copied == CHOOSE g : g = [n \in 0..N |-> CopyUpTo(class, group, into, children, g, n)]
<1>1. CopyGroup(class, group, into, children) = copied[N]
  BY DEF CopyGroup, CopyUpTo
<1>2. copied = [n \in 0..N |-> CopyUpTo(class, group, into, children, copied, n)]
  BY CopyStepsExist
<1>. HIDE DEF copied
<1>3. \A n \in 0..N : copied[n] = CopyUpTo(class, group, into, children, copied, n)
  BY <1>2
<1>4. copied[0] = into
  BY <1>3 DEF CopyUpTo
<1>5. ASSUME NEW n \in 1..N
      PROVE  copied[n] = CopyChild(class, group, copied[n - 1], children[n])
  <2>1. n \in 0..N /\ n # 0
    OBVIOUS
  <2>. QED
    BY <1>3, <2>1 DEF CopyUpTo
<1>. QED
  BY <1>1, <1>4, <1>5

\* A group is copied when, of each of its children, none that precedes it in
\* the same list place is copied later, or was copied with another group.
LEMMA GroupCopied ==
    ASSUME NEW class, HasPlaces(class), NEW T, Sorted(class, T),
           NEW group, NEW G \in SUBSET DOMAIN T,
           \A k \in DOMAIN T : k \in G <=> T[k].member \in ToSet(group),
           \A k \in G : Target(class, group, T[k]) = T[k].member,
           NEW J \in SUBSET DOMAIN T, J \cap G = {},
           \A k \in J, l \in G : ~T[k].fixed /\ ~T[l].fixed =>
             PlaceIn(class.impl, T[k]) # PlaceIn(class.impl, T[l]),
           NEW into, Arranged(class, into), HasExactly(into, T, J)
    PROVE  LET all == CopyGroup(class, group, into, T)
           IN Arranged(class, all) /\ HasExactly(all, T, J \cup G)
<1>1. PICK N : N = Len(T)
  OBVIOUS
<1>2. N \in Nat /\ DOMAIN T = 1..N
  BY <1>1, LenProperties DEF Sorted
<1>3. PICK copied : /\ CopyGroup(class, group, into, T) = copied[N]
                    /\ copied[0] = into
                    /\ \A n \in 1..N : copied[n] = CopyChild(class, group, copied[n - 1], T[n])
  BY <1>1, <1>2, CopyStepByStep
<1>. DEFINE Upto(n) == J \cup {k \in G : k <= n}
            Good == {n \in 0..N : Arranged(class, copied[n]) /\ HasExactly(copied[n], T, Upto(n))}
<1>4. 0 \in Good
  <2>1. Upto(0) = J
    BY <1>2
  <2>. HIDE DEF Upto
  <2>2. Arranged(class, copied[0]) /\ HasExactly(copied[0], T, Upto(0))
    BY <1>3, <2>1
  <2>3. 0 \in 0..N
    BY <1>2
  <2>. QED
    BY <2>2, <2>3
<1>5. ASSUME NEW n \in 1..N, n - 1 \in Good
      PROVE  n \in Good
  <2>1. PICK before : before = copied[n - 1]
    OBVIOUS
  <2>2. PICK I : I = Upto(n - 1)
    OBVIOUS
  <2>3. Arranged(class, before) /\ HasExactly(before, T, I)
    BY <1>5, <2>1, <2>2
  <2>4. n \in Nat /\ n \in DOMAIN T /\ \A k \in G : k \in Nat
    BY <1>2
  <2>5. copied[n] = CopyChild(class, group, before, T[n])
    BY <1>3, <2>1
  <2>6. CASE n \notin G
    <3>1. copied[n] = before
      BY <2>4, <2>5, <2>6 DEF CopyChild
    <3>2. Upto(n) = I
      <4>1. \A k \in G : k <= n <=> k <= n - 1
        BY <2>4, <2>6
      <4>. QED
        BY <2>2, <4>1
    <3>3. Arranged(class, copied[n]) /\ HasExactly(copied[n], T, Upto(n))
      BY <2>3, <3>1, <3>2
    <3>. QED
      BY <3>3
  <2>7. CASE n \in G
    <3>1. I \in SUBSET DOMAIN T /\ n \notin I
      BY <2>2, <2>4, <2>7
    <3>2. \A k \in I : (~T[n].fixed /\ ~T[k].fixed
                          /\ PlaceIn(class.impl, T[k]) = PlaceIn(class.impl, T[n])) => k < n
      <4>. SUFFICES ASSUME NEW k \in I, ~T[n].fixed, ~T[k].fixed,
                           PlaceIn(class.impl, T[k]) = PlaceIn(class.impl, T[n])
           PROVE  k < n
        OBVIOUS
      <4>1. k \notin J
        BY <2>7
      <4>. QED
        BY <2>2, <2>4, <4>1
    <3>3. PICK m, c : m = T[n].member /\ c = T[n].child
      OBVIOUS
    <3>4. LET all == Put(class.impl, before, m, c)
          IN Arranged(class, all) /\ HasExactly(all, T, I \cup {n})
      BY <2>3, <2>4, <3>1, <3>2, <3>3, PutContains
    <3>5. copied[n] = Put(class.impl, before, m, c)
      BY <2>4, <2>5, <2>7, <3>3 DEF CopyChild
    <3>6. Upto(n) = I \cup {n}
      <4>1. \A k \in G : k <= n <=> k <= n - 1 \/ k = n
        BY <2>4
      <4>. QED
        BY <2>2, <2>4, <2>7, <4>1
    <3>7. Arranged(class, copied[n]) /\ HasExactly(copied[n], T, Upto(n))
      BY <3>4, <3>5, <3>6
    <3>. QED
      BY <3>7
  <2>. QED
    BY <2>6, <2>7
<1>6. N \in Good
  <2>1. Good \in SUBSET (0..N) /\ N \in 0..N
    BY <1>2
  <2>. HIDE DEF Good
  <2>. QED
    BY <1>2, <1>4, <1>5, <2>1, CountedUp
<1>7. Upto(N) = J \cup G
  BY <1>2
<1>8. Arranged(class, copied[N]) /\ HasExactly(copied[N], T, J \cup G)
  BY <1>6, <1>7
<1>. QED
  BY <1>3, <1>8

\* Group after group: the equation of Clone.
CloneUpTo(class, children, copied, n) ==
  IF n = 0 THEN Fresh(class.impl)
  ELSE CopyGroup(class, class.impl.copies[n], copied[n - 1], children)

\* There is a function that satisfies that equation.
LEMMA CloneStepsExist ==
    ASSUME NEW class, NEW children, NEW N \in Nat
    PROVE  \E g : g = [n \in 0..N |-> CloneUpTo(class, children, g, n)]
<1>. DEFINE T == {m \in 0..N : \E g : g = [n \in 0..m |-> CloneUpTo(class, children, g, n)]}
<1>1. 0 \in T
  <2>. DEFINE g == [n \in 0..0 |-> Fresh(class.impl)]
  <2>1. g = [n \in 0..0 |-> CloneUpTo(class, children, g, n)]
    BY DEF CloneUpTo
  <2>. QED
    BY <2>1
<1>2. ASSUME NEW m \in 1..N, m - 1 \in T
      PROVE  m \in T
  <2>1. PICK h : h = [n \in 0..(m - 1) |-> CloneUpTo(class, children, h, n)]
    BY <1>2
  <2>. DEFINE g == [n \in 0..m |-> IF n = m THEN CopyGroup(class, class.impl.copies[m], h[m - 1], children) ELSE h[n]]
  <2>2. m \in Nat /\ m # 0 /\ m - 1 \in 0..m /\ m - 1 # m /\ 0 \in 0..(m - 1)
    OBVIOUS
  <2>3. ASSUME NEW n \in 0..m
        PROVE  g[n] = CloneUpTo(class, children, g, n)
    <3>1. CASE n = m
      <4>1. g[m - 1] = h[m - 1] /\ g[m] = CopyGroup(class, class.impl.copies[m], h[m - 1], children)
        BY <2>2
      <4>. QED
        BY <2>2, <3>1, <4>1 DEF CloneUpTo
    <3>2. CASE n = 0
      <4>1. g[0] = h[0] /\ h[0] = Fresh(class.impl)
        BY <2>1, <2>2 DEF CloneUpTo
      <4>. QED
        BY <3>2, <4>1 DEF CloneUpTo
    <3>3. CASE n # m /\ n # 0
      <4>1. n \in 0..(m - 1) /\ n - 1 \in 0..m /\ n - 1 # m
        BY <3>3
      <4>2. g[n] = h[n] /\ g[n - 1] = h[n - 1]
        BY <3>3, <4>1
      <4>3. h[n] = CopyGroup(class, class.impl.copies[n], h[n - 1], children)
        BY <2>1, <3>3, <4>1 DEF CloneUpTo
      <4>. QED
        BY <3>3, <4>2, <4>3 DEF CloneUpTo
    <3>. QED
      BY <3>1, <3>2, <3>3
  <2>4. g = [n \in 0..m |-> CloneUpTo(class, children, g, n)]
    <3>1. g = [n \in 0..m |-> g[n]]
      OBVIOUS
    <3>. HIDE DEF g
    <3>. QED
      BY <2>3, <3>1
  <2>5. \E f : f = [n \in 0..m |-> CloneUpTo(class, children, f, n)]
    <3>. HIDE DEF g
    <3>. QED
      BY <2>4
  <2>. QED
    BY <2>5
<1>. HIDE DEF T
<1>3. \A m \in 0..N : m \in T
  <2>1. T \in SUBSET (0..N)
    BY DEF T
  <2>. QED
    BY <1>1, <1>2, <2>1, CountedUp
<1>. QED
  BY <1>3 DEF T

\* Clone goes through the groups one by one.
LEMMA CloneStepByStep ==
    ASSUME NEW class, NEW from, NEW children, children = Filled(from),
           NEW N \in Nat, Len(class.impl.copies) = N
    PROVE  \E copied : /\ Clone(class, from) = copied[N]
                     /\ copied[0] = Fresh(class.impl)
                     /\ \A n \in 1..N : copied[n] = CopyGroup(class, class.impl.copies[n], copied[n - 1], children)
<1>. DEFINE copied == CHOOSE g : g = [n \in 0..N |-> CloneUpTo(class, children, g, n)]
<1>1. Clone(class, from) = copied[N]
  BY DEF Clone, CloneUpTo
<1>2. copied = [n \in 0..N |-> CloneUpTo(class, children, copied, n)]
  BY CloneStepsExist
<1>. HIDE DEF copied
<1>3. \A n \in 0..N : copied[n] = CloneUpTo(class, children, copied, n)
  BY <1>2
<1>4. copied[0] = Fresh(class.impl)
  BY <1>3 DEF CloneUpTo
<1>5. ASSUME NEW n \in 1..N
      PROVE  copied[n] = CopyGroup(class, class.impl.copies[n], copied[n - 1], children)
  <2>1. n \in 0..N /\ n # 0
    OBVIOUS
  <2>. QED
    BY <1>3, <2>1 DEF CloneUpTo
<1>. QED
  BY <1>1, <1>4, <1>5

\* A clone has the filled cells of its original: each child is copied once, and
\* lists that share a place are copied in one pass.
LEMMA CloneHasAll ==
    ASSUME NEW class, HasPlaces(class), CopiesItsOwn(class),
           NEW from, LaidOut(class, from),
           \A a, b \in FilledCells(class) :
             (\E k, l \in DOMAIN Filled(from) : Filled(from)[k] = a /\ Filled(from)[l] = b)
               => ~Alternatives(class.content, LocalName(class, a.child), LocalName(class, b.child))
    PROVE  Filled(Clone(class, from)) = Filled(from)
<1>1. PICK T : T = Filled(from)
  OBVIOUS
<1>2. Sorted(class, T) /\ \A k \in DOMAIN T : T[k] \in FilledCells(class)
  BY <1>1, FilledIsSorted
<1>. DEFINE groups == class.impl.copies
            Copies(g, cell) == cell.member \in ToSet(groups[g])
<1>3. PICK N : N = Len(groups)
  OBVIOUS
<1>4. N \in Nat /\ DOMAIN groups = 1..N
  BY <1>3, LenProperties DEF CopiesItsOwn
<1>5. PICK copied : /\ Clone(class, from) = copied[N]
                    /\ copied[0] = Fresh(class.impl)
                    /\ \A n \in 1..N : copied[n] = CopyGroup(class, groups[n], copied[n - 1], T)
  BY <1>1, <1>3, <1>4, CloneStepByStep
<1>6. \A k \in DOMAIN T : \E g \in 1..N :
        /\ Copies(g, T[k]) /\ Target(class, groups[g], T[k]) = T[k].member
        /\ \A h \in 1..N : Copies(h, T[k]) => h = g
  BY <1>2, <1>4 DEF CopiesItsOwn
<1>7. ASSUME NEW k \in DOMAIN T, NEW l \in DOMAIN T, ~T[k].fixed, ~T[l].fixed,
             PlaceIn(class.impl, T[k]) = PlaceIn(class.impl, T[l])
      PROVE  \E g \in 1..N : Copies(g, T[k]) /\ Copies(g, T[l])
  <2>1. PICK a, b \in FilledCells(class) : a = T[k] /\ b = T[l]
    BY <1>2
  <2>2. ~Alternatives(class.content, LocalName(class, a.child), LocalName(class, b.child))
    BY <1>1, <2>1
  <2>3. ~a.fixed /\ ~b.fixed /\ PlaceIn(class.impl, a) = PlaceIn(class.impl, b)
    BY <1>7, <2>1
  <2>4. \E g \in DOMAIN groups : Copies(g, a) /\ Copies(g, b)
    BY <2>2, <2>3 DEF CopiesItsOwn
  <2>. QED
    BY <1>4, <2>1, <2>4
<1>. DEFINE InGroup(g) == {k \in DOMAIN T : Copies(g, T[k])}
            Upto(n) == {k \in DOMAIN T : \E g \in 1..n : Copies(g, T[k])}
            Good == {n \in 0..N : Arranged(class, copied[n]) /\ HasExactly(copied[n], T, Upto(n))}
<1>8. 0 \in Good
  <2>1. Upto(0) = {}
    OBVIOUS
  <2>2. Arranged(class, copied[0]) /\ HasExactly(copied[0], T, Upto(0))
    BY <1>5, <2>1, FreshHasNone
  <2>3. 0 \in 0..N
    BY <1>4
  <2>. HIDE DEF Upto
  <2>. QED
    BY <2>2, <2>3
<1>9. ASSUME NEW n \in 1..N, n - 1 \in Good
      PROVE  n \in Good
  <2>1. PICK into, group : into = copied[n - 1] /\ group = groups[n]
    OBVIOUS
  <2>2. PICK J, G : J = Upto(n - 1) /\ G = InGroup(n)
    OBVIOUS
  <2>3. Arranged(class, into) /\ HasExactly(into, T, J)
    BY <1>9, <2>1, <2>2
  <2>4. /\ G \in SUBSET DOMAIN T /\ J \in SUBSET DOMAIN T
        /\ \A k \in DOMAIN T : k \in G <=> T[k].member \in ToSet(group)
    BY <2>1, <2>2
  <2>5. n \in 1..N /\ n \in Nat /\ \A g \in 1..(n - 1) : g \in 1..N /\ g # n
    BY <1>4
  <2>6. \A k \in G : Target(class, group, T[k]) = T[k].member
    BY <1>6, <2>1, <2>2, <2>5
  <2>7. \A k \in J : ~Copies(n, T[k])
    <3>. SUFFICES ASSUME NEW k \in J, Copies(n, T[k]) PROVE FALSE
      OBVIOUS
    <3>1. PICK g \in 1..(n - 1) : Copies(g, T[k])
      BY <2>2
    <3>. QED
      BY <1>6, <2>4, <2>5, <3>1
  <2>8. J \cap G = {}
    BY <2>2, <2>7
  <2>9. \A k \in J, l \in G : ~T[k].fixed /\ ~T[l].fixed =>
          PlaceIn(class.impl, T[k]) # PlaceIn(class.impl, T[l])
    <3>. SUFFICES ASSUME NEW k \in J, NEW l \in G, ~T[k].fixed, ~T[l].fixed,
                         PlaceIn(class.impl, T[k]) = PlaceIn(class.impl, T[l])
         PROVE  FALSE
      OBVIOUS
    <3>1. k \in DOMAIN T /\ l \in DOMAIN T /\ Copies(n, T[l])
      BY <2>2, <2>4
    <3>2. PICK g \in 1..N : Copies(g, T[k]) /\ Copies(g, T[l])
      BY <1>7, <3>1
    <3>3. g = n
      BY <1>6, <2>5, <3>1, <3>2
    <3>. QED
      BY <2>7, <3>2, <3>3
  <2>10. LET all == CopyGroup(class, group, into, T)
         IN Arranged(class, all) /\ HasExactly(all, T, J \cup G)
    BY <1>2, <2>3, <2>4, <2>6, <2>8, <2>9, GroupCopied
  <2>11. Upto(n) = J \cup G
    <3>1. \A g \in Nat : g \in 1..n <=> g \in 1..(n - 1) \/ g = n
      BY <2>5
    <3>. QED
      BY <2>2, <2>5, <3>1
  <2>12. Arranged(class, copied[n]) /\ HasExactly(copied[n], T, Upto(n))
    BY <1>5, <2>1, <2>10, <2>11
  <2>. QED
    BY <2>12
<1>10. N \in Good
  <2>1. Good \in SUBSET (0..N) /\ N \in 0..N
    BY <1>4
  <2>. HIDE DEF Good
  <2>. QED
    BY <1>4, <1>8, <1>9, <2>1, CountedUp
<1>11. Upto(N) = DOMAIN T
  BY <1>6
<1>12. PICK S, cells : S = HeldCells(class) /\ cells = copied[N]
  OBVIOUS
<1>13. cells \in Seq(S) /\ T \in Seq(S) /\ HasExactly(cells, T, DOMAIN T)
  BY <1>2, <1>10, <1>11, <1>12 DEF Arranged, ArrangedIn, Sorted
<1>14. Filled(cells) = T
  BY <1>13, HasThemAll
<1>. QED
  BY <1>1, <1>5, <1>12, <1>14

-----------------------------------------------------------------------------
(* The object *)

\* What any one change leaves as it should be.
LEMMA StepKeepsLayout ==
    ASSUME NEW class, HasPlaces(class), LaidOut(class, m_children),
           m_attributes \subseteq class.interface.attributes,
           changes \in 0..MaxChanges, Step(class)
    PROVE  /\ LaidOut(class, m_children')
           /\ m_attributes' \subseteq class.interface.attributes
           /\ changes' \in 0..MaxChanges
           /\ xmlClass' = xmlClass
<1>1. ASSUME NEW cells, NEW given, LaidOut(class, cells),
             given \subseteq class.interface.attributes, Change(cells, given)
      PROVE  /\ LaidOut(class, m_children')
             /\ m_attributes' \subseteq class.interface.attributes
             /\ changes' \in 0..MaxChanges
             /\ xmlClass' = xmlClass
  <2>1. m_children' = cells /\ m_attributes' = given /\ xmlClass' = xmlClass
        /\ changes < MaxChanges /\ changes' = changes + 1
    BY <1>1 DEF Change
  <2>2. changes' \in 0..MaxChanges
    BY <2>1, ChangesBounded
  <2>. QED
    BY <1>1, <2>1, <2>2
<1>2. ASSUME NEW member \in class.interface.singles, SetSingleton(class, member)
      PROVE  \E cells, given : LaidOut(class, cells) /\ Change(cells, given)
                               /\ given \subseteq class.interface.attributes
  <2>1. PICK child \in Candidates(class, member) :
          Change(SetChild(m_children, member, child), m_attributes)
    BY <1>2 DEF SetSingleton
  <2>2. LaidOut(class, SetChild(m_children, member, child))
    BY SetChildKeepsLayout
  <2>. QED
    BY <2>1, <2>2
<1>3. ASSUME NEW member \in class.interface.singles, ClearSingleton(member)
      PROVE  \E cells, given : LaidOut(class, cells) /\ Change(cells, given)
                               /\ given \subseteq class.interface.attributes
  <2>1. Change(SetChild(m_children, member, None), m_attributes)
    BY <1>3 DEF ClearSingleton
  <2>2. LaidOut(class, SetChild(m_children, member, None))
    <3>1. None \in Candidates(class, member) \cup {None}
      OBVIOUS
    <3>. QED
      BY <3>1, SetChildKeepsLayout
  <2>. QED
    BY <2>1, <2>2
<1>4. ASSUME NEW list \in class.interface.lists, PushBack(class, list)
      PROVE  \E cells, given : LaidOut(class, cells) /\ Change(cells, given)
                               /\ given \subseteq class.interface.attributes
  <2>1. PICK child \in Candidates(class, list) :
          Change(AddChild(class.impl, m_children, list, child), m_attributes)
    BY <1>4 DEF PushBack
  <2>2. LaidOut(class, AddChild(class.impl, m_children, list, child))
    BY AddChildKeepsLayout
  <2>. QED
    BY <2>1, <2>2
<1>5. ASSUME NEW list \in class.interface.lists, Erase(list)
      PROVE  \E cells, given : LaidOut(class, cells) /\ Change(cells, given)
                               /\ given \subseteq class.interface.attributes
  <2>1. PICK i \in DOMAIN m_children :
          ~m_children[i].fixed /\ Change(RemoveAt(m_children, i), m_attributes)
    BY <1>5 DEF Erase
  <2>2. LaidOut(class, RemoveAt(m_children, i))
    BY <2>1, RemoveKeepsLayout
  <2>. QED
    BY <2>1, <2>2
<1>6. ASSUME NEW name \in class.interface.attributes, SetAttribute(name) \/ ClearAttribute(name)
      PROVE  \E cells, given : LaidOut(class, cells) /\ Change(cells, given)
                               /\ given \subseteq class.interface.attributes
  <2>1. \/ Change(m_children, m_attributes \cup {name})
        \/ Change(m_children, m_attributes \ {name})
    BY <1>6 DEF SetAttribute, ClearAttribute
  <2>2. /\ m_attributes \cup {name} \subseteq class.interface.attributes
        /\ m_attributes \ {name} \subseteq class.interface.attributes
    OBVIOUS
  <2>. QED
    BY <2>1, <2>2
<1>7. \/ \E member \in class.interface.singles :
           SetSingleton(class, member) \/ ClearSingleton(member)
      \/ \E list \in class.interface.lists : PushBack(class, list) \/ Erase(list)
      \/ \E name \in class.interface.attributes : SetAttribute(name) \/ ClearAttribute(name)
  BY DEF Step
<1>8. \E cells, given : LaidOut(class, cells) /\ Change(cells, given)
                        /\ given \subseteq class.interface.attributes
  BY <1>2, <1>3, <1>4, <1>5, <1>6, <1>7
<1>. QED
  BY <1>1, <1>8

\* A new object, and one read from its smallest document, is laid out.
LEMMA InitTypeOK ==
    ASSUME Roots \subseteq Sound, Init
    PROVE  TypeOK
<1>1. xmlClass \in Sound /\ Built(ClassOfObject) /\ changes = 0
  BY DEF Init, ClassOfObject
<1>2. PICK class : class = ClassOfObject
  OBVIOUS
<1>3. HasPlaces(class) /\ ReadsItsSmallest(class)
  BY <1>1, <1>2 DEF Sound, ClassOfObject
<1>4. CASE m_children = Fresh(class.impl) /\ m_attributes = {}
  <2>1. LaidOut(class, Fresh(class.impl))
    BY <1>3, FreshIsLaidOut
  <2>. QED
    BY <1>1, <1>2, <1>4, <2>1, ChangesBounded DEF TypeOK
<1>5. CASE /\ m_children = Unmarshall(class, SmallestDocument(class))
           /\ m_attributes = class.content.required
  BY <1>1, <1>2, <1>3, <1>5, ChangesBounded DEF TypeOK, ReadsItsSmallest
<1>. QED
  BY <1>1, <1>2, <1>4, <1>5 DEF Built

\* No change disturbs the layout.
LEMMA NextTypeOK ==
    ASSUME TypeOK, [Next]_vars
    PROVE  TypeOK'
<1>1. xmlClass \in Sound /\ LaidOut(ClassOfObject, m_children)
      /\ m_attributes \subseteq ClassOfObject.interface.attributes /\ changes \in 0..MaxChanges
  BY DEF TypeOK
<1>2. CASE Next
  <2>1. PICK class : class = ClassOfObject
    OBVIOUS
  <2>2. HasPlaces(class)
    BY <1>1, <2>1 DEF Sound, ClassOfObject
  <2>3. Step(class)
    BY <1>2, <2>1 DEF Next, ClassOfObject
  <2>4. /\ LaidOut(class, m_children')
        /\ m_attributes' \subseteq class.interface.attributes
        /\ changes' \in 0..MaxChanges
        /\ xmlClass' = xmlClass
    BY <1>1, <2>1, <2>2, <2>3, StepKeepsLayout
  <2>5. ClassOfObject' = class /\ xmlClass' \in Sound
    BY <1>1, <2>1, <2>4 DEF ClassOfObject
  <2>. QED
    BY <2>4, <2>5 DEF TypeOK
<1>3. CASE UNCHANGED vars
  BY <1>1, <1>3 DEF TypeOK, vars, ClassOfObject
<1>. QED
  BY <1>2, <1>3

\* Whatever is done to an object of a soundly described class, in whatever
\* order, however often: each slot keeps its cell, every child is of a type its
\* member takes, and the cells stay in the order of their places.
THEOREM TypeCorrect ==
    ASSUME Roots \subseteq Sound
    PROVE  Spec => []TypeOK
<1>1. Init => TypeOK
  BY InitTypeOK
<1>2. TypeOK /\ [Next]_vars => TypeOK'
  BY NextTypeOK
<1>. QED
  BY <1>1, <1>2, PTL DEF Spec

\* The layout puts the children in the order of the schema.
LEMMA LaidOutInOrder ==
    ASSUME TypeOK
    PROVE  ChildrenInOrder
<1>1. PICK class : class = ClassOfObject
  OBVIOUS
<1>2. HasPlaces(class) /\ FollowsSchema(class) /\ LaidOut(class, m_children)
  BY <1>1 DEF TypeOK, Sound, ClassOfObject
<1>3. /\ m_children \in Seq(Cells(class))
      /\ \A i \in DOMAIN m_children : m_children[i] \in Cells(class)
  BY <1>2, LenProperties DEF LaidOut, Cells
<1>. DEFINE cells == Filled(m_children)
<1>4. \A k, l \in DOMAIN cells : k < l =>
        \E i, j \in DOMAIN m_children :
          /\ i < j /\ cells[k] = m_children[i] /\ cells[l] = m_children[j]
          /\ m_children[i].child # None /\ m_children[j].child # None
  <2>. PICK S : S = Cells(class)
    OBVIOUS
  <2>1. m_children \in Seq(S)
    BY <1>3
  <2>. QED
    BY <2>1, DocumentKeepsOrder
<1>5. DOMAIN Document = DOMAIN cells /\ \A k \in DOMAIN cells : Document[k] = cells[k].child
  BY DEF Document, Serialize
<1>. HIDE DEF cells
<1>6. SUFFICES ASSUME ChoseOnce(class)
      PROVE  InSchemaOrder(class.content, Names(class, Document))
  BY <1>1 DEF ChildrenInOrder, OrderedAsIn
<1>. DEFINE names == Names(class, Document)
<1>7. DOMAIN names = DOMAIN Document
      /\ \A k \in DOMAIN Document : names[k] = LocalName(class, Document[k])
  BY DEF Names
<1>. HIDE DEF names
<1>8. ASSUME NEW k \in DOMAIN names, NEW l \in DOMAIN names, k < l,
             Declares(class.content, names[k]), Declares(class.content, names[l])
      PROVE  PlaceOf(class.content, names[k]) <= PlaceOf(class.content, names[l])
  <2>1. PICK i, j \in DOMAIN m_children :
          /\ i < j /\ cells[k] = m_children[i] /\ cells[l] = m_children[j]
          /\ m_children[i].child # None /\ m_children[j].child # None
    BY <1>4, <1>5, <1>7, <1>8
  <2>2. PICK a : a = m_children[i]
    OBVIOUS
  <2>3. PICK b : b = m_children[j]
    OBVIOUS
  <2>4. a \in FilledCells(class) /\ b \in FilledCells(class)
    <3>1. a \in Cells(class) /\ b \in Cells(class) /\ a.child # None /\ b.child # None
      BY <1>3, <2>1, <2>2, <2>3
    <3>. QED
      BY <1>2, <3>1, CellFacts
  <2>5. MayPrecede(class.impl, a, b)
    BY <1>2, <2>1, <2>2, <2>3 DEF LaidOut
  <2>6. names[k] = LocalName(class, a.child) /\ names[l] = LocalName(class, b.child)
    BY <1>5, <1>7, <2>1, <2>2, <2>3
  <2>7. ~Alternatives(class.content, names[k], names[l])
    <3>1. SUFFICES ASSUME NEW pair \in class.content.apart,
                          \/ names[k] \in pair[1] /\ names[l] \in pair[2]
                          \/ names[k] \in pair[2] /\ names[l] \in pair[1]
          PROVE  FALSE
      BY DEF Alternatives
    <3>. QED
      BY <1>6, <1>7, <3>1 DEF ChoseOnce
  <2>. QED
    BY <1>2, <1>8, <2>4, <2>5, <2>6, <2>7 DEF FollowsSchema
<1>. QED
  BY <1>8 DEF InSchemaOrder, names

\* The document lists the children in the order of the schema, in every state
\* of an object of a soundly described class in which the caller has not mixed
\* two alternatives.
THEOREM DocumentsInOrder ==
    ASSUME Roots \subseteq Sound
    PROVE  Spec => []ChildrenInOrder
<1>1. TypeOK => ChildrenInOrder
  BY LaidOutInOrder
<1>. QED
  BY <1>1, TypeCorrect, PTL
-----------------------------------------------------------------------------
(* Copies, and documents read back *)

\* The cell a child is put into when it is read.
ReadTo(class, cell) ==
  IF IsList(class.impl, Reader(class, cell.child))
  THEN ListCell(Reader(class, cell.child), cell.child)
  ELSE SlotCell(Reader(class, cell.child), cell.child)

\* That cell is one a member can hold, and it has the child.
LEMMA ReadToFacts ==
    ASSUME NEW class, NEW cell \in HeldCells(class), cell.child # None,
           IsList(class.impl, Reader(class, cell.child)) \/ KeepsPlace(class, cell)
    PROVE  /\ ReadTo(class, cell) \in HeldCells(class)
           /\ ReadTo(class, cell).child = cell.child
           /\ ReadTo(class, cell).member = Reader(class, cell.child)
           /\ ReadTo(class, cell).fixed <=> ~IsList(class.impl, Reader(class, cell.child))
           /\ KeepsPlace(class, cell) =>
                /\ ReadTo(class, cell).fixed <=> cell.fixed
                /\ PlaceIn(class.impl, ReadTo(class, cell)) = PlaceIn(class.impl, cell)
           /\ Reader(class, cell.child) = cell.member => ReadTo(class, cell) = cell
<1>. DEFINE impl == class.impl
            member == Reader(class, cell.child)
            to == ReadTo(class, cell)
<1>1. /\ cell = Cell(cell.member, cell.child, cell.fixed) /\ cell.fixed \in BOOLEAN
      /\ cell.fixed => IsSlot(impl, cell.member) /\ ~IsList(impl, cell.member)
      /\ ~cell.fixed => IsList(impl, cell.member)
      /\ cell.child \in Tokens(class) \cup {None}
  BY HeldFacts
<1>2. PICK m, c : m = member /\ c = cell.child
  OBVIOUS
<1>3. CASE IsList(impl, member)
  <2>1. to = ListCell(m, c)
    BY <1>2, <1>3 DEF ReadTo
  <2>2. to.member = m /\ to.child = c /\ to.fixed = FALSE
    BY <2>1 DEF ListCell, Cell
  <2>3. to \in HeldCells(class)
    <3>1. c \in Tokens(class) \cup {None} /\ FALSE \in BOOLEAN /\ IsList(impl, m) /\ c # None
      BY <1>1, <1>2, <1>3
    <3>2. Cell(m, c, FALSE) \in HeldCells(class)
      BY <3>1, IsHeld
    <3>. QED
      BY <2>1, <3>2 DEF ListCell
  <2>4. ASSUME KeepsPlace(class, cell)
        PROVE  ~cell.fixed /\ PlaceIn(impl, to) = PlaceIn(impl, cell)
    <3>1. ~cell.fixed
      BY <1>1, <1>3, <2>4 DEF KeepsPlace
    <3>2. PlaceIn(impl, Cell(m, c, FALSE)) = PlaceIn(impl, cell)
      BY <1>2, <2>4, <3>1, Zenon DEF KeepsPlace
    <3>. QED
      BY <2>1, <3>1, <3>2 DEF ListCell
  <2>5. ASSUME member = cell.member
        PROVE  to = cell
    <3>1. cell.fixed = FALSE
      BY <1>1, <1>3, <2>5
    <3>. QED
      BY <1>1, <1>2, <2>1, <2>5, <3>1 DEF ListCell
  <2>. QED
    BY <1>2, <1>3, <2>2, <2>3, <2>4, <2>5
<1>4. CASE ~IsList(impl, member)
  <2>1. cell.fixed /\ member = cell.member
    BY <1>4 DEF KeepsPlace
  <2>2. to = cell
    <3>1. cell.fixed = TRUE
      BY <1>1, <2>1
    <3>2. to = SlotCell(cell.member, cell.child)
      BY <1>4, <2>1 DEF ReadTo
    <3>. QED
      BY <1>1, <3>1, <3>2 DEF SlotCell
  <2>. QED
    BY <1>4, <2>1, <2>2
<1>. QED
  BY <1>3, <1>4

\* The document of an object is read back, child by child, in the same order.
LEMMA ReadsBack ==
    ASSUME NEW class, HasPlaces(class), ReadsItsOwn(class),
           NEW cells, LaidOut(class, cells),
           \A i \in DOMAIN cells : cells[i].child \notin Unread
    PROVE  LET back == Unmarshall(class, Serialize(cells))
           IN /\ back # Rejected /\ Serialize(back) = Serialize(cells)
              /\ (\A k \in DOMAIN Filled(cells) :
                    Reader(class, Filled(cells)[k].child) = Filled(cells)[k].member)
                   => Filled(back) = Filled(cells)
<1>. DEFINE impl == class.impl
<1>1. PICK F, document : F = Filled(cells) /\ document = Serialize(cells)
  OBVIOUS
<1>2. Sorted(class, F) /\ \A k \in DOMAIN F : F[k] \in FilledCells(class)
  BY <1>1, FilledIsSorted
<1>3. PICK N : N = Len(F)
  OBVIOUS
<1>4. /\ N \in Nat /\ DOMAIN F = 1..N /\ F = [k \in 1..N |-> F[k]]
      /\ \A k \in DOMAIN F : F[k] \in HeldCells(class) /\ F[k].child # None
  BY <1>2, <1>3, LenProperties DEF Sorted
<1>5. document = [k \in 1..N |-> F[k].child] /\ Len(document) = N
  BY <1>1, <1>4 DEF Serialize
<1>6. \A k \in DOMAIN F : F[k] \in Readable(class)
  <2>1. PICK S : S = Cells(class)
    OBVIOUS
  <2>2. cells \in Seq(S)
    BY <2>1 DEF LaidOut, Cells
  <2>3. \A k \in DOMAIN F : \E i \in DOMAIN cells : F[k] = cells[i]
    BY <1>1, <2>2, DocumentKeepsOrder
  <2>. QED
    BY <1>2, <2>3 DEF Readable
<1>7. \A k \in DOMAIN F : Readers(class, F[k].child) # {}
  BY <1>6 DEF ReadsItsOwn
<1>. DEFINE T == [k \in 1..N |-> ReadTo(class, F[k])]
<1>8. \/ \A k \in DOMAIN F : KeepsPlace(class, F[k])
      \/ \E list : IsList(impl, list) /\ \A k \in DOMAIN F : Reader(class, F[k].child) = list
  BY <1>6 DEF ReadsItsOwn, IsList
<1>9. ASSUME NEW k \in DOMAIN F
      PROVE  IsList(impl, Reader(class, F[k].child)) \/ KeepsPlace(class, F[k])
  BY <1>8
<1>10. ASSUME NEW k \in DOMAIN F
       PROVE  /\ T[k] \in HeldCells(class) /\ T[k].child = F[k].child
              /\ T[k].member = Reader(class, F[k].child)
              /\ T[k].fixed <=> ~IsList(impl, Reader(class, F[k].child))
              /\ KeepsPlace(class, F[k]) =>
                   /\ T[k].fixed <=> F[k].fixed
                   /\ PlaceIn(impl, T[k]) = PlaceIn(impl, F[k])
              /\ Reader(class, F[k].child) = F[k].member => T[k] = F[k]
  <2>1. PICK cell : cell = F[k]
    OBVIOUS
  <2>2. cell \in HeldCells(class) /\ cell.child # None /\ T[k] = ReadTo(class, cell)
        /\ (IsList(class.impl, Reader(class, cell.child)) \/ KeepsPlace(class, cell))
    BY <1>4, <1>9, <2>1
  <2>. HIDE DEF T
  <2>. QED
    BY <2>1, <2>2, ReadToFacts
<1>11. T \in [1..N -> HeldCells(class)] /\ DOMAIN T = 1..N
  BY <1>4, <1>10
<1>. HIDE DEF T
<1>12. ASSUME NEW k \in DOMAIN F, NEW l \in DOMAIN F, k < l
       PROVE  MayPrecede(impl, T[k], T[l])
  <2>1. CASE \A j \in DOMAIN F : KeepsPlace(class, F[j])
    <3>1. MayPrecede(impl, F[k], F[l])
      BY <1>2, <1>12 DEF Sorted
    <3>2. /\ T[k].fixed <=> F[k].fixed
          /\ PlaceIn(impl, T[k]) = PlaceIn(impl, F[k])
          /\ PlaceIn(impl, T[l]) = PlaceIn(impl, F[l])
      BY <1>10, <2>1
    <3>. QED
      BY <3>1, <3>2 DEF MayPrecede
  <2>2. CASE \E list : IsList(impl, list) /\ \A j \in DOMAIN F : Reader(class, F[j].child) = list
    <3>1. ~T[k].fixed /\ ~T[l].fixed /\ T[k].member = T[l].member
      BY <1>10, <2>2
    <3>2. PlaceIn(impl, T[k]) = PlaceIn(impl, T[l])
      BY <3>1 DEF PlaceIn
    <3>. QED
      BY <3>1, <3>2 DEF MayPrecede
  <2>. QED
    BY <1>8, <2>1, <2>2
<1>13. Sorted(class, T) /\ Len(T) = N
  <2>1. PICK H : H = HeldCells(class)
    OBVIOUS
  <2>2. T \in Seq(H) /\ Len(T) = N
    BY <1>4, <1>11, <2>1
  <2>3. \A k \in DOMAIN T : T[k].child # None
    BY <1>4, <1>10, <1>11
  <2>. QED
    BY <1>4, <1>11, <1>12, <2>1, <2>2, <2>3 DEF Sorted
<1>14. PICK back : back = Unmarshall(class, document)
  OBVIOUS
<1>15. Arranged(class, back) /\ Filled(back) = T
  <2>1. DOMAIN class.impl.reads \subseteq Nat
    BY LenProperties DEF ReadsItsOwn
  <2>2. \A k \in DOMAIN T : /\ document[k] = T[k].child /\ Readers(class, document[k]) # {}
                            /\ Reader(class, document[k]) = T[k].member
    BY <1>4, <1>5, <1>7, <1>10, <1>11
  <2>. QED
    BY <1>5, <1>13, <1>14, <2>1, <2>2, ReadInOrder
<1>16. back # Rejected
  BY <1>15, ArrangedIsRead
<1>17. Serialize(back) = document
  <2>1. Serialize(back) = [k \in 1..N |-> T[k].child]
    BY <1>11, <1>15 DEF Serialize
  <2>. QED
    BY <1>4, <1>5, <1>10, <2>1
<1>18. ASSUME \A k \in DOMAIN F : Reader(class, F[k].child) = F[k].member
       PROVE  T = F
  <2>1. \A k \in 1..N : T[k] = F[k]
    BY <1>4, <1>10, <1>18
  <2>. QED
    BY <1>4, <1>11, <2>1
<1>. QED
  BY <1>1, <1>14, <1>15, <1>16, <1>17, <1>18

\* What is laid out is copied in its order.
LEMMA LaidOutIsCopied ==
    ASSUME TypeOK
    PROVE  CloneIsEqual
<1>. SUFFICES ASSUME xmlClass \notin Uncopied
     PROVE  CopiedAsIn(ClassOfObject)
  BY DEF CloneIsEqual
<1>1. PICK class : class = ClassOfObject
  OBVIOUS
<1>2. /\ HasPlaces(class) /\ CopiesItsOwn(class) /\ LaidOut(class, m_children)
      /\ m_attributes \subseteq class.interface.attributes
  BY <1>1 DEF TypeOK, Sound, ClassOfObject
<1>3. ASSUME ChoseOnce(class)
      PROVE  Filled(Clone(class, m_children)) = Filled(m_children)
  <2>1. PICK F : F = Filled(m_children)
    OBVIOUS
  <2>2. DOMAIN Document = DOMAIN F /\ \A k \in DOMAIN F : Document[k] = F[k].child
    BY <2>1 DEF Document, Serialize
  <2>3. ASSUME NEW a, NEW b, NEW k \in DOMAIN F, NEW l \in DOMAIN F, F[k] = a, F[l] = b
        PROVE  ~Alternatives(class.content, LocalName(class, a.child), LocalName(class, b.child))
    <3>1. LocalName(class, Document[k]) = LocalName(class, a.child)
          /\ LocalName(class, Document[l]) = LocalName(class, b.child)
      BY <2>2, <2>3
    <3>2. SUFFICES ASSUME NEW pair \in class.content.apart,
                          \/ LocalName(class, a.child) \in pair[1] /\ LocalName(class, b.child) \in pair[2]
                          \/ LocalName(class, a.child) \in pair[2] /\ LocalName(class, b.child) \in pair[1]
          PROVE  FALSE
      BY DEF Alternatives
    <3>. QED
      BY <1>3, <2>2, <3>1, <3>2 DEF ChoseOnce
  <2>4. \A a, b \in FilledCells(class) :
          (\E k, l \in DOMAIN F : F[k] = a /\ F[l] = b)
            => ~Alternatives(class.content, LocalName(class, a.child), LocalName(class, b.child))
    BY <2>3
  <2>. QED
    BY <1>2, <2>1, <2>4, CloneHasAll
<1>4. CloneAttributes(class, m_attributes) = m_attributes
  BY <1>2 DEF CloneAttributes, CopiesItsOwn
<1>. QED
  BY <1>1, <1>3, <1>4 DEF CopiedAsIn

\* What is laid out is read back in its order.
LEMMA LaidOutSurvives ==
    ASSUME TypeOK
    PROVE  DocumentSurvives
<1>1. PICK class : class = ClassOfObject
  OBVIOUS
<1>2. /\ HasPlaces(class) /\ ReadsItsOwn(class) /\ LaidOut(class, m_children)
      /\ m_attributes \subseteq class.interface.attributes
      /\ xmlClass # <<"md", "RoleDescriptorType">> => ReadsIntoItsMembers(class)
  BY <1>1 DEF TypeOK, Sound, ClassOfObject
<1>3. SUFFICES ASSUME ~Holds(Unread)
      PROVE  /\ ReadBackAsIn(class)
             /\ xmlClass # <<"md", "RoleDescriptorType">> /\ ~Holds(QueryRoles) =>
                  SameMembersAsIn(class)
  BY <1>1 DEF DocumentSurvives
<1>4. \A i \in DOMAIN m_children : m_children[i].child \notin Unread
  BY <1>3 DEF Holds
<1>5. LET back == Unmarshall(class, Document)
      IN /\ back # Rejected /\ Serialize(back) = Document
         /\ (\A k \in DOMAIN Filled(m_children) :
               Reader(class, Filled(m_children)[k].child) = Filled(m_children)[k].member)
              => Filled(back) = Filled(m_children)
  BY <1>2, <1>4, ReadsBack DEF Document
<1>6. m_attributes \subseteq UnmarshallAttributes(class, MarshallAttributes(class, m_attributes))
  BY <1>2 DEF UnmarshallAttributes, MarshallAttributes, ReadsItsOwn
<1>7. ReadBackAsIn(class)
  BY <1>5, <1>6 DEF ReadBackAsIn
<1>8. ASSUME xmlClass # <<"md", "RoleDescriptorType">>, ~Holds(QueryRoles)
      PROVE  SameMembersAsIn(class)
  <2>1. PICK F, S : F = Filled(m_children) /\ S = Cells(class)
    OBVIOUS
  <2>2. m_children \in Seq(S)
    BY <1>2, <2>1 DEF LaidOut, Cells
  <2>3. \A k \in DOMAIN F : \E i \in DOMAIN m_children : F[k] = m_children[i]
    BY <2>1, <2>2, DocumentKeepsOrder
  <2>4. \A k \in DOMAIN F : F[k] \in FilledCells(class)
    BY <1>2, <2>1, FilledIsSorted
  <2>5. \A k \in DOMAIN F : F[k] \in Readable(class) /\ F[k].child \notin QueryRoles
    BY <1>4, <1>8, <2>3, <2>4 DEF Readable, Holds
  <2>6. \A k \in DOMAIN F : Reader(class, F[k].child) = F[k].member
    BY <1>2, <1>8, <2>5 DEF ReadsIntoItsMembers
  <2>. QED
    BY <1>5, <2>1, <2>6 DEF SameMembersAsIn
<1>. QED
  BY <1>7, <1>8

\* In every state of an object of a soundly described class, but for the class
\* known to leave its children out, the clone has all attributes and, unless the
\* caller has mixed two alternatives, the same children in the same members and
\* order.
THEOREM ClonesAreEqual ==
    ASSUME Roots \subseteq Sound
    PROVE  Spec => []CloneIsEqual
<1>1. TypeOK => CloneIsEqual
  BY LaidOutIsCopied
<1>. QED
  BY <1>1, TypeCorrect, PTL

\* In every state of an object of a soundly described class, the document it
\* writes is accepted by its own unmarshaller and gives back every child, in
\* the same order, in the member it was in, and every attribute; but for the
\* children and the class that DocumentSurvives excepts.
THEOREM DocumentsSurvive ==
    ASSUME Roots \subseteq Sound
    PROVE  Spec => []DocumentSurvives
<1>1. TypeOK => DocumentSurvives
  BY LaidOutSurvives
<1>. QED
  BY <1>1, TypeCorrect, PTL
=============================================================================

---------------------- MODULE ConfigAndDispatcherProofs ----------------------
(***************************************************************************)
(* Proofs about the two components that work on lists: ConfigService, for  *)
(* every set of inputs, backups and settings, and RequestDispatcher with   *)
(* its rate limiters, for any threads, requests, snapshots and sites.      *)
(*                                                                         *)
(* Both rest on what Select makes of a list.  What it computes is proved   *)
(* row by row, by refuting a least counterexample (IntervalInduction).     *)
(*                                                                         *)
(* That the service serves what it stored rests on the candidate of a      *)
(* change being what the transaction writes (ServiceInv).  That a rate     *)
(* limiter neither admits too many nor loses a request, although readings  *)
(* of the clock may be overtaken, rests on what a bucket holds: the least  *)
(* that any admission of its log left of it, at its last update            *)
(* (Balanced, in DispatchInv).                                             *)
(***************************************************************************)
EXTENDS ConfigService, RequestDispatcher, FiniteSetTheorems, SequenceTheorems,
        WellFoundedInduction, TLAPS

-----------------------------------------------------------------------------
(* Induction over the rows of a list                                       *)

\* The least-number principle, for a set: an inductive proof refutes a least
\* counterexample.
LEMMA LeastNatural ==
  ASSUME NEW T, T \subseteq Nat, T # {}
  PROVE  \E m \in T : \A k \in T : m <= k
<1> DEFINE R == OpToRel(<, Nat)
<1>1. IsWellFoundedOn(R, Nat)
  BY NatLessThanWellFounded
<1>2. PICK m \in T : \A y \in T : ~ (<<y, m>> \in R)
  <2> HIDE DEF R
  <2> QED BY <1>1, WFMin
<1>3. \A k \in T : ~ (k < m)
  BY <1>2 DEF OpToRel
<1> QED
  BY <1>3

\* Induction over an interval that starts at 0.
LEMMA IntervalInduction ==
  ASSUME NEW n \in Nat, NEW T, 0 \in T, \A k \in 1 .. n : k - 1 \in T => k \in T
  PROVE  \A k \in 0 .. n : k \in T
<1> SUFFICES ASSUME NEW x \in 0 .. n, x \notin T
             PROVE  FALSE
  OBVIOUS
<1> DEFINE C == {k \in 0 .. n : k \notin T}
<1>1. C \subseteq Nat /\ C # {}
  OBVIOUS
<1>2. PICK m \in C : \A k \in C : m <= k
  <2> HIDE DEF C
  <2> QED BY <1>1, LeastNatural
<1>3. m # 0 /\ m \in 1 .. n
  BY <1>2
<1>4. m - 1 \in T
  <2> SUFFICES ASSUME m - 1 \notin T PROVE FALSE
    OBVIOUS
  <2>1. m - 1 \in C
    BY <1>3
  <2> QED
    BY <2>1, <1>2, <1>3
<1> QED
  BY <1>2, <1>3, <1>4

\* The largest element of a set of indices.
LEMMA MaxOfIndices ==
  ASSUME NEW n \in Nat, NEW s \in SUBSET (1 .. n), s # {}
  PROVE  Max(s) \in s /\ \A x \in s : x <= Max(s)
<1> DEFINE C == {n - x : x \in s}
<1>1. C \subseteq Nat /\ C # {}
  OBVIOUS
<1>2. PICK m \in C : \A k \in C : m <= k
  <2> HIDE DEF C
  <2> QED BY <1>1, LeastNatural
<1>3. PICK y \in s : m = n - y
  BY <1>2
<1>4. \A x \in s : x <= y
  BY <1>2, <1>3
<1>5. \E z \in s : \A x \in s : x <= z
  BY <1>4
<1> QED
  BY <1>5 DEF Max

\* What is left without the largest index.
LEMMA FoldIndices ==
  ASSUME NEW n \in Nat
  PROVE  /\ \A s \in SUBSET (1 .. n) : s \ {Max(s)} \in SUBSET (1 .. n)
         /\ n > 0 => \A s \in SUBSET (1 .. n) : s # {} => s \ {Max(s)} \in SUBSET (1 .. (n - 1))
         /\ \A k \in 1 .. n : /\ Max(1 .. k) = k /\ 1 .. k # {}
                              /\ (1 .. k) \ {Max(1 .. k)} = 1 .. (k - 1)
<1>1. \A s \in SUBSET (1 .. n) : s \ {Max(s)} \in SUBSET (1 .. n)
  OBVIOUS
<1>2. ASSUME n > 0, NEW s \in SUBSET (1 .. n), s # {}
      PROVE  s \ {Max(s)} \in SUBSET (1 .. (n - 1))
  <2>1. Max(s) \in s /\ \A x \in s : x <= Max(s)
    BY <1>2, MaxOfIndices
  <2> DEFINE m == Max(s)
  <2>2. m \in s /\ \A x \in s : x <= m
    BY <2>1
  <2> HIDE DEF m
  <2>3. \A x \in s \ {m} : x \in 1 .. (n - 1)
    BY <2>2, <1>2
  <2> QED
    BY <2>3 DEF m
<1>3. ASSUME NEW k \in 1 .. n
      PROVE  /\ Max(1 .. k) = k /\ 1 .. k # {}
             /\ (1 .. k) \ {Max(1 .. k)} = 1 .. (k - 1)
  <2>1. k \in 1 .. k /\ k \in Nat
    OBVIOUS
  <2>2. Max(1 .. k) \in 1 .. k /\ \A x \in 1 .. k : x <= Max(1 .. k)
    BY <2>1, MaxOfIndices
  <2>3. Max(1 .. k) = k
    BY <2>1, <2>2
  <2> QED
    BY <2>1, <2>3
<1> QED
  BY <1>1, <1>2, <1>3

-----------------------------------------------------------------------------
(* Select keeps the rows of a set, in their order                          *)

SelectIter(list, S, n, g) ==
  g = [k \in 0 .. n |-> IF k = 0 THEN << >>
                        ELSE IF list[k] \in S THEN Append(g[k - 1], list[k]) ELSE g[k - 1]]

\* The recursive function of Select exists.
LEMMA SelectIterExists ==
  ASSUME NEW list, NEW S, NEW n \in Nat
  PROVE  \E g : SelectIter(list, S, n, g)
<1> DEFINE T == {k \in 0 .. n : \E g : SelectIter(list, S, k, g)}
<1>1. 0 \in T
  <2> DEFINE g == [k \in 0 .. 0 |-> << >>]
  <2>1. SelectIter(list, S, 0, g)
    BY DEF SelectIter
  <2> QED
    BY <2>1
<1>2. ASSUME NEW k \in 1 .. n, k - 1 \in T
      PROVE  k \in T
  <2>1. PICK g : SelectIter(list, S, k - 1, g)
    BY <1>2
  <2> DEFINE Step(i) == IF i = 0 THEN << >>
                        ELSE IF list[i] \in S THEN Append(g[i - 1], list[i]) ELSE g[i - 1]
             h == [i \in 0 .. k |-> Step(i)]
  <2>2. g = [i \in 0 .. (k - 1) |-> Step(i)]
    BY <2>1 DEF SelectIter
  <2>3. \A i \in 0 .. (k - 1) : h[i] = g[i]
    <3>1. 0 .. (k - 1) \subseteq 0 .. k
      OBVIOUS
    <3> HIDE DEF Step
    <3> QED
      BY <2>2, <3>1
  <2>4. \A i \in 0 .. k : i # 0 => h[i - 1] = g[i - 1]
    <3> HIDE DEF h
    <3> QED
      BY <2>3
  <2>5. h = [i \in 0 .. k |-> IF i = 0 THEN << >>
                              ELSE IF list[i] \in S THEN Append(h[i - 1], list[i]) ELSE h[i - 1]]
    <3>1. \A i \in 0 .. k :
            Step(i) = IF i = 0 THEN << >>
                      ELSE IF list[i] \in S THEN Append(h[i - 1], list[i]) ELSE h[i - 1]
      <4> HIDE DEF h
      <4> QED
        BY <2>4
    <3>2. h = [i \in 0 .. k |-> Step(i)]
      OBVIOUS
    <3> HIDE DEF h, Step
    <3> QED
      BY <3>1, <3>2
  <2> HIDE DEF h
  <2>6. SelectIter(list, S, k, h)
    BY <2>5 DEF SelectIter
  <2> QED
    BY <2>6
<1> HIDE DEF T
<1>3. n \in T
  BY <1>1, <1>2, IntervalInduction
<1> QED
  BY <1>3 DEF T

\* The rows selected from the first 0, 1, ... n rows.
RowByRow(f, list, S, n) ==
  /\ f[0] = << >>
  /\ \A k \in 1 .. n : f[k] = IF list[k] \in S THEN Append(f[k - 1], list[k]) ELSE f[k - 1]

\* Select, row by row.
LEMMA SelectRows ==
  ASSUME NEW list, NEW S, Len(list) \in Nat
  PROVE  \E f : RowByRow(f, list, S, Len(list)) /\ Select(list, S) = f[Len(list)]
<1> DEFINE n == Len(list)
           f == CHOOSE g : SelectIter(list, S, n, g)
<1>1. Select(list, S) = f[n]
  BY DEF Select, SelectIter
<1>2. SelectIter(list, S, n, f)
  BY SelectIterExists
<1> HIDE DEF f
<1>3. RowByRow(f, list, S, n)
  <2>1. 0 \in 0 .. n /\ \A k \in 1 .. n : k \in 0 .. n /\ k # 0
    OBVIOUS
  <2> HIDE DEF n
  <2> QED
    BY <1>2, <2>1 DEF RowByRow, SelectIter
<1> QED
  BY <1>1, <1>3

\* A pair of rows of one list is a pair of rows of another, in the same order.
InOrderOf(rows, list, k) ==
  \A i, j \in 1 .. Len(rows) :
    i < j => \E p, q \in 1 .. k : p < q /\ rows[i] = list[p] /\ rows[j] = list[q]

\* Select returns exactly the rows of the set, in the order of the list.
LEMMA SelectFacts ==
  ASSUME NEW X, NEW list \in Seq(X), NEW S
  PROVE  /\ Select(list, S) \in Seq(X)
         /\ Range(Select(list, S)) = Range(list) \cap S
         /\ InOrderOf(Select(list, S), list, Len(list))
<1> DEFINE n == Len(list)
<1>1. n \in Nat /\ DOMAIN list = 1 .. n
  BY LenProperties
<1>2. PICK f : RowByRow(f, list, S, n) /\ Select(list, S) = f[n]
  <2> HIDE DEF n
  <2> QED BY <1>1, SelectRows
<1> DEFINE Good(k) == /\ f[k] \in Seq(X)
                      /\ \A i \in 1 .. Len(f[k]) : f[k][i] \in S /\ \E p \in 1 .. k : f[k][i] = list[p]
                      /\ \A p \in 1 .. k : list[p] \in S => \E i \in 1 .. Len(f[k]) : f[k][i] = list[p]
                      /\ InOrderOf(f[k], list, k)
           T == {k \in 0 .. n : Good(k)}
<1> HIDE DEF n
<1>3. 0 \in T
  <2>1. f[0] = << >> /\ 1 .. Len(<< >>) = {} /\ 1 .. 0 = {} /\ << >> \in Seq(X) /\ 0 \in 0 .. n
    BY <1>1, <1>2 DEF RowByRow
  <2>2. Good(0)
    BY <2>1 DEF InOrderOf
  <2> QED
    BY <2>1, <2>2
<1>4. ASSUME NEW k \in 1 .. n, k - 1 \in T
      PROVE  k \in T
  <2> DEFINE old == f[k - 1]
             new == f[k]
             x == list[k]
  <2>1. /\ old \in Seq(X) /\ x \in X
        /\ \A i \in 1 .. Len(old) : old[i] \in S /\ \E p \in 1 .. (k - 1) : old[i] = list[p]
        /\ \A p \in 1 .. (k - 1) : list[p] \in S => \E i \in 1 .. Len(old) : old[i] = list[p]
        /\ InOrderOf(old, list, k - 1)
    BY <1>1, <1>4
  <2>2. new = IF x \in S THEN Append(old, x) ELSE old
    BY <1>2 DEF RowByRow
  <2>3. CASE x \notin S
    <3>1. new = old
      BY <2>2, <2>3
    <3> HIDE DEF old, new
    <3>2. Good(k)
      BY <2>1, <2>3, <3>1 DEF InOrderOf, new
    <3> QED
      BY <3>2
  <2>4. CASE x \in S
    <3>1. new = Append(old, x)
      BY <2>2, <2>4
    <3> HIDE DEF old, new
    <3>2. /\ new \in Seq(X) /\ Len(new) = Len(old) + 1 /\ Len(old) \in Nat
          /\ \A i \in 1 .. Len(old) : new[i] = old[i]
          /\ new[Len(old) + 1] = x
      BY <2>1, <3>1, AppendProperties, LenProperties
    <3>3. \A i \in 1 .. Len(new) : i \in 1 .. Len(old) \/ i = Len(old) + 1
      BY <3>2
    <3>4. \A p \in 1 .. k : p \in 1 .. (k - 1) \/ p = k
      OBVIOUS
    <3>5. \A p \in 1 .. (k - 1) : p \in 1 .. k /\ p < k
      OBVIOUS
    <3>6. \A i \in 1 .. Len(new) : new[i] \in S /\ \E p \in 1 .. k : new[i] = list[p]
      <4> SUFFICES ASSUME NEW i \in 1 .. Len(new)
                   PROVE  new[i] \in S /\ \E p \in 1 .. k : new[i] = list[p]
        OBVIOUS
      <4>1. CASE i \in 1 .. Len(old)
        <5>1. PICK p \in 1 .. (k - 1) : old[i] = list[p]
          BY <2>1, <4>1
        <5>2. p \in 1 .. k /\ new[i] = old[i] /\ old[i] \in S
          BY <2>1, <3>2, <3>5, <4>1
        <5> QED
          BY <5>1, <5>2
      <4>2. CASE i = Len(old) + 1
        BY <2>4, <3>2, <4>2
      <4> QED
        BY <3>3, <4>1, <4>2
    <3>7. \A p \in 1 .. k : list[p] \in S => \E i \in 1 .. Len(new) : new[i] = list[p]
      BY <2>1, <2>4, <3>2, <3>4
    <3>8. InOrderOf(new, list, k)
      <4> SUFFICES ASSUME NEW i \in 1 .. Len(new), NEW j \in 1 .. Len(new), i < j
                   PROVE  \E p, q \in 1 .. k : p < q /\ new[i] = list[p] /\ new[j] = list[q]
        BY DEF InOrderOf
      <4>1. i \in 1 .. Len(old)
        BY <3>2
      <4>2. CASE j \in 1 .. Len(old)
        <5>1. PICK p \in 1 .. (k - 1), q \in 1 .. (k - 1) :
                p < q /\ old[i] = list[p] /\ old[j] = list[q]
          BY <2>1, <4>1, <4>2 DEF InOrderOf
        <5> QED
          BY <3>2, <3>5, <4>1, <4>2, <5>1
      <4>3. CASE j = Len(old) + 1
        <5>1. PICK p \in 1 .. (k - 1) : old[i] = list[p]
          BY <2>1, <4>1
        <5>2. p \in 1 .. k /\ k \in 1 .. k /\ p < k
          BY <3>5
        <5>3. new[i] = list[p] /\ new[j] = list[k]
          BY <3>2, <4>1, <4>3, <5>1
        <5> QED
          BY <5>2, <5>3
      <4> QED
        BY <3>3, <4>2, <4>3
    <3>9. Good(k)
      BY <3>2, <3>6, <3>7, <3>8 DEF new
    <3> QED
      BY <3>9
  <2> QED
    BY <2>3, <2>4
<1>5. n \in T
  <2> HIDE DEF T
  <2> QED BY <1>1, <1>3, <1>4, IntervalInduction
<1> DEFINE sel == Select(list, S)
<1>6. /\ sel \in Seq(X)
      /\ \A i \in 1 .. Len(sel) : sel[i] \in S /\ \E p \in 1 .. n : sel[i] = list[p]
      /\ \A p \in 1 .. n : list[p] \in S => \E i \in 1 .. Len(sel) : sel[i] = list[p]
      /\ InOrderOf(sel, list, n)
  BY <1>2, <1>5
<1> HIDE DEF sel
<1>7. DOMAIN sel = 1 .. Len(sel)
  BY <1>6, LenProperties
<1>8. Range(sel) = Range(list) \cap S
  <2>1. Range(sel) = {sel[i] : i \in 1 .. Len(sel)} /\ Range(list) = {list[p] : p \in 1 .. n}
    BY <1>1, <1>7 DEF Range
  <2>2. ASSUME NEW x PROVE x \in Range(sel) <=> x \in Range(list) \cap S
    BY <2>1, <1>6
  <2> QED
    BY <2>2
<1> QED
  BY <1>6, <1>8 DEF sel, n

-----------------------------------------------------------------------------
(* An import inserts its rows one by one                                   *)

SitesIter(list, d, n, g) ==
  g = [s \in SUBSET (1 .. n) |->
         IF s = {} THEN d ELSE InsertSite(g[s \ {Max(s)}], list[Max(s)])]

\* The recursive function behind FoldLeft exists.
LEMMA SitesIterExists ==
  ASSUME NEW list, NEW d, NEW n \in Nat
  PROVE  \E g : SitesIter(list, d, n, g)
<1> DEFINE T == {k \in 0 .. n : \E g : SitesIter(list, d, k, g)}
<1>1. 0 \in T
  <2> DEFINE g == [s \in SUBSET (1 .. 0) |-> d]
  <2>1. \A s \in SUBSET (1 .. 0) : s = {}
    OBVIOUS
  <2>2. SitesIter(list, d, 0, g)
    BY <2>1 DEF SitesIter
  <2> QED
    BY <2>2
<1>2. ASSUME NEW k \in 1 .. n, k - 1 \in T
      PROVE  k \in T
  <2>1. PICK g : SitesIter(list, d, k - 1, g)
    BY <1>2
  <2> DEFINE m == k - 1
             Step(s) == IF s = {} THEN d ELSE InsertSite(g[s \ {Max(s)}], list[Max(s)])
             h == [s \in SUBSET (1 .. k) |-> Step(s)]
  <2>2. g = [s \in SUBSET (1 .. m) |-> Step(s)]
    BY <2>1 DEF SitesIter
  <2>3. \A s \in SUBSET (1 .. k) : s # {} => s \ {Max(s)} \in SUBSET (1 .. m)
    <3>1. k \in Nat /\ k > 0
      OBVIOUS
    <3> QED
      BY <3>1, FoldIndices
  <2>4. SUBSET (1 .. m) \subseteq SUBSET (1 .. k)
    <3>1. 1 .. m \subseteq 1 .. k
      OBVIOUS
    <3> QED
      BY <3>1
  <2>5. \A s \in SUBSET (1 .. m) : h[s] = g[s]
    <3> HIDE DEF Step, m
    <3> QED
      BY <2>2, <2>4
  <2>6. \A s \in SUBSET (1 .. k) : s # {} => h[s \ {Max(s)}] = g[s \ {Max(s)}]
    <3> HIDE DEF h, m
    <3> QED
      BY <2>3, <2>5
  <2>7. h = [s \in SUBSET (1 .. k) |->
               IF s = {} THEN d ELSE InsertSite(h[s \ {Max(s)}], list[Max(s)])]
    <3>1. \A s \in SUBSET (1 .. k) :
            Step(s) = IF s = {} THEN d ELSE InsertSite(h[s \ {Max(s)}], list[Max(s)])
      <4> HIDE DEF h
      <4> QED
        BY <2>6
    <3>2. h = [s \in SUBSET (1 .. k) |-> Step(s)]
      OBVIOUS
    <3> HIDE DEF h, Step
    <3> QED
      BY <3>1, <3>2
  <2> HIDE DEF h
  <2>8. SitesIter(list, d, k, h)
    BY <2>7 DEF SitesIter
  <2> QED
    BY <2>8
<1> HIDE DEF T
<1>3. n \in T
  BY <1>1, <1>2, IntervalInduction
<1> QED
  BY <1>3 DEF T

\* The database after 0, 1, ... n of the inserts, and after all of them.
SitesOneByOne(f, list, d, n) == f[0] = d /\ \A k \in 1 .. n : f[k] = InsertSite(f[k - 1], list[k])
InsertedSites(d, list) == FoldLeft(InsertSite, d, list)

\* The inserts of sites, row by row.
LEMMA InsertedSitesRows ==
  ASSUME NEW list, NEW d, NEW n \in Nat, DOMAIN list = 1 .. n
  PROVE  \E f : SitesOneByOne(f, list, d, n) /\ InsertedSites(d, list) = f[n]
<1> DEFINE g == CHOOSE g : SitesIter(list, d, n, g)
           f == [k \in 0 .. n |-> g[1 .. k]]
<1>1. InsertedSites(d, list) = g[1 .. n]
  BY DEF InsertedSites, FoldLeft, MapThenFoldSet, SitesIter
<1>2. SitesIter(list, d, n, g)
  BY SitesIterExists
<1> HIDE DEF g
<1>3. f[0] = d
  <2>1. 1 .. 0 = {} /\ {} \in SUBSET (1 .. n)
    OBVIOUS
  <2>2. g[{}] = d
    BY <1>2, <2>1 DEF SitesIter
  <2> QED
    BY <2>1, <2>2
<1>4. ASSUME NEW k \in 1 .. n
      PROVE  f[k] = InsertSite(f[k - 1], list[k])
  <2> DEFINE K == 1 .. k
             L == 1 .. (k - 1)
  <2>1. K \in SUBSET (1 .. n) /\ k \in 0 .. n /\ k - 1 \in 0 .. n
    OBVIOUS
  <2>2. Max(K) = k /\ K # {} /\ K \ {Max(K)} = L
    BY FoldIndices
  <2>3. f[k] = g[K] /\ f[k - 1] = g[L]
    BY <2>1
  <2> HIDE DEF K, L, f
  <2>4. g[K] = InsertSite(g[K \ {Max(K)}], list[Max(K)])
    BY <1>2, <2>1, <2>2 DEF SitesIter
  <2> QED
    BY <2>2, <2>3, <2>4
<1>5. InsertedSites(d, list) = f[n]
  BY <1>1
<1> HIDE DEF f
<1> QED
  BY <1>3, <1>4, <1>5 DEF SitesOneByOne

CertsIter(list, d, n, g) ==
  g = [s \in SUBSET (1 .. n) |->
         IF s = {} THEN d ELSE InsertCert(g[s \ {Max(s)}], list[Max(s)])]

\* The recursive function behind FoldLeft exists.
LEMMA CertsIterExists ==
  ASSUME NEW list, NEW d, NEW n \in Nat
  PROVE  \E g : CertsIter(list, d, n, g)
<1> DEFINE T == {k \in 0 .. n : \E g : CertsIter(list, d, k, g)}
<1>1. 0 \in T
  <2> DEFINE g == [s \in SUBSET (1 .. 0) |-> d]
  <2>1. \A s \in SUBSET (1 .. 0) : s = {}
    OBVIOUS
  <2>2. CertsIter(list, d, 0, g)
    BY <2>1 DEF CertsIter
  <2> QED
    BY <2>2
<1>2. ASSUME NEW k \in 1 .. n, k - 1 \in T
      PROVE  k \in T
  <2>1. PICK g : CertsIter(list, d, k - 1, g)
    BY <1>2
  <2> DEFINE m == k - 1
             Step(s) == IF s = {} THEN d ELSE InsertCert(g[s \ {Max(s)}], list[Max(s)])
             h == [s \in SUBSET (1 .. k) |-> Step(s)]
  <2>2. g = [s \in SUBSET (1 .. m) |-> Step(s)]
    BY <2>1 DEF CertsIter
  <2>3. \A s \in SUBSET (1 .. k) : s # {} => s \ {Max(s)} \in SUBSET (1 .. m)
    <3>1. k \in Nat /\ k > 0
      OBVIOUS
    <3> QED
      BY <3>1, FoldIndices
  <2>4. SUBSET (1 .. m) \subseteq SUBSET (1 .. k)
    <3>1. 1 .. m \subseteq 1 .. k
      OBVIOUS
    <3> QED
      BY <3>1
  <2>5. \A s \in SUBSET (1 .. m) : h[s] = g[s]
    <3> HIDE DEF Step, m
    <3> QED
      BY <2>2, <2>4
  <2>6. \A s \in SUBSET (1 .. k) : s # {} => h[s \ {Max(s)}] = g[s \ {Max(s)}]
    <3> HIDE DEF h, m
    <3> QED
      BY <2>3, <2>5
  <2>7. h = [s \in SUBSET (1 .. k) |->
               IF s = {} THEN d ELSE InsertCert(h[s \ {Max(s)}], list[Max(s)])]
    <3>1. \A s \in SUBSET (1 .. k) :
            Step(s) = IF s = {} THEN d ELSE InsertCert(h[s \ {Max(s)}], list[Max(s)])
      <4> HIDE DEF h
      <4> QED
        BY <2>6
    <3>2. h = [s \in SUBSET (1 .. k) |-> Step(s)]
      OBVIOUS
    <3> HIDE DEF h, Step
    <3> QED
      BY <3>1, <3>2
  <2> HIDE DEF h
  <2>8. CertsIter(list, d, k, h)
    BY <2>7 DEF CertsIter
  <2> QED
    BY <2>8
<1> HIDE DEF T
<1>3. n \in T
  BY <1>1, <1>2, IntervalInduction
<1> QED
  BY <1>3 DEF T

\* The database after 0, 1, ... n of the inserts, and after all of them.
CertsOneByOne(f, list, d, n) == f[0] = d /\ \A k \in 1 .. n : f[k] = InsertCert(f[k - 1], list[k])
InsertedCerts(d, list) == FoldLeft(InsertCert, d, list)

\* The inserts of certificates, row by row.
LEMMA InsertedCertsRows ==
  ASSUME NEW list, NEW d, NEW n \in Nat, DOMAIN list = 1 .. n
  PROVE  \E f : CertsOneByOne(f, list, d, n) /\ InsertedCerts(d, list) = f[n]
<1> DEFINE g == CHOOSE g : CertsIter(list, d, n, g)
           f == [k \in 0 .. n |-> g[1 .. k]]
<1>1. InsertedCerts(d, list) = g[1 .. n]
  BY DEF InsertedCerts, FoldLeft, MapThenFoldSet, CertsIter
<1>2. CertsIter(list, d, n, g)
  BY CertsIterExists
<1> HIDE DEF g
<1>3. f[0] = d
  <2>1. 1 .. 0 = {} /\ {} \in SUBSET (1 .. n)
    OBVIOUS
  <2>2. g[{}] = d
    BY <1>2, <2>1 DEF CertsIter
  <2> QED
    BY <2>1, <2>2
<1>4. ASSUME NEW k \in 1 .. n
      PROVE  f[k] = InsertCert(f[k - 1], list[k])
  <2> DEFINE K == 1 .. k
             L == 1 .. (k - 1)
  <2>1. K \in SUBSET (1 .. n) /\ k \in 0 .. n /\ k - 1 \in 0 .. n
    OBVIOUS
  <2>2. Max(K) = k /\ K # {} /\ K \ {Max(K)} = L
    BY FoldIndices
  <2>3. f[k] = g[K] /\ f[k - 1] = g[L]
    BY <2>1
  <2> HIDE DEF K, L, f
  <2>4. g[K] = InsertCert(g[K \ {Max(K)}], list[Max(K)])
    BY <1>2, <2>1, <2>2 DEF CertsIter
  <2> QED
    BY <2>2, <2>3, <2>4
<1>5. InsertedCerts(d, list) = f[n]
  BY <1>1
<1> HIDE DEF f
<1> QED
  BY <1>3, <1>4, <1>5 DEF CertsOneByOne

\* A database whose revision may be any number.
Db == [schema: 0 .. LatestSchema, revision: Nat, seeded: BOOLEAN, sites: Seq(SiteRow),
       certs: Seq(CertRow), siteSeq: Nat, certSeq: Nat, settings: Settings]

\* An input and an id make a row.
LEMMA RowTypes ==
  /\ \A id \in Nat : \A in \in SiteInputs : Site(id, in) \in SiteRow /\ Site(id, in).id = id
  /\ \A id \in Nat : \A in \in CertInputs : Cert(id, in) \in CertRow /\ Cert(id, in).id = id
  /\ DefaultSettings \in Settings /\ ExampleSite \in SiteInputs /\ ExampleCert \in CertInputs
  /\ \A b \in Backups : /\ b.sites \in Seq(SiteInputs) /\ b.certs \in Seq(CertInputs)
                        /\ b.settings \in Settings
<1> USE ConfigAssumption
<1>1. \A id \in Nat : \A in \in SiteInputs : Site(id, in) \in SiteRow /\ Site(id, in).id = id
  BY DEF Site, SiteRow
<1>2. \A id \in Nat : \A in \in CertInputs : Cert(id, in) \in CertRow /\ Cert(id, in).id = id
  BY DEF Cert, CertRow, Pems
<1> QED
  BY <1>1, <1>2

\* What one insert does to each column.
LEMMA InsertFacts ==
  ASSUME NEW d \in Db
  PROVE  /\ \A in \in SiteInputs :
              LET e == InsertSite(d, in)
              IN /\ e \in Db /\ e.sites = Append(d.sites, Site(d.siteSeq + 1, in))
                 /\ e.siteSeq = d.siteSeq + 1
                 /\ e.schema = d.schema /\ e.revision = d.revision /\ e.seeded = d.seeded
                 /\ e.certs = d.certs /\ e.certSeq = d.certSeq /\ e.settings = d.settings
         /\ \A in \in CertInputs :
              LET e == InsertCert(d, in)
              IN /\ e \in Db /\ e.certs = Append(d.certs, Cert(d.certSeq + 1, in))
                 /\ e.certSeq = d.certSeq + 1
                 /\ e.schema = d.schema /\ e.revision = d.revision /\ e.seeded = d.seeded
                 /\ e.sites = d.sites /\ e.siteSeq = d.siteSeq /\ e.settings = d.settings
<1>1. ASSUME NEW in \in SiteInputs
      PROVE  Append(d.sites, Site(d.siteSeq + 1, in)) \in Seq(SiteRow) /\ d.siteSeq + 1 \in Nat
  <2>1. d.siteSeq + 1 \in Nat /\ d.sites \in Seq(SiteRow)
    BY DEF Db
  <2>2. Site(d.siteSeq + 1, in) \in SiteRow
    BY <2>1, RowTypes
  <2> QED
    BY <2>1, <2>2, AppendProperties
<1>2. ASSUME NEW in \in CertInputs
      PROVE  Append(d.certs, Cert(d.certSeq + 1, in)) \in Seq(CertRow) /\ d.certSeq + 1 \in Nat
  <2>1. d.certSeq + 1 \in Nat /\ d.certs \in Seq(CertRow)
    BY DEF Db
  <2>2. Cert(d.certSeq + 1, in) \in CertRow
    BY <2>1, RowTypes
  <2> QED
    BY <2>1, <2>2, AppendProperties
<1> QED
  BY <1>1, <1>2 DEF Db, InsertSite, InsertCert

\* Into an empty table: the rows are numbered on from the sequence.
LEMMA ImportedSites ==
  ASSUME NEW d \in Db, d.sites = << >>, NEW list \in Seq(SiteInputs)
  PROVE  LET e == InsertedSites(d, list)
         IN /\ e \in Db /\ e.sites = [i \in 1 .. Len(list) |-> Site(d.siteSeq + i, list[i])]
            /\ e.siteSeq = d.siteSeq + Len(list)
            /\ e.schema = d.schema /\ e.revision = d.revision /\ e.seeded = d.seeded
            /\ e.certs = d.certs /\ e.certSeq = d.certSeq /\ e.settings = d.settings
<1> DEFINE n == Len(list)
<1>1. n \in Nat /\ DOMAIN list = 1 .. n /\ \A k \in 1 .. n : list[k] \in SiteInputs
  BY LenProperties
<1>2. PICK f : SitesOneByOne(f, list, d, n) /\ InsertedSites(d, list) = f[n]
  <2> HIDE DEF n
  <2> QED BY <1>1, InsertedSitesRows
<1> DEFINE Good(k) ==
             /\ f[k] \in Db /\ f[k].sites = [i \in 1 .. k |-> Site(d.siteSeq + i, list[i])]
             /\ f[k].siteSeq = d.siteSeq + k
             /\ f[k].schema = d.schema /\ f[k].revision = d.revision /\ f[k].seeded = d.seeded
             /\ f[k].certs = d.certs /\ f[k].certSeq = d.certSeq /\ f[k].settings = d.settings
           T == {k \in 0 .. n : Good(k)}
<1> HIDE DEF n
<1>3. 0 \in T
  <2>1. [i \in 1 .. 0 |-> Site(d.siteSeq + i, list[i])] = << >> /\ 0 \in 0 .. n
    BY <1>1
  <2>2. d.siteSeq + 0 = d.siteSeq
    BY DEF Db
  <2> QED
    BY <1>2, <2>1, <2>2 DEF SitesOneByOne
<1>4. ASSUME NEW k \in 1 .. n, k - 1 \in T
      PROVE  k \in T
  <2> DEFINE old == f[k - 1]
             new == f[k]
             row == Site(d.siteSeq + k, list[k])
  <2>1. Good(k - 1) /\ k \in 0 .. n /\ d.siteSeq \in Nat
    BY <1>4 DEF Db
  <2>2. new = InsertSite(old, list[k]) /\ list[k] \in SiteInputs /\ old \in Db
    BY <1>1, <1>2, <2>1 DEF SitesOneByOne
  <2>3. /\ new \in Db /\ new.sites = Append(old.sites, Site(old.siteSeq + 1, list[k]))
        /\ new.siteSeq = old.siteSeq + 1
        /\ new.schema = old.schema /\ new.revision = old.revision /\ new.seeded = old.seeded
        /\ new.certs = old.certs /\ new.certSeq = old.certSeq /\ new.settings = old.settings
    <3> HIDE DEF old, new
    <3> QED BY <2>2, InsertFacts
  <2>4. old.siteSeq + 1 = d.siteSeq + k
    BY <2>1
  <2>5. new.sites = [i \in 1 .. k |-> Site(d.siteSeq + i, list[i])]
    <3> DEFINE rows == [i \in 1 .. (k - 1) |-> Site(d.siteSeq + i, list[i])]
               more == [i \in 1 .. k |-> Site(d.siteSeq + i, list[i])]
    <3>1. new.sites = Append(rows, row) /\ rows \in Seq(SiteRow)
      <4>1. old.sites = rows /\ old.sites \in Seq(SiteRow)
        BY <2>1 DEF Db
      <4> QED
        BY <2>3, <2>4, <4>1
    <3>2. Append(rows, row) = more
      <4>1. Len(rows) = k - 1
        BY <3>1
      <4>2. \A i \in 1 .. (k - 1) : rows[i] = more[i]
        OBVIOUS
      <4>3. more[k] = row
        OBVIOUS
      <4>4. DOMAIN more = 1 .. k /\ more = [i \in 1 .. k |-> more[i]]
        OBVIOUS
      <4> HIDE DEF rows, more, row
      <4> DEFINE app == Append(rows, row)
      <4>5. /\ app \in Seq(SiteRow) /\ Len(app) = k
            /\ \A i \in 1 .. (k - 1) : app[i] = rows[i]
            /\ app[k] = row
        <5>1. row \in SiteRow
          BY <2>1, <2>2, RowTypes DEF row
        <5> QED
          BY <3>1, <4>1, <5>1, AppendProperties
      <4> HIDE DEF app
      <4>6. DOMAIN app = 1 .. k /\ app = [i \in 1 .. k |-> app[i]]
        BY <4>5, LenProperties
      <4>7. \A i \in 1 .. k : app[i] = more[i]
        <5> SUFFICES ASSUME NEW i \in 1 .. k PROVE app[i] = more[i]
          OBVIOUS
        <5>1. i \in 1 .. (k - 1) \/ i = k
          OBVIOUS
        <5> QED
          BY <4>2, <4>3, <4>5, <5>1
      <4>8. app = more
        BY <4>4, <4>6, <4>7
      <4> QED
        BY <4>8 DEF app
    <3> QED
      BY <3>1, <3>2
  <2>6. Good(k)
    <3> HIDE DEF row
    <3> QED BY <2>1, <2>3, <2>4, <2>5
  <2> QED
    BY <2>1, <2>6
<1>5. n \in T
  <2>1. n \in Nat /\ n \in 0 .. n
    BY <1>1
  <2> HIDE DEF T
  <2>2. \A k \in 1 .. n : k - 1 \in T => k \in T
    BY <1>4
  <2>3. \A k \in 0 .. n : k \in T
    BY <2>1, <2>2, <1>3, IntervalInduction
  <2> QED BY <2>1, <2>3
<1> QED
  BY <1>2, <1>5 DEF n

\* The same of certificates.
LEMMA ImportedCerts ==
  ASSUME NEW d \in Db, d.certs = << >>, NEW list \in Seq(CertInputs)
  PROVE  LET e == InsertedCerts(d, list)
         IN /\ e \in Db /\ e.certs = [i \in 1 .. Len(list) |-> Cert(d.certSeq + i, list[i])]
            /\ e.certSeq = d.certSeq + Len(list)
            /\ e.schema = d.schema /\ e.revision = d.revision /\ e.seeded = d.seeded
            /\ e.sites = d.sites /\ e.siteSeq = d.siteSeq /\ e.settings = d.settings
<1> DEFINE n == Len(list)
<1>1. n \in Nat /\ DOMAIN list = 1 .. n /\ \A k \in 1 .. n : list[k] \in CertInputs
  BY LenProperties
<1>2. PICK f : CertsOneByOne(f, list, d, n) /\ InsertedCerts(d, list) = f[n]
  <2> HIDE DEF n
  <2> QED BY <1>1, InsertedCertsRows
<1> DEFINE Good(k) ==
             /\ f[k] \in Db /\ f[k].certs = [i \in 1 .. k |-> Cert(d.certSeq + i, list[i])]
             /\ f[k].certSeq = d.certSeq + k
             /\ f[k].schema = d.schema /\ f[k].revision = d.revision /\ f[k].seeded = d.seeded
             /\ f[k].sites = d.sites /\ f[k].siteSeq = d.siteSeq /\ f[k].settings = d.settings
           T == {k \in 0 .. n : Good(k)}
<1> HIDE DEF n
<1>3. 0 \in T
  <2>1. [i \in 1 .. 0 |-> Cert(d.certSeq + i, list[i])] = << >> /\ 0 \in 0 .. n
    BY <1>1
  <2>2. d.certSeq + 0 = d.certSeq
    BY DEF Db
  <2> QED
    BY <1>2, <2>1, <2>2 DEF CertsOneByOne
<1>4. ASSUME NEW k \in 1 .. n, k - 1 \in T
      PROVE  k \in T
  <2> DEFINE old == f[k - 1]
             new == f[k]
             row == Cert(d.certSeq + k, list[k])
  <2>1. Good(k - 1) /\ k \in 0 .. n /\ d.certSeq \in Nat
    BY <1>4 DEF Db
  <2>2. new = InsertCert(old, list[k]) /\ list[k] \in CertInputs /\ old \in Db
    BY <1>1, <1>2, <2>1 DEF CertsOneByOne
  <2>3. /\ new \in Db /\ new.certs = Append(old.certs, Cert(old.certSeq + 1, list[k]))
        /\ new.certSeq = old.certSeq + 1
        /\ new.schema = old.schema /\ new.revision = old.revision /\ new.seeded = old.seeded
        /\ new.sites = old.sites /\ new.siteSeq = old.siteSeq /\ new.settings = old.settings
    <3> HIDE DEF old, new
    <3> QED BY <2>2, InsertFacts
  <2>4. old.certSeq + 1 = d.certSeq + k
    BY <2>1
  <2>5. new.certs = [i \in 1 .. k |-> Cert(d.certSeq + i, list[i])]
    <3> DEFINE rows == [i \in 1 .. (k - 1) |-> Cert(d.certSeq + i, list[i])]
               more == [i \in 1 .. k |-> Cert(d.certSeq + i, list[i])]
    <3>1. new.certs = Append(rows, row) /\ rows \in Seq(CertRow)
      <4>1. old.certs = rows /\ old.certs \in Seq(CertRow)
        BY <2>1 DEF Db
      <4> QED
        BY <2>3, <2>4, <4>1
    <3>2. Append(rows, row) = more
      <4>1. Len(rows) = k - 1
        BY <3>1
      <4>2. \A i \in 1 .. (k - 1) : rows[i] = more[i]
        OBVIOUS
      <4>3. more[k] = row
        OBVIOUS
      <4>4. DOMAIN more = 1 .. k /\ more = [i \in 1 .. k |-> more[i]]
        OBVIOUS
      <4> HIDE DEF rows, more, row
      <4> DEFINE app == Append(rows, row)
      <4>5. /\ app \in Seq(CertRow) /\ Len(app) = k
            /\ \A i \in 1 .. (k - 1) : app[i] = rows[i]
            /\ app[k] = row
        <5>1. row \in CertRow
          BY <2>1, <2>2, RowTypes DEF row
        <5> QED
          BY <3>1, <4>1, <5>1, AppendProperties
      <4> HIDE DEF app
      <4>6. DOMAIN app = 1 .. k /\ app = [i \in 1 .. k |-> app[i]]
        BY <4>5, LenProperties
      <4>7. \A i \in 1 .. k : app[i] = more[i]
        <5> SUFFICES ASSUME NEW i \in 1 .. k PROVE app[i] = more[i]
          OBVIOUS
        <5>1. i \in 1 .. (k - 1) \/ i = k
          OBVIOUS
        <5> QED
          BY <4>2, <4>3, <4>5, <5>1
      <4>8. app = more
        BY <4>4, <4>6, <4>7
      <4> QED
        BY <4>8 DEF app
    <3> QED
      BY <3>1, <3>2
  <2>6. Good(k)
    <3> HIDE DEF row
    <3> QED BY <2>1, <2>3, <2>4, <2>5
  <2> QED
    BY <2>1, <2>6
<1>5. n \in T
  <2>1. n \in Nat /\ n \in 0 .. n
    BY <1>1
  <2> HIDE DEF T
  <2>2. \A k \in 1 .. n : k - 1 \in T => k \in T
    BY <1>4
  <2>3. \A k \in 0 .. n : k \in T
    BY <2>1, <2>2, <1>3, IntervalInduction
  <2> QED BY <2>1, <2>3
<1> QED
  BY <1>2, <1>5 DEF n

\* An import leaves the rows of the backup, numbered on from the sequences.
LEMMA ImportFacts ==
  ASSUME NEW d \in Db, NEW b \in Backups
  PROVE  LET e == ReplaceConfiguration(d, b)
         IN /\ e \in Db
            /\ e.sites = [i \in 1 .. Len(b.sites) |-> Site(d.siteSeq + i, b.sites[i])]
            /\ e.certs = [i \in 1 .. Len(b.certs) |-> Cert(d.certSeq + i, b.certs[i])]
            /\ e.siteSeq = d.siteSeq + Len(b.sites) /\ e.certSeq = d.certSeq + Len(b.certs)
            /\ e.settings = b.settings
            /\ e.schema = d.schema /\ e.revision = d.revision /\ e.seeded = d.seeded
<1> DEFINE emptied == [d EXCEPT !.sites = << >>, !.certs = << >>]
           withSites == InsertedSites(emptied, b.sites)
           withCerts == InsertedCerts(withSites, b.certs)
<1>1. b.sites \in Seq(SiteInputs) /\ b.certs \in Seq(CertInputs) /\ b.settings \in Settings
  BY RowTypes
<1>2. /\ emptied \in Db /\ emptied.sites = << >> /\ emptied.certs = << >>
      /\ emptied.siteSeq = d.siteSeq /\ emptied.certSeq = d.certSeq
      /\ emptied.schema = d.schema /\ emptied.revision = d.revision /\ emptied.seeded = d.seeded
  <2>1. << >> \in Seq(SiteRow) /\ << >> \in Seq(CertRow)
    BY EmptySeq
  <2> QED
    BY <2>1 DEF Db
<1> HIDE DEF emptied
<1>3. /\ withSites \in Db
      /\ withSites.sites = [i \in 1 .. Len(b.sites) |-> Site(d.siteSeq + i, b.sites[i])]
      /\ withSites.siteSeq = d.siteSeq + Len(b.sites)
      /\ withSites.certs = << >> /\ withSites.certSeq = d.certSeq
      /\ withSites.schema = d.schema /\ withSites.revision = d.revision
      /\ withSites.seeded = d.seeded
  BY <1>1, <1>2, ImportedSites
<1> HIDE DEF withSites
<1>4. /\ withCerts \in Db
      /\ withCerts.certs = [i \in 1 .. Len(b.certs) |-> Cert(d.certSeq + i, b.certs[i])]
      /\ withCerts.certSeq = d.certSeq + Len(b.certs)
      /\ withCerts.sites = withSites.sites /\ withCerts.siteSeq = withSites.siteSeq
      /\ withCerts.schema = d.schema /\ withCerts.revision = d.revision
      /\ withCerts.seeded = d.seeded
  BY <1>1, <1>3, ImportedCerts
<1>5. ReplaceConfiguration(d, b) = [withCerts EXCEPT !.settings = b.settings]
  BY DEF ReplaceConfiguration, InsertedSites, InsertedCerts, withSites, emptied
<1> HIDE DEF withCerts
<1> DEFINE e == ReplaceConfiguration(d, b)
<1>6. /\ e \in Db /\ e.sites = withCerts.sites /\ e.certs = withCerts.certs
      /\ e.siteSeq = withCerts.siteSeq /\ e.certSeq = withCerts.certSeq
      /\ e.settings = b.settings
      /\ e.schema = withCerts.schema /\ e.revision = withCerts.revision
      /\ e.seeded = withCerts.seeded
  BY <1>1, <1>4, <1>5 DEF Db
<1> HIDE DEF e
<1> QED
  BY <1>3, <1>4, <1>6 DEF e

-----------------------------------------------------------------------------
(* The edits of a list, by the rows they leave                             *)

\* The rows of a list have the type of the list.
LEMMA RowsOfList ==
  ASSUME NEW X, NEW list \in Seq(X)
  PROVE  /\ Range(list) \subseteq X /\ DOMAIN list = 1 .. Len(list) /\ Len(list) \in Nat
         /\ \A x : x \in Range(list) <=> \E i \in 1 .. Len(list) : list[i] = x
BY LenProperties, ElementOfSeq DEF Range

\* A list rewritten row by row.
LEMMA MappedList ==
  ASSUME NEW X, NEW Y, NEW list \in Seq(X), NEW new,
         DOMAIN new = DOMAIN list, new = [i \in DOMAIN list |-> new[i]],
         \A i \in DOMAIN list : new[i] \in Y
  PROVE  new \in Seq(Y) /\ Len(new) = Len(list)
<1>1. DOMAIN list = 1 .. Len(list) /\ Len(list) \in Nat
  BY LenProperties
<1>2. new \in [1 .. Len(list) -> Y]
  BY <1>1
<1> QED
  BY <1>1, <1>2, IsASeq

\* An appended row.
LEMMA AppendRange ==
  ASSUME NEW X, NEW list \in Seq(X), NEW x \in X
  PROVE  Append(list, x) \in Seq(X) /\ Range(Append(list, x)) = Range(list) \cup {x}
<1> DEFINE new == Append(list, x)
<1>1. /\ new \in Seq(X) /\ Len(new) = Len(list) + 1 /\ Len(list) \in Nat
      /\ \A i \in 1 .. Len(list) : new[i] = list[i]
      /\ new[Len(list) + 1] = x
  BY AppendProperties, LenProperties
<1> HIDE DEF new
<1>2. ASSUME NEW y PROVE y \in Range(new) <=> y \in Range(list) \cup {x}
  <2>1. y \in Range(new) <=> \E i \in 1 .. Len(new) : new[i] = y
    BY <1>1, RowsOfList
  <2>2. y \in Range(list) <=> \E i \in 1 .. Len(list) : list[i] = y
    BY RowsOfList
  <2>3. ASSUME y \in Range(new) PROVE y \in Range(list) \cup {x}
    <3>1. PICK i \in 1 .. Len(new) : new[i] = y
      BY <2>1, <2>3
    <3>2. i \in 1 .. Len(list) \/ i = Len(list) + 1
      BY <1>1
    <3> QED
      BY <1>1, <2>2, <3>1, <3>2
  <2>4. ASSUME y \in Range(list) PROVE y \in Range(new)
    BY <1>1, <2>1, <2>2, <2>4
  <2>5. x \in Range(new)
    <3>1. Len(list) + 1 \in 1 .. Len(new)
      BY <1>1
    <3> QED
      BY <1>1, <3>1, RowsOfList
  <2> QED
    BY <2>3, <2>4, <2>5
<1> QED
  BY <1>1, <1>2 DEF new

PutOver(r, x) == IF x.id = r.id THEN r ELSE x

\* A row in the place of the one with its id.
LEMMA ReplacedFacts ==
  ASSUME NEW X, NEW list \in Seq(X), NEW r \in X
  PROVE  /\ Replaced(list, r) \in Seq(X) /\ Len(Replaced(list, r)) = Len(list)
         /\ \A i \in DOMAIN list : Replaced(list, r)[i].id = list[i].id
         /\ Range(Replaced(list, r)) = {PutOver(r, x) : x \in Range(list)}
<1> DEFINE new == Replaced(list, r)
<1>1. /\ DOMAIN new = DOMAIN list /\ new = [i \in DOMAIN list |-> new[i]]
      /\ \A i \in DOMAIN list : new[i] = PutOver(r, list[i])
  BY DEF Replaced, PutOver
<1>2. \A i \in DOMAIN list : list[i] \in X
  BY RowsOfList, ElementOfSeq
<1> HIDE DEF new
<1>3. new \in Seq(X) /\ Len(new) = Len(list)
  <2>1. \A i \in DOMAIN list : new[i] \in X
    BY <1>1, <1>2 DEF PutOver
  <2> QED
    BY <1>1, <2>1, MappedList
<1>4. Range(new) = {PutOver(r, x) : x \in Range(list)}
  BY <1>1 DEF Range
<1>5. \A i \in DOMAIN list : new[i].id = list[i].id
  BY <1>1 DEF PutOver
<1> QED
  BY <1>3, <1>4, <1>5 DEF new

\* No default among the certificates.
LEMMA ClearDefaultFacts ==
  ASSUME NEW list \in Seq(CertRow)
  PROVE  /\ ClearDefault(list) \in Seq(CertRow) /\ Len(ClearDefault(list)) = Len(list)
         /\ \A i \in DOMAIN list : ClearDefault(list)[i].id = list[i].id
         /\ Range(ClearDefault(list)) = {[x EXCEPT !.default = FALSE] : x \in Range(list)}
<1> DEFINE new == ClearDefault(list)
<1>1. /\ DOMAIN new = DOMAIN list /\ new = [i \in DOMAIN list |-> new[i]]
      /\ \A i \in DOMAIN list : new[i] = [list[i] EXCEPT !.default = FALSE]
  BY DEF ClearDefault
<1>2. \A i \in DOMAIN list : list[i] \in CertRow
  BY RowsOfList, ElementOfSeq
<1> HIDE DEF new
<1>3. \A i \in DOMAIN list : new[i] \in CertRow /\ new[i].id = list[i].id
  BY <1>1, <1>2, ZenonT(60) DEF CertRow
<1>4. new \in Seq(CertRow) /\ Len(new) = Len(list)
  BY <1>1, <1>3, MappedList
<1>5. Range(new) = {[x EXCEPT !.default = FALSE] : x \in Range(list)}
  <2> DEFINE D(x) == [x EXCEPT !.default = FALSE]
  <2>1. \A i \in DOMAIN list : new[i] = D(list[i])
    BY <1>1
  <2> HIDE DEF D
  <2>2. Range(new) = {D(x) : x \in Range(list)}
    BY <1>1, <2>1 DEF Range
  <2> QED
    BY <2>2 DEF D
<1> QED
  BY <1>3, <1>4, <1>5 DEF new

\* The rows with other ids.
LEMMA WithoutFacts ==
  ASSUME NEW X, NEW list \in Seq(X), NEW id
  PROVE  /\ Without(list, id) \in Seq(X)
         /\ Range(Without(list, id)) = {x \in Range(list) : x.id # id}
         /\ InOrderOf(Without(list, id), list, Len(list))
<1> DEFINE S == {x \in Range(list) : x.id # id}
<1>1. Range(list) \cap S = S
  OBVIOUS
<1>2. Without(list, id) = Select(list, S)
  BY DEF Without
<1> HIDE DEF S
<1>3. /\ Select(list, S) \in Seq(X) /\ Range(Select(list, S)) = Range(list) \cap S
      /\ InOrderOf(Select(list, S), list, Len(list))
  BY SelectFacts
<1>4. /\ Without(list, id) \in Seq(X) /\ Range(Without(list, id)) = S
      /\ InOrderOf(Without(list, id), list, Len(list))
  BY <1>1, <1>2, <1>3
<1> QED
  BY <1>4 DEF S

-----------------------------------------------------------------------------
(* A runtime configuration depends on the rows, not on their order         *)

\* What list_sites, list_certificates and runtime_settings read from a database.
ListsOf(d) ==
  [sites |-> d.sites,
   certs |-> LET defaults == {c \in Range(d.certs) : c.default}
             IN Select(d.certs, defaults) \o Select(d.certs, Range(d.certs) \ defaults),
   settings |-> d.settings]

\* list_certificates returns every row once more, in another order.
LEMMA ListsFacts ==
  ASSUME NEW d \in Db
  PROVE  /\ ListsOf(d).sites = d.sites /\ d.sites \in Seq(SiteRow)
         /\ ListsOf(d).certs \in Seq(CertRow) /\ Range(ListsOf(d).certs) = Range(d.certs)
         /\ d.certs \in Seq(CertRow)
         /\ ListsOf(d).settings = d.settings /\ d.settings \in Settings
<1> DEFINE R == Range(d.certs)
           D == {c \in R : c.default}
           a == Select(d.certs, D)
           b == Select(d.certs, R \ D)
<1>1. d.certs \in Seq(CertRow) /\ d.sites \in Seq(SiteRow) /\ d.settings \in Settings
  BY DEF Db
<1>2. /\ ListsOf(d).certs = a \o b /\ ListsOf(d).sites = d.sites
      /\ ListsOf(d).settings = d.settings
  BY DEF ListsOf
<1>3. D \subseteq R
  OBVIOUS
<1> HIDE DEF D
<1>4. /\ a \in Seq(CertRow) /\ b \in Seq(CertRow)
      /\ Range(a) = R \cap D /\ Range(b) = R \cap (R \ D)
  BY <1>1, SelectFacts
<1> HIDE DEF a, b, R
<1>5. /\ a \o b \in Seq(CertRow) /\ Len(a \o b) = Len(a) + Len(b)
      /\ \A i \in 1 .. Len(a) : (a \o b)[i] = a[i]
      /\ \A i \in 1 .. Len(b) : (a \o b)[Len(a) + i] = b[i]
      /\ Len(a) \in Nat /\ Len(b) \in Nat
  BY <1>4, LenProperties, ConcatProperties
<1>6. Range(a \o b) = Range(a) \cup Range(b)
  <2> DEFINE c == a \o b
  <2>1. /\ c \in Seq(CertRow) /\ Len(c) = Len(a) + Len(b)
        /\ \A i \in 1 .. Len(a) : c[i] = a[i]
        /\ \A i \in 1 .. Len(b) : c[Len(a) + i] = b[i]
    BY <1>5
  <2> HIDE DEF c
  <2>2. /\ \A x : x \in Range(a) <=> \E i \in 1 .. Len(a) : a[i] = x
        /\ \A x : x \in Range(b) <=> \E i \in 1 .. Len(b) : b[i] = x
        /\ \A x : x \in Range(c) <=> \E i \in 1 .. Len(c) : c[i] = x
    BY <1>4, <2>1, RowsOfList
  <2>3. ASSUME NEW x \in Range(c) PROVE x \in Range(a) \cup Range(b)
    <3>1. PICK i \in 1 .. Len(c) : c[i] = x
      BY <2>2
    <3>2. CASE i \in 1 .. Len(a)
      BY <2>1, <2>2, <3>1, <3>2
    <3>3. CASE i \notin 1 .. Len(a)
      <4> DEFINE j == i - Len(a)
      <4>1. j \in 1 .. Len(b) /\ i = Len(a) + j
        BY <1>5, <2>1, <3>1, <3>3
      <4> QED
        BY <2>1, <2>2, <3>1, <4>1, ZenonT(60)
    <3> QED
      BY <3>2, <3>3
  <2>4. ASSUME NEW x \in Range(a) PROVE x \in Range(c)
    <3>1. PICK i \in 1 .. Len(a) : a[i] = x
      BY <2>2
    <3>2. i \in 1 .. Len(c)
      BY <1>5, <2>1
    <3> QED
      BY <2>1, <2>2, <3>1, <3>2
  <2>5. ASSUME NEW x \in Range(b) PROVE x \in Range(c)
    <3>1. PICK i \in 1 .. Len(b) : b[i] = x
      BY <2>2
    <3>2. Len(a) + i \in 1 .. Len(c)
      BY <1>5, <2>1
    <3> QED
      BY <2>1, <2>2, <3>1, <3>2
  <2>6. Range(c) = Range(a) \cup Range(b)
    BY <2>3, <2>4, <2>5
  <2> QED
    BY <2>6 DEF c
<1>7. Range(a \o b) = R
  BY <1>3, <1>4, <1>6
<1> QED
  BY <1>1, <1>2, <1>5, <1>7 DEF R

\* The columns of a certificate that a context shows.
Face(c) == [name |-> c.name, domain |-> c.domain, pem |-> c.pem, enabled |-> c.enabled]
Faces(certs) == {Face(c) : c \in Range(certs)}

\* Two lists with the same sites, certificates that look alike and the same settings serve
\* alike.
LEMMA SameRowsSameService ==
  ASSUME NEW l1, NEW l2, NEW rev,
         l1.sites \in Seq(SiteRow), l2.sites \in Seq(SiteRow), Range(l1.sites) = Range(l2.sites),
         l1.certs \in Seq(CertRow), l2.certs \in Seq(CertRow), Faces(l1.certs) = Faces(l2.certs),
         l1.settings = l2.settings
  PROVE  SameService(RuntimeConfig(l1, rev), RuntimeConfig(l2, rev))
<1>1. \A X : \A list \in Seq(X) : Range(Enabled(list)) = {x \in Range(list) : x.enabled}
  <2> SUFFICES ASSUME NEW X, NEW list \in Seq(X)
               PROVE  Range(Enabled(list)) = {x \in Range(list) : x.enabled}
    OBVIOUS
  <2> DEFINE S == {x \in Range(list) : x.enabled}
  <2>1. Enabled(list) = Select(list, S) /\ Range(list) \cap S = S
    BY DEF Enabled
  <2> HIDE DEF S
  <2>2. Range(Select(list, S)) = Range(list) \cap S
    BY SelectFacts
  <2> QED
    BY <2>1, <2>2 DEF S
<1> DEFINE Open(l) == {x \in Range(l.sites) : x.enabled}
           Shown(l) == {x \in Range(l.certs) : x.enabled}
           Ctx(c) == [name |-> c.name, domain |-> c.domain, pem |-> c.pem]
<1>2. /\ Range(Enabled(l1.sites)) = Open(l1) /\ Range(Enabled(l2.sites)) = Open(l2)
      /\ Range(Enabled(l1.certs)) = Shown(l1) /\ Range(Enabled(l2.certs)) = Shown(l2)
  BY <1>1
<1>3. Open(l1) = Open(l2)
  OBVIOUS
<1>4. HasHttps(l1) = HasHttps(l2)
  BY <1>2, <1>3 DEF HasHttps
<1>5. {Ctx(c) : c \in Shown(l1)} = {Ctx(c) : c \in Shown(l2)}
  <2>1. ASSUME NEW c \in Range(l1.certs)
        PROVE  \E e \in Range(l2.certs) : Face(c) = Face(e)
    <3>1. Face(c) \in Faces(l1.certs)
      BY DEF Faces
    <3>2. Face(c) \in Faces(l2.certs)
      BY <3>1
    <3> QED
      BY <3>2, Zenon DEF Faces
  <2>2. ASSUME NEW c \in Range(l2.certs)
        PROVE  \E e \in Range(l1.certs) : Face(c) = Face(e)
    <3>1. Face(c) \in Faces(l2.certs)
      BY DEF Faces
    <3>2. Face(c) \in Faces(l1.certs)
      BY <3>1
    <3> QED
      BY <3>2, Zenon DEF Faces
  <2>3. \A c, e : Face(c) = Face(e) => Ctx(c) = Ctx(e) /\ c.enabled = e.enabled
    BY DEF Face
  <2> HIDE DEF Ctx
  <2> QED
    BY <2>1, <2>2, <2>3
<1> HIDE DEF Ctx
<1>6. ASSUME NEW l
      PROVE  /\ RuntimeConfig(l, rev).revision = rev
             /\ RuntimeConfig(l, rev).settings = l.settings
             /\ RuntimeConfig(l, rev).routes = {[id |-> s.id, host |-> s.host, https |-> s.https] :
                                                  s \in Range(Enabled(l.sites))}
             /\ RuntimeConfig(l, rev).contexts =
                  IF HasHttps(l) THEN {Ctx(c) : c \in Range(Enabled(l.certs))} ELSE {}
  BY DEF RuntimeConfig, Ctx
<1> HIDE DEF Open, Shown
<1>7. /\ RuntimeConfig(l1, rev).routes = RuntimeConfig(l2, rev).routes
      /\ RuntimeConfig(l1, rev).contexts = RuntimeConfig(l2, rev).contexts
  BY <1>2, <1>3, <1>4, <1>5, <1>6, ZenonT(60)
<1> QED
  BY <1>6, <1>7 DEF SameService

-----------------------------------------------------------------------------
(* The candidate of a save is what its transaction stores                  *)

\* A change as it was asked for: neither the ids nor the certificates need be valid any more.
AnyChange ==
       [op: {"create_site"}, site: SiteInputs]
  \cup [op: {"update_site"}, id: Nat, site: SiteInputs]
  \cup [op: {"delete_site"}, id: Nat]
  \cup [op: {"create_certificate"}, cert: CertInputs]
  \cup [op: {"update_certificate"}, id: Nat, cert: CertInputs]
  \cup [op: {"delete_certificate"}, id: Nat]
  \cup [op: {"update_runtime_settings"}, settings: Settings]
  \cup [op: {"import_configuration"}, backup: Backups]
  \cup [op: {"reload_runtime"}]

\* Lists l and database d hold the same configuration.
Agrees(l, d) ==
  /\ d \in Db /\ l.sites \in Seq(SiteRow) /\ l.certs \in Seq(CertRow)
  /\ Range(l.sites) = Range(d.sites) /\ Faces(l.certs) = Faces(d.certs)
  /\ l.settings = d.settings

\* Only the columns of the configuration differ, and the revision is the next one.
Advances(e, d) ==
  e.revision = d.revision + 1 /\ e.schema = d.schema /\ e.seeded = d.seeded

\* The next revision of a database.
LEMMA IncrementFacts ==
  ASSUME NEW d \in Db
  PROVE  LET e == IncrementRevision(d)
         IN /\ e \in Db /\ Advances(e, d) /\ e.sites = d.sites /\ e.certs = d.certs
            /\ e.siteSeq = d.siteSeq /\ e.certSeq = d.certSeq /\ e.settings = d.settings
BY DEF Db, IncrementRevision, Advances

\* A new list of sites, or of certificates.
LEMMA TableFacts ==
  ASSUME NEW d \in Db
  PROVE  /\ \A rows \in Seq(SiteRow) :
              LET e == [d EXCEPT !.sites = rows]
              IN /\ e \in Db /\ e.sites = rows /\ e.siteSeq = d.siteSeq
                 /\ e.certs = d.certs /\ e.certSeq = d.certSeq /\ e.settings = d.settings
                 /\ e.revision = d.revision /\ e.schema = d.schema /\ e.seeded = d.seeded
         /\ \A rows \in Seq(CertRow) :
              LET e == [d EXCEPT !.certs = rows]
              IN /\ e \in Db /\ e.certs = rows /\ e.certSeq = d.certSeq
                 /\ e.sites = d.sites /\ e.siteSeq = d.siteSeq /\ e.settings = d.settings
                 /\ e.revision = d.revision /\ e.schema = d.schema /\ e.seeded = d.seeded
         /\ \A s \in Settings :
              LET e == [d EXCEPT !.settings = s]
              IN /\ e \in Db /\ e.settings = s /\ e.sites = d.sites /\ e.siteSeq = d.siteSeq
                 /\ e.certs = d.certs /\ e.certSeq = d.certSeq
                 /\ e.revision = d.revision /\ e.schema = d.schema /\ e.seeded = d.seeded
BY DEF Db

\* The lists of the repository, as a record.
LEMMA ListsRecord ==
  /\ Lists = ListsOf(db) /\ Lists' = ListsOf(db')
  /\ Lists = [sites |-> db.sites, certs |-> Lists.certs, settings |-> db.settings]
BY DEF Lists, ListsOf, ListSites, ListCertificates

\* The changes of the sites.
LEMMA SiteChangesAgree ==
  ASSUME db \in Db, NEW c \in AnyChange,
         c.op \in {"create_site", "update_site", "delete_site"}
  PROVE  Agrees(Candidate(c), Stored(c)) /\ Advances(Stored(c), db)
<1>1. /\ Lists = [sites |-> db.sites, certs |-> Lists.certs, settings |-> db.settings]
      /\ db.sites \in Seq(SiteRow) /\ Lists.certs \in Seq(CertRow) /\ db.settings \in Settings
      /\ Faces(Lists.certs) = Faces(db.certs)
  BY ListsRecord, ListsFacts DEF Faces
<1>2. ASSUME NEW rows \in Seq(SiteRow), NEW d \in Db, Range(rows) = Range(d.sites),
             d.certs = db.certs, d.settings = db.settings, d.revision = db.revision,
             d.schema = db.schema, d.seeded = db.seeded
      PROVE  /\ Agrees([Lists EXCEPT !.sites = rows], IncrementRevision(d))
             /\ Advances(IncrementRevision(d), db)
  <2> DEFINE l == [Lists EXCEPT !.sites = rows]
             e == IncrementRevision(d)
  <2>1. l.sites = rows /\ l.certs = Lists.certs /\ l.settings = db.settings
    BY <1>1
  <2>2. /\ e \in Db /\ Advances(e, d) /\ e.sites = d.sites /\ e.certs = d.certs
        /\ e.settings = d.settings
    BY IncrementFacts
  <2> HIDE DEF l, e
  <2>3. Agrees(l, e) /\ Advances(e, db)
    BY <1>1, <1>2, <2>1, <2>2 DEF Agrees, Advances, Faces
  <2> QED
    BY <2>3 DEF l, e
<1>3. CASE c.op = "create_site"
  <2> DEFINE row == Site(db.siteSeq + 1, c.site)
             d == InsertSite(db, c.site)
  <2>1. c.site \in SiteInputs
    BY <1>3, Zenon DEF AnyChange
  <2>2. row \in SiteRow
    <3>1. db.siteSeq + 1 \in Nat
      BY DEF Db
    <3> QED
      BY <2>1, <3>1, RowTypes
  <2>3. /\ d \in Db /\ d.sites = Append(db.sites, row) /\ d.certs = db.certs
        /\ d.settings = db.settings
        /\ d.revision = db.revision /\ d.schema = db.schema /\ d.seeded = db.seeded
    BY <2>1, InsertFacts
  <2>4. Candidate(c) = [Lists EXCEPT !.sites = Append(db.sites, row)]
    <3>1. Candidate(c) = [Lists EXCEPT !.sites = Append(@, row)]
      BY <1>3 DEF Candidate, NextSiteId
    <3>2. Lists.sites = db.sites
      BY <1>1
    <3> HIDE DEF row
    <3> QED
      BY <3>1, <3>2
  <2>5. Stored(c) = IncrementRevision(d)
    BY <1>3 DEF Stored, CreateSite
  <2> HIDE DEF row, d
  <2>6. Append(db.sites, row) \in Seq(SiteRow)
    BY <1>1, <2>2, AppendRange
  <2> QED
    BY <1>2, <2>3, <2>4, <2>5, <2>6
<1>4. CASE c.op = "update_site"
  <2> DEFINE rows == Replaced(db.sites, Site(c.id, c.site))
             d == [db EXCEPT !.sites = rows]
  <2>1. c.site \in SiteInputs /\ c.id \in Nat
    BY <1>4, Zenon DEF AnyChange
  <2>2. rows \in Seq(SiteRow)
    <3>1. Site(c.id, c.site) \in SiteRow
      BY <2>1, RowTypes
    <3> QED
      BY <1>1, <3>1, ReplacedFacts
  <2>3. Candidate(c) = [Lists EXCEPT !.sites = rows]
    <3>1. Candidate(c) = [Lists EXCEPT !.sites = Replaced(@, Site(c.id, c.site))]
      BY <1>4 DEF Candidate
    <3>2. Lists.sites = db.sites
      BY <1>1
    <3> QED
      BY <3>1, <3>2
  <2>4. Stored(c) = IncrementRevision(d)
    BY <1>4 DEF Stored, UpdateSite
  <2> HIDE DEF rows
  <2>5. /\ d \in Db /\ d.sites = rows /\ d.certs = db.certs /\ d.settings = db.settings
        /\ d.revision = db.revision /\ d.schema = db.schema /\ d.seeded = db.seeded
    BY <2>2, TableFacts
  <2> HIDE DEF d
  <2> QED
    BY <1>2, <2>2, <2>3, <2>4, <2>5
<1>5. CASE c.op = "delete_site"
  <2> DEFINE rows == Without(db.sites, c.id)
             d == [db EXCEPT !.sites = rows]
  <2>1. rows \in Seq(SiteRow)
    BY <1>1, WithoutFacts
  <2>2. Candidate(c) = [Lists EXCEPT !.sites = rows]
    <3>1. Candidate(c) = [Lists EXCEPT !.sites = Without(@, c.id)]
      BY <1>5 DEF Candidate
    <3>2. Lists.sites = db.sites
      BY <1>1
    <3> QED
      BY <3>1, <3>2
  <2>3. Stored(c) = IncrementRevision(d)
    BY <1>5 DEF Stored, DeleteSite
  <2> HIDE DEF rows
  <2>4. /\ d \in Db /\ d.sites = rows /\ d.certs = db.certs /\ d.settings = db.settings
        /\ d.revision = db.revision /\ d.schema = db.schema /\ d.seeded = db.seeded
    BY <2>1, TableFacts
  <2> HIDE DEF d
  <2> QED
    BY <1>2, <2>1, <2>2, <2>3, <2>4, ZenonT(60)
<1> QED
  BY <1>3, <1>4, <1>5

\* The certificates that a save starts from, when it may take the default away.
Cleared(list, in) == IF in.default THEN ClearDefault(list) ELSE list

\* The service clears the list it read, the repository its table: the same rows are left.
LEMMA ClearedFacts ==
  ASSUME db \in Db, NEW in \in CertInputs
  PROVE  /\ Cleared(Lists.certs, in) \in Seq(CertRow) /\ Cleared(db.certs, in) \in Seq(CertRow)
         /\ Range(Cleared(Lists.certs, in)) = Range(Cleared(db.certs, in))
<1>1. /\ Lists.certs \in Seq(CertRow) /\ db.certs \in Seq(CertRow)
      /\ Range(Lists.certs) = Range(db.certs)
  BY ListsRecord, ListsFacts
<1> DEFINE D(x) == [x EXCEPT !.default = FALSE]
<1>2. CASE in.default
  <2>1. /\ Cleared(Lists.certs, in) = ClearDefault(Lists.certs)
        /\ Cleared(db.certs, in) = ClearDefault(db.certs)
    BY <1>2 DEF Cleared
  <2>2. /\ ClearDefault(Lists.certs) \in Seq(CertRow) /\ ClearDefault(db.certs) \in Seq(CertRow)
        /\ Range(ClearDefault(Lists.certs)) = {D(x) : x \in Range(Lists.certs)}
        /\ Range(ClearDefault(db.certs)) = {D(x) : x \in Range(db.certs)}
    BY <1>1, ClearDefaultFacts
  <2> HIDE DEF D
  <2>3. {D(x) : x \in Range(Lists.certs)} = {D(x) : x \in Range(db.certs)}
    BY <1>1
  <2>4. Range(ClearDefault(Lists.certs)) = Range(ClearDefault(db.certs))
    BY <2>2, <2>3
  <2> QED
    BY <2>1, <2>2, <2>4
<1>3. CASE ~in.default
  BY <1>1, <1>3 DEF Cleared
<1> QED
  BY <1>2, <1>3

\* The changes of the certificates.
LEMMA CertChangesAgree ==
  ASSUME db \in Db, NEW c \in AnyChange,
         c.op \in {"create_certificate", "update_certificate", "delete_certificate"}
  PROVE  Agrees(Candidate(c), Stored(c)) /\ Advances(Stored(c), db)
<1>1. /\ Lists = [sites |-> db.sites, certs |-> Lists.certs, settings |-> db.settings]
      /\ db.sites \in Seq(SiteRow) /\ Lists.certs \in Seq(CertRow) /\ db.settings \in Settings
      /\ db.certs \in Seq(CertRow) /\ Range(Lists.certs) = Range(db.certs)
  BY ListsRecord, ListsFacts
<1>2. ASSUME NEW rows \in Seq(CertRow), NEW d \in Db, Faces(rows) = Faces(d.certs),
             d.sites = db.sites, d.settings = db.settings, d.revision = db.revision,
             d.schema = db.schema, d.seeded = db.seeded
      PROVE  /\ Agrees([Lists EXCEPT !.certs = rows], IncrementRevision(d))
             /\ Advances(IncrementRevision(d), db)
  <2> DEFINE l == [Lists EXCEPT !.certs = rows]
             e == IncrementRevision(d)
  <2>1. l.sites = db.sites /\ l.certs = rows /\ l.settings = db.settings
    BY <1>1
  <2>2. /\ e \in Db /\ Advances(e, d) /\ e.sites = d.sites /\ e.certs = d.certs
        /\ e.settings = d.settings
    BY IncrementFacts
  <2> HIDE DEF l, e
  <2>3. Agrees(l, e) /\ Advances(e, db)
    BY <1>1, <1>2, <2>1, <2>2 DEF Agrees, Advances, Faces
  <2> QED
    BY <2>3 DEF l, e
<1>3. CASE c.op = "create_certificate"
  <2> DEFINE read == Cleared(Lists.certs, c.cert)
             kept == Cleared(db.certs, c.cert)
             row0 == Cert(0, c.cert)
             row == Cert(db.certSeq + 1, c.cert)
             b == [db EXCEPT !.certs = kept]
             d == InsertCert(b, c.cert)
  <2>1. c.cert \in CertInputs
    BY <1>3, Zenon DEF AnyChange
  <2>2. row \in CertRow /\ row0 \in CertRow /\ Face(row) = Face(row0)
    <3>1. db.certSeq + 1 \in Nat /\ 0 \in Nat
      BY DEF Db
    <3>2. row \in CertRow /\ row0 \in CertRow
      BY <2>1, <3>1, RowTypes
    <3>3. Face(row) = Face(row0)
      BY DEF Face, Cert
    <3> QED
      BY <3>2, <3>3
  <2>3. read \in Seq(CertRow) /\ kept \in Seq(CertRow) /\ Range(read) = Range(kept)
    BY <2>1, ClearedFacts
  <2>4. Candidate(c) = [Lists EXCEPT !.certs = Append(read, row0)]
    <3>1. Candidate(c) = [Lists EXCEPT !.certs = Append(IF c.cert.default THEN ClearDefault(@) ELSE @, row0)]
      BY <1>3 DEF Candidate
    <3> HIDE DEF row0
    <3> QED
      BY <1>1, <3>1 DEF Cleared
  <2>5. Stored(c) = IncrementRevision(d)
    BY <1>3 DEF Stored, CreateCertificate, Cleared
  <2> HIDE DEF read, kept, row0
  <2>6. /\ b \in Db /\ b.certs = kept /\ b.certSeq = db.certSeq /\ b.sites = db.sites
        /\ b.settings = db.settings
        /\ b.revision = db.revision /\ b.schema = db.schema /\ b.seeded = db.seeded
    BY <2>3, TableFacts
  <2> HIDE DEF b
  <2>7. /\ d \in Db /\ d.certs = Append(kept, row) /\ d.sites = db.sites
        /\ d.settings = db.settings
        /\ d.revision = db.revision /\ d.schema = db.schema /\ d.seeded = db.seeded
    BY <2>1, <2>6, InsertFacts
  <2> HIDE DEF d, row
  <2>8. /\ Append(read, row0) \in Seq(CertRow)
        /\ Range(Append(read, row0)) = Range(read) \cup {row0}
        /\ Range(Append(kept, row)) = Range(kept) \cup {row}
    BY <2>2, <2>3, AppendRange
  <2>9. Faces(Append(read, row0)) = Faces(d.certs)
    <3>1. \A x : x \in Range(Append(read, row0)) <=> x \in Range(kept) \/ x = row0
      BY <2>3, <2>8
    <3>2. \A x : x \in Range(d.certs) <=> x \in Range(kept) \/ x = row
      BY <2>7, <2>8
    <3> QED
      BY <2>2, <3>1, <3>2 DEF Faces
  <2> QED
    BY <1>2, <2>4, <2>5, <2>7, <2>8, <2>9
<1>4. CASE c.op = "update_certificate"
  <2> DEFINE read == Cleared(Lists.certs, c.cert)
             kept == Cleared(db.certs, c.cert)
             row == Cert(c.id, c.cert)
             rows == Replaced(read, row)
             d == [db EXCEPT !.certs = Replaced(kept, row)]
  <2>1. c.cert \in CertInputs /\ c.id \in Nat
    BY <1>4, Zenon DEF AnyChange
  <2>2. row \in CertRow
    BY <2>1, RowTypes
  <2>3. read \in Seq(CertRow) /\ kept \in Seq(CertRow) /\ Range(read) = Range(kept)
    BY <2>1, ClearedFacts
  <2>4. Candidate(c) = [Lists EXCEPT !.certs = rows]
    <3>1. Candidate(c) = [Lists EXCEPT !.certs = Replaced(IF c.cert.default THEN ClearDefault(@) ELSE @, row)]
      BY <1>4 DEF Candidate
    <3> HIDE DEF row
    <3> QED
      BY <1>1, <3>1 DEF Cleared
  <2>5. Stored(c) = IncrementRevision(d)
    BY <1>4 DEF Stored, UpdateCertificate, Cleared
  <2> HIDE DEF read, kept, row
  <2>6. /\ rows \in Seq(CertRow) /\ Replaced(kept, row) \in Seq(CertRow)
        /\ Range(rows) = Range(Replaced(kept, row))
    <3>1. /\ rows \in Seq(CertRow) /\ Replaced(kept, row) \in Seq(CertRow)
          /\ Range(rows) = {PutOver(row, x) : x \in Range(read)}
          /\ Range(Replaced(kept, row)) = {PutOver(row, x) : x \in Range(kept)}
      <4>1. rows \in Seq(CertRow) /\ Range(rows) = {PutOver(row, x) : x \in Range(read)}
        BY <2>2, <2>3, ReplacedFacts
      <4>2. /\ Replaced(kept, row) \in Seq(CertRow)
            /\ Range(Replaced(kept, row)) = {PutOver(row, x) : x \in Range(kept)}
        BY <2>2, <2>3, ReplacedFacts
      <4> QED
        BY <4>1, <4>2
    <3> HIDE DEF rows
    <3>2. {PutOver(row, x) : x \in Range(read)} = {PutOver(row, x) : x \in Range(kept)}
      BY <2>3
    <3> QED
      BY <3>1, <3>2
  <2>7. /\ d \in Db /\ d.certs = Replaced(kept, row) /\ d.sites = db.sites
        /\ d.settings = db.settings
        /\ d.revision = db.revision /\ d.schema = db.schema /\ d.seeded = db.seeded
    BY <2>6, TableFacts
  <2> HIDE DEF rows, d
  <2>8. Faces(rows) = Faces(d.certs)
    BY <2>6, <2>7 DEF Faces
  <2> QED
    BY <1>2, <2>4, <2>5, <2>6, <2>7, <2>8
<1>5. CASE c.op = "delete_certificate"
  <2> DEFINE rows == Without(Lists.certs, c.id)
             left == Without(db.certs, c.id)
             d == [db EXCEPT !.certs = left]
  <2>1. rows \in Seq(CertRow) /\ left \in Seq(CertRow) /\ Range(rows) = Range(left)
    <3>1. /\ rows \in Seq(CertRow) /\ left \in Seq(CertRow)
          /\ Range(rows) = {x \in Range(Lists.certs) : x.id # c.id}
          /\ Range(left) = {x \in Range(db.certs) : x.id # c.id}
      BY <1>1, WithoutFacts
    <3>2. {x \in Range(Lists.certs) : x.id # c.id} = {x \in Range(db.certs) : x.id # c.id}
      BY <1>1
    <3> HIDE DEF rows, left
    <3> QED
      BY <3>1, <3>2
  <2>2. Candidate(c) = [Lists EXCEPT !.certs = rows]
    BY <1>5 DEF Candidate
  <2>3. Stored(c) = IncrementRevision(d)
    BY <1>5 DEF Stored, DeleteCertificate
  <2> HIDE DEF rows, left
  <2>4. /\ d \in Db /\ d.certs = left /\ d.sites = db.sites /\ d.settings = db.settings
        /\ d.revision = db.revision /\ d.schema = db.schema /\ d.seeded = db.seeded
    BY <2>1, TableFacts
  <2> HIDE DEF d
  <2>5. Faces(rows) = Faces(d.certs)
    BY <2>1, <2>4 DEF Faces
  <2> QED
    BY <1>2, <2>1, <2>2, <2>3, <2>4, <2>5
<1> QED
  BY <1>3, <1>4, <1>5

\* Rows numbered on from a sequence are what the imported rows with other ids look like.
LEMMA NumberedRows ==
  ASSUME NEW b \in Backups, NEW m \in Nat, NEW n \in Nat
  PROVE  LET sites == [i \in 1 .. Len(b.sites) |-> Site(m + i, b.sites[i])]
             certs == [i \in 1 .. Len(b.certs) |-> Cert(n + i, b.certs[i])]
             cert0 == [i \in DOMAIN b.certs |-> Cert(0, b.certs[i])]
         IN /\ sites \in Seq(SiteRow) /\ certs \in Seq(CertRow) /\ cert0 \in Seq(CertRow)
            /\ [i \in DOMAIN b.sites |-> Site(m + 1 + i - 1, b.sites[i])] = sites
            /\ Faces(cert0) = Faces(certs)
<1> DEFINE sites == [i \in 1 .. Len(b.sites) |-> Site(m + i, b.sites[i])]
           certs == [i \in 1 .. Len(b.certs) |-> Cert(n + i, b.certs[i])]
           cert0 == [i \in DOMAIN b.certs |-> Cert(0, b.certs[i])]
<1>1. b.sites \in Seq(SiteInputs) /\ b.certs \in Seq(CertInputs)
  BY RowTypes
<1>2. /\ DOMAIN b.sites = 1 .. Len(b.sites) /\ DOMAIN b.certs = 1 .. Len(b.certs)
      /\ \A i \in DOMAIN b.sites : b.sites[i] \in SiteInputs
      /\ \A i \in DOMAIN b.certs : b.certs[i] \in CertInputs
  BY <1>1, LenProperties, ElementOfSeq
<1>3. sites \in Seq(SiteRow)
  <2>1. /\ DOMAIN sites = DOMAIN b.sites /\ sites = [i \in DOMAIN b.sites |-> sites[i]]
        /\ \A i \in DOMAIN b.sites : sites[i] \in SiteRow
    BY <1>2, RowTypes
  <2> HIDE DEF sites
  <2> QED BY <1>1, <2>1, MappedList, ZenonT(60)
<1>4. certs \in Seq(CertRow)
  <2>1. /\ DOMAIN certs = DOMAIN b.certs /\ certs = [i \in DOMAIN b.certs |-> certs[i]]
        /\ \A i \in DOMAIN b.certs : certs[i] \in CertRow
    BY <1>2, RowTypes
  <2> HIDE DEF certs
  <2> QED BY <1>1, <2>1, MappedList
<1>5. cert0 \in Seq(CertRow)
  <2>1. /\ DOMAIN cert0 = DOMAIN b.certs /\ cert0 = [i \in DOMAIN b.certs |-> cert0[i]]
        /\ \A i \in DOMAIN b.certs : cert0[i] \in CertRow
    BY <1>2, RowTypes
  <2> HIDE DEF cert0
  <2> QED BY <1>1, <2>1, MappedList
<1>6. [i \in DOMAIN b.sites |-> Site(m + 1 + i - 1, b.sites[i])] = sites
  <2>1. \A i \in 1 .. Len(b.sites) : m + 1 + i - 1 = m + i
    OBVIOUS
  <2> QED
    BY <1>2, <2>1
<1>7. Faces(cert0) = Faces(certs)
  <2>1. \A i \in DOMAIN b.certs : Face(cert0[i]) = Face(certs[i])
    BY <1>2 DEF Face, Cert
  <2>2. DOMAIN certs = DOMAIN b.certs /\ DOMAIN cert0 = DOMAIN b.certs
    BY <1>2
  <2> HIDE DEF certs, cert0
  <2>3. /\ Faces(cert0) = {Face(cert0[i]) : i \in DOMAIN b.certs}
        /\ Faces(certs) = {Face(certs[i]) : i \in DOMAIN b.certs}
    BY <2>2 DEF Faces, Range
  <2> QED
    BY <2>1, <2>3
<1> QED
  BY <1>3, <1>4, <1>5, <1>6, <1>7

\* The settings, an import and a reload.
LEMMA OtherChangesAgree ==
  ASSUME db \in Db, NEW c \in AnyChange,
         c.op \in {"update_runtime_settings", "import_configuration", "reload_runtime"}
  PROVE  /\ Agrees(Candidate(c), Stored(c))
         /\ c.op # "reload_runtime" => Advances(Stored(c), db)
         /\ c.op = "reload_runtime" => Stored(c) = db
<1>1. /\ Lists = [sites |-> db.sites, certs |-> Lists.certs, settings |-> db.settings]
      /\ db.sites \in Seq(SiteRow) /\ Lists.certs \in Seq(CertRow) /\ db.settings \in Settings
      /\ Faces(Lists.certs) = Faces(db.certs)
  BY ListsRecord, ListsFacts DEF Faces
<1>2. CASE c.op = "update_runtime_settings"
  <2> DEFINE l == [Lists EXCEPT !.settings = c.settings]
             d == [db EXCEPT !.settings = c.settings]
             e == IncrementRevision(d)
  <2>1. c.settings \in Settings
    BY <1>2, Zenon DEF AnyChange
  <2>2. Candidate(c) = l
    BY <1>2 DEF Candidate
  <2>3. Stored(c) = e
    BY <1>2 DEF Stored, UpdateRuntimeSettings
  <2>4. l.sites = db.sites /\ l.certs = Lists.certs /\ l.settings = c.settings
    BY <1>1
  <2>5. /\ d \in Db /\ d.sites = db.sites /\ d.certs = db.certs /\ d.settings = c.settings
        /\ d.revision = db.revision /\ d.schema = db.schema /\ d.seeded = db.seeded
    BY <2>1, TableFacts
  <2> HIDE DEF l, d
  <2>6. /\ e \in Db /\ Advances(e, d) /\ e.sites = d.sites /\ e.certs = d.certs
        /\ e.settings = d.settings
    BY <2>5, IncrementFacts
  <2> HIDE DEF e
  <2>7. Agrees(l, e) /\ Advances(e, db)
    BY <1>1, <2>4, <2>5, <2>6 DEF Agrees, Advances, Faces
  <2> QED
    BY <1>2, <2>2, <2>3, <2>7
<1>3. CASE c.op = "import_configuration"
  <2> DEFINE b == c.backup
             cert0 == [i \in DOMAIN b.certs |-> Cert(0, b.certs[i])]
             site1 == [i \in DOMAIN b.sites |-> Site(db.siteSeq + 1 + i - 1, b.sites[i])]
             l == [sites |-> site1, certs |-> cert0, settings |-> b.settings]
             d == ReplaceConfiguration(db, b)
             e == IncrementRevision(d)
  <2>1. b \in Backups /\ db.siteSeq \in Nat /\ db.certSeq \in Nat
    BY <1>3, Zenon DEF AnyChange, Db
  <2>2. Candidate(c) = l
    BY <1>3 DEF Candidate, NextSiteId
  <2>3. Stored(c) = e
    BY <1>3 DEF Stored
  <2>4. l.sites = site1 /\ l.certs = cert0 /\ l.settings = b.settings
    OBVIOUS
  <2> HIDE DEF b, l
  <2>5. /\ d \in Db
        /\ d.sites = [i \in 1 .. Len(b.sites) |-> Site(db.siteSeq + i, b.sites[i])]
        /\ d.certs = [i \in 1 .. Len(b.certs) |-> Cert(db.certSeq + i, b.certs[i])]
        /\ d.settings = b.settings
        /\ d.revision = db.revision /\ d.schema = db.schema /\ d.seeded = db.seeded
    BY <2>1, ImportFacts
  <2> HIDE DEF d
  <2>6. /\ site1 = d.sites /\ cert0 \in Seq(CertRow) /\ d.sites \in Seq(SiteRow)
        /\ Faces(cert0) = Faces(d.certs)
    <3> DEFINE sites == [i \in 1 .. Len(b.sites) |-> Site(db.siteSeq + i, b.sites[i])]
               certs == [i \in 1 .. Len(b.certs) |-> Cert(db.certSeq + i, b.certs[i])]
    <3>1. d.sites = sites /\ d.certs = certs
      BY <2>5
    <3>2. sites \in Seq(SiteRow) /\ cert0 \in Seq(CertRow)
      BY <2>1, NumberedRows
    <3>3. site1 = sites
      BY <2>1, NumberedRows
    <3>4. Faces(cert0) = Faces(certs)
      BY <2>1, NumberedRows
    <3> HIDE DEF sites, certs, cert0, site1
    <3> QED
      BY <3>1, <3>2, <3>3, <3>4
  <2>7. /\ e \in Db /\ Advances(e, d) /\ e.sites = d.sites /\ e.certs = d.certs
        /\ e.settings = d.settings
    BY <2>5, IncrementFacts
  <2> HIDE DEF e, cert0, site1
  <2>8. Agrees(l, e) /\ Advances(e, db)
    BY <2>4, <2>5, <2>6, <2>7 DEF Agrees, Advances, Faces
  <2> QED
    BY <1>3, <2>2, <2>3, <2>8
<1>4. CASE c.op = "reload_runtime"
  <2>1. Candidate(c) = Lists /\ Stored(c) = db
    BY <1>4 DEF Candidate, Stored
  <2>2. Agrees(Lists, db)
    BY <1>1 DEF Agrees
  <2> QED
    BY <1>4, <2>1, <2>2
<1> QED
  BY <1>2, <1>3, <1>4

\* Whatever the change: the runtime configuration that the service prepares from its own
\* lists is the one that a restart would load after the repository's transaction.
LEMMA CandidateIsStored ==
  ASSUME db \in Db, NEW c \in AnyChange
  PROVE  /\ SameService(RuntimeConfig(Candidate(c), RevisionOf(c)),
                        RuntimeConfig(ListsOf(Stored(c)), Stored(c).revision))
         /\ Stored(c) \in Db /\ Stored(c).revision = RevisionOf(c)
         /\ Stored(c).schema = db.schema /\ Stored(c).seeded = db.seeded
         /\ c.op = "reload_runtime" => Stored(c) = db
         /\ c.op # "reload_runtime" => Stored(c).revision = db.revision + 1
<1>1. /\ Agrees(Candidate(c), Stored(c))
      /\ c.op # "reload_runtime" => Advances(Stored(c), db)
      /\ c.op = "reload_runtime" => Stored(c) = db
  <2>1. c.op \in {"create_site", "update_site", "delete_site", "create_certificate",
                  "update_certificate", "delete_certificate", "update_runtime_settings",
                  "import_configuration", "reload_runtime"}
    BY Zenon DEF AnyChange
  <2>2. CASE c.op \in {"create_site", "update_site", "delete_site"}
    <3>1. c.op # "reload_runtime"
      BY <2>2
    <3> QED
      BY <2>2, <3>1, SiteChangesAgree
  <2>3. CASE c.op \in {"create_certificate", "update_certificate", "delete_certificate"}
    <3>1. c.op # "reload_runtime"
      BY <2>3
    <3> QED
      BY <2>3, <3>1, CertChangesAgree
  <2>4. CASE c.op \in {"update_runtime_settings", "import_configuration", "reload_runtime"}
    BY <2>4, OtherChangesAgree
  <2> QED
    BY <2>1, <2>2, <2>3, <2>4
<1> DEFINE l1 == Candidate(c)
           e == Stored(c)
           l2 == ListsOf(e)
<1>2. e \in Db /\ e.revision = RevisionOf(c) /\ e.schema = db.schema /\ e.seeded = db.seeded
  BY <1>1 DEF Agrees, Advances, RevisionOf
<1>3. /\ l2.sites = e.sites /\ l2.sites \in Seq(SiteRow)
      /\ l2.certs \in Seq(CertRow) /\ Range(l2.certs) = Range(e.certs)
      /\ l2.settings = e.settings
  <2> HIDE DEF e
  <2> QED BY <1>2, ListsFacts
<1> HIDE DEF l1, e, l2
<1>4. Agrees(l1, e)
  BY <1>1 DEF l1, e
<1>5. SameService(RuntimeConfig(l1, RevisionOf(c)), RuntimeConfig(l2, RevisionOf(c)))
  <2>1. Faces(l1.certs) = Faces(l2.certs)
    BY <1>3, <1>4 DEF Faces, Agrees
  <2>2. /\ l1.sites \in Seq(SiteRow) /\ Range(l1.sites) = Range(l2.sites)
        /\ l1.certs \in Seq(CertRow) /\ l1.settings = l2.settings
    BY <1>3, <1>4 DEF Agrees
  <2> QED
    BY <1>3, <2>1, <2>2, SameRowsSameService
<1> QED
  BY <1>1, <1>2, <1>5 DEF l1, l2, e, Advances

-----------------------------------------------------------------------------
(* The inductive invariant                                                 *)

Processes == {"down", "migrating", "seeding", "marking", "initialized", "loading",
              "starting", "running", "recovery"}

TypeInv ==
  /\ db \in Database /\ process \in Processes /\ handler \in BOOLEAN
  /\ active \in 0 .. MaxRevision /\ expired \subseteq Pems /\ used \subseteq Nat
  /\ seeds \in Nat /\ crashes \in 0 .. MaxCrashes

\* A save in progress is what Prepare made of its change; before COMMIT the database is the
\* one it was prepared for, after it the candidate is what the database holds.
SaveInProgress ==
  /\ save = [stage |-> save.stage, change |-> save.change, revision |-> save.revision,
             candidate |-> save.candidate]
  /\ save.stage \in {"prepared", "committed"} /\ save.change \in AnyChange
  /\ process \in Managed /\ save.revision \in 0 .. MaxRevision
  /\ save.stage = "prepared" =>
       /\ save.revision = RevisionOf(save.change)
       /\ save.candidate = RuntimeConfig(Candidate(save.change), save.revision)
  /\ save.stage = "committed" =>
       save.revision = db.revision /\ SameService(save.candidate, StoredRuntime)

SaveInv == save = NoSave \/ SaveInProgress

\* The handler is there while the server is; then active_revision_ is the revision it has
\* published, and what is published is what is stored, COMMIT to activation excepted.
HandlerInv ==
  /\ handler <=> process \in {"starting", "running"}
  /\ handler => active = runtime.revision
  /\ handler /\ save.stage # "committed" => SameService(runtime, StoredRuntime)
  /\ process \in {"initialized", "loading"} => active = db.revision
  /\ process = "recovery" => active = 0 /\ runtime = NoRuntime

\* The schema is complete before anything else happens; a database with a schema has a
\* revision.
SchemaInv ==
  /\ process \notin {"down", "migrating"} => db.schema = LatestSchema
  /\ db.schema > 0 => db.revision > 0

\* The example site is created at most once; until the mark is set, it is still there.
SeedInv ==
  /\ seeds <= 1
  /\ process \in {"initialized", "loading", "starting", "running", "recovery"} => db.seeded
  /\ ~db.seeded /\ seeds = 1 => db.sites # << >>
  /\ ~db.seeded /\ db.sites = << >> => db.revision <= 1

\* Every id ever used is below the sequence.
IdsInv == Ids(db.sites) \subseteq used /\ used \subseteq 1 .. db.siteSeq

OrderInv == Ascending(db.sites, db.siteSeq) /\ Ascending(db.certs, db.certSeq)

ServiceInv ==
  TypeInv /\ SaveInv /\ HandlerInv /\ SchemaInv /\ SeedInv /\ IdsInv /\ OrderInv

-----------------------------------------------------------------------------
(* Ids: ascending in their table, new ones beyond the sequence             *)

\* The rows of one table before and after a transaction.
Grown(new, seq1, old, seq) ==
  /\ seq1 \in Nat /\ seq <= seq1 /\ Ascending(new, seq1)
  /\ Ids(new) \subseteq Ids(old) \cup ((seq + 1) .. seq1)

\* A row is inserted.
LEMMA AppendGrows ==
  ASSUME NEW X, NEW list \in Seq(X), NEW seq \in Nat, Ascending(list, seq),
         NEW x \in X, x.id = seq + 1
  PROVE  Grown(Append(list, x), seq + 1, list, seq)
<1> DEFINE new == Append(list, x)
<1>1. /\ new \in Seq(X) /\ Len(new) = Len(list) + 1 /\ Len(list) \in Nat
      /\ \A i \in 1 .. Len(list) : new[i] = list[i]
      /\ new[Len(list) + 1] = x
      /\ DOMAIN new = 1 .. (Len(list) + 1) /\ DOMAIN list = 1 .. Len(list)
      /\ Range(new) = Range(list) \cup {x}
  BY AppendProperties, AppendRange, LenProperties
<1> HIDE DEF new
<1>2. \A i \in DOMAIN new : i \in DOMAIN list \/ i = Len(list) + 1
  BY <1>1
<1>3. Ascending(new, seq + 1)
  <2>1. ASSUME NEW i \in DOMAIN new PROVE new[i].id \in 1 .. (seq + 1)
    <3>1. CASE i \in DOMAIN list
      <4>1. new[i] = list[i] /\ list[i].id \in 1 .. seq
        BY <1>1, <3>1 DEF Ascending
      <4> QED
        BY <4>1
    <3>2. CASE i = Len(list) + 1
      BY <1>1, <3>2
    <3> QED
      BY <1>2, <3>1, <3>2
  <2>2. ASSUME NEW i \in DOMAIN new, NEW j \in DOMAIN new, i < j
        PROVE  new[i].id < new[j].id
    <3>1. i \in DOMAIN list /\ new[i] = list[i] /\ list[i].id \in 1 .. seq
      BY <1>1, <2>2 DEF Ascending
    <3>2. CASE j \in DOMAIN list
      <4>1. new[j] = list[j]
        BY <1>1, <3>2
      <4> QED
        BY <2>2, <3>1, <3>2, <4>1 DEF Ascending
    <3>3. CASE j = Len(list) + 1
      BY <1>1, <3>1, <3>3
    <3> QED
      BY <1>2, <3>2, <3>3
  <2> QED
    BY <2>1, <2>2 DEF Ascending
<1>4. Ids(new) \subseteq Ids(list) \cup ((seq + 1) .. (seq + 1))
  BY <1>1 DEF Ids
<1> QED
  BY <1>3, <1>4 DEF Grown, new

\* Rows are rewritten and keep their ids.
LEMMA SameIdsGrows ==
  ASSUME NEW X, NEW list \in Seq(X), NEW seq \in Nat, Ascending(list, seq),
         NEW new \in Seq(X), Len(new) = Len(list),
         \A i \in DOMAIN list : new[i].id = list[i].id
  PROVE  Grown(new, seq, list, seq)
<1>1. DOMAIN new = DOMAIN list
  BY LenProperties
<1>2. Ascending(new, seq)
  BY <1>1 DEF Ascending
<1>3. Ids(new) \subseteq Ids(list)
  BY <1>1 DEF Ids, Range
<1> QED
  BY <1>2, <1>3 DEF Grown

\* Rows are deleted.
LEMMA SelectedGrows ==
  ASSUME NEW X, NEW list \in Seq(X), NEW seq \in Nat, Ascending(list, seq),
         NEW new \in Seq(X), Range(new) \subseteq Range(list), InOrderOf(new, list, Len(list))
  PROVE  Grown(new, seq, list, seq)
<1>1. DOMAIN new = 1 .. Len(new) /\ DOMAIN list = 1 .. Len(list)
  BY LenProperties
<1>2. Ids(new) \subseteq Ids(list)
  BY DEF Ids
<1>3. \A x \in Range(list) : x.id \in 1 .. seq
  BY DEF Range, Ascending
<1>4. \A i \in DOMAIN new : new[i].id \in 1 .. seq
  BY <1>3 DEF Range
<1>5. ASSUME NEW i \in DOMAIN new, NEW j \in DOMAIN new, i < j
      PROVE  new[i].id < new[j].id
  <2>1. PICK p \in 1 .. Len(list), q \in 1 .. Len(list) :
          p < q /\ new[i] = list[p] /\ new[j] = list[q]
    BY <1>1, <1>5 DEF InOrderOf
  <2> QED
    BY <1>1, <2>1 DEF Ascending
<1> QED
  BY <1>2, <1>4, <1>5 DEF Grown, Ascending

\* Rows are numbered on from the sequence.
LEMMA NumberedGrows ==
  ASSUME NEW n \in Nat, NEW seq \in Nat, NEW old, NEW new, DOMAIN new = 1 .. n,
         \A i \in 1 .. n : new[i].id = seq + i
  PROVE  Grown(new, seq + n, old, seq)
<1>1. Ascending(new, seq + n)
  BY DEF Ascending
<1>2. Ids(new) \subseteq (seq + 1) .. (seq + n)
  <2> SUFFICES ASSUME NEW i \in 1 .. n PROVE new[i].id \in (seq + 1) .. (seq + n)
    BY DEF Ids, Range
  <2> QED
    OBVIOUS
<1> QED
  BY <1>1, <1>2 DEF Grown

\* A database before and after a transaction.
DbGrown(e, d) ==
  Grown(e.sites, e.siteSeq, d.sites, d.siteSeq) /\ Grown(e.certs, e.certSeq, d.certs, d.certSeq)

\* Every change keeps the tables in order and takes new ids from beyond the sequence.
LEMMA StoredGrows ==
  ASSUME db \in Db, OrderInv, NEW c \in AnyChange
  PROVE  DbGrown(Stored(c), db)
<1>1. /\ db.sites \in Seq(SiteRow) /\ db.certs \in Seq(CertRow)
      /\ db.siteSeq \in Nat /\ db.certSeq \in Nat
      /\ Ascending(db.sites, db.siteSeq) /\ Ascending(db.certs, db.certSeq)
  BY DEF Db, OrderInv
<1>2. /\ Grown(db.sites, db.siteSeq, db.sites, db.siteSeq)
      /\ Grown(db.certs, db.certSeq, db.certs, db.certSeq)
  BY <1>1 DEF Grown
<1>3. ASSUME NEW d \in Db, DbGrown(d, db) PROVE DbGrown(IncrementRevision(d), db)
  <2> DEFINE e == IncrementRevision(d)
  <2>1. e.sites = d.sites /\ e.certs = d.certs /\ e.siteSeq = d.siteSeq /\ e.certSeq = d.certSeq
    BY IncrementFacts
  <2> HIDE DEF e
  <2> QED
    BY <1>3, <2>1 DEF DbGrown, e
<1>4. ASSUME NEW rows \in Seq(SiteRow), Grown(rows, db.siteSeq, db.sites, db.siteSeq)
      PROVE  DbGrown(IncrementRevision([db EXCEPT !.sites = rows]), db)
  <2> DEFINE d == [db EXCEPT !.sites = rows]
  <2>1. /\ d \in Db /\ d.sites = rows /\ d.siteSeq = db.siteSeq /\ d.certs = db.certs
        /\ d.certSeq = db.certSeq
    BY TableFacts
  <2> HIDE DEF d
  <2>2. DbGrown(d, db)
    BY <1>2, <1>4, <2>1 DEF DbGrown
  <2> QED
    BY <1>3, <2>1, <2>2 DEF d
<1>5. ASSUME NEW rows \in Seq(CertRow), Grown(rows, db.certSeq, db.certs, db.certSeq)
      PROVE  DbGrown(IncrementRevision([db EXCEPT !.certs = rows]), db)
  <2> DEFINE d == [db EXCEPT !.certs = rows]
  <2>1. /\ d \in Db /\ d.certs = rows /\ d.certSeq = db.certSeq /\ d.sites = db.sites
        /\ d.siteSeq = db.siteSeq
    BY TableFacts
  <2> HIDE DEF d
  <2>2. DbGrown(d, db)
    BY <1>2, <1>5, <2>1 DEF DbGrown
  <2> QED
    BY <1>3, <2>1, <2>2 DEF d
<1>6. ASSUME NEW in \in CertInputs
      PROVE  /\ Cleared(db.certs, in) \in Seq(CertRow)
             /\ Len(Cleared(db.certs, in)) = Len(db.certs)
             /\ \A i \in DOMAIN db.certs : Cleared(db.certs, in)[i].id = db.certs[i].id
             /\ Grown(Cleared(db.certs, in), db.certSeq, db.certs, db.certSeq)
  <2> DEFINE kept == Cleared(db.certs, in)
  <2>1. /\ kept \in Seq(CertRow) /\ Len(kept) = Len(db.certs)
        /\ \A i \in DOMAIN db.certs : kept[i].id = db.certs[i].id
    BY <1>1, ClearDefaultFacts DEF Cleared
  <2> HIDE DEF kept
  <2>2. Grown(kept, db.certSeq, db.certs, db.certSeq)
    BY <1>1, <2>1, SameIdsGrows
  <2> QED
    BY <2>1, <2>2 DEF kept
<1>7. CASE c.op = "create_site"
  <2> DEFINE d == InsertSite(db, c.site)
             row == Site(db.siteSeq + 1, c.site)
  <2>1. c.site \in SiteInputs /\ db.siteSeq + 1 \in Nat
    <3>1. c.site \in SiteInputs
      BY <1>7, Zenon DEF AnyChange
    <3> QED
      BY <1>1, <3>1
  <2>2. row \in SiteRow /\ row.id = db.siteSeq + 1
    BY <2>1, RowTypes
  <2>3. /\ d \in Db /\ d.sites = Append(db.sites, row) /\ d.siteSeq = db.siteSeq + 1
        /\ d.certs = db.certs /\ d.certSeq = db.certSeq
    BY <2>1, InsertFacts
  <2>4. Stored(c) = IncrementRevision(d)
    BY <1>7 DEF Stored, CreateSite
  <2> HIDE DEF d, row
  <2>5. Grown(Append(db.sites, row), db.siteSeq + 1, db.sites, db.siteSeq)
    BY <1>1, <2>2, AppendGrows
  <2>6. DbGrown(d, db)
    BY <1>2, <2>3, <2>5 DEF DbGrown
  <2> QED
    BY <1>3, <2>3, <2>4, <2>6
<1>8. CASE c.op = "update_site"
  <2> DEFINE row == Site(c.id, c.site)
             rows == Replaced(db.sites, row)
  <2>1. c.site \in SiteInputs /\ c.id \in Nat
    BY <1>8, Zenon DEF AnyChange
  <2>2. row \in SiteRow
    BY <2>1, RowTypes
  <2>3. Stored(c) = IncrementRevision([db EXCEPT !.sites = rows])
    BY <1>8 DEF Stored, UpdateSite
  <2> HIDE DEF row
  <2>4. /\ rows \in Seq(SiteRow) /\ Len(rows) = Len(db.sites)
        /\ \A i \in DOMAIN db.sites : rows[i].id = db.sites[i].id
    BY <1>1, <2>2, ReplacedFacts, ZenonT(60)
  <2> HIDE DEF rows
  <2>5. Grown(rows, db.siteSeq, db.sites, db.siteSeq)
    BY <1>1, <2>4, SameIdsGrows
  <2> QED
    BY <1>4, <2>3, <2>4, <2>5
<1>9. CASE c.op = "delete_site"
  <2> DEFINE rows == Without(db.sites, c.id)
  <2>1. Stored(c) = IncrementRevision([db EXCEPT !.sites = rows])
    BY <1>9 DEF Stored, DeleteSite
  <2>2. /\ rows \in Seq(SiteRow) /\ Range(rows) \subseteq Range(db.sites)
        /\ InOrderOf(rows, db.sites, Len(db.sites))
    BY <1>1, WithoutFacts
  <2> HIDE DEF rows
  <2>3. Grown(rows, db.siteSeq, db.sites, db.siteSeq)
    BY <1>1, <2>2, SelectedGrows
  <2> QED
    BY <1>4, <2>1, <2>2, <2>3
<1>10. CASE c.op = "create_certificate"
  <2> DEFINE kept == Cleared(db.certs, c.cert)
             b == [db EXCEPT !.certs = kept]
             d == InsertCert(b, c.cert)
             row == Cert(db.certSeq + 1, c.cert)
  <2>1. c.cert \in CertInputs /\ db.certSeq + 1 \in Nat
    <3>1. c.cert \in CertInputs
      BY <1>10, Zenon DEF AnyChange
    <3> QED
      BY <1>1, <3>1
  <2>2. row \in CertRow /\ row.id = db.certSeq + 1
    BY <2>1, RowTypes
  <2>3. Stored(c) = IncrementRevision(d)
    BY <1>10 DEF Stored, CreateCertificate, Cleared
  <2>4. kept \in Seq(CertRow) /\ Grown(kept, db.certSeq, db.certs, db.certSeq)
    BY <1>6, <2>1
  <2> HIDE DEF kept
  <2>5. /\ b \in Db /\ b.certs = kept /\ b.certSeq = db.certSeq /\ b.sites = db.sites
        /\ b.siteSeq = db.siteSeq
    BY <2>4, TableFacts
  <2> HIDE DEF b
  <2>6. /\ d \in Db /\ d.certs = Append(kept, row) /\ d.certSeq = db.certSeq + 1
        /\ d.sites = db.sites /\ d.siteSeq = db.siteSeq
    BY <2>1, <2>5, InsertFacts
  <2> HIDE DEF d, row
  <2>7. Ascending(kept, db.certSeq) /\ Ids(kept) \subseteq Ids(db.certs) \cup ((db.certSeq + 1) .. db.certSeq)
    BY <2>4 DEF Grown
  <2>8. Grown(Append(kept, row), db.certSeq + 1, kept, db.certSeq)
    BY <1>1, <2>2, <2>4, <2>7, AppendGrows
  <2>9. Grown(Append(kept, row), db.certSeq + 1, db.certs, db.certSeq)
    <3>1. (db.certSeq + 1) .. db.certSeq = {}
      BY <1>1
    <3> QED
      BY <2>7, <2>8, <3>1 DEF Grown
  <2>10. DbGrown(d, db)
    BY <1>2, <2>6, <2>9 DEF DbGrown
  <2> QED
    BY <1>3, <2>3, <2>6, <2>10
<1>11. CASE c.op = "update_certificate"
  <2> DEFINE kept == Cleared(db.certs, c.cert)
             row == Cert(c.id, c.cert)
             rows == Replaced(kept, row)
  <2>1. c.cert \in CertInputs /\ c.id \in Nat
    BY <1>11, Zenon DEF AnyChange
  <2>2. row \in CertRow
    BY <2>1, RowTypes
  <2>3. Stored(c) = IncrementRevision([db EXCEPT !.certs = rows])
    BY <1>11 DEF Stored, UpdateCertificate, Cleared
  <2>4. /\ kept \in Seq(CertRow) /\ Len(kept) = Len(db.certs)
        /\ \A i \in DOMAIN db.certs : kept[i].id = db.certs[i].id
    BY <1>6, <2>1
  <2> HIDE DEF kept, row
  <2>5. /\ rows \in Seq(CertRow) /\ Len(rows) = Len(kept)
        /\ \A i \in DOMAIN kept : rows[i].id = kept[i].id
    BY <2>2, <2>4, ReplacedFacts
  <2> HIDE DEF rows
  <2>6. DOMAIN kept = DOMAIN db.certs
    BY <1>1, <2>4, LenProperties
  <2>7. Grown(rows, db.certSeq, db.certs, db.certSeq)
    BY <1>1, <2>4, <2>5, <2>6, SameIdsGrows
  <2> QED
    BY <1>5, <2>3, <2>5, <2>7
<1>12. CASE c.op = "delete_certificate"
  <2> DEFINE rows == Without(db.certs, c.id)
  <2>1. Stored(c) = IncrementRevision([db EXCEPT !.certs = rows])
    BY <1>12 DEF Stored, DeleteCertificate
  <2>2. /\ rows \in Seq(CertRow) /\ Range(rows) \subseteq Range(db.certs)
        /\ InOrderOf(rows, db.certs, Len(db.certs))
    BY <1>1, WithoutFacts
  <2> HIDE DEF rows
  <2>3. Grown(rows, db.certSeq, db.certs, db.certSeq)
    BY <1>1, <2>2, SelectedGrows
  <2> QED
    BY <1>5, <2>1, <2>2, <2>3
<1>13. CASE c.op = "update_runtime_settings"
  <2> DEFINE d == [db EXCEPT !.settings = c.settings]
  <2>1. c.settings \in Settings
    BY <1>13, Zenon DEF AnyChange
  <2>2. Stored(c) = IncrementRevision(d)
    BY <1>13 DEF Stored, UpdateRuntimeSettings
  <2>3. /\ d \in Db /\ d.sites = db.sites /\ d.siteSeq = db.siteSeq
        /\ d.certs = db.certs /\ d.certSeq = db.certSeq
    BY <2>1, TableFacts
  <2> HIDE DEF d
  <2>4. DbGrown(d, db)
    BY <1>2, <2>3 DEF DbGrown
  <2> QED
    BY <1>3, <2>2, <2>3, <2>4
<1>14. CASE c.op = "import_configuration"
  <2> DEFINE b == c.backup
             d == ReplaceConfiguration(db, b)
  <2>1. b \in Backups
    BY <1>14, Zenon DEF AnyChange
  <2>2. Stored(c) = IncrementRevision(d)
    BY <1>14 DEF Stored
  <2> HIDE DEF b
  <2>3. /\ d \in Db
        /\ d.sites = [i \in 1 .. Len(b.sites) |-> Site(db.siteSeq + i, b.sites[i])]
        /\ d.certs = [i \in 1 .. Len(b.certs) |-> Cert(db.certSeq + i, b.certs[i])]
        /\ d.siteSeq = db.siteSeq + Len(b.sites) /\ d.certSeq = db.certSeq + Len(b.certs)
    BY <2>1, ImportFacts
  <2> HIDE DEF d
  <2>4. Len(b.sites) \in Nat /\ Len(b.certs) \in Nat
    BY <2>1, RowTypes, LenProperties
  <2>5. Grown(d.sites, d.siteSeq, db.sites, db.siteSeq)
    <3>1. /\ DOMAIN d.sites = 1 .. Len(b.sites)
          /\ \A i \in 1 .. Len(b.sites) : d.sites[i].id = db.siteSeq + i
      BY <2>3 DEF Site
    <3> QED
      BY <1>1, <2>3, <2>4, <3>1, NumberedGrows
  <2>6. Grown(d.certs, d.certSeq, db.certs, db.certSeq)
    <3>1. /\ DOMAIN d.certs = 1 .. Len(b.certs)
          /\ \A i \in 1 .. Len(b.certs) : d.certs[i].id = db.certSeq + i
      BY <2>3 DEF Cert
    <3> QED
      BY <1>1, <2>3, <2>4, <3>1, NumberedGrows
  <2>7. DbGrown(d, db)
    BY <2>5, <2>6 DEF DbGrown
  <2> QED
    BY <1>3, <2>2, <2>3, <2>7
<1>15. CASE c.op = "reload_runtime"
  BY <1>2, <1>15 DEF Stored, DbGrown
<1> QED
  <2>1. c.op \in {"create_site", "update_site", "delete_site", "create_certificate",
                  "update_certificate", "delete_certificate", "update_runtime_settings",
                  "import_configuration", "reload_runtime"}
    BY Zenon DEF AnyChange
  <2> QED
    BY <2>1, <1>7, <1>8, <1>9, <1>10, <1>11, <1>12, <1>13, <1>14, <1>15

-----------------------------------------------------------------------------
(* The steps                                                               *)

\* The database of the model is one of the databases the service lemmas speak of.
LEMMA DbType ==
  ASSUME db \in Database
  PROVE  db \in Db
BY ConfigAssumption DEF Database, Db

\* What is asked for is a change.
LEMMA ChangesAreChanges ==
  ASSUME db \in Database, NEW c \in Changes
  PROVE  c \in AnyChange
<1>1. db.sites \in Seq(SiteRow) /\ db.certs \in Seq(CertRow)
  BY DEF Database
<1>2. Ids(db.sites) \subseteq Nat /\ Ids(db.certs) \subseteq Nat
  <2>1. Range(db.sites) \subseteq SiteRow /\ Range(db.certs) \subseteq CertRow
    BY <1>1, RowsOfList
  <2> QED
    BY <2>1 DEF Ids, SiteRow, CertRow
<1> DEFINE SI == Ids(db.sites)
           CI == Ids(db.certs)
           VC == {x \in CertInputs : ValidCert(x)}
           VB == {b \in Backups :
                    /\ \A x \in Range(b.certs) : ValidCert(x)
                    /\ Distinct(b.sites, LAMBDA s : s.host) /\ Distinct(b.certs, LAMBDA x : x.name)
                    /\ Cardinality({i \in DOMAIN b.certs : b.certs[i].default}) <= 1}
<1>3. SI \subseteq Nat /\ CI \subseteq Nat /\ VC \subseteq CertInputs /\ VB \subseteq Backups
  BY <1>2
<1>4. \/ c \in [op: {"create_site"}, site: SiteInputs]
      \/ c \in [op: {"update_site"}, id: SI, site: SiteInputs]
      \/ c \in [op: {"delete_site"}, id: SI]
      \/ c \in [op: {"create_certificate"}, cert: VC]
      \/ c \in [op: {"update_certificate"}, id: CI, cert: VC]
      \/ c \in [op: {"delete_certificate"}, id: CI]
      \/ c \in [op: {"update_runtime_settings"}, settings: Settings]
      \/ c \in [op: {"import_configuration"}, backup: VB]
      \/ c \in [op: {"reload_runtime"}]
  BY Zenon DEF Changes
<1> HIDE DEF SI, CI, VC, VB
<1>5. CASE c \in [op: {"create_site"}, site: SiteInputs]
  BY <1>5 DEF AnyChange
<1>6. CASE c \in [op: {"update_site"}, id: SI, site: SiteInputs]
  <2>1. c \in [op: {"update_site"}, id: Nat, site: SiteInputs]
    BY <1>3, <1>6
  <2> QED
    BY <2>1 DEF AnyChange
<1>7. CASE c \in [op: {"delete_site"}, id: SI]
  <2>1. c \in [op: {"delete_site"}, id: Nat]
    BY <1>3, <1>7
  <2> QED
    BY <2>1 DEF AnyChange
<1>8. CASE c \in [op: {"create_certificate"}, cert: VC]
  <2>1. c \in [op: {"create_certificate"}, cert: CertInputs]
    BY <1>3, <1>8
  <2> QED
    BY <2>1 DEF AnyChange
<1>9. CASE c \in [op: {"update_certificate"}, id: CI, cert: VC]
  <2>1. c \in [op: {"update_certificate"}, id: Nat, cert: CertInputs]
    BY <1>3, <1>9
  <2> QED
    BY <2>1 DEF AnyChange
<1>10. CASE c \in [op: {"delete_certificate"}, id: CI]
  <2>1. c \in [op: {"delete_certificate"}, id: Nat]
    BY <1>3, <1>10
  <2> QED
    BY <2>1 DEF AnyChange
<1>11. CASE c \in [op: {"update_runtime_settings"}, settings: Settings]
  BY <1>11 DEF AnyChange
<1>12. CASE c \in [op: {"import_configuration"}, backup: VB]
  <2>1. c \in [op: {"import_configuration"}, backup: Backups]
    BY <1>3, <1>12
  <2> QED
    BY <2>1 DEF AnyChange
<1>13. CASE c \in [op: {"reload_runtime"}]
  BY <1>13 DEF AnyChange
<1> QED
  BY <1>4, <1>5, <1>6, <1>7, <1>8, <1>9, <1>10, <1>11, <1>12, <1>13

\* A transaction that keeps the bound of the revision keeps the type of the database.
LEMMA StoredDatabase ==
  ASSUME db \in Database, NEW c \in AnyChange, RevisionOf(c) <= MaxRevision
  PROVE  Stored(c) \in Database
<1> DEFINE e == Stored(c)
<1>1. e \in Db /\ e.revision = RevisionOf(c)
  BY DbType, CandidateIsStored
<1>2. RevisionOf(c) \in 0 .. MaxRevision
  BY ConfigAssumption DEF RevisionOf, Database
<1> HIDE DEF e
<1>3. e \in Database
  BY <1>1, <1>2 DEF Db, Database
<1> QED
  BY <1>3 DEF e

\* After a transaction the ids of the sites are used ones, below the sequence.
LEMMA WrittenIds ==
  ASSUME IdsInv, NEW d, Grown(d.sites, d.siteSeq, db.sites, db.siteSeq), db.siteSeq \in Nat
  PROVE  used \cup Ids(d.sites) \subseteq 1 .. d.siteSeq
<1>1. /\ d.siteSeq \in Nat /\ db.siteSeq <= d.siteSeq
      /\ Ids(d.sites) \subseteq Ids(db.sites) \cup ((db.siteSeq + 1) .. d.siteSeq)
      /\ Ids(db.sites) \subseteq used /\ used \subseteq 1 .. db.siteSeq
  BY DEF Grown, IdsInv
<1>2. 1 .. db.siteSeq \subseteq 1 .. d.siteSeq /\ (db.siteSeq + 1) .. d.siteSeq \subseteq 1 .. d.siteSeq
  BY <1>1
<1> QED
  BY <1>1, <1>2

\* A stored runtime configuration has its revision.
LEMMA RuntimeRevision ==
  /\ \A l, rev : RuntimeConfig(l, rev).revision = rev
  /\ StoredRuntime.revision = db.revision
BY DEF RuntimeConfig, StoredRuntime

\* While nothing of the database changes, what is stored is the same.
LEMMA SameDb ==
  ASSUME db' = db
  PROVE  /\ StoredRuntime' = StoredRuntime /\ Lists' = Lists /\ NextSiteId' = NextSiteId
         /\ \A c : Candidate(c)' = Candidate(c) /\ RevisionOf(c)' = RevisionOf(c)
BY DEF StoredRuntime, Lists, ListSites, ListCertificates, Candidate, NextSiteId, RevisionOf

\* A save that a step leaves alone, with its database, stays in progress.
LEMMA SaveKept ==
  ASSUME SaveInv, db' = db, save' = save, process' = process
  PROVE  SaveInv'
<1>1. CASE save = NoSave
  BY <1>1 DEF SaveInv, NoSave
<1>2. CASE SaveInProgress
  <2>1. /\ StoredRuntime' = StoredRuntime
        /\ \A c : Candidate(c)' = Candidate(c) /\ RevisionOf(c)' = RevisionOf(c)
    BY SameDb
  <2>2. SaveInProgress'
    BY <1>2, <2>1 DEF SaveInProgress
  <2> QED
    BY <2>2 DEF SaveInv
<1> QED
  BY <1>1, <1>2 DEF SaveInv

\* The parts about the database alone.
DbInv == SchemaInv /\ SeedInv /\ IdsInv /\ OrderInv

\* A step that leaves the database and the ids handed out alone keeps what the invariant says of them.
LEMMA DbKept ==
  ASSUME DbInv, db' = db, used' = used, seeds' = seeds,
         process' = process \/ process' = "down" \/
         (process' \in Managed \cup {"initialized", "loading", "starting"} /\
          process \in Managed \cup {"initialized", "loading", "starting"})
  PROVE  DbInv'
<1>1. SchemaInv'
  BY DEF DbInv, SchemaInv, Managed
<1>2. SeedInv'
  BY DEF DbInv, SeedInv, Managed
<1>3. IdsInv' /\ OrderInv'
  BY DEF DbInv, IdsInv, OrderInv
<1> QED
  BY <1>1, <1>2, <1>3 DEF DbInv

\* Reading the candidate from the stored rows sets up a save that SaveInv accepts.
LEMMA PrepareStep ==
  ASSUME ServiceInv, NEW c \in Changes, Prepare(c)
  PROVE  ServiceInv'
<1>1. /\ process \in Managed /\ save = NoSave /\ RevisionOf(c) <= MaxRevision
      /\ save' = [stage |-> "prepared", change |-> c, revision |-> RevisionOf(c),
                  candidate |-> RuntimeConfig(Candidate(c), RevisionOf(c))]
      /\ UNCHANGED << db, process, handler, active, runtime, expired, used, seeds, crashes >>
  BY DEF Prepare
<1>2. TypeInv' /\ DbInv'
  <2>1. DbInv'
    BY <1>1, DbKept DEF ServiceInv, DbInv
  <2> QED
    BY <1>1, <2>1 DEF ServiceInv, TypeInv
<1>3. c \in AnyChange
  BY ChangesAreChanges DEF ServiceInv, TypeInv
<1>4. /\ StoredRuntime' = StoredRuntime
      /\ \A x : Candidate(x)' = Candidate(x) /\ RevisionOf(x)' = RevisionOf(x)
  BY <1>1, SameDb
<1>5. /\ save'.stage = "prepared" /\ save'.change = c /\ save'.revision = RevisionOf(c)
      /\ save'.candidate = RuntimeConfig(Candidate(c), RevisionOf(c))
      /\ save' = [stage |-> save'.stage, change |-> save'.change, revision |-> save'.revision,
                  candidate |-> save'.candidate]
  BY <1>1
<1>6. RevisionOf(c) \in 0 .. MaxRevision
  BY <1>1, ConfigAssumption DEF RevisionOf, ServiceInv, TypeInv, Database
<1>7. SaveInProgress'
  BY <1>1, <1>3, <1>4, <1>5, <1>6 DEF SaveInProgress
<1>8. HandlerInv'
  <2>1. save.stage # "committed"
    BY <1>1 DEF NoSave
  <2> QED
    BY <1>1, <1>4, <1>5, <2>1 DEF ServiceInv, HandlerInv
<1> QED
  BY <1>2, <1>7, <1>8 DEF ServiceInv, SaveInv, DbInv

\* The parts about the database after a transaction of a save, or one like it.
LEMMA DbWritten ==
  ASSUME ServiceInv, NEW c \in AnyChange, RevisionOf(c) <= MaxRevision, Write(Stored(c)),
         seeds' = seeds,
         process \in Managed \cup {"initialized", "loading", "starting"},
         process' \in Managed \cup {"initialized", "loading", "starting"}
  PROVE  DbInv' /\ db' \in Database /\ used' \subseteq Nat
<1>1. db' = Stored(c) /\ used' = used \cup Ids(Stored(c).sites) /\ Stored(c) \in Database
  BY StoredDatabase DEF Write, ServiceInv, TypeInv
<1>2. db \in Db /\ db \in Database
  BY DbType DEF ServiceInv, TypeInv
<1>3. /\ db'.schema = db.schema /\ db'.seeded = db.seeded /\ db'.revision = RevisionOf(c)
  BY <1>1, <1>2, CandidateIsStored
<1>4. DbGrown(db', db)
  BY <1>1, <1>2, StoredGrows DEF ServiceInv
<1>5. db.siteSeq \in Nat /\ db.revision \in Nat /\ db.schema \in Nat
  BY <1>2 DEF Db, LatestSchema
<1>6. used' \subseteq 1 .. db'.siteSeq /\ Ids(db'.sites) \subseteq used'
  BY <1>1, <1>4, <1>5, WrittenIds DEF ServiceInv, DbGrown
<1>7. IdsInv' /\ OrderInv'
  BY <1>4, <1>6 DEF IdsInv, OrderInv, DbGrown, Grown
<1>8. SchemaInv'
  <2>1. db'.revision >= db.revision
    BY <1>3, <1>5 DEF RevisionOf
  <2> QED
    BY <1>3, <1>5, <2>1 DEF ServiceInv, SchemaInv, Managed, RevisionOf
<1>9. SeedInv'
  BY <1>3 DEF ServiceInv, SeedInv, Managed
<1>10. used' \subseteq Nat
  BY <1>6
<1> QED
  BY <1>1, <1>7, <1>8, <1>9, <1>10 DEF DbInv

\* The transaction's rows are the candidate's, one revision on, with ids never used before.
LEMMA CommitStep ==
  ASSUME ServiceInv, CommitTransaction
  PROVE  ServiceInv'
<1> DEFINE c == save.change
<1>1. /\ save.stage = "prepared" /\ Write(Stored(c)) /\ db' = Stored(c)
      /\ save' = [save EXCEPT !.stage = "committed"]
      /\ UNCHANGED << process, handler, active, runtime, expired, seeds, crashes >>
  BY DEF CommitTransaction, Write
<1>2. SaveInProgress
  BY <1>1 DEF ServiceInv, SaveInv, NoSave
<1>3. /\ c \in AnyChange /\ process \in Managed /\ save.revision \in 0 .. MaxRevision
      /\ save.revision = RevisionOf(c)
      /\ save.candidate = RuntimeConfig(Candidate(c), RevisionOf(c))
      /\ save = [stage |-> save.stage, change |-> c, revision |-> save.revision,
                 candidate |-> save.candidate]
  BY <1>1, <1>2 DEF SaveInProgress
<1>4. RevisionOf(c) <= MaxRevision
  BY <1>3
<1> HIDE DEF c
<1>5. DbInv' /\ db' \in Database /\ used' \subseteq Nat
  BY <1>1, <1>3, <1>4, DbWritten
<1>6. /\ db'.revision = RevisionOf(c)
      /\ SameService(save.candidate, StoredRuntime')
  <2>1. StoredRuntime' = RuntimeConfig(ListsOf(db'), db'.revision)
    BY ListsRecord DEF StoredRuntime
  <2>2. db \in Db
    BY DbType DEF ServiceInv, TypeInv
  <2> QED
    BY <1>1, <1>3, <2>1, <2>2, CandidateIsStored
<1>7. /\ save'.stage = "committed" /\ save'.change = c /\ save'.revision = save.revision
      /\ save'.candidate = save.candidate
      /\ save' = [stage |-> save'.stage, change |-> save'.change, revision |-> save'.revision,
                  candidate |-> save'.candidate]
  <2> DEFINE r == save.revision
             k == save.candidate
  <2>1. save = [stage |-> "prepared", change |-> c, revision |-> r, candidate |-> k]
    BY <1>1, <1>3
  <2> HIDE DEF r, k
  <2>2. save' = [stage |-> "committed", change |-> c, revision |-> r, candidate |-> k]
    BY <1>1, <2>1
  <2> QED
    BY <2>1, <2>2
<1>8. SaveInProgress'
  BY <1>1, <1>3, <1>6, <1>7 DEF SaveInProgress
<1>9. HandlerInv'
  BY <1>1, <1>3, <1>7 DEF ServiceInv, HandlerInv, Managed
<1>10. TypeInv'
  BY <1>1, <1>5 DEF ServiceInv, TypeInv
<1> QED
  BY <1>5, <1>8, <1>9, <1>10 DEF ServiceInv, SaveInv, DbInv

\* A failed transaction leaves the rows as they were and ends the save.
LEMMA RollBackStep ==
  ASSUME ServiceInv, RollBack
  PROVE  ServiceInv'
<1>1. /\ save.stage = "prepared" /\ save' = NoSave
      /\ UNCHANGED << db, process, handler, active, runtime, expired, used, seeds, crashes >>
  BY DEF RollBack
<1>2. DbInv'
  BY <1>1, DbKept DEF ServiceInv, DbInv
<1>3. TypeInv' /\ SaveInv'
  BY <1>1 DEF ServiceInv, TypeInv, SaveInv, NoSave
<1>4. HandlerInv'
  <2>1. StoredRuntime' = StoredRuntime
    BY <1>1, SameDb
  <2>2. save.stage # "committed"
    BY <1>1
  <2> QED
    BY <1>1, <2>1, <2>2 DEF ServiceInv, HandlerInv, NoRuntime
<1> QED
  BY <1>2, <1>3, <1>4 DEF ServiceInv, DbInv

\* A committed candidate is published under the revision its transaction wrote.
LEMMA ActivateStep ==
  ASSUME ServiceInv, Activate
  PROVE  ServiceInv'
<1>1. /\ save.stage = "committed" /\ save' = NoSave
      /\ runtime' = IF handler THEN save.candidate ELSE runtime
      /\ active' = IF handler THEN save.revision ELSE active
      /\ UNCHANGED << db, process, handler, expired, used, seeds, crashes >>
  BY DEF Activate
<1>2. SaveInProgress
  BY <1>1 DEF ServiceInv, SaveInv, NoSave
<1>3. /\ save.revision = db.revision /\ SameService(save.candidate, StoredRuntime)
      /\ save.revision \in 0 .. MaxRevision
  BY <1>1, <1>2 DEF SaveInProgress
<1>4. DbInv'
  BY <1>1, DbKept DEF ServiceInv, DbInv
<1>5. TypeInv' /\ SaveInv'
  BY <1>1, <1>3 DEF ServiceInv, TypeInv, SaveInv, NoSave
<1>6. HandlerInv'
  <2>1. StoredRuntime' = StoredRuntime /\ StoredRuntime.revision = db.revision
    BY <1>1, SameDb, RuntimeRevision
  <2>2. save.candidate.revision = save.revision
    BY <1>3, <2>1 DEF SameService
  <2>3. CASE handler
    BY <1>1, <1>3, <2>1, <2>2, <2>3 DEF ServiceInv, HandlerInv
  <2>4. CASE ~handler
    BY <1>1, <2>4 DEF ServiceInv, HandlerInv, NoRuntime
  <2> QED
    BY <2>3, <2>4 DEF ServiceInv, TypeInv
<1> QED
  BY <1>4, <1>5, <1>6 DEF ServiceInv, DbInv

\* A save is in progress only behind the Admin listener.
LEMMA NoSaveYet ==
  ASSUME SaveInv, process \notin Managed
  PROVE  save = NoSave
BY DEF SaveInv, SaveInProgress

\* A new process begins over the database file as the last one left it.
LEMMA BootStep ==
  ASSUME ServiceInv, Boot
  PROVE  ServiceInv'
<1>1. /\ process = "down" /\ process' = "migrating"
      /\ UNCHANGED << db, handler, active, runtime, save, expired, used, seeds, crashes >>
  BY DEF Boot
<1>2. save = NoSave
  BY <1>1, NoSaveYet DEF ServiceInv, Managed
<1>3. TypeInv' /\ SaveInv'
  BY <1>1, <1>2 DEF ServiceInv, TypeInv, Processes, SaveInv, NoSave
<1>4. HandlerInv'
  BY <1>1 DEF ServiceInv, HandlerInv, NoRuntime
<1>5. SchemaInv' /\ SeedInv' /\ IdsInv' /\ OrderInv'
  BY <1>1 DEF ServiceInv, SchemaInv, SeedInv, IdsInv, OrderInv
<1> QED
  BY <1>3, <1>4, <1>5 DEF ServiceInv

\* A migration moves the schema one version on; the first one writes revision 1.
LEMMA MigrateStep ==
  ASSUME ServiceInv, Migrate
  PROVE  ServiceInv'
<1>1. /\ process = "migrating"
      /\ UNCHANGED << handler, active, runtime, save, expired, used, seeds, crashes >>
  BY DEF Migrate
<1>2. save = NoSave /\ ~handler
  BY <1>1, NoSaveYet DEF ServiceInv, Managed, HandlerInv
<1>3. CASE db.schema = LatestSchema
  <2>1. process' = "seeding" /\ db' = db
    BY <1>3 DEF Migrate
  <2>2. TypeInv' /\ SaveInv' /\ HandlerInv'
    BY <1>1, <1>2, <2>1 DEF ServiceInv, TypeInv, Processes, SaveInv, NoSave, HandlerInv
  <2>3. SchemaInv' /\ SeedInv' /\ IdsInv' /\ OrderInv'
    BY <1>1, <1>3, <2>1 DEF ServiceInv, SchemaInv, SeedInv, IdsInv, OrderInv
  <2> QED
    BY <2>2, <2>3 DEF ServiceInv
<1>4. CASE db.schema # LatestSchema
  <2>1. /\ process' = process
        /\ db' = [db EXCEPT !.schema = @ + 1,
                            !.revision = IF db.schema = 0 THEN 1 ELSE @,
                            !.settings = IF db.schema = 2 THEN DefaultSettings ELSE @]
    BY <1>4 DEF Migrate
  <2>2. /\ db' \in Database /\ db'.sites = db.sites /\ db'.certs = db.certs
        /\ db'.siteSeq = db.siteSeq /\ db'.certSeq = db.certSeq /\ db'.seeded = db.seeded
        /\ db'.schema = db.schema + 1 /\ db'.revision = IF db.schema = 0 THEN 1 ELSE db.revision
        /\ db.schema \in Nat /\ db.revision \in Nat
    <3>1. db \in Database
      BY DEF ServiceInv, TypeInv
    <3>2. db.schema + 1 \in 0 .. LatestSchema
      BY <1>4, <3>1 DEF Database, LatestSchema
    <3> DEFINE rev == IF db.schema = 0 THEN 1 ELSE db.revision
               set == IF db.schema = 2 THEN DefaultSettings ELSE db.settings
    <3>3. rev \in 0 .. MaxRevision /\ set \in Settings /\ db.schema \in Nat /\ db.revision \in Nat
      BY <3>1, ConfigAssumption DEF Database
    <3>4. db' = [db EXCEPT !.schema = db.schema + 1, !.revision = rev, !.settings = set]
      BY <2>1
    <3>5. db'.revision = rev
      BY <3>1, <3>4 DEF Database
    <3>6. rev = IF db.schema = 0 THEN 1 ELSE db.revision
      OBVIOUS
    <3> HIDE DEF rev, set
    <3>7. /\ db' \in Database /\ db'.sites = db.sites /\ db'.certs = db.certs
          /\ db'.siteSeq = db.siteSeq /\ db'.certSeq = db.certSeq /\ db'.seeded = db.seeded
          /\ db'.schema = db.schema + 1
      BY <3>1, <3>2, <3>3, <3>4 DEF Database
    <3> QED
      BY <3>3, <3>5, <3>6, <3>7
  <2>3. TypeInv' /\ SaveInv' /\ HandlerInv'
    BY <1>1, <1>2, <2>1, <2>2 DEF ServiceInv, TypeInv, SaveInv, NoSave, HandlerInv
  <2>4. SchemaInv'
    <3>1. db.schema > 0 => db.revision > 0
      BY DEF ServiceInv, SchemaInv
    <3>2. db'.revision > 0
      BY <2>2, <3>1
    <3> QED
      BY <1>1, <2>1, <3>2 DEF SchemaInv
  <2>5. SeedInv'
    BY <1>1, <2>1, <2>2 DEF ServiceInv, SeedInv
  <2>6. IdsInv' /\ OrderInv'
    BY <1>1, <2>2 DEF ServiceInv, IdsInv, OrderInv
  <2> QED
    BY <2>3, <2>4, <2>5, <2>6 DEF ServiceInv
<1> QED
  BY <1>3, <1>4

\* The mark is a statement of its own, after the site it stands for; the revision is then read.
LEMMA MarkSeededStep ==
  ASSUME ServiceInv, MarkSeeded
  PROVE  ServiceInv'
<1>1. /\ process = "marking" /\ process' = "initialized"
      /\ db' = [db EXCEPT !.seeded = TRUE] /\ active' = db.revision
      /\ UNCHANGED << handler, runtime, save, expired, used, seeds, crashes >>
  BY DEF MarkSeeded
<1>2. save = NoSave /\ ~handler
  BY <1>1, NoSaveYet DEF ServiceInv, Managed, HandlerInv
<1>3. /\ db' \in Database /\ db'.sites = db.sites /\ db'.certs = db.certs
      /\ db'.siteSeq = db.siteSeq /\ db'.certSeq = db.certSeq /\ db'.seeded
      /\ db'.schema = db.schema /\ db'.revision = db.revision
      /\ db.revision \in 0 .. MaxRevision
  BY <1>1 DEF ServiceInv, TypeInv, Database
<1>4. TypeInv' /\ SaveInv' /\ HandlerInv'
  BY <1>1, <1>2, <1>3 DEF ServiceInv, TypeInv, Processes, SaveInv, NoSave, HandlerInv
<1>5. SchemaInv' /\ SeedInv'
  BY <1>1, <1>3 DEF ServiceInv, SchemaInv, SeedInv
<1>6. IdsInv' /\ OrderInv'
  BY <1>1, <1>3 DEF ServiceInv, IdsInv, OrderInv
<1> QED
  BY <1>4, <1>5, <1>6 DEF ServiceInv

\* The example site is stored as create_site stores any other.
LEMMA SeedSiteStep ==
  ASSUME ServiceInv, SeedSite
  PROVE  ServiceInv'
<1>1. /\ process = "seeding"
      /\ UNCHANGED << handler, active, runtime, save, expired, crashes >>
  BY DEF SeedSite
<1>2. save = NoSave /\ ~handler
  BY <1>1, NoSaveYet DEF ServiceInv, Managed, HandlerInv
<1>3. db \in Database /\ db \in Db /\ db.revision \in Nat
  BY DbType DEF ServiceInv, TypeInv, Db
<1>4. CASE process' \in {"marking", "down"} /\ UNCHANGED << db, used, seeds >>
  <2>1. TypeInv' /\ SaveInv' /\ HandlerInv'
    BY <1>1, <1>2, <1>4 DEF ServiceInv, TypeInv, Processes, SaveInv, NoSave, HandlerInv
  <2>2. SchemaInv' /\ SeedInv' /\ IdsInv' /\ OrderInv'
    BY <1>1, <1>4 DEF ServiceInv, SchemaInv, SeedInv, IdsInv, OrderInv
  <2> QED
    BY <2>1, <2>2 DEF ServiceInv
<1>5. CASE /\ NeedsExampleSite /\ Write(CreateSite(ExampleSite)) /\ seeds' = seeds + 1
           /\ process' = "marking"
  <2> DEFINE c == [op |-> "create_site", site |-> ExampleSite]
  <2>1. c \in AnyChange /\ Stored(c) = CreateSite(ExampleSite) /\ c.op # "reload_runtime"
    <3>1. c \in [op: {"create_site"}, site: SiteInputs]
      BY RowTypes
    <3>2. c \in AnyChange
      BY <3>1, Zenon DEF AnyChange
    <3>3. c.op = "create_site" /\ c.site = ExampleSite
      OBVIOUS
    <3>4. Stored(c) = CreateSite(ExampleSite)
      BY <3>3 DEF Stored
    <3> QED
      BY <3>2, <3>3, <3>4
  <2> HIDE DEF c
  <2>2. ~db.seeded /\ db.sites = << >> /\ db.revision <= 1 /\ seeds = 0
    BY <1>5 DEF NeedsExampleSite, ServiceInv, SeedInv, TypeInv
  <2>3. RevisionOf(c) = db.revision + 1 /\ RevisionOf(c) <= MaxRevision
    BY <1>3, <2>1, <2>2, ConfigAssumption DEF RevisionOf
  <2>4. db' = Stored(c) /\ used' = used \cup Ids(Stored(c).sites) /\ Stored(c) \in Database
    BY <1>3, <1>5, <2>1, <2>3, StoredDatabase DEF Write
  <2>5. db'.schema = db.schema /\ db'.seeded = db.seeded /\ db'.revision = db.revision + 1
    BY <1>3, <2>1, <2>3, <2>4, CandidateIsStored
  <2>6. DbGrown(db', db)
    BY <1>3, <2>1, <2>4, StoredGrows DEF ServiceInv
  <2>7. used' \subseteq 1 .. db'.siteSeq /\ Ids(db'.sites) \subseteq used'
    BY <1>3, <2>4, <2>6, WrittenIds DEF ServiceInv, DbGrown, Db
  <2>8. IdsInv' /\ OrderInv'
    BY <2>6, <2>7 DEF IdsInv, OrderInv, DbGrown, Grown
  <2>9. db'.sites # << >>
    <3> DEFINE d == InsertSite(db, ExampleSite)
    <3>1. d \in Db /\ d.sites = Append(db.sites, Site(db.siteSeq + 1, ExampleSite))
      BY <1>3, RowTypes, InsertFacts
    <3>2. db' = IncrementRevision(d)
      BY <2>1, <2>4 DEF CreateSite
    <3> HIDE DEF d
    <3>3. db'.sites = Append(<< >>, Site(db.siteSeq + 1, ExampleSite))
      BY <2>2, <3>1, <3>2, IncrementFacts
    <3> QED
      BY <3>3
  <2>10. SchemaInv' /\ SeedInv'
    BY <1>1, <1>3, <1>5, <2>2, <2>5, <2>9 DEF ServiceInv, SchemaInv, SeedInv
  <2>11. TypeInv' /\ SaveInv' /\ HandlerInv'
    <3>1. used' \subseteq Nat
      BY <2>7
    <3>2. db' \in Database /\ seeds' \in Nat
      BY <1>5, <2>2, <2>4
    <3> QED
      BY <1>1, <1>2, <1>5, <3>1, <3>2
      DEF ServiceInv, TypeInv, Processes, SaveInv, NoSave, HandlerInv
  <2> QED
    BY <2>8, <2>10, <2>11 DEF ServiceInv
<1> QED
  BY <1>4, <1>5 DEF SeedSite

\* The bounds.
LEMMA Bounds ==
  /\ MaxRevision \in Nat /\ 0 \in 0 .. MaxRevision
  /\ MaxCrashes \in Nat /\ 0 \in 0 .. MaxCrashes
BY ConfigAssumption

\* Recovery mode is always in order.
LEMMA RecoveryStep ==
  ASSUME ServiceInv, EnterRecovery, save = NoSave,
         process \in {"initialized", "loading", "starting"},
         UNCHANGED << db, save, expired, used, seeds, crashes >>
  PROVE  ServiceInv'
<1>1. process' = "recovery" /\ active' = 0 /\ handler' = FALSE /\ runtime' = NoRuntime
  BY DEF EnterRecovery
<1>2. DbInv'
  <2>1. process' \in Managed
    BY <1>1 DEF Managed
  <2> QED
    BY <2>1, DbKept DEF ServiceInv, DbInv
<1>3. TypeInv'
  BY <1>1, Bounds DEF ServiceInv, TypeInv, Processes
<1>4. SaveInv' /\ HandlerInv'
  BY <1>1 DEF SaveInv, NoSave, HandlerInv
<1> QED
  BY <1>2, <1>3, <1>4 DEF ServiceInv, DbInv

\* The seeding transaction inserts at most one certificate, under a new id.
LEMMA SeedCertificateStep ==
  ASSUME ServiceInv, SeedCertificate
  PROVE  ServiceInv'
<1>1. process = "initialized" /\ UNCHANGED << save, expired, seeds, crashes >>
  BY DEF SeedCertificate
<1>2. save = NoSave /\ ~handler
  BY <1>1, NoSaveYet DEF ServiceInv, Managed, HandlerInv
<1>3. CASE process' = "loading" /\ UNCHANGED << db, used, active, handler, runtime >>
  <2>1. DbInv'
    BY <1>1, <1>3, DbKept DEF ServiceInv, DbInv
  <2>2. TypeInv' /\ SaveInv' /\ HandlerInv'
    BY <1>1, <1>2, <1>3 DEF ServiceInv, TypeInv, Processes, SaveInv, NoSave, HandlerInv
  <2> QED
    BY <2>1, <2>2 DEF ServiceInv, DbInv
<1>4. CASE /\ db.revision < MaxRevision /\ Write(CreateCertificate(ExampleCert))
           /\ active' = db.revision + 1 /\ process' = "loading"
           /\ UNCHANGED << handler, runtime >>
  <2> DEFINE c == [op |-> "create_certificate", cert |-> ExampleCert]
  <2>1. c \in AnyChange /\ Stored(c) = CreateCertificate(ExampleCert) /\ c.op # "reload_runtime"
    <3>1. c \in [op: {"create_certificate"}, cert: CertInputs]
      BY RowTypes
    <3>2. c \in AnyChange
      BY <3>1, Zenon DEF AnyChange
    <3>3. c.op = "create_certificate" /\ c.cert = ExampleCert
      OBVIOUS
    <3>4. Stored(c) = CreateCertificate(ExampleCert)
      BY <3>3 DEF Stored
    <3> QED
      BY <3>2, <3>3, <3>4
  <2> HIDE DEF c
  <2>2. db.revision \in 0 .. MaxRevision /\ MaxRevision \in Nat
    BY ConfigAssumption DEF ServiceInv, TypeInv, Database
  <2>3. RevisionOf(c) <= MaxRevision /\ active' \in 0 .. MaxRevision
    BY <1>4, <2>1, <2>2 DEF RevisionOf
  <2>4. DbInv' /\ db' \in Database /\ used' \subseteq Nat
    BY <1>1, <1>4, <2>1, <2>3, DbWritten
  <2>5. active' = db'.revision
    BY <1>4, <2>1, DbType, CandidateIsStored DEF Write, ServiceInv, TypeInv
  <2>6. TypeInv' /\ SaveInv' /\ HandlerInv'
    BY <1>1, <1>2, <1>4, <2>3, <2>4, <2>5
    DEF ServiceInv, TypeInv, Processes, SaveInv, NoSave, HandlerInv
  <2> QED
    BY <2>4, <2>6 DEF ServiceInv, DbInv
<1>5. CASE EnterRecovery /\ UNCHANGED << db, used >>
  BY <1>1, <1>2, <1>5, RecoveryStep
<1> QED
  BY <1>3, <1>4, <1>5 DEF SeedCertificate

\* What startup loads is the stored revision itself.
LEMMA LoadRuntimeStep ==
  ASSUME ServiceInv, LoadRuntime
  PROVE  ServiceInv'
<1>1. process = "loading" /\ UNCHANGED << db, save, expired, used, seeds, crashes >>
  BY DEF LoadRuntime
<1>2. save = NoSave
  BY <1>1, NoSaveYet DEF ServiceInv, Managed
<1>3. CASE /\ runtime' = RuntimeConfig(Lists, db.revision)
           /\ handler' = TRUE /\ process' = "starting" /\ active' = active
  <2>1. DbInv'
    BY <1>1, <1>3, DbKept DEF ServiceInv, DbInv
  <2>2. TypeInv' /\ SaveInv'
    BY <1>1, <1>2, <1>3 DEF ServiceInv, TypeInv, Processes, SaveInv, NoSave
  <2>3. HandlerInv'
    <3>1. StoredRuntime' = StoredRuntime /\ runtime' = StoredRuntime
          /\ StoredRuntime.revision = db.revision
      BY <1>1, <1>3, SameDb, RuntimeRevision DEF StoredRuntime
    <3>2. SameService(runtime', StoredRuntime')
      BY <3>1 DEF SameService
    <3>3. active = db.revision
      BY <1>1 DEF ServiceInv, HandlerInv
    <3> QED
      BY <1>1, <1>3, <3>1, <3>2, <3>3 DEF HandlerInv
  <2> QED
    BY <2>1, <2>2, <2>3 DEF ServiceInv, DbInv
<1>4. CASE EnterRecovery
  BY <1>1, <1>2, <1>4, RecoveryStep
<1> QED
  BY <1>3, <1>4 DEF LoadRuntime

\* The server begins with the runtime that startup loaded.
LEMMA StartServerStep ==
  ASSUME ServiceInv, StartServer
  PROVE  ServiceInv'
<1>1. process = "starting" /\ UNCHANGED << db, save, expired, used, seeds, crashes >>
  BY DEF StartServer
<1>2. save = NoSave /\ handler
  BY <1>1, NoSaveYet DEF ServiceInv, Managed, HandlerInv
<1>3. CASE process' = "running" /\ UNCHANGED << handler, active, runtime >>
  <2>1. DbInv'
    BY <1>1, <1>3, DbKept DEF ServiceInv, DbInv, Managed
  <2>2. TypeInv' /\ SaveInv'
    BY <1>1, <1>2, <1>3 DEF ServiceInv, TypeInv, Processes, SaveInv, NoSave
  <2>3. HandlerInv'
    <3>1. StoredRuntime' = StoredRuntime
      BY <1>1, SameDb
    <3> QED
      BY <1>1, <1>2, <1>3, <3>1 DEF ServiceInv, HandlerInv
  <2> QED
    BY <2>1, <2>2, <2>3 DEF ServiceInv, DbInv
<1>4. CASE EnterRecovery
  BY <1>1, <1>2, <1>4, RecoveryStep
<1> QED
  BY <1>3, <1>4 DEF StartServer

\* The end of the process loses the memory and leaves the database file.
LEMMA CrashStep ==
  ASSUME ServiceInv, Crash
  PROVE  ServiceInv'
<1>1. /\ crashes < MaxCrashes /\ crashes' = crashes + 1
      /\ process' = "down" /\ handler' = FALSE /\ active' = 0
      /\ runtime' = NoRuntime /\ save' = NoSave
      /\ UNCHANGED << db, expired, used, seeds >>
  BY DEF Crash
<1>2. DbInv'
  BY <1>1, DbKept DEF ServiceInv, DbInv
<1>3. TypeInv'
  <2>1. crashes' \in 0 .. MaxCrashes
    BY <1>1, Bounds DEF ServiceInv, TypeInv
  <2> QED
    BY <1>1, <2>1, Bounds DEF ServiceInv, TypeInv, Processes
<1>4. SaveInv' /\ HandlerInv'
  BY <1>1 DEF SaveInv, HandlerInv, NoSave
<1> QED
  BY <1>2, <1>3, <1>4 DEF ServiceInv, DbInv

\* A certificate that expires changes no row.
LEMMA ExpireStep ==
  ASSUME ServiceInv, NEW pem \in Pems, Expire(pem)
  PROVE  ServiceInv'
<1>1. /\ expired' = expired \cup {pem}
      /\ UNCHANGED << db, process, handler, active, runtime, save, used, seeds, crashes >>
  BY DEF Expire
<1>2. DbInv' /\ SaveInv' /\ StoredRuntime' = StoredRuntime
  BY <1>1, DbKept, SaveKept, SameDb DEF ServiceInv, DbInv
<1>3. TypeInv' /\ HandlerInv'
  BY <1>1, <1>2 DEF ServiceInv, TypeInv, HandlerInv
<1> QED
  BY <1>2, <1>3 DEF ServiceInv, DbInv

-----------------------------------------------------------------------------
(* The theorems                                                            *)

\* Every step keeps the invariant.
LEMMA ServiceInvStep ==
  ASSUME ServiceInv, [Next]_vars
  PROVE  ServiceInv'
<1>1. CASE UNCHANGED vars
  <2>1. /\ UNCHANGED << db, process, handler, active, runtime, save, expired, used, seeds, crashes >>
    BY <1>1 DEF vars
  <2>2. DbInv' /\ SaveInv' /\ StoredRuntime' = StoredRuntime
    BY <2>1, DbKept, SaveKept, SameDb DEF ServiceInv, DbInv
  <2>3. TypeInv' /\ HandlerInv'
    BY <2>1, <2>2 DEF ServiceInv, TypeInv, HandlerInv
  <2> QED
    BY <2>2, <2>3 DEF ServiceInv, DbInv
<1>2. CASE \E c \in Changes : Prepare(c)
  BY <1>2, PrepareStep
<1>3. CASE CommitTransaction
  BY <1>3, CommitStep
<1>4. CASE RollBack
  BY <1>4, RollBackStep
<1>5. CASE Activate
  BY <1>5, ActivateStep
<1>6. CASE Start
  BY <1>6, BootStep, MigrateStep, SeedSiteStep, MarkSeededStep, SeedCertificateStep,
     LoadRuntimeStep, StartServerStep DEF Start
<1>7. CASE Crash
  BY <1>7, CrashStep
<1>8. CASE \E pem \in Pems : Expire(pem)
  BY <1>8, ExpireStep
<1> QED
  BY <1>1, <1>2, <1>3, <1>4, <1>5, <1>6, <1>7, <1>8 DEF Next

\* The inductive invariant holds of an empty database file and for ever after: a save in
\* progress, the handler, the schema, the seeding and the ids fit together in every
\* interleaving of saves, expiring certificates, startups and ends of the process.
THEOREM ServiceInvHolds == Spec => []ServiceInv
<1>1. Init => ServiceInv
  <2> SUFFICES ASSUME Init PROVE ServiceInv
    OBVIOUS
  <2>1. /\ db = EmptyDatabase /\ process = "down" /\ handler = FALSE /\ active = 0
        /\ runtime = NoRuntime /\ save = NoSave /\ expired = {} /\ used = {}
        /\ seeds = 0 /\ crashes = 0
    BY DEF Init
  <2>2. /\ db.schema = 0 /\ db.revision = 0 /\ db.seeded = FALSE /\ db.sites = << >>
        /\ db.certs = << >> /\ db.siteSeq = 0 /\ db.certSeq = 0 /\ db.settings = DefaultSettings
    BY <2>1 DEF EmptyDatabase
  <2>3. db \in Database
    <3>1. << >> \in Seq(SiteRow) /\ << >> \in Seq(CertRow) /\ 0 \in 0 .. LatestSchema
      BY EmptySeq DEF LatestSchema
    <3> QED
      BY <2>1, <3>1, Bounds, RowTypes DEF EmptyDatabase, Database
  <2>4. TypeInv
    BY <2>1, <2>3, Bounds DEF TypeInv, Processes
  <2>5. SaveInv /\ HandlerInv /\ SchemaInv /\ SeedInv
    BY <2>1, <2>2 DEF SaveInv, HandlerInv, SchemaInv, SeedInv
  <2>6. IdsInv /\ OrderInv
    BY <2>1, <2>2 DEF IdsInv, OrderInv, Ids, Range, Ascending
  <2> QED
    BY <2>4, <2>5, <2>6 DEF ServiceInv
<1> QED
  BY <1>1, ServiceInvStep, PTL DEF Spec

\* Type correctness: in particular the rows of both tables stay in the order of their ids,
\* below the table's sequence, which is what ORDER BY id and AUTOINCREMENT mean here.
THEOREM TypeCorrect == Spec => []TypeOK
<1>1. ServiceInv => TypeOK
  <2> SUFFICES ASSUME ServiceInv PROVE TypeOK
    OBVIOUS
  <2>1. save.stage \in {"none", "prepared", "committed"}
    BY DEF ServiceInv, SaveInv, SaveInProgress, NoSave
  <2> QED
    BY <2>1 DEF ServiceInv, TypeInv, OrderInv, TypeOK, Processes
<1> QED
  BY <1>1, ServiceInvHolds, PTL

\* ServedIsStored: the running server serves what a restart would load, COMMIT to
\* activation excepted.  The candidate is built from the service's own lists, the stored
\* configuration by the repository's statements; that the two agree for every change is
\* CandidateIsStored.
THEOREM ServedIsStoredHolds == Spec => []ServedIsStored
<1>1. ServiceInv => ServedIsStored
  BY DEF ServiceInv, HandlerInv, ServedIsStored
<1> QED
  BY <1>1, ServiceInvHolds, PTL

\* RestartRequiredAccurate: restart_required() is false exactly when the data plane runs the
\* stored revision.
THEOREM RestartRequiredAccurateHolds == Spec => []RestartRequiredAccurate
<1>1. ServiceInv => RestartRequiredAccurate
  <2> SUFFICES ASSUME ServiceInv, process \in Managed, save = NoSave
               PROVE  RestartRequired <=> runtime.revision # db.revision
    BY DEF RestartRequiredAccurate
  <2>1. CASE process = "running"
    BY <2>1 DEF ServiceInv, HandlerInv, RestartRequired
  <2>2. CASE process = "recovery"
    BY <2>2 DEF ServiceInv, HandlerInv, RestartRequired, NoRuntime
  <2> QED
    BY <2>1, <2>2 DEF Managed
<1> QED
  BY <1>1, ServiceInvHolds, PTL

\* The second part of StartsAgain: the example site is created at most once, wherever the
\* first initialisation was interrupted.
THEOREM SeededOnce == Spec => [](seeds <= 1)
<1>1. ServiceInv => seeds <= 1
  BY DEF ServiceInv, SeedInv
<1> QED
  BY <1>1, ServiceInvHolds, PTL

\* A step that is traceable.
Traced ==
  /\ Content(db') # Content(db) /\ db.schema = LatestSchema => db'.revision = db.revision + 1
  /\ (Ids(db'.sites) \ Ids(db.sites)) \cap used = {}

\* A transaction is.
LEMMA WriteTraced ==
  ASSUME ServiceInv, NEW c \in AnyChange, db' = Stored(c)
  PROVE  Traced
<1>1. db \in Db /\ db.siteSeq \in Nat
  BY DbType DEF ServiceInv, TypeInv, Db
<1>2. /\ c.op = "reload_runtime" => db' = db
      /\ c.op # "reload_runtime" => db'.revision = db.revision + 1
  BY <1>1, CandidateIsStored
<1>3. Ids(db'.sites) \subseteq Ids(db.sites) \cup ((db.siteSeq + 1) .. db'.siteSeq)
  BY <1>1, StoredGrows DEF ServiceInv, DbGrown, Grown
<1>4. used \subseteq 1 .. db.siteSeq
  BY DEF ServiceInv, IdsInv
<1>5. (1 .. db.siteSeq) \cap ((db.siteSeq + 1) .. db'.siteSeq) = {}
  BY <1>1
<1>6. (Ids(db'.sites) \ Ids(db.sites)) \cap used = {}
  BY <1>3, <1>4, <1>5
<1>7. c.op = "reload_runtime" => Content(db') = Content(db)
  BY <1>2
<1> QED
  BY <1>2, <1>6, <1>7 DEF Traced

\* A step that writes neither table nor settings is.
LEMMA UnwrittenTraced ==
  ASSUME db'.sites = db.sites, db.schema = LatestSchema => Content(db') = Content(db)
  PROVE  Traced
BY DEF Traced

\* ChangesTraceable: once the schema is in place nothing changes the configuration without
\* a new revision, and no site id ever names a second site.
THEOREM ChangesTraceableHolds == Spec => ChangesTraceable
<1>1. ASSUME ServiceInv, [Next]_vars PROVE [Traced]_vars
  <2>1. CASE db' = db
    BY <2>1, UnwrittenTraced
  <2>2. CASE CommitTransaction
    <3>1. save.stage = "prepared" /\ db' = Stored(save.change)
      BY <2>2 DEF CommitTransaction, Write
    <3>2. save.change \in AnyChange
      BY <1>1, <3>1 DEF ServiceInv, SaveInv, SaveInProgress, NoSave
    <3> QED
      BY <1>1, <3>1, <3>2, WriteTraced
  <2>3. CASE Migrate
    <3>1. CASE db.schema = LatestSchema
      BY <2>1, <2>3, <3>1 DEF Migrate
    <3>2. CASE db.schema # LatestSchema
      <4>1. db'.sites = db.sites
        BY <1>1, <2>3, <3>2 DEF Migrate, ServiceInv, TypeInv, Database
      <4> QED
        BY <3>2, <4>1, UnwrittenTraced
    <3> QED
      BY <3>1, <3>2
  <2>4. CASE MarkSeeded
    <3>1. db'.sites = db.sites /\ db'.certs = db.certs /\ db'.settings = db.settings
      BY <1>1, <2>4 DEF MarkSeeded, ServiceInv, TypeInv, Database
    <3> QED
      BY <3>1, UnwrittenTraced DEF Content
  <2>5. CASE SeedSite
    <3> DEFINE c == [op |-> "create_site", site |-> ExampleSite]
    <3>1. c \in [op: {"create_site"}, site: SiteInputs]
      BY RowTypes
    <3>2. c \in AnyChange
      BY <3>1, Zenon DEF AnyChange
    <3>3. Stored(c) = CreateSite(ExampleSite)
      BY DEF Stored
    <3> HIDE DEF c
    <3>4. db' = db \/ db' = Stored(c)
      BY <2>5, <3>3 DEF SeedSite, Write
    <3> QED
      BY <1>1, <2>1, <3>2, <3>4, WriteTraced
  <2>6. CASE SeedCertificate
    <3> DEFINE c == [op |-> "create_certificate", cert |-> ExampleCert]
    <3>1. c \in [op: {"create_certificate"}, cert: CertInputs]
      BY RowTypes
    <3>2. c \in AnyChange
      BY <3>1, Zenon DEF AnyChange
    <3>3. Stored(c) = CreateCertificate(ExampleCert)
      BY DEF Stored
    <3> HIDE DEF c
    <3>4. db' = db \/ db' = Stored(c)
      BY <2>6, <3>3 DEF SeedCertificate, Write
    <3> QED
      BY <1>1, <2>1, <3>2, <3>4, WriteTraced
  <2>7. CASE \/ UNCHANGED vars \/ \E c \in Changes : Prepare(c)
             \/ RollBack \/ Activate \/ Boot \/ LoadRuntime \/ StartServer \/ Crash
             \/ \E pem \in Pems : Expire(pem)
    <3>1. db' = db
      BY <2>7 DEF vars, Prepare, RollBack, Activate, Boot, LoadRuntime, StartServer, Crash, Expire
    <3> QED
      BY <2>1, <3>1
  <2> QED
    BY <1>1, <2>2, <2>3, <2>4, <2>5, <2>6, <2>7 DEF Next, Start
<1>2. ServiceInv /\ [Next]_vars => [Traced]_vars
  BY <1>1
<1>3. ChangesTraceable <=> [][Traced]_vars
  BY PTL DEF ChangesTraceable, Traced
<1> QED
  BY <1>2, <1>3, ServiceInvHolds, PTL DEF Spec

-----------------------------------------------------------------------------
(* The dispatcher's invariant                                              *)

\* What the table of a rate limiter is made of.
Entry == [tokens: Int, updated: Nat, banned_until: Nat]
IsTable(t) ==
  /\ t = [entries |-> t.entries, lru |-> t.lru, request_count |-> t.request_count]
  /\ t.entries = [c \in DOMAIN t.entries |-> t.entries[c]]
  /\ DOMAIN t.entries \subseteq Clients
  /\ \A c \in DOMAIN t.entries : t.entries[c] \in Entry
  /\ t.lru \in Seq(Clients) /\ t.request_count \in Nat

\* The list names the entries in the order of their last checks, and there is room.
Listed(t, order) ==
  /\ order \in Seq(Clients)
  /\ t.lru = Select(order, DOMAIN t.entries)
  /\ DOMAIN t.entries \subseteq Range(order)
  /\ Cardinality(DOMAIN t.entries) <= MaxEntries

\* The tokens a bucket would hold if only the admissions from the i-th on had drawn
\* on it: the real bucket holds the least of these amounts.
Allowance(spec, e, log, i) ==
  Full(spec) + spec.max_requests * (e.updated - log[i]) - (Len(log) - i + 1) * Unit(spec)

Balanced(spec, e, log) ==
  /\ Conforms(spec, log)
  /\ \A i \in 1 .. Len(log) : e.tokens <= Allowance(spec, e, log, i)
  /\ \E i \in 1 .. Len(log) : e.tokens = Allowance(spec, e, log, i)

\* A bucket, what its client was told, and the admissions it accounts for.
EntryKept(spec, e, told, log) ==
  /\ e.banned_until = told.ban
  /\ spec.ban_seconds = 0 => told.ban = 0
  /\ told.ban # 0 => told.retry >= told.ban
  /\ told.ban = 0 =>
       /\ Balanced(spec, e, log)
       /\ told.retry # 0 =>
            Unit(spec) - e.tokens <= spec.max_requests * (told.retry - e.updated)

\* An address rule of the site denies the client.
DeniedBy(rule, c) ==
  /\ rule.enabled /\ rule.action = "deny"
  /\ \A k \in DOMAIN rule.conditions :
       /\ rule.conditions[k].field = "ip"
       /\ rule.conditions[k].operation = "equal"
       /\ c \in rule.conditions[k].values
Denied(s, c) ==
  \E i \in DOMAIN SiteSpec[s].policy.acl_rules : DeniedBy(SiteSpec[s].policy.acl_rules[i], c)

\* A request that was not answered by what comes before the rate limiter.
Accepted(job, reqs) ==
  /\ job.req \in reqs /\ Refusal(job.req) = 0
  /\ job.site = SiteOf(job.req) /\ job.client = ClientOf(job.req)

\* What a thread is doing, and the reading it takes to a rate limiter.
JobKept(job, reqs, time) ==
  /\ job.pc \in {"idle", "timed", "passed", "proxy"}
  /\ job.pc \in {"timed", "passed"} => Accepted(job, reqs)
  /\ job.pc = "timed" => job.site \in Limited /\ job.now \in Nat /\ job.now <= time

WorkersInv ==
  /\ requests \in Traffic
  /\ clock \in Nat /\ clock >= 1
  /\ worker = [w \in Workers |-> worker[w]]
  /\ \A w \in Workers : JobKept(worker[w], requests, clock)

\* What the rate limiter of a site, its table, and the history of its clients are like:
\* in the order of their checks, their admissions, what they were told.
SiteKept(s, t, order, log, told, time) ==
  /\ IsTable(t)
  /\ Listed(t, order)
  /\ log \in [Clients -> Seq(Nat)]
  /\ told \in [Clients -> [ban: Nat, retry: Nat]]
  /\ \A c \in DOMAIN t.entries :
       /\ EntryKept(Rate(s), t.entries[c], told[c], log[c])
       /\ ~Denied(s, c)
  /\ \A c \in Clients : told[c].ban > time => c \in DOMAIN t.entries

SiteInv(s) == SiteKept(s, table[s], seen[s], admitted[s], promise[s], clock)

TablesInv ==
  /\ table = [s \in Limited |-> table[s]]
  /\ admitted = [s \in Limited |-> admitted[s]]
  /\ promise = [s \in Limited |-> promise[s]]
  /\ seen = [s \in Limited |-> seen[s]]
  /\ \A s \in Limited : SiteInv(s)

DispatchInv == WorkersInv /\ TablesInv

-----------------------------------------------------------------------------
(* Algebra of Select                                                       *)

\* Two selections that agree row by row agree.
LEMMA SelectSame ==
  ASSUME NEW X, NEW list \in Seq(X), NEW A, NEW B,
         \A i \in 1 .. Len(list) : list[i] \in A <=> list[i] \in B
  PROVE  Select(list, A) = Select(list, B)
<1> DEFINE n == Len(list)
<1>1. n \in Nat
  BY LenProperties
<1>2. PICK f : RowByRow(f, list, A, n) /\ Select(list, A) = f[n]
  BY <1>1, SelectRows
<1>3. PICK g : RowByRow(g, list, B, n) /\ Select(list, B) = g[n]
  BY <1>1, SelectRows
<1> DEFINE T == {k \in 0 .. n : f[k] = g[k]}
<1> HIDE DEF n
<1>4. 0 \in T
  BY <1>1, <1>2, <1>3 DEF RowByRow
<1>5. ASSUME NEW k \in 1 .. n, k - 1 \in T
      PROVE  k \in T
  <2>1. f[k] = IF list[k] \in A THEN Append(f[k - 1], list[k]) ELSE f[k - 1]
    BY <1>2 DEF RowByRow
  <2>2. g[k] = IF list[k] \in B THEN Append(g[k - 1], list[k]) ELSE g[k - 1]
    BY <1>3 DEF RowByRow
  <2>3. f[k - 1] = g[k - 1] /\ (list[k] \in A <=> list[k] \in B) /\ k \in 0 .. n
    BY <1>1, <1>5 DEF n
  <2>4. f[k] = g[k]
    BY <2>1, <2>2, <2>3
  <2> QED
    BY <2>3, <2>4
<1>6. n \in T
  <2> HIDE DEF T
  <2>1. n \in Nat
    BY <1>1
  <2>2. \A k \in 0 .. n : k \in T
    BY <2>1, <1>4, <1>5, IntervalInduction
  <2> QED
    BY <2>1, <2>2
<1> QED
  BY <1>2, <1>3, <1>6

\* Nothing is selected from an empty list.
LEMMA SelectEmpty ==
  ASSUME NEW S
  PROVE  Select(<< >>, S) = << >>
<1>1. Len(<< >>) = 0 /\ 0 \in Nat
  OBVIOUS
<1>2. PICK f : RowByRow(f, << >>, S, 0) /\ Select(<< >>, S) = f[0]
  BY <1>1, SelectRows
<1> QED
  BY <1>2 DEF RowByRow

\* A row at the end is selected last.
LEMMA SelectAppend ==
  ASSUME NEW X, NEW list \in Seq(X), NEW x \in X, NEW S
  PROVE  Select(Append(list, x), S)
           = IF x \in S THEN Append(Select(list, S), x) ELSE Select(list, S)
<1> DEFINE n == Len(list)
           more == Append(list, x)
<1>1. /\ n \in Nat /\ more \in Seq(X) /\ Len(more) = n + 1 /\ more[n + 1] = x
      /\ \A k \in 1 .. n : more[k] = list[k]
  BY AppendProperties, LenProperties
<1> HIDE DEF more, n
<1>2. PICK f : RowByRow(f, list, S, n) /\ Select(list, S) = f[n]
  BY <1>1, SelectRows DEF n
<1>3. PICK g : RowByRow(g, more, S, n + 1) /\ Select(more, S) = g[n + 1]
  BY <1>1, SelectRows
<1> DEFINE T == {k \in 0 .. n : f[k] = g[k]}
<1>4. 0 \in T
  BY <1>1, <1>2, <1>3 DEF RowByRow
<1>5. ASSUME NEW k \in 1 .. n, k - 1 \in T
      PROVE  k \in T
  <2>1. f[k] = IF list[k] \in S THEN Append(f[k - 1], list[k]) ELSE f[k - 1]
    BY <1>2 DEF RowByRow
  <2>2. k \in 1 .. (n + 1) /\ k \in 0 .. n
    BY <1>1
  <2>3. g[k] = IF more[k] \in S THEN Append(g[k - 1], more[k]) ELSE g[k - 1]
    BY <1>3, <2>2 DEF RowByRow
  <2>4. f[k - 1] = g[k - 1] /\ more[k] = list[k]
    BY <1>1, <1>5
  <2>5. f[k] = g[k]
    BY <2>1, <2>3, <2>4
  <2> QED
    BY <2>2, <2>5
<1>6. n \in T
  <2> HIDE DEF T
  <2>1. n \in Nat
    BY <1>1
  <2>2. \A k \in 0 .. n : k \in T
    BY <2>1, <1>4, <1>5, IntervalInduction
  <2> QED
    BY <2>1, <2>2
<1>7. g[n + 1] = IF x \in S THEN Append(g[n], x) ELSE g[n]
  <2>1. n + 1 \in 1 .. (n + 1) /\ (n + 1) - 1 = n
    BY <1>1
  <2> QED
    BY <1>1, <1>3, <2>1 DEF RowByRow
<1> QED
  BY <1>2, <1>3, <1>6, <1>7 DEF more

\* Two selections are one.
LEMMA SelectTwice ==
  ASSUME NEW X, NEW list \in Seq(X), NEW A, NEW B
  PROVE  Select(Select(list, A), B) = Select(list, A \cap B)
<1> DEFINE n == Len(list)
<1>1. n \in Nat /\ \A k \in 1 .. n : list[k] \in X
  BY LenProperties, ElementOfSeq
<1>2. PICK f : RowByRow(f, list, A, n) /\ Select(list, A) = f[n]
  BY <1>1, SelectRows
<1>3. PICK g : RowByRow(g, list, A \cap B, n) /\ Select(list, A \cap B) = g[n]
  BY <1>1, SelectRows
<1> HIDE DEF n
<1> DEFINE T == {k \in 0 .. n : f[k] \in Seq(X) /\ Select(f[k], B) = g[k]}
<1>4. 0 \in T
  <2>1. f[0] = << >> /\ g[0] = << >> /\ 0 \in 0 .. n /\ << >> \in Seq(X)
    BY <1>1, <1>2, <1>3 DEF RowByRow
  <2> QED
    BY <2>1, SelectEmpty
<1>5. ASSUME NEW k \in 1 .. n, k - 1 \in T
      PROVE  k \in T
  <2>1. f[k] = IF list[k] \in A THEN Append(f[k - 1], list[k]) ELSE f[k - 1]
    BY <1>2 DEF RowByRow
  <2>2. g[k] = IF list[k] \in A \cap B THEN Append(g[k - 1], list[k]) ELSE g[k - 1]
    BY <1>3 DEF RowByRow
  <2>3. f[k - 1] \in Seq(X) /\ Select(f[k - 1], B) = g[k - 1] /\ k \in 0 .. n /\ list[k] \in X
    BY <1>1, <1>5
  <2>4. Select(Append(f[k - 1], list[k]), B)
          = IF list[k] \in B THEN Append(g[k - 1], list[k]) ELSE g[k - 1]
    <3> DEFINE old == f[k - 1]
               x == list[k]
    <3>1. old \in Seq(X) /\ x \in X
      BY <2>3
    <3> HIDE DEF old, x
    <3>2. Select(Append(old, x), B) = IF x \in B THEN Append(Select(old, B), x) ELSE Select(old, B)
      BY <3>1, SelectAppend
    <3> QED
      BY <2>3, <3>2 DEF old, x
  <2>5. Append(f[k - 1], list[k]) \in Seq(X)
    BY <2>3, AppendProperties
  <2>6. f[k] \in Seq(X) /\ Select(f[k], B) = g[k]
    <3>1. CASE list[k] \in A
      BY <2>1, <2>2, <2>3, <2>4, <2>5, <3>1
    <3>2. CASE list[k] \notin A
      BY <2>1, <2>2, <2>3, <3>2
    <3> QED
      BY <3>1, <3>2
  <2> QED
    BY <2>3, <2>6
<1>6. n \in T
  <2> HIDE DEF T
  <2>1. n \in Nat
    BY <1>1
  <2>2. \A k \in 0 .. n : k \in T
    BY <2>1, <1>4, <1>5, IntervalInduction
  <2> QED
    BY <2>1, <2>2
<1> QED
  BY <1>2, <1>3, <1>6

-----------------------------------------------------------------------------
(* The table of a rate limiter                                             *)

\* A list has finitely many rows.
LEMMA RangeFinite ==
  ASSUME NEW X, NEW list \in Seq(X)
  PROVE  IsFiniteSet(Range(list))
<1> DEFINE n == Len(list)
<1>1. n \in Nat /\ list \in [1 .. n -> X] /\ DOMAIN list = 1 .. n
  BY LenProperties
<1> HIDE DEF n
<1>2. list \in Surjection(1 .. n, Range(list))
  BY <1>1 DEF Surjection, Range
<1>3. IsFiniteSet(1 .. n)
  BY <1>1, FS_Interval
<1> QED
  BY <1>2, <1>3, FS_Surjection

\* The entries that were checked once are finitely many.
LEMMA EntriesFinite ==
  ASSUME NEW t, NEW order, Listed(t, order)
  PROVE  IsFiniteSet(DOMAIN t.entries) /\ Cardinality(DOMAIN t.entries) \in Nat
<1>1. IsFiniteSet(Range(order))
  BY RangeFinite DEF Listed
<1>2. IsFiniteSet(DOMAIN t.entries)
  BY <1>1, FS_Subset DEF Listed
<1> QED
  BY <1>2, FS_CardinalityType

\* The list of a table names exactly its entries.
LEMMA ListNamesEntries ==
  ASSUME NEW t, NEW order, Listed(t, order)
  PROVE  t.lru \in Seq(Clients) /\ Range(t.lru) = DOMAIN t.entries
<1>1. /\ Select(order, DOMAIN t.entries) \in Seq(Clients)
      /\ Range(Select(order, DOMAIN t.entries)) = Range(order) \cap DOMAIN t.entries
  BY SelectFacts DEF Listed
<1> QED
  BY <1>1 DEF Listed

\* Forget drops entries and what the list says of them.
LEMMA ForgetFacts ==
  ASSUME NEW t, IsTable(t), NEW gone
  PROVE  /\ IsTable(Forget(t, gone))
         /\ DOMAIN Forget(t, gone).entries = DOMAIN t.entries \ gone
         /\ \A c \in DOMAIN t.entries \ gone : Forget(t, gone).entries[c] = t.entries[c]
         /\ Forget(t, gone).lru = Select(t.lru, Range(t.lru) \ gone)
         /\ Forget(t, gone).request_count = t.request_count
<1> DEFINE kept == [c \in DOMAIN t.entries \ gone |-> t.entries[c]]
           rest == Select(t.lru, Range(t.lru) \ gone)
           u == Forget(t, gone)
<1>1. t = [entries |-> t.entries, lru |-> t.lru, request_count |-> t.request_count]
  BY DEF IsTable
<1>2. u = [entries |-> kept, lru |-> rest, request_count |-> t.request_count]
  <2>1. u = [t EXCEPT !.entries = kept, !.lru = rest]
    BY DEF Forget
  <2> HIDE DEF kept, rest, u
  <2> QED
    BY <1>1, <2>1
<1>3. rest \in Seq(Clients)
  BY SelectFacts DEF IsTable
<1>4. /\ DOMAIN kept = DOMAIN t.entries \ gone
      /\ \A c \in DOMAIN kept : kept[c] = t.entries[c]
      /\ kept = [c \in DOMAIN kept |-> kept[c]]
  OBVIOUS
<1> HIDE DEF kept, rest, u
<1>5. u.entries = kept /\ u.lru = rest /\ u.request_count = t.request_count
  BY <1>2
<1>6. IsTable(u)
  BY <1>2, <1>3, <1>4, <1>5 DEF IsTable
<1> QED
  BY <1>4, <1>5, <1>6 DEF u, rest

\* What is left is in order.
LEMMA ForgetListed ==
  ASSUME NEW t, IsTable(t), NEW gone, NEW order, Listed(t, order)
  PROVE  Listed(Forget(t, gone), order)
<1> DEFINE u == Forget(t, gone)
           D == DOMAIN t.entries
           E == DOMAIN u.entries
<1>1. E = D \ gone /\ u.lru = Select(t.lru, Range(t.lru) \ gone)
  BY ForgetFacts
<1>2. /\ order \in Seq(Clients) /\ t.lru = Select(order, D) /\ D \subseteq Range(order)
      /\ Cardinality(D) <= MaxEntries
  BY DEF Listed
<1>3. IsFiniteSet(D) /\ Cardinality(D) \in Nat /\ Range(t.lru) = D
  BY EntriesFinite, ListNamesEntries
<1> HIDE DEF u, D, E
<1>4. u.lru = Select(order, D \cap (D \ gone))
  BY <1>1, <1>2, <1>3, SelectTwice
<1>5. D \cap (D \ gone) = E
  BY <1>1
<1>6. E \in SUBSET D
  BY <1>1
<1>7. Cardinality(E) \in Nat /\ Cardinality(E) <= Cardinality(D)
  BY <1>3, <1>6, FS_Subset, FS_CardinalityType
<1>8. Cardinality(E) <= MaxEntries
  BY <1>2, <1>3, <1>7, PolicyAssumption
<1> QED
  BY <1>2, <1>4, <1>5, <1>6, <1>8 DEF Listed, u, E

\* The head of check() only drops entries whose bans are over.
LEMMA CountedFacts ==
  ASSUME NEW t, IsTable(t), NEW order, Listed(t, order), NEW spec, NEW now
  PROVE  /\ IsTable(Counted(spec, t, now)) /\ Listed(Counted(spec, t, now), order)
         /\ DOMAIN Counted(spec, t, now).entries \subseteq DOMAIN t.entries
         /\ \A c \in DOMAIN Counted(spec, t, now).entries :
              Counted(spec, t, now).entries[c] = t.entries[c]
         /\ \A c \in DOMAIN t.entries \ DOMAIN Counted(spec, t, now).entries :
              t.entries[c].banned_until <= now
<1> DEFINE n == (t.request_count + 1) % CleanupPeriod
           u == [t EXCEPT !.request_count = n]
           gone == {c \in DOMAIN u.entries : /\ u.entries[c].banned_until <= now
                                             /\ now - u.entries[c].updated > Retention(spec)}
<1>1. n \in Nat
  BY PolicyAssumption DEF IsTable
<1>2. t = [entries |-> t.entries, lru |-> t.lru, request_count |-> t.request_count]
  BY DEF IsTable
<1>3. u = [entries |-> t.entries, lru |-> t.lru, request_count |-> n]
  BY <1>2
<1>4. u.entries = t.entries /\ u.lru = t.lru /\ u.request_count = n
  BY <1>3
<1>5. Counted(spec, t, now) = IF n = 0 THEN Forget(u, gone) ELSE u
  BY DEF Counted, Cleanup
<1> HIDE DEF n, u
<1>6. IsTable(u)
  BY <1>1, <1>3, <1>4 DEF IsTable
<1>7. Listed(u, order)
  BY <1>4 DEF Listed
<1>8. CASE n # 0
  BY <1>4, <1>5, <1>6, <1>7, <1>8
<1>9. CASE n = 0
  <2>1. \A c \in gone : u.entries[c].banned_until <= now
    OBVIOUS
  <2> HIDE DEF gone
  <2>2. Counted(spec, t, now) = Forget(u, gone)
    BY <1>5, <1>9
  <2>3. /\ IsTable(Forget(u, gone)) /\ DOMAIN Forget(u, gone).entries = DOMAIN u.entries \ gone
        /\ \A c \in DOMAIN u.entries \ gone : Forget(u, gone).entries[c] = u.entries[c]
    BY <1>6, ForgetFacts
  <2>4. Listed(Forget(u, gone), order)
    BY <1>6, <1>7, ForgetListed
  <2>5. \A c \in DOMAIN t.entries \ (DOMAIN u.entries \ gone) : c \in gone
    BY <1>4
  <2> QED
    BY <2>1, <2>2, <2>3, <2>4, <2>5, <1>4
<1> QED
  BY <1>8, <1>9

\* There is room after an eviction.
LEMMA EvictFacts ==
  ASSUME NEW t, IsTable(t), NEW order, Listed(t, order)
  PROVE  /\ IsTable(EvictOldest(t)) /\ Listed(EvictOldest(t), order)
         /\ DOMAIN EvictOldest(t).entries \subseteq DOMAIN t.entries
         /\ \A c \in DOMAIN EvictOldest(t).entries : EvictOldest(t).entries[c] = t.entries[c]
         /\ Cardinality(DOMAIN EvictOldest(t).entries) < MaxEntries
<1> DEFINE D == DOMAIN t.entries
<1>1. IsFiniteSet(D) /\ Cardinality(D) \in Nat /\ Range(t.lru) = D /\ t.lru \in Seq(Clients)
  BY EntriesFinite, ListNamesEntries
<1>2. MaxEntries \in Nat /\ MaxEntries > 0
  BY PolicyAssumption
<1>3. CASE Cardinality(D) >= MaxEntries /\ t.lru # << >>
  <2> DEFINE h == Head(t.lru)
             u == Forget(t, {h})
  <2>1. EvictOldest(t) = u
    BY <1>3 DEF EvictOldest
  <2>2. h \in D
    <3>1. Len(t.lru) > 0 /\ h = t.lru[1]
      BY <1>1, <1>3
    <3>2. 1 \in 1 .. Len(t.lru)
      BY <1>1, <3>1, LenProperties
    <3> QED
      BY <1>1, <3>1, <3>2, RowsOfList
  <2> HIDE DEF h
  <2>3. /\ IsTable(u) /\ Listed(u, order) /\ DOMAIN u.entries = D \ {h}
        /\ \A c \in D \ {h} : u.entries[c] = t.entries[c]
    BY ForgetFacts, ForgetListed
  <2>4. Cardinality(D \ {h}) = Cardinality(D) - 1
    BY <1>1, <2>2, FS_RemoveElement
  <2>5. Cardinality(D) <= MaxEntries
    BY DEF Listed
  <2> HIDE DEF u, D
  <2>6. Cardinality(DOMAIN u.entries) < MaxEntries
    BY <1>1, <1>2, <2>3, <2>4, <2>5
  <2> QED
    BY <2>1, <2>3, <2>6 DEF D
<1>4. CASE ~ (Cardinality(D) >= MaxEntries /\ t.lru # << >>)
  <2>1. EvictOldest(t) = t
    BY <1>4 DEF EvictOldest
  <2>2. Cardinality(D) < MaxEntries
    <3>1. CASE t.lru = << >>
      <4>1. Range(t.lru) = {}
        BY <3>1 DEF Range
      <4>2. D = {}
        BY <1>1, <4>1
      <4> HIDE DEF D
      <4> QED
        BY <1>2, <4>2, FS_EmptySet
    <3>2. CASE t.lru # << >>
      <4> HIDE DEF D
      <4> QED
        BY <1>1, <1>2, <1>4, <3>2
    <3> QED
      BY <3>1, <3>2
  <2> QED
    BY <2>1, <2>2
<1> QED
  BY <1>3, <1>4

\* The clients of a site after a check of c.
Latest(order, c) == Append(Select(order, Range(order) \ {c}), c)

\* The latest client is added to the order of the checks.
LEMMA LatestFacts ==
  ASSUME NEW order \in Seq(Clients), NEW c \in Clients, NEW D, D \subseteq Range(order) \cup {c}
  PROVE  /\ Latest(order, c) \in Seq(Clients)
         /\ Range(Latest(order, c)) = Range(order) \cup {c}
         /\ Select(Latest(order, c), D \cup {c}) = Append(Select(order, D \ {c}), c)
<1> DEFINE rest == Select(order, Range(order) \ {c})
<1>1. rest \in Seq(Clients) /\ Range(rest) = Range(order) \cap (Range(order) \ {c})
  BY SelectFacts
<1>2. Latest(order, c) = Append(rest, c)
  BY DEF Latest
<1>3. Select(Append(rest, c), D \cup {c}) = Append(Select(rest, D \cup {c}), c)
  <2>1. c \in D \cup {c}
    OBVIOUS
  <2> DEFINE S == D \cup {c}
  <2> HIDE DEF rest, S
  <2>2. rest \in Seq(Clients) /\ c \in S
    BY <1>1, <2>1 DEF S
  <2>3. Select(Append(rest, c), S) = Append(Select(rest, S), c)
    BY <2>2, SelectAppend
  <2> QED
    BY <2>3 DEF S
<1>4. Select(rest, D \cup {c}) = Select(order, (Range(order) \ {c}) \cap (D \cup {c}))
  BY SelectTwice
<1>5. Select(order, (Range(order) \ {c}) \cap (D \cup {c})) = Select(order, D \ {c})
  <2>1. \A i \in 1 .. Len(order) :
          order[i] \in (Range(order) \ {c}) \cap (D \cup {c}) <=> order[i] \in D \ {c}
    <3>1. \A i \in 1 .. Len(order) : order[i] \in Range(order)
      BY RowsOfList
    <3> QED
      BY <3>1
  <2> QED
    BY <2>1, SelectSame
<1> HIDE DEF rest
<1>6. Append(rest, c) \in Seq(Clients)
  BY <1>1, AppendProperties
<1>7. Range(Append(rest, c)) = Range(rest) \cup {c}
  <2>1. /\ Len(Append(rest, c)) = Len(rest) + 1 /\ Len(rest) \in Nat
        /\ \A i \in 1 .. Len(rest) : Append(rest, c)[i] = rest[i]
        /\ Append(rest, c)[Len(rest) + 1] = c
    BY <1>1, AppendProperties, LenProperties
  <2>2. \A x : x \in Range(rest) <=> \E i \in 1 .. Len(rest) : rest[i] = x
    BY <1>1, RowsOfList
  <2>3. \A x : x \in Range(Append(rest, c))
                 <=> \E i \in 1 .. Len(Append(rest, c)) : Append(rest, c)[i] = x
    BY <1>6, RowsOfList
  <2> DEFINE more == Append(rest, c)
             n == Len(rest)
  <2>4. \A i \in 1 .. (n + 1) : i \in 1 .. n \/ i = n + 1
    BY <2>1
  <2>5. \A i \in 1 .. n : i \in 1 .. (n + 1)
    BY <2>1
  <2>6. n + 1 \in 1 .. (n + 1)
    BY <2>1
  <2>7. /\ Len(more) = n + 1 /\ \A i \in 1 .. n : more[i] = rest[i]
        /\ more[n + 1] = c
    BY <2>1
  <2> HIDE DEF more, n
  <2>8. ASSUME NEW x PROVE x \in Range(more) <=> x \in Range(rest) \cup {c}
    BY <2>2, <2>3, <2>4, <2>5, <2>6, <2>7 DEF more, n
  <2> QED
    BY <2>8 DEF more
<1>8. Range(rest) \cup {c} = Range(order) \cup {c}
  BY <1>1
<1> QED
  BY <1>2, <1>3, <1>4, <1>5, <1>6, <1>7, <1>8

-----------------------------------------------------------------------------
(* The arithmetic of a bucket                                              *)

RateSpec(spec) ==
  /\ spec.window_seconds \in Nat \ {0} /\ spec.max_requests \in Nat \ {0}
  /\ spec.ban_seconds \in Nat

\* Rounding up does not fall short.
LEMMA CeilDivFacts ==
  ASSUME NEW a \in Int, NEW b \in Nat \ {0}
  PROVE  CeilDiv(a, b) \in Int /\ CeilDiv(a, b) * b >= a
<1> DEFINE x == a + b - 1
           q == x \div b
<1>1. x \in Int /\ b \in Int /\ b > 0
  OBVIOUS
<1> HIDE DEF x
<1>2. q \in Int /\ q * b \in Int
  BY <1>1
<1>3. x < q * b + b
  BY <1>1
<1> DEFINE p == q * b
<1> HIDE DEF q
<1>4. p \in Int /\ x < p + b
  BY <1>2, <1>3
<1> HIDE DEF p
<1>5. p >= a
  BY <1>1, <1>4 DEF x
<1> QED
  BY <1>2, <1>5 DEF CeilDiv, p, q, x

\* Products of integers, as the bucket needs them.
LEMMA Products ==
  /\ \A a, b \in Int : a * b \in Int
  /\ \A a, b, c, d \in Int : a * (b - c) = a * (b - d) + a * (d - c)
  /\ \A a, b \in Int : (a + 1) * b = a * b + b
  /\ \A a, b \in Int : a >= 1 /\ b >= 1 => a * b >= b
  /\ \A a, b, c \in Int : a >= 0 /\ b <= c => a * b <= a * c
  /\ \A a \in Int : a * 0 = 0 /\ 1 * a = a
  /\ \A a, b, c \in Int : a * (b * c) = b * (a * c)
<1>1. \A a, b \in Int : a * b \in Int
  OBVIOUS
<1>2. \A a, b, c, d \in Int : a * (b - c) = a * (b - d) + a * (d - c)
  OBVIOUS
<1>3. \A a, b \in Int : (a + 1) * b = a * b + b
  OBVIOUS
<1>4. \A a, b \in Int : a >= 1 /\ b >= 1 => a * b >= b
  OBVIOUS
<1>5. \A a, b, c \in Int : a >= 0 /\ b <= c => a * b <= a * c
  OBVIOUS
<1>6. \A a \in Int : a * 0 = 0 /\ 1 * a = a
  OBVIOUS
<1>7. \A a, b, c \in Int : a * (b * c) = b * (a * c)
  OBVIOUS
<1> QED
  BY <1>1, <1>2, <1>3, <1>4, <1>5, <1>6, <1>7

\* A token is something, and a full bucket has one.
LEMMA UnitFacts ==
  ASSUME NEW spec, RateSpec(spec)
  PROVE  /\ spec.max_requests \in Int /\ spec.max_requests >= 1
         /\ Unit(spec) \in Int /\ Unit(spec) >= 1
         /\ Full(spec) \in Int /\ Full(spec) >= Unit(spec)
         /\ TicksPerSecond \in Int /\ TicksPerSecond >= 1
<1>1. /\ spec.max_requests \in Int /\ spec.max_requests >= 1
      /\ TicksPerSecond \in Int /\ TicksPerSecond >= 1
      /\ spec.window_seconds \in Int /\ spec.window_seconds >= 1
  BY PolicyAssumption DEF RateSpec
<1>2. Unit(spec) \in Int /\ Unit(spec) >= TicksPerSecond
  BY <1>1, Products DEF Unit
<1>3. Full(spec) \in Int /\ Full(spec) >= Unit(spec)
  BY <1>1, <1>2, Products DEF Full
<1> QED
  BY <1>1, <1>2, <1>3

\* One more admission conforms if the bucket had a token left for it after each of the
\* earlier ones.
LEMMA ConformsAppend ==
  ASSUME NEW spec, RateSpec(spec), NEW log \in Seq(Nat), NEW now \in Nat, Conforms(spec, log)
  PROVE  Conforms(spec, Append(log, now)) <=>
           \A i \in 1 .. Len(log) :
             (Len(log) - i + 2) * Unit(spec)
               <= Full(spec) + spec.max_requests * (now - log[i])
<1> DEFINE n == Len(log)
           more == Append(log, now)
           Room(j, i) == (j - i + 1) * Unit(spec) <= Full(spec) + spec.max_requests * (more[j] - more[i])
<1>1. /\ n \in Nat /\ Len(more) = n + 1 /\ DOMAIN more = 1 .. (n + 1) /\ DOMAIN log = 1 .. n
      /\ more[n + 1] = now /\ \A i \in 1 .. n : more[i] = log[i] /\ log[i] \in Nat
  BY AppendProperties, LenProperties, ElementOfSeq
<1>2. Conforms(spec, more) <=> \A j \in 1 .. (n + 1) : \A i \in 1 .. j : Room(j, i)
  BY <1>1 DEF Conforms
<1>3. \A j \in 1 .. n : \A i \in 1 .. j : Room(j, i)
  <2> SUFFICES ASSUME NEW j \in 1 .. n, NEW i \in 1 .. j PROVE Room(j, i)
    OBVIOUS
  <2>1. i \in 1 .. n
    BY <1>1
  <2>2. more[i] = log[i] /\ more[j] = log[j]
    BY <1>1, <2>1
  <2>3. (j - i + 1) * Unit(spec) <= Full(spec) + spec.max_requests * (log[j] - log[i])
    BY <1>1 DEF Conforms
  <2> QED
    BY <2>2, <2>3
<1>4. Room(n + 1, n + 1)
  <2>1. (n + 1) - (n + 1) + 1 = 1 /\ more[n + 1] - more[n + 1] = 0
    BY <1>1
  <2>2. 1 * Unit(spec) = Unit(spec) /\ spec.max_requests * 0 = 0
    BY UnitFacts, Products
  <2> HIDE DEF more
  <2> QED
    BY <2>1, <2>2, UnitFacts
<1>5. \A i \in 1 .. n : Room(n + 1, i) <=>
        (n - i + 2) * Unit(spec) <= Full(spec) + spec.max_requests * (now - log[i])
  <2> SUFFICES ASSUME NEW i \in 1 .. n
               PROVE  Room(n + 1, i) <=>
                        (n - i + 2) * Unit(spec) <= Full(spec) + spec.max_requests * (now - log[i])
    OBVIOUS
  <2>1. (n + 1) - i + 1 = n - i + 2 /\ more[n + 1] = now /\ more[i] = log[i]
    BY <1>1
  <2> QED
    BY <2>1
<1>6. \A j \in 1 .. (n + 1) : j \in 1 .. n \/ j = n + 1
  BY <1>1
<1>7. \A i \in 1 .. (n + 1) : i \in 1 .. n \/ i = n + 1
  BY <1>1
<1>8. n + 1 \in 1 .. (n + 1) /\ \A i \in 1 .. n : i \in 1 .. (n + 1)
  BY <1>1
<1> HIDE DEF Room, more, n
<1>9. Conforms(spec, more) <=> \A i \in 1 .. n : Room(n + 1, i)
  BY <1>2, <1>3, <1>4, <1>6, <1>7, <1>8
<1> QED
  BY <1>5, <1>9 DEF more, n

\* What an admission leaves, at another time.
LEMMA AllowanceLater ==
  ASSUME NEW spec, RateSpec(spec), NEW e \in Entry, NEW log \in Seq(Nat), NEW now \in Nat,
         NEW i \in 1 .. Len(log)
  PROVE  /\ Allowance(spec, e, log, i) \in Int
         /\ (Len(log) - i + 1) * Unit(spec) \in Int
         /\ (Len(log) - i + 2) * Unit(spec) = (Len(log) - i + 1) * Unit(spec) + Unit(spec)
         /\ spec.max_requests * (now - log[i]) \in Int
         /\ spec.max_requests * (now - e.updated) \in Int
         /\ Full(spec) + spec.max_requests * (now - log[i]) - (Len(log) - i + 1) * Unit(spec)
              = Allowance(spec, e, log, i) + spec.max_requests * (now - e.updated)
<1> DEFINE m == spec.max_requests
           U == Unit(spec)
           F == Full(spec)
           n == Len(log)
           a == log[i]
           u == e.updated
           k == n - i + 1
<1>1. m \in Int /\ U \in Int /\ F \in Int
  BY UnitFacts
<1>2. n \in Int /\ i \in Int /\ a \in Int /\ u \in Int /\ k \in Int /\ n - i + 2 = k + 1
  BY LenProperties, ElementOfSeq DEF Entry
<1>3. Allowance(spec, e, log, i) = F + m * (u - a) - k * U
  BY DEF Allowance
<1> HIDE DEF m, U, F, n, a, u, k
<1>4. m * (u - a) \in Int /\ k * U \in Int /\ m * (now - a) \in Int /\ m * (now - u) \in Int
  <2>1. u - a \in Int /\ now - a \in Int /\ now - u \in Int
    BY <1>2
  <2> QED
    BY <1>1, <1>2, <2>1, Products
<1>5. m * (now - a) = m * (now - u) + m * (u - a)
  <2>1. now \in Int
    OBVIOUS
  <2> QED
    BY <1>1, <1>2, <2>1, Products
<1>6. (k + 1) * U = k * U + U
  BY <1>1, <1>2, Products
<1>7. F + m * (now - a) - k * U = F + m * (u - a) - k * U + m * (now - u)
  <2> DEFINE p == m * (now - a)
             q == m * (now - u)
             r == m * (u - a)
             v == k * U
  <2>1. p \in Int /\ q \in Int /\ r \in Int /\ v \in Int /\ p = q + r
    BY <1>4, <1>5
  <2> HIDE DEF p, q, r, v
  <2>2. F + p - v = F + r - v + q
    BY <1>1, <2>1
  <2> QED
    BY <2>2 DEF p, q, r, v
<1>8. F + m * (u - a) - k * U \in Int
  BY <1>1, <1>4
<1> QED
  BY <1>2, <1>3, <1>4, <1>6, <1>7, <1>8 DEF m, U, F, n, a, u, k

\* The tokens of a balanced bucket, brought up to date, decide whether one more
\* admission conforms.
LEMMA TokensDecide ==
  ASSUME NEW spec, RateSpec(spec), NEW e \in Entry, NEW log \in Seq(Nat), NEW now \in Nat,
         Balanced(spec, e, log)
  PROVE  Conforms(spec, Append(log, now))
           <=> e.tokens + spec.max_requests * (now - e.updated) >= Unit(spec)
<1> DEFINE n == Len(log)
           gain == spec.max_requests * (now - e.updated)
           U == Unit(spec)
           A(i) == Allowance(spec, e, log, i)
           Room(i) == (n - i + 2) * U <= Full(spec) + spec.max_requests * (now - log[i])
<1>1. \A i \in 1 .. n : A(i) \in Int /\ gain \in Int /\ (Room(i) <=> U <= A(i) + gain)
  <2> SUFFICES ASSUME NEW i \in 1 .. n
               PROVE  A(i) \in Int /\ gain \in Int /\ (Room(i) <=> U <= A(i) + gain)
    OBVIOUS
  <2> DEFINE p == (n - i + 1) * U
             q == spec.max_requests * (now - log[i])
  <2>1. /\ A(i) \in Int /\ p \in Int /\ (n - i + 2) * U = p + U /\ q \in Int /\ gain \in Int
        /\ Full(spec) + q - p = A(i) + gain
    BY AllowanceLater
  <2>2. U \in Int /\ Full(spec) \in Int
    BY UnitFacts
  <2>3. Room(i) <=> p + U <= Full(spec) + q
    BY <2>1
  <2> HIDE DEF p, q, A, gain, U, Room
  <2> QED
    BY <2>1, <2>2, <2>3
<1>2. Conforms(spec, Append(log, now)) <=> \A i \in 1 .. n : Room(i)
  BY ConformsAppend DEF Balanced
<1>3. /\ \A i \in 1 .. n : e.tokens <= A(i)
      /\ \E i \in 1 .. n : e.tokens = A(i)
  BY DEF Balanced
<1>4. e.tokens \in Int /\ U \in Int
  BY UnitFacts DEF Entry
<1> HIDE DEF gain, U, A, Room, n
<1>5. (\A i \in 1 .. n : Room(i)) <=> e.tokens + gain >= U
  <2>1. PICK j \in 1 .. n : e.tokens = A(j)
    BY <1>3
  <2>2. ASSUME e.tokens + gain >= U, NEW i \in 1 .. n PROVE Room(i)
    BY <1>1, <1>3, <1>4, <2>2
  <2>3. ASSUME \A i \in 1 .. n : Room(i) PROVE e.tokens + gain >= U
    <3>1. U <= A(j) + gain /\ A(j) \in Int /\ gain \in Int
      BY <1>1, <2>3
    <3> QED
      BY <1>4, <2>1, <3>1
  <2> QED
    BY <2>2, <2>3
<1> QED
  BY <1>2, <1>5 DEF gain, U

\* An admission keeps the balance, with itself in the log.
LEMMA AdmitBalanced ==
  ASSUME NEW spec, RateSpec(spec), NEW e \in Entry, NEW log \in Seq(Nat), NEW now \in Nat,
         Balanced(spec, e, log), NEW f \in Entry, f.updated = now,
         e.tokens + spec.max_requests * (now - e.updated) >= Unit(spec),
         f.tokens = Least(Full(spec), e.tokens + spec.max_requests * (now - e.updated)) - Unit(spec)
  PROVE  Balanced(spec, f, Append(log, now))
<1> DEFINE n == Len(log)
           more == Append(log, now)
           gain == spec.max_requests * (now - e.updated)
           U == Unit(spec)
           F == Full(spec)
           A(i) == Allowance(spec, e, log, i)
           B(i) == Allowance(spec, f, more, i)
<1>1. /\ n \in Nat /\ Len(more) = n + 1 /\ more[n + 1] = now
      /\ \A i \in 1 .. n : more[i] = log[i]
  BY AppendProperties, LenProperties
<1>2. U \in Int /\ F \in Int /\ e.tokens \in Int /\ f.tokens \in Int
  BY UnitFacts DEF Entry
<1>3. \A i \in 1 .. n : A(i) \in Int /\ gain \in Int /\ B(i) = A(i) + gain - U
  <2> SUFFICES ASSUME NEW i \in 1 .. n
               PROVE  A(i) \in Int /\ gain \in Int /\ B(i) = A(i) + gain - U
    OBVIOUS
  <2> DEFINE p == (n - i + 1) * U
             q == spec.max_requests * (now - log[i])
  <2>1. /\ A(i) \in Int /\ p \in Int /\ (n - i + 2) * U = p + U /\ q \in Int /\ gain \in Int
        /\ F + q - p = A(i) + gain
    BY AllowanceLater
  <2>2. B(i) = F + q - (n - i + 2) * U
    <3>1. (n + 1) - i + 1 = n - i + 2
      BY <1>1
    <3>2. B(i) = F + spec.max_requests * (now - more[i]) - (Len(more) - i + 1) * U
      BY DEF Allowance
    <3> QED
      BY <1>1, <3>1, <3>2
  <2> HIDE DEF p, q, A, B, gain, U, F
  <2>3. B(i) = F + q - (p + U)
    BY <2>1, <2>2
  <2> QED
    BY <1>2, <2>1, <2>3
<1>4. B(n + 1) = F - U
  <2>1. B(n + 1) = F + spec.max_requests * (now - more[n + 1]) - (Len(more) - (n + 1) + 1) * U
    BY DEF Allowance
  <2>2. now - more[n + 1] = 0 /\ Len(more) - (n + 1) + 1 = 1
    BY <1>1
  <2>3. spec.max_requests * 0 = 0 /\ 1 * U = U
    BY UnitFacts, Products
  <2>4. spec.max_requests * (now - more[n + 1]) = 0 /\ (Len(more) - (n + 1) + 1) * U = U
    BY <2>2, <2>3
  <2>5. B(n + 1) = F + 0 - U
    BY <2>1, <2>4
  <2> HIDE DEF more, U, F, B
  <2> QED
    BY <1>2, <2>5
<1>5. /\ \A i \in 1 .. n : e.tokens <= A(i)
      /\ \E i \in 1 .. n : e.tokens = A(i)
  BY DEF Balanced
<1>6. Conforms(spec, more)
  BY TokensDecide
<1>7. gain \in Int
  BY <1>3, <1>5
<1>8. f.tokens = Least(F, e.tokens + gain) - U
  OBVIOUS
<1>9. \A i \in 1 .. (n + 1) : i \in 1 .. n \/ i = n + 1
  BY <1>1
<1> HIDE DEF A, B, gain, U, F, more, n
<1>10. /\ f.tokens <= F - U /\ f.tokens <= e.tokens + gain - U
       /\ f.tokens = F - U \/ f.tokens = e.tokens + gain - U
  BY <1>2, <1>7, <1>8 DEF Least
<1>11. \A i \in 1 .. n : f.tokens <= B(i)
  BY <1>2, <1>3, <1>5, <1>7, <1>10
<1>12. \A i \in 1 .. (n + 1) : f.tokens <= B(i)
  BY <1>4, <1>9, <1>10, <1>11
<1>13. \E i \in 1 .. (n + 1) : f.tokens = B(i)
  <2>1. CASE f.tokens = F - U
    <3>1. n + 1 \in 1 .. (n + 1)
      BY <1>1
    <3> QED
      BY <1>4, <2>1, <3>1
  <2>2. CASE f.tokens = e.tokens + gain - U
    <3>1. PICK j \in 1 .. n : e.tokens = A(j)
      BY <1>5
    <3>2. f.tokens = B(j) /\ j \in 1 .. (n + 1)
      BY <1>1, <1>3, <2>2, <3>1
    <3> QED
      BY <3>2
  <2> QED
    BY <1>10, <2>1, <2>2
<1> QED
  BY <1>1, <1>6, <1>12, <1>13 DEF Balanced, B, more, n

\* A check that takes nothing keeps the balance.
LEMMA RefuseBalanced ==
  ASSUME NEW spec, RateSpec(spec), NEW e \in Entry, NEW log \in Seq(Nat), NEW now \in Nat,
         Balanced(spec, e, log), NEW f \in Entry, f.updated = now,
         f.tokens = e.tokens + spec.max_requests * (now - e.updated)
  PROVE  Balanced(spec, f, log)
<1> DEFINE n == Len(log)
           gain == spec.max_requests * (now - e.updated)
           A(i) == Allowance(spec, e, log, i)
           B(i) == Allowance(spec, f, log, i)
<1>1. \A i \in 1 .. n : A(i) \in Int /\ gain \in Int /\ B(i) = A(i) + gain
  <2> SUFFICES ASSUME NEW i \in 1 .. n
               PROVE  A(i) \in Int /\ gain \in Int /\ B(i) = A(i) + gain
    OBVIOUS
  <2>1. /\ A(i) \in Int /\ gain \in Int
        /\ Full(spec) + spec.max_requests * (now - log[i]) - (n - i + 1) * Unit(spec) = A(i) + gain
    BY AllowanceLater
  <2>2. B(i) = Full(spec) + spec.max_requests * (now - log[i]) - (n - i + 1) * Unit(spec)
    BY DEF Allowance
  <2> QED
    BY <2>1, <2>2
<1>2. /\ \A i \in 1 .. n : e.tokens <= A(i)
      /\ \E i \in 1 .. n : e.tokens = A(i)
  BY DEF Balanced
<1>3. e.tokens \in Int /\ f.tokens = e.tokens + gain
  BY DEF Entry
<1> HIDE DEF A, B, gain, n
<1>4. /\ \A i \in 1 .. n : f.tokens <= B(i)
      /\ \E i \in 1 .. n : f.tokens = B(i)
  BY <1>1, <1>2, <1>3
<1> QED
  BY <1>4 DEF Balanced, B, n

-----------------------------------------------------------------------------
(* One check                                                               *)

Bucket(tokens, updated, until) ==
  [tokens |-> tokens, updated |-> updated, banned_until |-> until]

\* The tokens at another time, if the bucket were bottomless.
UpToDate(spec, e, now) == e.tokens + spec.max_requests * (now - e.updated)

\* What Spend makes of a bucket without a ban.
LEMMA SpendFree ==
  ASSUME NEW spec, RateSpec(spec), NEW e \in Entry, NEW now \in Nat, e.banned_until = 0
  PROVE  /\ UpToDate(spec, e, now) \in Int
         /\ UpToDate(spec, e, now) >= Unit(spec) =>
              Spend(spec, e, now)
                = [entry |-> Bucket(Least(Full(spec), UpToDate(spec, e, now)) - Unit(spec), now, 0),
                   retry |-> 0]
         /\ UpToDate(spec, e, now) < Unit(spec) /\ spec.ban_seconds # 0 =>
              Spend(spec, e, now)
                = [entry |-> Bucket(UpToDate(spec, e, now), now, now + spec.ban_seconds * TicksPerSecond),
                   retry |-> spec.ban_seconds]
         /\ UpToDate(spec, e, now) < Unit(spec) /\ spec.ban_seconds = 0 =>
              Spend(spec, e, now)
                = [entry |-> Bucket(UpToDate(spec, e, now), now, 0),
                   retry |-> RetryAfter(spec, Bucket(UpToDate(spec, e, now), now, 0))]
<1> DEFINE k == UpToDate(spec, e, now)
           U == Unit(spec)
           F == Full(spec)
           f == Bucket(Least(F, k), now, 0)
<1>1. /\ spec.max_requests \in Int /\ U \in Int /\ F \in Int /\ F >= U /\ U >= 1
      /\ e = Bucket(e.tokens, e.updated, 0) /\ e.tokens \in Int /\ e.updated \in Int
  BY UnitFacts DEF Entry, Bucket
<1>2. k \in Int
  <2>1. now - e.updated \in Int
    BY <1>1
  <2>2. spec.max_requests * (now - e.updated) \in Int
    BY <1>1, <2>1, Products
  <2> QED
    BY <1>1, <2>2 DEF UpToDate
<1>3. Refill(spec, LiftBan(spec, e, now), now) = f
  <2>1. LiftBan(spec, e, now) = e
    BY DEF LiftBan, NoBan
  <2> QED
    BY <2>1 DEF Refill, UpToDate, Bucket
<1>4. f.tokens = Least(F, k) /\ f.updated = now /\ f.banned_until = 0
  BY DEF Bucket
<1>5. Spend(spec, e, now) =
        CASE f.tokens >= U -> [entry |-> [f EXCEPT !.tokens = @ - U], retry |-> 0]
          [] f.tokens < U /\ spec.ban_seconds # 0 ->
               [entry |-> [f EXCEPT !.banned_until = now + spec.ban_seconds * TicksPerSecond],
                retry |-> spec.ban_seconds]
          [] OTHER -> [entry |-> f, retry |-> RetryAfter(spec, f)]
  BY <1>3 DEF Spend
<1>6. /\ [f EXCEPT !.tokens = @ - U] = Bucket(Least(F, k) - U, now, 0)
      /\ [f EXCEPT !.banned_until = now + spec.ban_seconds * TicksPerSecond]
           = Bucket(Least(F, k), now, now + spec.ban_seconds * TicksPerSecond)
  BY <1>4 DEF Bucket
<1> HIDE DEF k, F, U
<1>7. /\ k >= U => Least(F, k) >= U
      /\ k < U => Least(F, k) = k /\ Least(F, k) < U /\ ~ (Least(F, k) >= U)
  BY <1>1, <1>2 DEF Least
<1> HIDE DEF f
<1>8. ASSUME k >= U
      PROVE  Spend(spec, e, now) = [entry |-> Bucket(Least(F, k) - U, now, 0), retry |-> 0]
  <2>1. f.tokens >= U /\ ~ (f.tokens < U)
    BY <1>1, <1>2, <1>4, <1>7, <1>8 DEF Least
  <2> QED
    BY <1>5, <1>6, <2>1
<1>9. ASSUME k < U, spec.ban_seconds # 0
      PROVE  Spend(spec, e, now)
               = [entry |-> Bucket(k, now, now + spec.ban_seconds * TicksPerSecond),
                  retry |-> spec.ban_seconds]
  <2>1. f.tokens < U /\ ~ (f.tokens >= U) /\ Least(F, k) = k
    BY <1>4, <1>7, <1>9
  <2> QED
    BY <1>5, <1>6, <1>9, <2>1
<1>10. ASSUME k < U, spec.ban_seconds = 0
       PROVE  Spend(spec, e, now) = [entry |-> Bucket(k, now, 0),
                                     retry |-> RetryAfter(spec, Bucket(k, now, 0))]
  <2>1. ~ (f.tokens >= U) /\ f = Bucket(k, now, 0)
    BY <1>4, <1>7, <1>10 DEF f
  <2> QED
    BY <1>5, <1>10, <2>1
<1> QED
  BY <1>2, <1>8, <1>9, <1>10 DEF k, U, F

\* After a ban the bucket is full.
LEMMA SpendLifted ==
  ASSUME NEW spec, RateSpec(spec), NEW e \in Entry, NEW now \in Nat, e.banned_until # 0
  PROVE  Spend(spec, e, now) = [entry |-> Bucket(Full(spec) - Unit(spec), now, 0), retry |-> 0]
<1> DEFINE g == Bucket(Full(spec), now, 0)
<1>1. LiftBan(spec, e, now) = g
  BY DEF LiftBan, NoBan, Bucket
<1>2. g \in Entry /\ g.banned_until = 0 /\ g.tokens = Full(spec) /\ g.updated = now
  BY UnitFacts DEF Entry, Bucket
<1>3. LiftBan(spec, g, now) = g
  BY <1>2 DEF LiftBan, NoBan
<1>4. Spend(spec, e, now) = Spend(spec, g, now)
  BY <1>1, <1>3 DEF Spend
<1>5. UpToDate(spec, g, now) = Full(spec)
  <2>1. now - now = 0 /\ spec.max_requests * 0 = 0 /\ Full(spec) \in Int
    BY UnitFacts, Products
  <2>2. UpToDate(spec, g, now) = Full(spec) + spec.max_requests * (now - now)
    BY <1>2 DEF UpToDate
  <2> QED
    BY <2>1, <2>2
<1>6. Full(spec) >= Unit(spec) /\ Least(Full(spec), Full(spec)) = Full(spec)
  BY UnitFacts DEF Least
<1> HIDE DEF g
<1> QED
  BY <1>2, <1>4, <1>5, <1>6, SpendFree

\* A new bucket has given out its first token.
LEMMA NewBucket ==
  ASSUME NEW spec, RateSpec(spec), NEW now \in Nat
  PROVE  /\ Bucket(Full(spec) - Unit(spec), now, 0) \in Entry
         /\ Append(<< >>, now) \in Seq(Nat)
         /\ Conforms(spec, Append(<< >>, now))
         /\ EntryKept(spec, Bucket(Full(spec) - Unit(spec), now, 0), NoPromise, Append(<< >>, now))
<1> DEFINE e == Bucket(Full(spec) - Unit(spec), now, 0)
           log == Append(<< >>, now)
<1>1. Full(spec) - Unit(spec) \in Int /\ Full(spec) \in Int /\ Unit(spec) \in Int /\ Full(spec) >= Unit(spec)
  BY UnitFacts
<1>2. e \in Entry /\ e.tokens = Full(spec) - Unit(spec) /\ e.updated = now /\ e.banned_until = 0
  BY <1>1 DEF Entry, Bucket
<1>3. log \in Seq(Nat) /\ Len(log) = 1 /\ log[1] = now /\ DOMAIN log = 1 .. 1
  OBVIOUS
<1>4. now - now = 0 /\ spec.max_requests * 0 = 0 /\ 1 * Unit(spec) = Unit(spec)
  BY UnitFacts, Products
<1> HIDE DEF e, log
<1>5. \A i \in 1 .. 1 : i = 1
  OBVIOUS
<1>6. Conforms(spec, log)
  <2> SUFFICES ASSUME NEW j \in DOMAIN log, NEW i \in 1 .. j
               PROVE  (j - i + 1) * Unit(spec) <= Full(spec) + spec.max_requests * (log[j] - log[i])
    BY DEF Conforms
  <2>1. j = 1 /\ i = 1
    BY <1>3, <1>5
  <2>2. 1 - 1 + 1 = 1
    OBVIOUS
  <2> QED
    BY <1>1, <1>3, <1>4, <2>1, <2>2
<1>7. Allowance(spec, e, log, 1) = Full(spec) - Unit(spec)
  <2>1. Allowance(spec, e, log, 1) = Full(spec) + spec.max_requests * (now - now) - (1 - 1 + 1) * Unit(spec)
    BY <1>2, <1>3 DEF Allowance
  <2>2. 1 - 1 + 1 = 1
    OBVIOUS
  <2>3. Allowance(spec, e, log, 1) = Full(spec) + 0 - Unit(spec)
    BY <1>4, <2>1, <2>2
  <2> QED
    BY <1>1, <2>3
<1>8. Balanced(spec, e, log)
  BY <1>1, <1>2, <1>3, <1>5, <1>6, <1>7 DEF Balanced
<1>9. EntryKept(spec, e, NoPromise, log)
  BY <1>2, <1>8 DEF EntryKept, NoPromise
<1> QED
  BY <1>2, <1>3, <1>6, <1>9 DEF e, log

\* The promises a client may have been given.
Promise == [ban: Nat, retry: Nat]

\* Waiting for Retry-After is waiting long enough.
LEMMA RetryLongEnough ==
  ASSUME NEW spec, RateSpec(spec), NEW tokens \in Int, NEW now \in Nat
  PROVE  /\ RetryAfter(spec, Bucket(tokens, now, 0)) \in Nat
         /\ RetryAfter(spec, Bucket(tokens, now, 0)) # 0
         /\ Unit(spec) - tokens
              <= spec.max_requests * (RetryAfter(spec, Bucket(tokens, now, 0)) * TicksPerSecond)
<1> DEFINE m == spec.max_requests
           T == TicksPerSecond
           a == Unit(spec) - tokens
           q == CeilDiv(a, m * T)
           retry == RetryAfter(spec, Bucket(tokens, now, 0))
<1>1. m \in Int /\ m >= 1 /\ T \in Int /\ T >= 1 /\ a \in Int
  BY UnitFacts
<1>2. retry = Most(1, q)
  BY DEF RetryAfter, Bucket
<1> HIDE DEF m, T, a
<1>3. m * T \in Nat \ {0}
  <2>1. m * T \in Int /\ m * T >= T
    BY <1>1, Products
  <2> DEFINE p == m * T
  <2>2. p \in Int /\ p >= T
    BY <2>1
  <2> HIDE DEF p
  <2>3. p \in Nat \ {0}
    BY <1>1, <2>2
  <2> QED
    BY <2>3 DEF p
<1>4. q \in Int /\ q * (m * T) >= a
  BY <1>1, <1>3, CeilDivFacts
<1>5. retry \in Nat /\ retry # 0 /\ q <= retry
  <2> HIDE DEF q, retry
  <2> QED
    BY <1>2, <1>4 DEF Most
<1> HIDE DEF q, retry
<1>6. m * (retry * T) = retry * (m * T)
  BY <1>1, <1>5, Products
<1>7. q * (m * T) <= retry * (m * T)
  <2> DEFINE p == m * T
  <2>1. p \in Int /\ p >= 0
    BY <1>3
  <2> HIDE DEF p
  <2>2. p * q <= p * retry /\ p * q = q * p /\ p * retry = retry * p
    BY <1>4, <1>5, <2>1, Products
  <2> QED
    BY <2>2 DEF p
<1>8. a <= retry * (m * T)
  <2> DEFINE x == q * (m * T)
             y == retry * (m * T)
  <2>1. x \in Int /\ y \in Int /\ x >= a /\ x <= y
    BY <1>3, <1>4, <1>5, <1>7, Products
  <2> HIDE DEF x, y
  <2>2. a <= y
    BY <1>1, <2>1
  <2> QED
    BY <2>2 DEF y
<1> QED
  BY <1>5, <1>6, <1>8 DEF m, T, a, retry

\* A client that is not banned is let in exactly when it conforms, also when it has
\* waited as it was told; what its bucket, its promise and its log are then.
LEMMA SpendFacts ==
  ASSUME NEW spec, RateSpec(spec), NEW e \in Entry, NEW now \in Nat, NEW told \in Promise,
         NEW log \in Seq(Nat), EntryKept(spec, e, told, log), e.banned_until <= now,
         NEW spent, spent = Spend(spec, e, now),
         NEW kept, kept = IF told.ban = 0 THEN log ELSE << >>
  PROVE  /\ spent.entry \in Entry /\ spent.retry \in Nat
         /\ Told(told, spec, now, spent.retry) \in Promise
         /\ EntryKept(spec, spent.entry, Told(told, spec, now, spent.retry),
                      IF spent.retry = 0 THEN Append(kept, now) ELSE log)
         /\ spent.retry = 0 <=> Conforms(spec, Append(kept, now))
         /\ told.retry # 0 /\ now >= told.retry => spent.retry = 0
         /\ kept \in Seq(Nat)
<1> DEFINE told2 == Told(told, spec, now, spent.retry)
           k == UpToDate(spec, e, now)
           U == Unit(spec)
           T == TicksPerSecond
<1>1. told.ban \in Nat /\ told.retry \in Nat /\ e.banned_until = told.ban
  BY DEF Promise, EntryKept
<1>2. NoPromise \in Promise
  BY DEF NoPromise, Promise
<1>3. CASE told.ban # 0
  <2>1. spent = [entry |-> Bucket(Full(spec) - U, now, 0), retry |-> 0]
    BY <1>1, <1>3, SpendLifted
  <2>2. spent.entry = Bucket(Full(spec) - U, now, 0) /\ spent.retry = 0 /\ kept = << >>
    BY <1>3, <2>1
  <2>3. told2 = NoPromise
    BY <2>2 DEF Told
  <2>4. << >> \in Seq(Nat)
    OBVIOUS
  <2> DEFINE f == Bucket(Full(spec) - U, now, 0)
  <2>5. /\ f \in Entry /\ Conforms(spec, Append(<< >>, now))
        /\ EntryKept(spec, f, NoPromise, Append(<< >>, now))
    BY NewBucket
  <2> HIDE DEF told2, f
  <2>6. spent.entry = f /\ spent.retry = 0 /\ kept = << >> /\ 0 \in Nat
    BY <2>2 DEF f
  <2>7. EntryKept(spec, spent.entry, told2, IF spent.retry = 0 THEN Append(kept, now) ELSE log)
    BY <2>3, <2>5, <2>6
  <2>8. spent.retry = 0 /\ Conforms(spec, Append(kept, now))
    BY <2>5, <2>6
  <2> QED
    BY <1>2, <2>3, <2>4, <2>5, <2>6, <2>7, <2>8 DEF told2
<1>4. CASE told.ban = 0
  <2>1. e.banned_until = 0 /\ kept = log /\ Balanced(spec, e, log)
    BY <1>1, <1>4 DEF EntryKept
  <2>2. /\ k \in Int /\ U \in Int /\ U >= 1 /\ Full(spec) \in Int /\ Full(spec) >= U /\ T \in Int /\ T >= 1
        /\ spec.max_requests \in Int /\ spec.max_requests >= 1 /\ spec.ban_seconds \in Nat
    BY <2>1, SpendFree, UnitFacts DEF RateSpec
  <2>3. Conforms(spec, Append(log, now)) <=> k >= U
    BY <2>1, TokensDecide DEF UpToDate
  <2>4. told.retry # 0 /\ now >= told.retry => k >= U
    <3> SUFFICES ASSUME told.retry # 0, now >= told.retry PROVE k >= U
      OBVIOUS
    <3>1. U - e.tokens <= spec.max_requests * (told.retry - e.updated)
      BY <1>4 DEF EntryKept
    <3> DEFINE m == spec.max_requests
               x == told.retry - e.updated
               y == now - e.updated
    <3>2. x \in Int /\ y \in Int /\ x <= y /\ e.tokens \in Int
      BY <1>1 DEF Entry
    <3>3. k = e.tokens + m * y
      BY DEF UpToDate
    <3> HIDE DEF m, x, y, U, k
    <3>4. m * x \in Int /\ m * y \in Int /\ m * x <= m * y
      <4>1. m \in Int /\ m >= 0
        BY <2>2 DEF m
      <4> QED
        BY <3>2, <4>1, Products
    <3>5. U - e.tokens <= m * x
      BY <3>1 DEF m, x
    <3> DEFINE p == m * x
               q == m * y
    <3>6. p \in Int /\ q \in Int /\ p <= q /\ U - e.tokens <= p /\ k = e.tokens + q
      BY <3>3, <3>4, <3>5
    <3> HIDE DEF p, q
    <3> QED
      BY <2>2, <3>2, <3>6
  <2>5. CASE k >= U
    <3> DEFINE f == Bucket(Least(Full(spec), k) - U, now, 0)
    <3>1. spent = [entry |-> f, retry |-> 0]
      BY <2>1, <2>5, SpendFree
    <3>2. spent.entry = f /\ spent.retry = 0
      BY <3>1
    <3>3. Least(Full(spec), k) - U \in Int
      BY <2>2 DEF Least
    <3>4. f \in Entry /\ f.updated = now /\ f.tokens = Least(Full(spec), k) - U /\ f.banned_until = 0
      BY <3>3 DEF Bucket, Entry
    <3>5. Balanced(spec, f, Append(log, now))
      <4> HIDE DEF f
      <4> QED
        BY <2>1, <2>5, <3>4, AdmitBalanced DEF UpToDate
    <3>6. told2 = NoPromise
      BY <3>2 DEF Told
    <3>7. EntryKept(spec, f, NoPromise, Append(log, now))
      <4> HIDE DEF f
      <4> QED
        BY <3>4, <3>5 DEF EntryKept, NoPromise
    <3> HIDE DEF f, told2, k, U
    <3> QED
      BY <1>2, <2>1, <2>3, <2>5, <3>2, <3>4, <3>6, <3>7 DEF told2
  <2>6. CASE k < U /\ spec.ban_seconds # 0
    <3> DEFINE b == now + spec.ban_seconds * T
               f == Bucket(k, now, b)
    <3>1. spent = [entry |-> f, retry |-> spec.ban_seconds]
      BY <2>1, <2>6, SpendFree
    <3>2. spent.entry = f /\ spent.retry = spec.ban_seconds
      BY <3>1
    <3>3. b \in Nat /\ b # 0
      <4> DEFINE p == spec.ban_seconds * T
      <4>1. p \in Int /\ p >= T
        <5>1. spec.ban_seconds \in Int /\ spec.ban_seconds >= 1
          BY <2>2, <2>6
        <5> QED
          BY <2>2, <5>1, Products
      <4> HIDE DEF p
      <4>2. now + p \in Nat /\ now + p # 0
        BY <2>2, <4>1
      <4> QED
        BY <4>2 DEF p
    <3>4. told2 = [retry |-> b, ban |-> b]
      <4>1. ~ (told.ban > now)
        BY <1>4
      <4> QED
        BY <2>6, <3>2, <4>1 DEF Told
    <3> HIDE DEF b, k, told2
    <3>5. f \in Entry /\ f.banned_until = b
      BY <2>2, <3>3 DEF Bucket, Entry
    <3>6. told2 \in Promise /\ told2.retry = b /\ told2.ban = b
      BY <3>3, <3>4 DEF Promise
    <3> HIDE DEF f
    <3>7. EntryKept(spec, f, told2, log)
      BY <2>6, <3>3, <3>5, <3>6 DEF EntryKept
    <3> QED
      BY <2>1, <2>2, <2>3, <2>4, <2>6, <3>2, <3>5, <3>6, <3>7 DEF told2
  <2>7. CASE k < U /\ spec.ban_seconds = 0
    <3> DEFINE f == Bucket(k, now, 0)
               n == RetryAfter(spec, f)
    <3>1. spent = [entry |-> f, retry |-> n]
      BY <2>1, <2>7, SpendFree
    <3>2. spent.entry = f /\ spent.retry = n
      BY <3>1
    <3>3. f \in Entry /\ f.banned_until = 0 /\ f.tokens = k /\ f.updated = now
      BY <2>2 DEF Bucket, Entry
    <3>4. n \in Nat /\ n # 0 /\ U - k <= spec.max_requests * (n * T)
      BY <2>2, RetryLongEnough
    <3> HIDE DEF f, n
    <3>5. n * T \in Nat
      <4>1. n * T \in Int /\ n * T >= T
        BY <2>2, <3>4, Products
      <4> QED
        BY <2>2, <4>1
    <3>6. told2 = [retry |-> now + n * T, ban |-> 0]
      BY <2>7, <3>2, <3>4 DEF Told
    <3> DEFINE p == n * T
    <3>7. p \in Nat /\ told2 = [retry |-> now + p, ban |-> 0] /\ U - k <= spec.max_requests * p
      BY <3>4, <3>5, <3>6
    <3> HIDE DEF p, told2
    <3>8. told2 \in Promise /\ told2.ban = 0 /\ told2.retry - now = p
      BY <3>7 DEF Promise
    <3>9. Balanced(spec, f, log)
      BY <2>1, <3>3, RefuseBalanced DEF UpToDate
    <3>10. EntryKept(spec, f, told2, log)
      <4>1. U - f.tokens <= spec.max_requests * (told2.retry - f.updated)
        BY <3>3, <3>7, <3>8
      <4> QED
        BY <3>3, <3>8, <3>9, <4>1 DEF EntryKept
    <3> HIDE DEF k
    <3> QED
      BY <2>1, <2>2, <2>3, <2>4, <2>7, <3>2, <3>3, <3>4, <3>8, <3>10 DEF told2
  <2> QED
    BY <2>2, <2>5, <2>6, <2>7
<1> QED
  BY <1>3, <1>4

\* A client that comes during its ban is told to come back no sooner than its end.
LEMMA BannedFacts ==
  ASSUME NEW spec, RateSpec(spec), NEW e \in Entry, NEW now \in Nat, NEW told \in Promise,
         NEW log, EntryKept(spec, e, told, log), e.banned_until > now,
         NEW retry, retry = SecondsUntil(e.banned_until, now)
  PROVE  /\ retry \in Nat /\ retry # 0
         /\ Told(told, spec, now, retry) \in Promise
         /\ EntryKept(spec, e, Told(told, spec, now, retry), log)
         /\ ~ (told.retry # 0 /\ now >= told.retry)
<1> DEFINE T == TicksPerSecond
           q == CeilDiv(told.ban - now, T)
           told2 == Told(told, spec, now, retry)
<1>1. /\ told.ban \in Nat /\ told.retry \in Nat /\ e.banned_until = told.ban /\ told.ban > now
      /\ told.ban # 0 /\ told.retry >= told.ban /\ spec.ban_seconds # 0
  BY DEF Promise, EntryKept
<1>2. T \in Nat \ {0} /\ told.ban - now \in Int
  BY <1>1, PolicyAssumption
<1>3. q \in Int /\ q * T >= told.ban - now
  BY <1>2, CeilDivFacts
<1>4. retry = Most(1, q)
  BY <1>1 DEF SecondsUntil
<1> HIDE DEF q
<1>5. retry \in Nat /\ retry # 0 /\ retry >= q
  BY <1>3, <1>4 DEF Most
<1>6. retry * T \in Nat /\ retry * T >= told.ban - now
  <2>1. T \in Int /\ T >= 0
    BY <1>2
  <2>2. T * q <= T * retry /\ T * q = q * T /\ T * retry = retry * T /\ q * T \in Int /\ retry * T \in Int
    BY <1>3, <1>5, <2>1, Products
  <2> DEFINE x == q * T
             y == retry * T
  <2>3. x \in Int /\ y \in Int /\ x <= y /\ x >= told.ban - now
    BY <1>3, <2>2
  <2> HIDE DEF x, y
  <2>4. y \in Nat /\ y >= told.ban - now
    BY <1>1, <1>2, <2>3
  <2> QED
    BY <2>4 DEF y
<1>7. told2 = [retry |-> now + retry * T, ban |-> told.ban]
  BY <1>1, <1>5 DEF Told
<1> DEFINE p == retry * T
<1>8. p \in Nat /\ p >= told.ban - now /\ told2 = [retry |-> now + p, ban |-> told.ban]
  BY <1>6, <1>7
<1> HIDE DEF p, told2
<1>9. told2 \in Promise /\ told2.ban = told.ban /\ told2.retry >= told.ban
  BY <1>1, <1>8 DEF Promise
<1>10. EntryKept(spec, e, told2, log)
  BY <1>1, <1>9 DEF EntryKept
<1> QED
  BY <1>1, <1>5, <1>9, <1>10 DEF told2

\* A check of a client without an entry.
LEMMA CheckUnknown ==
  ASSUME NEW spec, RateSpec(spec), NEW t, IsTable(t), NEW order, Listed(t, order),
         NEW c \in Clients, NEW now \in Nat, NEW known, known = Counted(spec, t, now),
         c \notin DOMAIN known.entries, NEW result, result = Check(spec, t, c, now)
  PROVE  /\ result.retry = 0
         /\ IsTable(result.table) /\ Listed(result.table, Latest(order, c))
         /\ c \in DOMAIN result.table.entries
         /\ result.table.entries[c] = Bucket(Full(spec) - Unit(spec), now, 0)
         /\ \A d \in DOMAIN result.table.entries \ {c} :
              d \in DOMAIN known.entries /\ result.table.entries[d] = known.entries[d]
<1> DEFINE u == EvictOldest(known)
           D == DOMAIN u.entries
           new == Bucket(Full(spec) - Unit(spec), now, 0)
           entries == [d \in D \cup {c} |-> IF d = c THEN new ELSE u.entries[d]]
           v == Insert(spec, known, c, now)
<1>1. IsTable(known) /\ Listed(known, order)
  BY CountedFacts
<1>2. /\ IsTable(u) /\ Listed(u, order) /\ D \subseteq DOMAIN known.entries
      /\ \A d \in D : u.entries[d] = known.entries[d]
      /\ Cardinality(D) < MaxEntries
  BY <1>1, EvictFacts
<1>3. result = [table |-> v, retry |-> 0]
  BY DEF Check
<1>4. new \in Entry
  BY NewBucket
<1>5. v = [u EXCEPT !.entries = entries, !.lru = Append(u.lru, c)]
  BY DEF Insert, Bucket, NoBan
<1>6. u = [entries |-> u.entries, lru |-> u.lru, request_count |-> u.request_count]
  BY <1>2 DEF IsTable
<1>7. /\ DOMAIN entries = D \cup {c} /\ entries[c] = new /\ entries = [d \in DOMAIN entries |-> entries[d]]
      /\ \A d \in D : d # c => entries[d] = u.entries[d]
  <2> HIDE DEF D, new, u
  <2> QED
    OBVIOUS
<1> HIDE DEF u, D, new, entries, v
<1>8. v = [entries |-> entries, lru |-> Append(u.lru, c), request_count |-> u.request_count]
  BY <1>5, <1>6
<1>9. v.entries = entries /\ v.lru = Append(u.lru, c) /\ v.request_count = u.request_count
  BY <1>8
<1>10. c \notin D
  BY <1>2
<1>11. /\ u.lru \in Seq(Clients) /\ Append(u.lru, c) \in Seq(Clients) /\ D \subseteq Clients
       /\ u.request_count \in Nat /\ \A d \in D : u.entries[d] \in Entry
  BY <1>2, AppendProperties DEF IsTable, D
<1>12. IsTable(v)
  <2>1. \A d \in DOMAIN entries : entries[d] \in Entry
    BY <1>4, <1>7, <1>11
  <2> QED
    BY <1>7, <1>8, <1>9, <1>11, <2>1 DEF IsTable
<1>13. Listed(v, Latest(order, c))
  <2>1. order \in Seq(Clients) /\ u.lru = Select(order, D) /\ D \subseteq Range(order)
    BY <1>2 DEF Listed, D
  <2>2. /\ Latest(order, c) \in Seq(Clients) /\ Range(Latest(order, c)) = Range(order) \cup {c}
        /\ Select(Latest(order, c), D \cup {c}) = Append(Select(order, D \ {c}), c)
    BY <2>1, LatestFacts
  <2>3. D \ {c} = D
    BY <1>10
  <2>4. IsFiniteSet(D)
    BY <1>2, EntriesFinite DEF D
  <2>5. Cardinality(D \cup {c}) = Cardinality(D) + 1 /\ Cardinality(D) \in Nat
    BY <1>10, <2>4, FS_AddElement, FS_CardinalityType
  <2>6. Cardinality(D \cup {c}) <= MaxEntries
    BY <1>2, <2>5, PolicyAssumption
  <2> QED
    BY <1>7, <1>9, <2>1, <2>2, <2>3, <2>6 DEF Listed
<1>14. result.table = v /\ result.retry = 0
  BY <1>3
<1> QED
  BY <1>2, <1>7, <1>9, <1>12, <1>13, <1>14 DEF new

\* A check of a client that has an entry.
LEMMA CheckKnownFacts ==
  ASSUME NEW spec, RateSpec(spec), NEW t, IsTable(t), NEW order, Listed(t, order),
         NEW c \in Clients, NEW now \in Nat, NEW known, known = Counted(spec, t, now),
         c \in DOMAIN known.entries, NEW result, result = Check(spec, t, c, now),
         Spend(spec, known.entries[c], now).entry \in Entry \/ known.entries[c].banned_until > now
  PROVE  /\ IsTable(result.table) /\ Listed(result.table, Latest(order, c))
         /\ DOMAIN result.table.entries = DOMAIN known.entries
         /\ \A d \in DOMAIN known.entries \ {c} : result.table.entries[d] = known.entries[d]
         /\ known.entries[c].banned_until > now =>
              /\ result.table.entries[c] = known.entries[c]
              /\ result.retry = SecondsUntil(known.entries[c].banned_until, now)
         /\ ~ (known.entries[c].banned_until > now) =>
              /\ result.table.entries[c] = Spend(spec, known.entries[c], now).entry
              /\ result.retry = Spend(spec, known.entries[c], now).retry
<1> DEFINE D == DOMAIN known.entries
           e == known.entries[c]
           u == Touch(known, c)
           spent == Spend(spec, e, now)
           n == known.request_count
           E == known.entries
           l == Latest(known.lru, c)
<1>1. IsTable(known) /\ Listed(known, order)
  BY CountedFacts
<1>2. known = [entries |-> E, lru |-> known.lru, request_count |-> n]
  BY <1>1 DEF IsTable
<1>3. u = [known EXCEPT !.lru = l]
  BY DEF Touch, Latest
<1>4. result = IF e.banned_until > now
               THEN [table |-> u, retry |-> SecondsUntil(e.banned_until, now)]
               ELSE [table |-> [u EXCEPT !.entries[c] = spent.entry], retry |-> spent.retry]
  BY DEF Check, CheckKnown
<1>5. /\ E = [d \in D |-> E[d]] /\ D \subseteq Clients /\ n \in Nat
      /\ \A d \in D : E[d] \in Entry
  BY <1>1 DEF IsTable
<1>6. /\ order \in Seq(Clients) /\ known.lru = Select(order, D) /\ D \subseteq Range(order)
      /\ Cardinality(D) <= MaxEntries /\ Range(known.lru) = D
  BY <1>1, ListNamesEntries DEF Listed
<1>7. c \in D
  OBVIOUS
<1>8. /\ l \in Seq(Clients) /\ Latest(order, c) \in Seq(Clients)
      /\ D \subseteq Range(Latest(order, c)) /\ l = Select(Latest(order, c), D)
  <2> HIDE DEF D
  <2>1. known.lru \in Seq(Clients)
    BY <1>1 DEF IsTable
  <2>2. l \in Seq(Clients)
    <3>1. {} \subseteq Range(known.lru) \cup {c}
      OBVIOUS
    <3> QED
      BY <2>1, <3>1, LatestFacts
  <2>3. /\ Latest(order, c) \in Seq(Clients) /\ Range(Latest(order, c)) = Range(order) \cup {c}
        /\ Select(Latest(order, c), D \cup {c}) = Append(Select(order, D \ {c}), c)
    BY <1>6, LatestFacts
  <2>4. l = Append(Select(known.lru, D \ {c}), c)
    BY <1>6 DEF Latest
  <2>5. Select(known.lru, D \ {c}) = Select(order, D \cap (D \ {c}))
    BY <1>6, SelectTwice
  <2>6. D \cap (D \ {c}) = D \ {c} /\ D \cup {c} = D
    BY <1>7
  <2> QED
    BY <1>6, <2>2, <2>3, <2>4, <2>5, <2>6
<1> HIDE DEF u, l, n, E
<1>9. u = [entries |-> E, lru |-> l, request_count |-> n]
  BY <1>2, <1>3
<1>10. u.entries = E /\ u.lru = l /\ u.request_count = n
  BY <1>9
<1>11. CASE e.banned_until > now
  <2>1. result.table = u /\ result.retry = SecondsUntil(e.banned_until, now)
    BY <1>4, <1>11
  <2>2. IsTable(u)
    BY <1>5, <1>8, <1>9, <1>10 DEF IsTable, E
  <2>3. Listed(u, Latest(order, c))
    BY <1>6, <1>8, <1>10 DEF Listed, E
  <2> QED
    BY <1>10, <1>11, <2>1, <2>2, <2>3 DEF E
<1>12. CASE ~ (e.banned_until > now)
  <2> DEFINE G == [E EXCEPT ![c] = spent.entry]
             v == [u EXCEPT !.entries[c] = spent.entry]
  <2>1. result.table = v /\ result.retry = spent.retry
    BY <1>4, <1>12
  <2>2. v = [u EXCEPT !.entries = G]
    BY <1>10
  <2>3. spent.entry \in Entry
    BY <1>12
  <2>4. /\ DOMAIN G = D /\ G[c] = spent.entry /\ \A d \in D \ {c} : G[d] = E[d]
        /\ G = [d \in DOMAIN G |-> G[d]]
    <3>1. DOMAIN E = D
      BY DEF E
    <3> HIDE DEF D, spent
    <3> QED
      BY <1>5, <1>7, <3>1
  <2> HIDE DEF G, v, spent, D
  <2>5. v = [entries |-> G, lru |-> l, request_count |-> n]
    BY <1>9, <2>2
  <2>6. v.entries = G /\ v.lru = l /\ v.request_count = n
    BY <2>5
  <2>7. \A d \in D : G[d] \in Entry
    BY <1>5, <2>3, <2>4
  <2>8. IsTable(v)
    BY <1>5, <1>8, <2>4, <2>5, <2>6, <2>7 DEF IsTable
  <2>9. Listed(v, Latest(order, c))
    BY <1>6, <1>8, <2>4, <2>6 DEF Listed
  <2> QED
    BY <1>12, <2>1, <2>4, <2>6, <2>8, <2>9 DEF E, spent, D
<1> QED
  BY <1>11, <1>12


-----------------------------------------------------------------------------
(* A check, and the site it is made for                                    *)

\* The limits that the constructor of a rate limiter lets through.
LEMMA LimitedRate ==
  ASSUME NEW s \in Limited
  PROVE  RateSpec(Rate(s))
  BY SiteSpecAssumption DEF Limited, Rate, RateSpec

\* The history of a site after a check of c at `now`, as LockedCheck keeps it.
LogAfter(log, c, kept, now, retry, entries) ==
  [d \in Clients |->
     IF d = c THEN IF retry = 0 THEN Append(kept, now) ELSE log[d]
     ELSE IF d \in entries THEN log[d] ELSE << >>]
ToldAfter(told, spec, c, now, retry, evicted) ==
  [d \in Clients |->
     IF d = c THEN Told(told[d], spec, now, retry)
     ELSE IF d \in evicted THEN NoPromise ELSE told[d]]

\* What a check of c in a table with the entries `known` ends with: the table, the log and
\* the promise of c, and an answer that agrees with the rate and with the last promise.
CheckEnds(s, told, known, order, time, c, now, result, kept, log2, told2) ==
  /\ IsTable(result.table) /\ Listed(result.table, Latest(order, c))
  /\ c \in DOMAIN result.table.entries
  /\ \A d \in DOMAIN result.table.entries \ {c} :
       d \in DOMAIN known.entries /\ result.table.entries[d] = known.entries[d]
  /\ log2 \in Seq(Nat) /\ told2 \in Promise
  /\ EntryKept(Rate(s), result.table.entries[c], told2, log2)
  /\ ~ (c \in DOMAIN known.entries /\ told.ban > now)
       => (result.retry = 0 <=> Conforms(Rate(s), Append(kept, now)))
  /\ told.retry # 0 /\ now >= told.retry => result.retry = 0
  /\ time < told.ban => result.retry # 0

\* The client that is checked: its bucket, its promise and its log fit together again,
\* and the answer is the one the rate and its promise ask for.
LEMMA CheckedClient ==
  ASSUME NEW s \in Limited, NEW t, NEW order, NEW log, NEW told, NEW time \in Nat,
         SiteKept(s, t, order, log, told, time),
         NEW c \in Clients, NEW now \in Nat, now <= time,
         NEW known, known = Counted(Rate(s), t, now),
         NEW result, result = Check(Rate(s), t, c, now),
         NEW kept, kept = IF c \in DOMAIN known.entries /\ told[c].ban = 0 THEN log[c] ELSE << >>,
         NEW log2, log2 = IF result.retry = 0 THEN Append(kept, now) ELSE log[c],
         NEW told2, told2 = Told(told[c], Rate(s), now, result.retry)
  PROVE  CheckEnds(s, told[c], known, order, time, c, now, result, kept, log2, told2)
<1> DEFINE spec == Rate(s)
<1>1. RateSpec(spec)
  BY LimitedRate
<1>2. /\ IsTable(t) /\ Listed(t, order) /\ log[c] \in Seq(Nat) /\ told[c] \in Promise
      /\ c \in DOMAIN t.entries => EntryKept(spec, t.entries[c], told[c], log[c])
      /\ told[c].ban > time => c \in DOMAIN t.entries
  BY DEF SiteKept, Promise
<1>3. told[c].ban \in Nat /\ told[c].retry \in Nat
  BY <1>2 DEF Promise
<1> HIDE DEF spec
<1>4. /\ DOMAIN known.entries \subseteq DOMAIN t.entries
      /\ \A d \in DOMAIN known.entries : known.entries[d] = t.entries[d]
      /\ \A d \in DOMAIN t.entries \ DOMAIN known.entries : t.entries[d].banned_until <= now
      /\ IsTable(known)
  BY <1>2, CountedFacts DEF spec
<1>5. time < told[c].ban => c \in DOMAIN known.entries /\ told[c].ban > now
  <2>1. c \in DOMAIN t.entries => t.entries[c].banned_until = told[c].ban
    BY <1>2 DEF EntryKept
  <2> QED
    BY <1>2, <1>3, <1>4, <2>1
<1>6. CASE c \notin DOMAIN known.entries
  <2>1. /\ result.retry = 0
        /\ IsTable(result.table) /\ Listed(result.table, Latest(order, c))
        /\ c \in DOMAIN result.table.entries
        /\ result.table.entries[c] = Bucket(Full(spec) - Unit(spec), now, 0)
        /\ \A d \in DOMAIN result.table.entries \ {c} :
             d \in DOMAIN known.entries /\ result.table.entries[d] = known.entries[d]
    BY <1>1, <1>2, <1>6, CheckUnknown DEF spec
  <2>2. kept = << >> /\ log2 = Append(<< >>, now) /\ told2 = NoPromise
    BY <1>6, <2>1 DEF Told
  <2>3. /\ Append(<< >>, now) \in Seq(Nat) /\ Conforms(spec, Append(<< >>, now))
        /\ EntryKept(spec, Bucket(Full(spec) - Unit(spec), now, 0), NoPromise, Append(<< >>, now))
    BY <1>1, NewBucket
  <2>4. NoPromise \in Promise
    BY DEF NoPromise, Promise
  <2> QED
    BY <1>5, <1>6, <2>1, <2>2, <2>3, <2>4 DEF spec, CheckEnds
<1>7. CASE c \in DOMAIN known.entries
  <2> DEFINE e == known.entries[c]
             spent == Spend(spec, e, now)
  <2>1. /\ e = t.entries[c] /\ e \in Entry /\ EntryKept(spec, e, told[c], log[c])
        /\ e.banned_until = told[c].ban
    BY <1>2, <1>4, <1>7 DEF IsTable, EntryKept
  <2>2. kept = IF told[c].ban = 0 THEN log[c] ELSE << >>
    BY <1>7
  <2>3. CASE e.banned_until > now
    <3>1. /\ IsTable(result.table) /\ Listed(result.table, Latest(order, c))
          /\ DOMAIN result.table.entries = DOMAIN known.entries
          /\ \A d \in DOMAIN known.entries \ {c} : result.table.entries[d] = known.entries[d]
          /\ result.table.entries[c] = e
          /\ result.retry = SecondsUntil(e.banned_until, now)
      BY <1>1, <1>2, <1>7, <2>3, CheckKnownFacts DEF spec
    <3> HIDE DEF e, spent
    <3>2. /\ result.retry # 0 /\ Told(told[c], spec, now, result.retry) \in Promise
          /\ EntryKept(spec, e, Told(told[c], spec, now, result.retry), log[c])
          /\ ~ (told[c].retry # 0 /\ now >= told[c].retry)
      BY <1>1, <1>2, <2>1, <2>3, <3>1, BannedFacts
    <3>3. log2 = log[c] /\ told2 = Told(told[c], spec, now, result.retry)
      BY <3>2 DEF spec
    <3>4. c \in DOMAIN known.entries /\ told[c].ban > now
      BY <1>7, <2>1, <2>3
    <3> QED
      BY <1>2, <1>7, <3>1, <3>2, <3>3, <3>4 DEF spec, CheckEnds
  <2>4. CASE ~ (e.banned_until > now)
    <3> HIDE DEF e, spent
    <3>1. e.banned_until <= now
      BY <1>3, <2>1, <2>4
    <3>2. spent = Spend(spec, e, now)
      BY DEF spent
    <3>3. /\ spent.entry \in Entry /\ spent.retry \in Nat
          /\ Told(told[c], spec, now, spent.retry) \in Promise
          /\ EntryKept(spec, spent.entry, Told(told[c], spec, now, spent.retry),
                       IF spent.retry = 0 THEN Append(kept, now) ELSE log[c])
          /\ spent.retry = 0 <=> Conforms(spec, Append(kept, now))
          /\ told[c].retry # 0 /\ now >= told[c].retry => spent.retry = 0
          /\ kept \in Seq(Nat)
      BY <1>1, <1>2, <2>1, <2>2, <3>1, <3>2, SpendFacts
    <3>4. /\ IsTable(result.table) /\ Listed(result.table, Latest(order, c))
          /\ DOMAIN result.table.entries = DOMAIN known.entries
          /\ \A d \in DOMAIN known.entries \ {c} : result.table.entries[d] = known.entries[d]
          /\ result.table.entries[c] = spent.entry
          /\ result.retry = spent.retry
      <4>1. Spend(spec, known.entries[c], now).entry \in Entry
        BY <3>3 DEF spent, e
      <4> QED
        BY <1>1, <1>2, <1>7, <2>4, <4>1, CheckKnownFacts DEF spec, e, spent
    <3>5. log2 = (IF spent.retry = 0 THEN Append(kept, now) ELSE log[c])
      BY <3>4
    <3>6. told2 = Told(told[c], spec, now, spent.retry)
      BY <3>4 DEF spec
    <3>7. log2 \in Seq(Nat)
      BY <1>2, <3>3, <3>5, AppendProperties
    <3>8. ~ (time < told[c].ban)
      BY <1>3, <1>5, <2>1, <3>1
    <3> QED
      BY <1>7, <3>3, <3>4, <3>5, <3>6, <3>7, <3>8 DEF spec, CheckEnds
  <2> QED
    BY <2>3, <2>4
<1> QED
  BY <1>6, <1>7

\* A check of a client that no address rule denies keeps the site.
LEMMA CheckKeepsSite ==
  ASSUME NEW s \in Limited, NEW t, NEW order, NEW log, NEW told, NEW time \in Nat,
         SiteKept(s, t, order, log, told, time),
         NEW c \in Clients, ~Denied(s, c), NEW now \in Nat, now <= time,
         NEW known, known = Counted(Rate(s), t, now),
         NEW result, result = Check(Rate(s), t, c, now),
         NEW kept, kept = IF c \in DOMAIN known.entries /\ told[c].ban = 0 THEN log[c] ELSE << >>,
         NEW E, E = DOMAIN result.table.entries,
         NEW evicted, evicted = DOMAIN known.entries \ E
  PROVE  SiteKept(s, result.table, Latest(order, c),
                  LogAfter(log, c, kept, now, result.retry, E),
                  ToldAfter(told, Rate(s), c, now, result.retry, evicted), time)
<1> DEFINE log2 == LogAfter(log, c, kept, now, result.retry, E)
           told2 == ToldAfter(told, Rate(s), c, now, result.retry, evicted)
           new == result.table.entries
<1>1. /\ IsTable(t) /\ Listed(t, order)
      /\ log \in [Clients -> Seq(Nat)] /\ told \in [Clients -> Promise]
      /\ \A d \in DOMAIN t.entries :
           EntryKept(Rate(s), t.entries[d], told[d], log[d]) /\ ~Denied(s, d)
      /\ \A d \in Clients : told[d].ban > time => d \in DOMAIN t.entries
  BY DEF SiteKept, Promise
<1>2. log2[c] = (IF result.retry = 0 THEN Append(kept, now) ELSE log[c])
  BY DEF LogAfter
<1>3. told2[c] = Told(told[c], Rate(s), now, result.retry)
  BY DEF ToldAfter
<1>4. \A d \in Clients : d # c => log2[d] = IF d \in E THEN log[d] ELSE << >>
  BY DEF LogAfter
<1>5. \A d \in Clients : d # c => told2[d] = IF d \in evicted THEN NoPromise ELSE told[d]
  BY DEF ToldAfter
<1>6. log2 = [d \in Clients |-> log2[d]] /\ told2 = [d \in Clients |-> told2[d]]
  BY DEF LogAfter, ToldAfter
<1> HIDE DEF log2, told2
<1>7. /\ IsTable(result.table) /\ Listed(result.table, Latest(order, c))
      /\ c \in E
      /\ \A d \in E \ {c} : d \in DOMAIN known.entries /\ new[d] = known.entries[d]
      /\ log2[c] \in Seq(Nat) /\ told2[c] \in Promise
      /\ EntryKept(Rate(s), new[c], told2[c], log2[c])
  <2>1. CheckEnds(s, told[c], known, order, time, c, now, result, kept, log2[c], told2[c])
    BY <1>2, <1>3, CheckedClient
  <2> QED
    BY <2>1 DEF CheckEnds
<1>8. /\ DOMAIN known.entries \subseteq DOMAIN t.entries
      /\ \A d \in DOMAIN known.entries : known.entries[d] = t.entries[d]
      /\ \A d \in DOMAIN t.entries \ DOMAIN known.entries : t.entries[d].banned_until <= now
      /\ DOMAIN t.entries \subseteq Clients
  <2>1. DOMAIN t.entries \subseteq Clients
    BY <1>1 DEF IsTable
  <2> QED
    BY <1>1, <2>1, CountedFacts
<1>9. log2 \in [Clients -> Seq(Nat)]
  <2>1. << >> \in Seq(Nat)
    OBVIOUS
  <2>2. \A d \in Clients : log2[d] \in Seq(Nat)
    BY <1>1, <1>4, <1>7, <2>1
  <2> QED
    BY <1>6, <2>2
<1>10. told2 \in [Clients -> [ban: Nat, retry: Nat]]
  <2>1. NoPromise \in Promise
    BY DEF NoPromise, Promise
  <2>2. \A d \in Clients : told2[d] \in Promise
    BY <1>1, <1>5, <1>7, <2>1
  <2> QED
    BY <1>6, <2>2 DEF Promise
<1>11. ASSUME NEW d \in E
       PROVE  EntryKept(Rate(s), new[d], told2[d], log2[d]) /\ ~Denied(s, d)
  <2>1. CASE d = c
    BY <1>7, <2>1
  <2>2. CASE d # c
    <3>1. d \in DOMAIN known.entries /\ new[d] = known.entries[d] /\ d \in Clients
      BY <1>7, <1>8, <2>2
    <3>2. d \notin evicted
      OBVIOUS
    <3>3. log2[d] = log[d] /\ told2[d] = told[d]
      BY <1>4, <1>5, <2>2, <3>1, <3>2
    <3> QED
      BY <1>1, <1>8, <3>1, <3>3
  <2> QED
    BY <2>1, <2>2
<1>12. ASSUME NEW d \in Clients, told2[d].ban > time
       PROVE  d \in E
  <2>1. CASE d = c
    BY <1>7, <2>1
  <2>2. CASE d # c /\ d \in evicted
    <3>1. told2[d].ban = 0
      BY <1>5, <2>2 DEF NoPromise
    <3> QED
      BY <1>12, <3>1
  <2>3. CASE d # c /\ d \notin evicted
    <3>1. told2[d] = told[d]
      BY <1>5, <2>3
    <3>2. d \in DOMAIN t.entries /\ told[d].ban \in Nat
      BY <1>1, <1>12, <3>1 DEF Promise
    <3>3. t.entries[d].banned_until = told[d].ban
      BY <1>1, <3>2 DEF EntryKept
    <3>4. ~ (told[d].ban <= now)
      BY <1>12, <3>1, <3>2
    <3>5. d \in DOMAIN known.entries
      BY <1>8, <3>2, <3>3, <3>4
    <3> QED
      BY <2>3, <3>5
  <2> QED
    BY <2>1, <2>2, <2>3
<1>13. DOMAIN new = E
  OBVIOUS
<1> HIDE DEF new
<1> QED
  BY <1>7, <1>9, <1>10, <1>11, <1>12, <1>13 DEF SiteKept, log2, told2, new

\* An insertion that fails for want of memory keeps the site.
LEMMA ThrowKeepsSite ==
  ASSUME NEW s \in Limited, NEW t, NEW order, NEW log, NEW told, NEW time \in Nat,
         SiteKept(s, t, order, log, told, time), NEW now \in Nat, now <= time,
         NEW known, known = Counted(Rate(s), t, now),
         NEW u, u = EvictOldest(known),
         NEW log2, log2 = [d \in Clients |-> IF d \in DOMAIN u.entries THEN log[d] ELSE << >>],
         NEW told2, told2 = [d \in Clients |-> IF d \in DOMAIN known.entries \ DOMAIN u.entries
                                               THEN NoPromise ELSE told[d]]
  PROVE  SiteKept(s, u, order, log2, told2, time)
<1>1. /\ IsTable(t) /\ Listed(t, order)
      /\ log \in [Clients -> Seq(Nat)] /\ told \in [Clients -> Promise]
      /\ \A d \in DOMAIN t.entries :
           EntryKept(Rate(s), t.entries[d], told[d], log[d]) /\ ~Denied(s, d)
      /\ \A d \in Clients : told[d].ban > time => d \in DOMAIN t.entries
  BY DEF SiteKept, Promise
<1>2. /\ IsTable(known) /\ Listed(known, order)
      /\ DOMAIN known.entries \subseteq DOMAIN t.entries
      /\ \A d \in DOMAIN known.entries : known.entries[d] = t.entries[d]
      /\ \A d \in DOMAIN t.entries \ DOMAIN known.entries : t.entries[d].banned_until <= now
      /\ DOMAIN t.entries \subseteq Clients
  <2>1. DOMAIN t.entries \subseteq Clients
    BY <1>1 DEF IsTable
  <2> QED
    BY <1>1, <2>1, CountedFacts
<1>3. /\ IsTable(u) /\ Listed(u, order) /\ DOMAIN u.entries \subseteq DOMAIN known.entries
      /\ \A d \in DOMAIN u.entries : u.entries[d] = known.entries[d]
  BY <1>2, EvictFacts
<1> DEFINE E == DOMAIN u.entries
           K == DOMAIN known.entries
           D == DOMAIN t.entries
<1>4. log2 \in [Clients -> Seq(Nat)]
  BY <1>1
<1>5. told2 \in [Clients -> [ban: Nat, retry: Nat]]
  BY <1>1 DEF Promise, NoPromise
<1>6. ASSUME NEW d \in E
      PROVE  EntryKept(Rate(s), u.entries[d], told2[d], log2[d]) /\ ~Denied(s, d)
  <2>1. d \in K /\ d \in D /\ u.entries[d] = t.entries[d] /\ d \in Clients
    BY <1>2, <1>3
  <2>2. log2[d] = log[d] /\ told2[d] = told[d]
    BY <2>1
  <2> QED
    BY <1>1, <2>1, <2>2
<1>7. ASSUME NEW d \in Clients, told2[d].ban > time
      PROVE  d \in E
  <2>1. CASE d \in K \ E
    <3>1. told2[d].ban = 0
      BY <2>1 DEF NoPromise
    <3> QED
      BY <1>7, <3>1
  <2>2. CASE d \notin K \ E
    <3>1. told2[d] = told[d]
      BY <2>2
    <3>2. d \in D /\ told[d].ban \in Nat
      BY <1>1, <1>7, <3>1 DEF Promise
    <3>3. t.entries[d].banned_until = told[d].ban
      BY <1>1, <3>2 DEF EntryKept
    <3>4. ~ (told[d].ban <= now)
      BY <1>7, <3>1, <3>2
    <3>5. d \in K
      BY <1>2, <3>2, <3>3, <3>4
    <3> QED
      BY <2>2, <3>5
  <2> QED
    BY <2>1, <2>2
<1> QED
  BY <1>3, <1>4, <1>5, <1>6, <1>7 DEF SiteKept

-----------------------------------------------------------------------------
(* The filter before the rate limiter                                      *)

\* The first row of a list that is not empty is one of its rows.
LEMMA HeadRow ==
  ASSUME NEW X, NEW list \in Seq(X), list # << >>
  PROVE  Head(list) \in Range(list)
<1>1. Len(list) \in Nat /\ Len(list) > 0 /\ Head(list) = list[1]
  BY LenProperties
<1>2. 1 \in 1 .. Len(list)
  BY <1>1
<1> QED
  BY <1>1, <1>2, RowsOfList

\* A request whose client an address rule denies does not reach the rate limiter.
LEMMA DeniedAcl ==
  ASSUME NEW s \in Sites, NEW view, Denied(s, view.ip)
  PROVE  EvaluateAcl(PreRateLimitAclRules(SiteSpec[s].policy), view) # 0
<1> DEFINE all == SiteSpec[s].policy.acl_rules
           pre == {rule \in Range(all) : rule.enabled /\ IsPreRateLimitIpDeny(rule)}
           rules == Select(all, pre)
           match == {rule \in Range(rules) : RuleMatches(rule, view)}
           hits == Select(rules, match)
<1>1. all \in Seq(Range(all)) /\ rules = PreRateLimitAclRules(SiteSpec[s].policy)
  BY SiteSpecAssumption DEF PreRateLimitAclRules
<1>2. \A i \in DOMAIN all : all[i].action = "deny" => all[i].status \in {403, 404, 429}
  BY SiteSpecAssumption
<1>3. EvaluateAcl(rules, view)
        = IF hits = << >> \/ Head(hits).action = "allow" THEN 0 ELSE Head(hits).status
  BY DEF EvaluateAcl
<1>4. PICK i \in DOMAIN all : DeniedBy(all[i], view.ip)
  BY DEF Denied
<1>5. IsPreRateLimitIpDeny(all[i]) /\ all[i].enabled
  BY <1>4 DEF DeniedBy, IsPreRateLimitIpDeny
<1>6. RuleMatches(all[i], view)
  <2> SUFFICES ASSUME NEW k \in DOMAIN all[i].conditions
               PROVE  MatchCondition(all[i].conditions[k], view)
    BY DEF RuleMatches
  <2> DEFINE condition == all[i].conditions[k]
  <2>1. /\ condition.field = "ip" /\ condition.operation = "equal"
        /\ view.ip \in condition.values
    BY <1>4 DEF DeniedBy
  <2>2. view[condition.field] \in condition.values
    BY <2>1
  <2>3. ~ (condition.operation \in Negative)
    BY <2>1 DEF Negative
  <2> HIDE DEF condition
  <2> QED
    BY <2>2, <2>3 DEF MatchCondition, condition
<1>7. all[i] \in Range(all)
  BY DEF Range
<1>8. all[i] \in pre
  BY <1>5, <1>7
<1>9. \A rule \in pre : rule.action = "deny" /\ rule.status \in {403, 404, 429}
  <2> SUFFICES ASSUME NEW rule \in Range(all), IsPreRateLimitIpDeny(rule)
               PROVE  rule.action = "deny" /\ rule.status \in {403, 404, 429}
    OBVIOUS
  <2>1. PICK j \in DOMAIN all : rule = all[j]
    BY DEF Range
  <2> QED
    BY <1>2, <2>1 DEF IsPreRateLimitIpDeny
<1> HIDE DEF all, pre
<1>10. rules \in Seq(Range(all)) /\ Range(rules) = Range(all) \cap pre
  BY <1>1, SelectFacts
<1>11. all[i] \in match
  BY <1>6, <1>7, <1>8, <1>10
<1>12. match \subseteq Range(rules)
  OBVIOUS
<1> HIDE DEF rules, match
<1>13. hits \in Seq(Range(all)) /\ Range(hits) = Range(rules) \cap match
  BY <1>10, SelectFacts
<1> HIDE DEF hits
<1>14. hits # << >>
  <2>1. all[i] \in Range(hits)
    BY <1>11, <1>12, <1>13
  <2> QED
    BY <2>1 DEF Range
<1>15. Head(hits) \in pre
  <2>1. Head(hits) \in Range(hits)
    BY <1>13, <1>14, HeadRow
  <2> QED
    BY <1>10, <1>13, <2>1
<1> QED
  BY <1>1, <1>3, <1>9, <1>14, <1>15

\* What the filters before the rate limiter let through is not denied.
LEMMA NotDenied ==
  ASSUME NEW r, Refusal(r) = 0, SiteOf(r) \in Sites
  PROVE  ~Denied(SiteOf(r), ClientOf(r))
<1> DEFINE s == SiteOf(r)
           view == View(r)
           policy == SiteSpec[s].policy
<1>1. EvaluateBeforeLimit(policy, view) = 0
  BY DEF Refusal
<1>2. view.ip = ClientOf(r)
  BY DEF View
<1> HIDE DEF view, policy
<1>3. EvaluateAcl(PreRateLimitAclRules(policy), view) = 0
  <2>1. CASE view.method \in {"trace", "track"}
    BY <1>1, <2>1 DEF EvaluateBeforeLimit
  <2>2. CASE view.method \notin {"trace", "track"} /\ view.too_long
    BY <1>1, <2>2 DEF EvaluateBeforeLimit
  <2>3. CASE view.method \notin {"trace", "track"} /\ ~view.too_long
    <3>1. EvaluateBeforeLimit(policy, view) = EvaluateAcl(PreRateLimitAclRules(policy), view)
      BY <2>3 DEF EvaluateBeforeLimit
    <3> QED
      BY <1>1, <3>1
  <2> QED
    BY <2>1, <2>2, <2>3
<1>4. ASSUME Denied(s, view.ip)
      PROVE  FALSE
  BY <1>3, <1>4, DeniedAcl DEF policy
<1> QED
  BY <1>2, <1>4

-----------------------------------------------------------------------------
(* DispatchInv is an invariant                                             *)

\* Nobody has been checked, and every thread is idle.
LEMMA DispatchStarts == DispatchInit => DispatchInv
<1> SUFFICES ASSUME DispatchInit
             PROVE  DispatchInv
  OBVIOUS
<1>1. WorkersInv
  BY DEF DispatchInit, WorkersInv, JobKept, Idle
<1>2. ASSUME NEW s \in Limited
      PROVE  SiteKept(s, NewTable, << >>, [c \in Clients |-> << >>],
                      [c \in Clients |-> NoPromise], clock)
  <2> DEFINE log == [c \in Clients |-> << >>]
             told == [c \in Clients |-> NoPromise]
  <2>1. /\ NewTable.entries = << >> /\ NewTable.lru = << >> /\ NewTable.request_count = 0
        /\ NewTable = [entries |-> NewTable.entries, lru |-> NewTable.lru,
                       request_count |-> NewTable.request_count]
    BY DEF NewTable
  <2>2. DOMAIN << >> = {} /\ << >> \in Seq(Clients)
    OBVIOUS
  <2>3. << >> = [c \in DOMAIN << >> |-> << >>[c]]
    OBVIOUS
  <2>4. IsTable(NewTable)
    BY <2>1, <2>2, <2>3 DEF IsTable
  <2>5. Listed(NewTable, << >>)
    <3>1. Select(<< >>, DOMAIN NewTable.entries) = << >>
      BY SelectEmpty
    <3>2. Cardinality({}) <= MaxEntries
      BY FS_EmptySet, PolicyAssumption
    <3>3. DOMAIN NewTable.entries = {}
      BY <2>1, <2>2
    <3> QED
      BY <2>1, <2>2, <3>1, <3>2, <3>3 DEF Listed
  <2>6. log \in [Clients -> Seq(Nat)]
    OBVIOUS
  <2>7. told \in [Clients -> [ban: Nat, retry: Nat]]
    BY DEF NoPromise
  <2>8. \A c \in Clients : told[c].ban = 0
    BY DEF NoPromise
  <2>9. clock = 1
    BY DEF DispatchInit
  <2>10. \A c \in Clients : ~ (told[c].ban > clock)
    BY <2>8, <2>9
  <2> HIDE DEF log, told
  <2>11. SiteKept(s, NewTable, << >>, log, told, clock)
    BY <2>1, <2>2, <2>4, <2>5, <2>6, <2>7, <2>10 DEF SiteKept
  <2> QED
    BY <2>11 DEF log, told
<1>3. TablesInv
  BY <1>2 DEF DispatchInit, TablesInv, SiteInv
<1> QED
  BY <1>1, <1>3 DEF DispatchInv

\* Nothing the tables are about changes.
LEMMA TablesUntouched ==
  ASSUME TablesInv, UNCHANGED << clock, table, admitted, promise, seen >>
  PROVE  TablesInv'
  BY DEF TablesInv, SiteInv

\* One thread goes on with another job.
LEMMA NextJob ==
  ASSUME WorkersInv, UNCHANGED << requests, clock >>, NEW w \in Workers,
         worker' = [worker EXCEPT ![w] = worker'[w]], JobKept(worker'[w], requests, clock)
  PROVE  WorkersInv'
<1>1. worker' = [v \in Workers |-> worker'[v]]
  BY DEF WorkersInv
<1>2. \A v \in Workers : v # w => worker'[v] = worker[v]
  BY DEF WorkersInv
<1>3. \A v \in Workers : JobKept(worker'[v], requests, clock)
  BY <1>2 DEF WorkersInv
<1> QED
  BY <1>1, <1>3 DEF WorkersInv

\* An idle thread has nothing to keep.
LEMMA IdleKept ==
  ASSUME NEW reqs, NEW time
  PROVE  JobKept(Idle, reqs, time)
  BY DEF JobKept, Idle

\* What passes is the request that was checked.
LEMMA PassedKept ==
  ASSUME NEW job, NEW reqs, NEW time, Accepted(job, reqs)
  PROVE  JobKept(Passed(job), reqs, time)
  BY DEF JobKept, Passed, Accepted

\* An answer changes no table.
LEMMA AnswerKeeps ==
  ASSUME DispatchInv, NEW w \in Workers, NEW r \in requests, Answer(w, r)
  PROVE  DispatchInv'
<1>1. worker' = [worker EXCEPT ![w] = Idle] /\ worker'[w] = Idle
  BY DEF Answer, DispatchInv, WorkersInv
<1>2. UNCHANGED << requests, clock, table, admitted, promise, seen >>
  BY DEF Answer
<1>3. WorkersInv'
  BY <1>1, <1>2, IdleKept, NextJob DEF DispatchInv
<1> QED
  BY <1>2, <1>3, TablesUntouched DEF DispatchInv

\* The reading of the clock is the present, and the request was not refused.
LEMMA ReadClockKeeps ==
  ASSUME DispatchInv, NEW w \in Workers, NEW r \in requests, ReadClock(w, r)
  PROVE  DispatchInv'
<1> DEFINE job == [pc |-> "timed", req |-> r, site |-> SiteOf(r), client |-> ClientOf(r),
                   now |-> clock]
<1>1. /\ worker' = [worker EXCEPT ![w] = IF SiteOf(r) \in Limited THEN job ELSE Passed(job)]
      /\ UNCHANGED << requests, clock, table, admitted, promise, seen >>
      /\ r \notin Refused
  BY DEF ReadClock
<1>r. Refusal(r) = 0
  BY <1>1 DEF Refused, DispatchInv, WorkersInv
<1>2. /\ worker'[w] = IF SiteOf(r) \in Limited THEN job ELSE Passed(job)
      /\ clock \in Nat
  BY <1>1 DEF DispatchInv, WorkersInv
<1>3. Accepted(job, requests)
  BY <1>r DEF Accepted
<1>4. job.pc = "timed" /\ job.site = SiteOf(r) /\ job.now = clock
  OBVIOUS
<1> HIDE DEF job
<1>5. JobKept(worker'[w], requests, clock)
  <2>1. CASE SiteOf(r) \in Limited
    BY <1>2, <1>3, <1>4, <2>1 DEF JobKept
  <2>2. CASE SiteOf(r) \notin Limited
    BY <1>2, <1>3, <2>2, PassedKept
  <2> QED
    BY <2>1, <2>2
<1>6. WorkersInv'
  BY <1>1, <1>2, <1>5, NextJob DEF DispatchInv
<1> QED
  BY <1>1, <1>6, TablesUntouched DEF DispatchInv

\* The hand-over changes no table.
LEMMA ForwardKeeps ==
  ASSUME DispatchInv, NEW w \in Workers, Forward(w)
  PROVE  DispatchInv'
<1>1. /\ \E query : worker' = [worker EXCEPT ![w] = Idle]
                    \/ worker' = [worker EXCEPT ![w] = [pc |-> "proxy", query |-> query]]
      /\ UNCHANGED << requests, clock, table, admitted, promise, seen >>
  BY DEF Forward
<1>2. PICK query : worker' = [worker EXCEPT ![w] = Idle]
                   \/ worker' = [worker EXCEPT ![w] = [pc |-> "proxy", query |-> query]]
  BY <1>1
<1> DEFINE job == [pc |-> "proxy", query |-> query]
<1>3. JobKept(job, requests, clock)
  BY DEF JobKept
<1> HIDE DEF job
<1>4. worker'[w] \in {Idle, job} /\ worker' = [worker EXCEPT ![w] = worker'[w]]
  BY <1>2 DEF DispatchInv, WorkersInv, job
<1>5. JobKept(worker'[w], requests, clock)
  BY <1>3, <1>4, IdleKept
<1>6. WorkersInv'
  BY <1>1, <1>4, <1>5, NextJob DEF DispatchInv
<1> QED
  BY <1>1, <1>6, TablesUntouched DEF DispatchInv

\* Time only ends bans.
LEMMA TickKeeps ==
  ASSUME DispatchInv, Tick
  PROVE  DispatchInv'
<1>1. /\ clock' = clock + 1 /\ clock \in Nat /\ clock >= 1
      /\ UNCHANGED << requests, worker, table, admitted, promise, seen >>
  BY DEF Tick, DispatchInv, WorkersInv
<1>2. WorkersInv'
  <2>1. ASSUME NEW w \in Workers
        PROVE  JobKept(worker[w], requests, clock + 1)
    BY <1>1 DEF DispatchInv, WorkersInv, JobKept
  <2> QED
    BY <1>1, <2>1 DEF DispatchInv, WorkersInv
<1>3. ASSUME NEW s \in Limited
      PROVE  SiteKept(s, table[s], seen[s], admitted[s], promise[s], clock + 1)
  <2>1. SiteKept(s, table[s], seen[s], admitted[s], promise[s], clock)
    BY DEF DispatchInv, TablesInv, SiteInv
  <2>2. \A c \in Clients : promise[s][c].ban > clock + 1 => promise[s][c].ban > clock
    BY <1>1, <2>1 DEF SiteKept
  <2> QED
    BY <2>1, <2>2 DEF SiteKept
<1>4. TablesInv'
  BY <1>1, <1>3 DEF DispatchInv, TablesInv, SiteInv
<1> QED
  BY <1>2, <1>4 DEF DispatchInv

\* A thread at a rate limiter: its client is one the filters let through.
LEMMA TimedJob ==
  ASSUME DispatchInv, NEW w \in Workers, worker[w].pc = "timed"
  PROVE  /\ worker[w].site \in Limited /\ worker[w].client \in Clients
         /\ ~Denied(worker[w].site, worker[w].client)
         /\ worker[w].now \in Nat /\ worker[w].now <= clock /\ clock \in Nat
         /\ Accepted(worker[w], requests)
         /\ SiteKept(worker[w].site, table[worker[w].site], seen[worker[w].site],
                     admitted[worker[w].site], promise[worker[w].site], clock)
<1>1. /\ worker[w].site \in Limited /\ worker[w].now \in Nat /\ worker[w].now <= clock
      /\ clock \in Nat /\ Accepted(worker[w], requests) /\ requests \in Traffic
  BY DEF DispatchInv, WorkersInv, JobKept
<1>2. ClientOf(worker[w].req) \in Clients
  BY <1>1, TrafficAssumption DEF Accepted
<1>3. worker[w].site \in Sites
  BY <1>1 DEF Limited
<1>4. ~Denied(worker[w].site, worker[w].client)
  BY <1>1, <1>3, NotDenied DEF Accepted
<1>5. \A s \in Limited : SiteKept(s, table[s], seen[s], admitted[s], promise[s], clock)
  BY DEF DispatchInv, TablesInv, SiteInv
<1> QED
  BY <1>1, <1>2, <1>4, <1>5 DEF Accepted

\* One site's rate limiter changes, and keeps what it has to.
LEMMA OneSite ==
  ASSUME TablesInv, clock' = clock, NEW s \in Limited,
         table' = [table EXCEPT ![s] = table'[s]],
         seen' = [seen EXCEPT ![s] = seen'[s]],
         admitted' = [admitted EXCEPT ![s] = admitted'[s]],
         promise' = [promise EXCEPT ![s] = promise'[s]],
         SiteKept(s, table'[s], seen'[s], admitted'[s], promise'[s], clock)
  PROVE  TablesInv'
<1>1. /\ table' = [x \in Limited |-> table'[x]] /\ seen' = [x \in Limited |-> seen'[x]]
      /\ admitted' = [x \in Limited |-> admitted'[x]]
      /\ promise' = [x \in Limited |-> promise'[x]]
  BY DEF TablesInv
<1>2. \A x \in Limited : x # s =>
        /\ table'[x] = table[x] /\ seen'[x] = seen[x]
        /\ admitted'[x] = admitted[x] /\ promise'[x] = promise[x]
  BY DEF TablesInv
<1>3. \A x \in Limited : SiteKept(x, table'[x], seen'[x], admitted'[x], promise'[x], clock)
  BY <1>2 DEF TablesInv, SiteInv
<1> QED
  BY <1>1, <1>3 DEF TablesInv, SiteInv

\* The check a thread is about to make: the table after the sweep, and the outcome.
SiteAt(w) == worker[w].site
ClientAt(w) == worker[w].client
KnownAt(w) == Counted(Rate(SiteAt(w)), table[SiteAt(w)], worker[w].now)
ResultAt(w) == Check(Rate(SiteAt(w)), table[SiteAt(w)], ClientAt(w), worker[w].now)
KeptAt(w) ==
  IF ClientAt(w) \in DOMAIN KnownAt(w).entries /\ promise[SiteAt(w)][ClientAt(w)].ban = 0
  THEN admitted[SiteAt(w)][ClientAt(w)] ELSE << >>
LogAt(w) ==
  LogAfter(admitted[SiteAt(w)], ClientAt(w), KeptAt(w), worker[w].now, ResultAt(w).retry,
           DOMAIN ResultAt(w).table.entries)
ToldAt(w) ==
  ToldAfter(promise[SiteAt(w)], Rate(SiteAt(w)), ClientAt(w), worker[w].now, ResultAt(w).retry,
            DOMAIN KnownAt(w).entries \ DOMAIN ResultAt(w).table.entries)

\* What LockedCheck does, in these words.
LEMMA LockedCheckDoes ==
  ASSUME NEW w \in Workers, LockedCheck(w)
  PROVE  /\ table' = [table EXCEPT ![SiteAt(w)] = ResultAt(w).table]
         /\ seen' = [seen EXCEPT ![SiteAt(w)] = Latest(seen[SiteAt(w)], ClientAt(w))]
         /\ admitted' = [admitted EXCEPT ![SiteAt(w)] = LogAt(w)]
         /\ promise' = [promise EXCEPT ![SiteAt(w)] = ToldAt(w)]
         /\ worker' = [worker EXCEPT ![w] =
                         IF ResultAt(w).retry = 0 THEN Passed(worker[w]) ELSE Idle]
         /\ UNCHANGED << requests, clock, failed >>
         /\ worker[w].pc = "timed"
  BY DEF LockedCheck, Latest, LogAt, ToldAt, LogAfter, ToldAfter, KeptAt, ResultAt, KnownAt,
         SiteAt, ClientAt

\* A check keeps the invariant.
LEMMA LockedCheckKeeps ==
  ASSUME DispatchInv, NEW w \in Workers, LockedCheck(w)
  PROVE  DispatchInv'
<1> DEFINE s == SiteAt(w)
           c == ClientAt(w)
           result == ResultAt(w)
<1>1. /\ table' = [table EXCEPT ![s] = result.table]
      /\ seen' = [seen EXCEPT ![s] = Latest(seen[s], c)]
      /\ admitted' = [admitted EXCEPT ![s] = LogAt(w)]
      /\ promise' = [promise EXCEPT ![s] = ToldAt(w)]
      /\ worker' = [worker EXCEPT ![w] = IF result.retry = 0 THEN Passed(worker[w]) ELSE Idle]
      /\ UNCHANGED << requests, clock, failed >>
      /\ worker[w].pc = "timed"
  BY LockedCheckDoes
<1>2. /\ s \in Limited /\ c \in Clients /\ ~Denied(s, c)
      /\ worker[w].now \in Nat /\ worker[w].now <= clock /\ clock \in Nat
      /\ Accepted(worker[w], requests)
      /\ SiteKept(s, table[s], seen[s], admitted[s], promise[s], clock)
  BY <1>1, TimedJob DEF SiteAt, ClientAt
<1>3. SiteKept(s, result.table, Latest(seen[s], c), LogAt(w), ToldAt(w), clock)
  BY <1>2, CheckKeepsSite DEF LogAt, ToldAt, KeptAt, KnownAt, ResultAt
<1> HIDE DEF s, c, result
<1>4. /\ table = [x \in Limited |-> table[x]] /\ admitted = [x \in Limited |-> admitted[x]]
      /\ promise = [x \in Limited |-> promise[x]] /\ seen = [x \in Limited |-> seen[x]]
      /\ worker = [v \in Workers |-> worker[v]]
  BY DEF DispatchInv, TablesInv, WorkersInv
<1>5. /\ table'[s] = result.table /\ seen'[s] = Latest(seen[s], c)
      /\ admitted'[s] = LogAt(w) /\ promise'[s] = ToldAt(w)
      /\ worker'[w] = IF result.retry = 0 THEN Passed(worker[w]) ELSE Idle
  BY <1>1, <1>2, <1>4
<1>6. JobKept(worker'[w], requests, clock)
  BY <1>2, <1>5, IdleKept, PassedKept
<1>7. WorkersInv'
  BY <1>1, <1>5, <1>6, NextJob DEF DispatchInv
<1>8. TablesInv'
  BY <1>1, <1>2, <1>3, <1>5, OneSite DEF DispatchInv
<1> QED
  BY <1>7, <1>8 DEF DispatchInv

\* A check that fails keeps the invariant.
LEMMA CheckThrowsKeeps ==
  ASSUME DispatchInv, NEW w \in Workers, CheckThrows(w)
  PROVE  DispatchInv'
<1> DEFINE s == worker[w].site
           now == worker[w].now
           known == Counted(Rate(s), table[s], now)
           u == EvictOldest(known)
           log2 == [d \in Clients |-> IF d \in DOMAIN u.entries THEN admitted[s][d] ELSE << >>]
           told2 == [d \in Clients |-> IF d \in DOMAIN known.entries \ DOMAIN u.entries
                                       THEN NoPromise ELSE promise[s][d]]
<1>1. worker[w].pc = "timed"
  BY DEF CheckThrows
<1>2. /\ s \in Limited /\ now \in Nat /\ now <= clock /\ clock \in Nat
      /\ SiteKept(s, table[s], seen[s], admitted[s], promise[s], clock)
  BY <1>1, TimedJob
<1>3. /\ table' = [table EXCEPT ![s] = u]
      /\ admitted' = [admitted EXCEPT ![s] = log2]
      /\ promise' = [promise EXCEPT ![s] = told2]
      /\ worker' = [worker EXCEPT ![w] = Idle]
      /\ UNCHANGED << requests, clock, seen >>
  BY DEF CheckThrows
<1>4. SiteKept(s, u, seen[s], log2, told2, clock)
  BY <1>2, ThrowKeepsSite
<1> HIDE DEF s, now, known, u, log2, told2
<1>5. /\ table = [x \in Limited |-> table[x]] /\ admitted = [x \in Limited |-> admitted[x]]
      /\ promise = [x \in Limited |-> promise[x]] /\ seen = [x \in Limited |-> seen[x]]
      /\ worker = [v \in Workers |-> worker[v]]
  BY DEF DispatchInv, TablesInv, WorkersInv
<1>6. /\ table'[s] = u /\ admitted'[s] = log2 /\ promise'[s] = told2 /\ seen'[s] = seen[s]
      /\ seen' = [seen EXCEPT ![s] = seen'[s]] /\ worker'[w] = Idle
  BY <1>2, <1>3, <1>5
<1>7. TablesInv'
  BY <1>2, <1>3, <1>4, <1>6, OneSite DEF DispatchInv
<1>8. WorkersInv'
  BY <1>3, <1>6, IdleKept, NextJob DEF DispatchInv
<1> QED
  BY <1>7, <1>8 DEF DispatchInv

-----------------------------------------------------------------------------
(* What the dispatcher promises                                            *)

\* The invariant of the dispatcher: every table of a rate limiter, the history of its
\* clients and the jobs of the threads fit together, whatever the threads do.
THEOREM DispatchInvHolds == DispatchSpec => []DispatchInv
<1>1. DispatchInv /\ [DispatchNext]_dispatchVars => DispatchInv'
  <2> SUFFICES ASSUME DispatchInv, [DispatchNext]_dispatchVars
               PROVE  DispatchInv'
    OBVIOUS
  <2>1. ASSUME NEW w \in Workers, NEW r \in requests, Answer(w, r)
        PROVE  DispatchInv'
    BY <2>1, AnswerKeeps
  <2>2. ASSUME NEW w \in Workers, NEW r \in requests, ReadClock(w, r)
        PROVE  DispatchInv'
    BY <2>2, ReadClockKeeps
  <2>3. ASSUME NEW w \in Workers, LockedCheck(w)
        PROVE  DispatchInv'
    BY <2>3, LockedCheckKeeps
  <2>4. ASSUME NEW w \in Workers, CheckThrows(w)
        PROVE  DispatchInv'
    BY <2>4, CheckThrowsKeeps
  <2>5. ASSUME NEW w \in Workers, Forward(w)
        PROVE  DispatchInv'
    BY <2>5, ForwardKeeps
  <2>6. CASE Tick
    BY <2>6, TickKeeps
  <2>7. CASE UNCHANGED dispatchVars
    BY <2>7, TablesUntouched DEF DispatchInv, WorkersInv, dispatchVars
  <2> QED
    BY <2>1, <2>2, <2>3, <2>4, <2>5, <2>6, <2>7 DEF DispatchNext
<1> QED
  BY <1>1, DispatchStarts, PTL DEF DispatchSpec

\* The table of a rate limiter is in order, bounded, and free of denied clients.
THEOREM TableSoundHolds == DispatchSpec => []TableSound
<1>1. DispatchInv => TableSound
  <2> SUFFICES ASSUME DispatchInv, NEW s \in Limited
               PROVE  /\ table[s].lru = Select(seen[s], DOMAIN table[s].entries)
                      /\ Cardinality(DOMAIN table[s].entries) <= MaxEntries
                      /\ \A c \in DOMAIN table[s].entries : ~Denied(s, c)
    BY DEF TableSound, Denied, DeniedBy
  <2>1. SiteKept(s, table[s], seen[s], admitted[s], promise[s], clock)
    BY DEF DispatchInv, TablesInv, SiteInv
  <2> QED
    BY <2>1 DEF SiteKept, Listed
<1> QED
  BY <1>1, DispatchInvHolds, PTL

\* The only step that ends a check of w without an exception is LockedCheck(w).
LEMMA CheckedIsLocked ==
  ASSUME DispatchInv, [DispatchNext]_dispatchVars, NEW w \in Workers, Checked(w)
  PROVE  LockedCheck(w)
<1>1. worker[w].pc = "timed" /\ worker'[w] # worker[w] /\ failed' = failed
  BY DEF Checked
<1>2. \A v \in Workers : \A job : worker' = [worker EXCEPT ![v] = job] => v = w
  BY <1>1 DEF DispatchInv, WorkersInv
<1>3. ASSUME NEW v \in Workers, NEW r \in requests, Answer(v, r) \/ ReadClock(v, r)
      PROVE  FALSE
  <2>1. v = w
    BY <1>2, <1>3 DEF Answer, ReadClock
  <2>2. worker[v].pc \in {"idle", "proxy"}
    BY <1>3 DEF Answer, ReadClock, Arrives
  <2> QED
    BY <1>1, <2>1, <2>2
<1>4. ASSUME NEW v \in Workers, CheckThrows(v)
      PROVE  FALSE
  BY <1>1, <1>4 DEF CheckThrows
<1>5. ASSUME NEW v \in Workers, Forward(v)
      PROVE  FALSE
  <2>1. v = w
    BY <1>2, <1>5 DEF Forward
  <2>2. worker[v].pc = "passed"
    BY <1>5 DEF Forward
  <2> QED
    BY <1>1, <2>1, <2>2
<1>6. ASSUME NEW v \in Workers, LockedCheck(v)
      PROVE  v = w
  BY <1>2, <1>6, LockedCheckDoes
<1>7. ~Tick /\ ~UNCHANGED dispatchVars
  BY <1>1 DEF Tick, dispatchVars
<1> QED
  BY <1>3, <1>4, <1>5, <1>6, <1>7 DEF DispatchNext

\* The outcome of a check under the mutex.
LEMMA CheckOutcome ==
  ASSUME DispatchInv, NEW w \in Workers, LockedCheck(w)
  PROVE  /\ Admitted(w) <=> ResultAt(w).retry = 0
         /\ \E log2, told2 :
              CheckEnds(SiteAt(w), promise[SiteAt(w)][ClientAt(w)], KnownAt(w), seen[SiteAt(w)],
                        clock, ClientAt(w), worker[w].now, ResultAt(w), KeptAt(w), log2, told2)
<1> DEFINE s == SiteAt(w)
           c == ClientAt(w)
           result == ResultAt(w)
<1>1. /\ worker' = [worker EXCEPT ![w] = IF result.retry = 0 THEN Passed(worker[w]) ELSE Idle]
      /\ worker[w].pc = "timed"
  BY LockedCheckDoes
<1>2. /\ s \in Limited /\ c \in Clients
      /\ worker[w].now \in Nat /\ worker[w].now <= clock /\ clock \in Nat
      /\ SiteKept(s, table[s], seen[s], admitted[s], promise[s], clock)
  BY <1>1, TimedJob DEF SiteAt, ClientAt
<1>3. Admitted(w) <=> result.retry = 0
  <2>1. worker'[w] = IF result.retry = 0 THEN Passed(worker[w]) ELSE Idle
    BY <1>1 DEF DispatchInv, WorkersInv
  <2>2. Passed(worker[w]).pc = "passed" /\ Idle.pc = "idle"
    BY DEF Passed, Idle
  <2> HIDE DEF result
  <2> QED
    BY <2>1, <2>2 DEF Admitted
<1>4. CheckEnds(s, promise[s][c], KnownAt(w), seen[s], clock, c, worker[w].now, result, KeptAt(w),
                IF result.retry = 0 THEN Append(KeptAt(w), worker[w].now) ELSE admitted[s][c],
                Told(promise[s][c], Rate(s), worker[w].now, result.retry))
  BY <1>2, CheckedClient DEF KeptAt, KnownAt, ResultAt
<1> QED
  BY <1>3, <1>4

\* A client that is not banned is let in exactly when its admissions conform to the rate.
THEOREM ExactBucketHolds == DispatchSpec => ExactBucket
<1> DEFINE Conforming(w) ==
             LET s == worker[w].site
                 c == worker[w].client
                 now == worker[w].now
                 known == c \in DOMAIN Counted(Rate(s), table[s], now).entries
                 banned == known /\ promise[s][c].ban > now
                 log == IF known /\ promise[s][c].ban = 0 THEN admitted[s][c] ELSE << >>
             IN  ~banned => (Admitted(w) <=> Conforms(Rate(s), Append(log, now)))
<1>1. ASSUME DispatchInv, [DispatchNext]_dispatchVars, NEW w \in Workers, Checked(w)
      PROVE  Conforming(w)
  <2>1. LockedCheck(w)
    BY <1>1, CheckedIsLocked
  <2>2. /\ Admitted(w) <=> ResultAt(w).retry = 0
        /\ \E log2, told2 :
             CheckEnds(SiteAt(w), promise[SiteAt(w)][ClientAt(w)], KnownAt(w), seen[SiteAt(w)],
                       clock, ClientAt(w), worker[w].now, ResultAt(w), KeptAt(w), log2, told2)
    BY <1>1, <2>1, CheckOutcome
  <2>3. ~ (ClientAt(w) \in DOMAIN KnownAt(w).entries
             /\ promise[SiteAt(w)][ClientAt(w)].ban > worker[w].now)
          => (ResultAt(w).retry = 0
                <=> Conforms(Rate(SiteAt(w)), Append(KeptAt(w), worker[w].now)))
    BY <2>2 DEF CheckEnds
  <2> HIDE DEF Conforming
  <2>4. ~ (ClientAt(w) \in DOMAIN KnownAt(w).entries
             /\ promise[SiteAt(w)][ClientAt(w)].ban > worker[w].now)
          => (Admitted(w) <=> Conforms(Rate(SiteAt(w)), Append(KeptAt(w), worker[w].now)))
    BY <2>2, <2>3, Zenon
  <2> QED
    BY <2>4 DEF Conforming, KeptAt, KnownAt, SiteAt, ClientAt
<1>2. DispatchInv /\ [DispatchNext]_dispatchVars
        => [\A w \in Workers : Checked(w) => Conforming(w)]_dispatchVars
  BY <1>1
<1>3. DispatchSpec => [][\A w \in Workers : Checked(w) => Conforming(w)]_dispatchVars
  <2> HIDE DEF Conforming
  <2> QED
    BY <1>2, DispatchInvHolds, PTL DEF DispatchSpec
<1> QED
  BY <1>3 DEF ExactBucket

\* What a refused client was told holds when it comes back.
THEOREM RefusalHonestHolds == DispatchSpec => RefusalHonest
<1> DEFINE Honest(w) ==
             LET told == promise[worker[w].site][worker[w].client]
             IN  /\ told.retry # 0 /\ worker[w].now >= told.retry => Admitted(w)
                 /\ clock < told.ban => ~Admitted(w)
<1>1. ASSUME DispatchInv, [DispatchNext]_dispatchVars, NEW w \in Workers, Checked(w)
      PROVE  Honest(w)
  <2>1. LockedCheck(w)
    BY <1>1, CheckedIsLocked
  <2>2. /\ Admitted(w) <=> ResultAt(w).retry = 0
        /\ \E log2, told2 :
             CheckEnds(SiteAt(w), promise[SiteAt(w)][ClientAt(w)], KnownAt(w), seen[SiteAt(w)],
                       clock, ClientAt(w), worker[w].now, ResultAt(w), KeptAt(w), log2, told2)
    BY <1>1, <2>1, CheckOutcome
  <2> DEFINE told == promise[SiteAt(w)][ClientAt(w)]
  <2>3. /\ told.retry # 0 /\ worker[w].now >= told.retry => ResultAt(w).retry = 0
        /\ clock < told.ban => ResultAt(w).retry # 0
    BY <2>2 DEF CheckEnds
  <2> QED
    BY <2>2, <2>3 DEF SiteAt, ClientAt
<1>2. DispatchInv /\ [DispatchNext]_dispatchVars
        => [\A w \in Workers : Checked(w) => Honest(w)]_dispatchVars
  BY <1>1
<1>3. DispatchSpec => [][\A w \in Workers : Checked(w) => Honest(w)]_dispatchVars
  <2> HIDE DEF Honest
  <2> QED
    BY <1>2, DispatchInvHolds, PTL DEF DispatchSpec
<1> QED
  BY <1>3 DEF RefusalHonest

-----------------------------------------------------------------------------
(* The site of a request, its client, and its signature                    *)

\* What the constructor of the router lets through.
Routable(bindings) ==
  /\ ValidBindings(bindings)
  /\ \A b \in bindings : b.domain \in Seq(STRING) /\ b.wildcard \in BOOLEAN

\* One of the domains above a host is the longest.
LEMMA LongestExists ==
  ASSUME NEW host \in Seq(STRING), NEW hits, hits # {},
         \A b \in hits : b.domain \in Seq(STRING) /\ Below(host, b.domain)
  PROVE  Longest(hits) \in hits /\ \A d \in hits : Len(d.domain) <= Len(Longest(hits).domain)
<1> SUFFICES ASSUME ~ \E b \in hits : \A d \in hits : Len(d.domain) <= Len(b.domain)
             PROVE  FALSE
  BY DEF Longest
<1> DEFINE n == Len(host)
           T == {k \in 0 .. n : \E b \in hits : Len(b.domain) >= k}
<1>1. n \in Nat /\ \A b \in hits : Len(b.domain) \in Nat /\ Len(b.domain) < n
  BY LenProperties DEF Below
<1> HIDE DEF n
<1>2. 0 \in T
  BY <1>1
<1>3. ASSUME NEW k \in 1 .. n, k - 1 \in T
      PROVE  k \in T
  <2>1. PICK b \in hits : Len(b.domain) >= k - 1
    BY <1>3
  <2>2. PICK d \in hits : ~ (Len(d.domain) <= Len(b.domain))
    OBVIOUS
  <2> DEFINE x == Len(b.domain)
             y == Len(d.domain)
  <2>3. x \in Nat /\ y \in Nat
    BY <1>1
  <2>4. x >= k - 1 /\ ~ (y <= x)
    BY <2>1, <2>2
  <2> HIDE DEF x, y
  <2>5. y >= k /\ k \in 0 .. n
    BY <1>1, <2>3, <2>4
  <2> QED
    BY <2>5 DEF y
<1> HIDE DEF T
<1>4. n \in 0 .. n
  BY <1>1
<1>5. n \in T
  BY <1>1, <1>2, <1>3, <1>4, IntervalInduction
<1>6. PICK b \in hits : Len(b.domain) >= n
  BY <1>5 DEF T
<1> DEFINE x == Len(b.domain)
<1>7. x \in Nat /\ x < n /\ x >= n
  BY <1>1, <1>6
<1> HIDE DEF x
<1> QED
  BY <1>1, <1>7

\* VirtualHostRouter::find returns the most specific binding.
LEMMA FindBest ==
  ASSUME NEW bindings, Routable(bindings), NEW host \in Seq(STRING), Find(bindings, host) # NoHost
  PROVE  BestMatch(bindings, host, Find(bindings, host))
<1> DEFINE exact == {b \in Exact(bindings) : b.domain = host}
           hits == {b \in Wildcard(bindings) : Below(host, b.domain)}
           site == Find(bindings, host)
<1>1. site = IF exact # {} THEN (CHOOSE b \in exact : TRUE).to
             ELSE IF hits # {} THEN Longest(hits).to ELSE NoHost
  BY DEF Find, Search
<1>2. \A b \in bindings : b.wildcard \in BOOLEAN /\ b.domain \in Seq(STRING)
  BY DEF Routable
<1>3. \A a, b \in bindings : a.domain = b.domain /\ a.wildcard = b.wildcard => a = b
  BY DEF Routable, ValidBindings
<1>4. /\ \A b \in exact : b \in bindings /\ ~b.wildcard /\ b.domain = host
      /\ \A b \in bindings : ~b.wildcard /\ b.domain = host => b \in exact
      /\ \A b \in hits : b \in bindings /\ b.wildcard /\ Below(host, b.domain)
      /\ \A b \in bindings : b.wildcard /\ Below(host, b.domain) => b \in hits
  BY DEF Exact, Wildcard
<1> HIDE DEF exact, hits
<1>5. CASE exact # {}
  <2> DEFINE b == CHOOSE x \in exact : TRUE
  <2>1. b \in exact
    BY <1>5
  <2>2. site = b.to
    BY <1>1, <1>5
  <2> HIDE DEF b, site
  <2>3. b \in bindings /\ Covers(b, host)
    BY <1>4, <2>1 DEF Covers
  <2>4. ASSUME NEW d \in bindings \ {b}, Covers(d, host)
        PROVE  MoreSpecific(b, d)
    <3>1. CASE d.wildcard
      BY <1>4, <2>1, <3>1 DEF MoreSpecific
    <3>2. CASE ~d.wildcard
      <4>1. d.domain = b.domain
        BY <1>4, <2>1, <2>4, <3>2 DEF Covers
      <4>2. d.wildcard = b.wildcard
        <5>1. ~b.wildcard /\ b.wildcard \in BOOLEAN /\ d.wildcard \in BOOLEAN
          BY <1>2, <1>4, <2>1
        <5> QED
          BY <3>2, <5>1
      <4> QED
        BY <1>3, <2>3, <4>1, <4>2
    <3> QED
      BY <3>1, <3>2
  <2> QED
    BY <2>2, <2>3, <2>4 DEF BestMatch, site
<1>6. CASE exact = {}
  <2>1. hits # {}
    BY <1>1, <1>6
  <2> DEFINE b == Longest(hits)
  <2>2. site = b.to
    BY <1>1, <1>6, <2>1
  <2>3. b \in hits /\ \A d \in hits : Len(d.domain) <= Len(b.domain)
    BY <1>2, <1>4, <2>1, LongestExists
  <2> HIDE DEF b, site
  <2>4. b \in bindings /\ b.wildcard /\ Covers(b, host) /\ Below(host, b.domain)
    BY <1>4, <2>3 DEF Covers
  <2>5. ASSUME NEW d \in bindings \ {b}, Covers(d, host)
        PROVE  MoreSpecific(b, d)
    <3>1. d.wildcard
      BY <1>4, <1>6, <2>5 DEF Covers
    <3>2. d \in hits /\ Below(host, d.domain)
      BY <1>4, <2>5, <3>1 DEF Covers
    <3>3. b.wildcard = d.wildcard
      <4>1. b.wildcard \in BOOLEAN /\ d.wildcard \in BOOLEAN
        BY <1>2, <2>4
      <4> QED
        BY <2>4, <3>1, <4>1
    <3>4. Len(b.domain) \in Nat /\ Len(d.domain) \in Nat /\ Len(d.domain) <= Len(b.domain)
      BY <1>2, <2>3, <2>4, <3>2, LenProperties
    <3>5. Len(d.domain) # Len(b.domain)
      <4> SUFFICES ASSUME Len(d.domain) = Len(b.domain)
                   PROVE  FALSE
        OBVIOUS
      <4>1. d.domain = b.domain
        BY <2>4, <3>2 DEF Below
      <4> QED
        BY <1>3, <2>4, <3>3, <4>1
    <3>6. Len(b.domain) > Len(d.domain)
      BY <3>4, <3>5
    <3> QED
      BY <3>3, <3>6 DEF MoreSpecific
  <2> QED
    BY <2>2, <2>4, <2>5 DEF BestMatch, site
<1> QED
  BY <1>5, <1>6

WalkIter(trusted, peer, chain, m, n, g) ==
  g = [k \in 0 .. n |-> IF k = 0 THEN peer
                        ELSE IF g[k - 1] \in trusted THEN chain[m - k + 1] ELSE g[k - 1]]

\* The recursive function of Walk exists.
LEMMA WalkIterExists ==
  ASSUME NEW trusted, NEW peer, NEW chain, NEW m, NEW n \in Nat
  PROVE  \E g : WalkIter(trusted, peer, chain, m, n, g)
<1> DEFINE T == {k \in 0 .. n : \E g : WalkIter(trusted, peer, chain, m, k, g)}
<1>1. 0 \in T
  <2> DEFINE g == [k \in 0 .. 0 |-> peer]
  <2>1. WalkIter(trusted, peer, chain, m, 0, g)
    BY DEF WalkIter
  <2> QED
    BY <2>1
<1>2. ASSUME NEW k \in 1 .. n, k - 1 \in T
      PROVE  k \in T
  <2>1. PICK g : WalkIter(trusted, peer, chain, m, k - 1, g)
    BY <1>2
  <2> DEFINE Step(i) == IF i = 0 THEN peer
                        ELSE IF g[i - 1] \in trusted THEN chain[m - i + 1] ELSE g[i - 1]
             h == [i \in 0 .. k |-> Step(i)]
  <2>2. g = [i \in 0 .. (k - 1) |-> Step(i)]
    BY <2>1 DEF WalkIter
  <2>3. \A i \in 0 .. (k - 1) : h[i] = g[i]
    <3>1. 0 .. (k - 1) \subseteq 0 .. k
      OBVIOUS
    <3> HIDE DEF Step
    <3> QED
      BY <2>2, <3>1
  <2>4. \A i \in 0 .. k : i # 0 => h[i - 1] = g[i - 1]
    <3> HIDE DEF h
    <3> QED
      BY <2>3
  <2>5. h = [i \in 0 .. k |-> IF i = 0 THEN peer
                              ELSE IF h[i - 1] \in trusted THEN chain[m - i + 1] ELSE h[i - 1]]
    <3>1. \A i \in 0 .. k :
            Step(i) = IF i = 0 THEN peer
                      ELSE IF h[i - 1] \in trusted THEN chain[m - i + 1] ELSE h[i - 1]
      <4> HIDE DEF h
      <4> QED
        BY <2>4
    <3>2. h = [i \in 0 .. k |-> Step(i)]
      OBVIOUS
    <3> HIDE DEF h, Step
    <3> QED
      BY <3>1, <3>2
  <2> HIDE DEF h
  <2>6. WalkIter(trusted, peer, chain, m, k, h)
    BY <2>5 DEF WalkIter
  <2> QED
    BY <2>6
<1> HIDE DEF T
<1>3. n \in T
  BY <1>1, <1>2, IntervalInduction
<1> QED
  BY <1>3 DEF T

\* The walk ends at the nearest hop that is not trusted, or at the first.
LEMMA WalkNearest ==
  ASSUME NEW X, NEW chain \in Seq(X), NEW peer \in X, NEW trusted
  PROVE  NearestUntrusted(trusted, Append(chain, peer), Walk(trusted, peer, chain))
<1> DEFINE n == Len(chain)
           f == CHOOSE g : WalkIter(trusted, peer, chain, n, n, g)
           hops == Append(chain, peer)
<1>1. n \in Nat
  BY LenProperties
<1>2. Walk(trusted, peer, chain) = f[n]
  BY DEF Walk, WalkIter
<1>3. WalkIter(trusted, peer, chain, n, n, f)
  <2> HIDE DEF n
  <2> QED
    BY <1>1, WalkIterExists
<1> HIDE DEF f
<1>4. /\ Len(hops) = n + 1 /\ hops[n + 1] = peer /\ DOMAIN hops = 1 .. (n + 1)
      /\ \A k \in 1 .. n : hops[k] = chain[k]
  BY AppendProperties, LenProperties
<1> HIDE DEF n, hops
<1>5. /\ f[0] = peer
      /\ \A k \in 1 .. n : f[k] = IF f[k - 1] \in trusted THEN chain[n - k + 1] ELSE f[k - 1]
  <2>1. 0 \in 0 .. n /\ \A k \in 1 .. n : k \in 0 .. n /\ k # 0
    BY <1>1
  <2> QED
    BY <1>3, <2>1 DEF WalkIter
<1> DEFINE Reached(k, i) == /\ f[k] = hops[i]
                            /\ \A j \in i + 1 .. n + 1 : hops[j] \in trusted
                            /\ i = n + 1 - k \/ hops[i] \notin trusted
           T == {k \in 0 .. n : \E i \in n + 1 - k .. n + 1 : Reached(k, i)}
<1>6. 0 \in T
  <2>1. Reached(0, n + 1)
    BY <1>1, <1>4, <1>5
  <2> HIDE DEF Reached
  <2> QED
    BY <1>1, <2>1
<1>7. ASSUME NEW k \in 1 .. n, k - 1 \in T
      PROVE  k \in T
  <2>1. PICK i \in n + 1 - (k - 1) .. n + 1 : Reached(k - 1, i)
    BY <1>7
  <2>2. i \in Int /\ i >= n + 1 - (k - 1) /\ i <= n + 1
    BY <1>1, <2>1
  <2>3. f[k] = IF f[k - 1] \in trusted THEN chain[n - k + 1] ELSE f[k - 1]
    BY <1>5
  <2>4. CASE hops[i] \in trusted
    <3>1. i = n + 1 - (k - 1)
      BY <2>1, <2>4
    <3> DEFINE p == n + 1 - k
    <3>2. p \in 1 .. n /\ p = n - k + 1 /\ p \in n + 1 - k .. n + 1 /\ i = p + 1
      BY <1>1, <3>1
    <3>3. f[k] = hops[p]
      BY <1>4, <2>1, <2>3, <2>4, <3>2
    <3>4. ASSUME NEW j \in p + 1 .. n + 1
          PROVE  hops[j] \in trusted
      <4>1. j = i \/ j \in i + 1 .. n + 1
        BY <1>1, <2>2, <3>2
      <4> QED
        BY <2>1, <2>4, <4>1
    <3>5. Reached(k, p)
      BY <3>3, <3>4
    <3> HIDE DEF Reached, p
    <3> QED
      BY <3>2, <3>5 DEF p
  <2>5. CASE hops[i] \notin trusted
    <3>1. i \in n + 1 - k .. n + 1
      BY <1>1, <2>2
    <3>2. Reached(k, i)
      BY <2>1, <2>3, <2>5
    <3> HIDE DEF Reached
    <3> QED
      BY <3>1, <3>2
  <2> QED
    BY <2>4, <2>5
<1> HIDE DEF T
<1>8. n \in T
  <2>1. n \in 0 .. n
    BY <1>1
  <2> QED
    BY <1>1, <1>6, <1>7, <2>1, IntervalInduction
<1>9. PICK i \in n + 1 - n .. n + 1 : Reached(n, i)
  BY <1>8 DEF T
<1>10. i \in 1 .. (n + 1) /\ n + 1 - n = 1
  BY <1>1
<1>11. /\ i \in DOMAIN hops /\ hops[i] = f[n]
       /\ \A j \in i + 1 .. Len(hops) : hops[j] \in trusted
       /\ i = 1 \/ f[n] \notin trusted
  BY <1>4, <1>9, <1>10
<1> QED
  BY <1>2, <1>11 DEF NearestUntrusted, hops

\* The address a request is counted under is one that no trusted proxy vouches against.
LEMMA ClientVouched ==
  ASSUME NEW r, r.headers \in Seq(Range(r.headers)),
         \A i \in DOMAIN r.headers : r.headers[i].value \in Seq(Range(r.headers[i].value))
  PROVE  Vouched(r, ClientOf(r))
<1> DEFINE trusted == Configs[r.config].trusted
           peer == r.peer
           usable == Select(r.headers, {h \in Range(r.headers) : Usable(h)})
           h == Head(usable)
           address == ClientOf(r)
<1>1. /\ usable \in Seq(Range(r.headers))
      /\ Range(usable) = Range(r.headers) \cap {x \in Range(r.headers) : Usable(x)}
  BY SelectFacts
<1>2. \A x \in Range(usable) : x \in Range(r.headers) /\ Usable(x)
  BY <1>1
<1>3. address = CASE peer \notin trusted \/ usable = << >> -> peer
                  [] OTHER -> IF h.name = "X-Forwarded-For"
                              THEN Walk(trusted, peer, ParsedChain(h.value))
                              ELSE h.value[1]
  BY DEF ClientOf, Resolve
<1> HIDE DEF usable
<1>4. CASE peer \notin trusted \/ usable = << >>
  <2>1. address = peer
    BY <1>3, <1>4
  <2> HIDE DEF address
  <2>2. NearestUntrusted(trusted, << peer >>, address)
    BY <2>1 DEF NearestUntrusted
  <2> QED
    BY <2>2 DEF Vouched, address
<1>5. CASE peer \in trusted /\ usable # << >>
  <2>1. address = IF h.name = "X-Forwarded-For"
                  THEN Walk(trusted, peer, ParsedChain(h.value)) ELSE h.value[1]
    BY <1>3, <1>5
  <2>2. h \in Range(r.headers) /\ Usable(h)
    BY <1>1, <1>2, <1>5, HeadRow
  <2>3. PICK i \in DOMAIN r.headers : h = r.headers[i]
    BY <2>2 DEF Range
  <2> DEFINE value == h.value
  <2>4. value \in Seq(Range(value))
    BY <2>3
  <2> HIDE DEF address, h, trusted
  <2>5. CASE h.name # "X-Forwarded-For"
    <3>1. Len(value) = 1 /\ address = value[1]
      BY <2>1, <2>2, <2>5 DEF Usable
    <3>2. value = << address >>
      <4> HIDE DEF value
      <4> QED
        BY <2>4, <3>1
    <3> QED
      BY <1>5, <2>3, <2>5, <3>2 DEF Vouched, address, trusted
  <2>6. CASE h.name = "X-Forwarded-For" /\ ~ (Len(value) > MaximumChain)
    <3>1. Len(value) \in Nat /\ MaximumChain \in Nat
      BY <2>4, LenProperties, ChainAssumption
    <3>2. ParsedChain(value) # << >>
      BY <2>2, <2>6 DEF Usable
    <3> DEFINE m == IF Len(value) < MaximumChain THEN Len(value) ELSE MaximumChain
    <3>3. m = Len(value)
      BY <2>6, <3>1
    <3>4. SubSeq(value, 1, Len(value)) = value
      <4> HIDE DEF value
      <4> QED
        BY <2>4, SubSeqFull
    <3>5. ParsedChain(value) = value
      <4>1. ParsedChain(value) = IF Unparsable \in ToSet(SubSeq(value, 1, m)) THEN << >>
                                 ELSE SubSeq(value, 1, m)
        BY DEF ParsedChain
      <4> HIDE DEF m, value
      <4> QED
        BY <3>2, <3>3, <3>4, <4>1
    <3>6. address = Walk(trusted, peer, value)
      BY <2>1, <2>6, <3>5
    <3> HIDE DEF value
    <3> DEFINE X == Range(value) \cup {peer}
    <3>7. value \in Seq(X) /\ peer \in X
      BY <2>4
    <3> HIDE DEF X
    <3>8. NearestUntrusted(trusted, Append(value, peer), address)
      BY <3>6, <3>7, WalkNearest
    <3> QED
      BY <1>5, <2>3, <2>6, <3>8 DEF Vouched, address, trusted, value
  <2>7. CASE h.name = "X-Forwarded-For" /\ Len(value) > MaximumChain
    BY <1>5, <2>3, <2>7 DEF Vouched, address, trusted
  <2> QED
    BY <2>5, <2>6, <2>7
<1> QED
  BY <1>4, <1>5

\* Of two rows of the set, both are selected.
LEMMA SelectTwoRows ==
  ASSUME NEW X, NEW list \in Seq(X), NEW S,
         NEW i \in DOMAIN list, NEW j \in DOMAIN list, i < j, list[i] \in S, list[j] \in S
  PROVE  Len(Select(list, S)) > 1
<1> DEFINE n == Len(list)
<1>1. /\ n \in Nat /\ i \in 1 .. n /\ j \in 1 .. n
      /\ \A k \in 1 .. n : list[k] \in X
  BY LenProperties, ElementOfSeq
<1>2. PICK f : RowByRow(f, list, S, n) /\ Select(list, S) = f[n]
  <2> HIDE DEF n
  <2> QED BY <1>1, SelectRows DEF n
<1> DEFINE Good(k) == /\ f[k] \in Seq(X)
                      /\ k >= i => Len(f[k]) > 0
                      /\ k >= j => Len(f[k]) > 1
           T == {k \in 0 .. n : Good(k)}
<1> HIDE DEF n
<1>3. 0 \in T
  <2>1. f[0] \in Seq(X)
    BY <1>2 DEF RowByRow
  <2>2. ~ (0 >= i) /\ ~ (0 >= j) /\ 0 \in 0 .. n
    BY <1>1
  <2> QED
    BY <2>1, <2>2
<1>4. ASSUME NEW k \in 1 .. n, k - 1 \in T
      PROVE  k \in T
  <2>1. Good(k - 1) /\ list[k] \in X
    BY <1>1, <1>4
  <2>2. f[k] = IF list[k] \in S THEN Append(f[k - 1], list[k]) ELSE f[k - 1]
    BY <1>2 DEF RowByRow
  <2>3. Len(f[k - 1]) \in Nat
    BY <2>1, LenProperties
  <2>4. CASE list[k] \in S
    <3>1. f[k] \in Seq(X) /\ Len(f[k]) = Len(f[k - 1]) + 1
      BY <2>1, <2>2, <2>4, AppendProperties
    <3>2. k > i => k - 1 >= i
      BY <1>1
    <3>3. k >= j => k > i
      BY <1>1
    <3> DEFINE x == Len(f[k - 1])
               y == Len(f[k])
    <3>4. (k - 1 >= i => x > 0) /\ x \in Nat /\ y = x + 1
      BY <2>1, <2>3, <3>1
    <3> HIDE DEF x, y
    <3>5. y > 0 /\ (k >= j => y > 1)
      BY <3>2, <3>3, <3>4
    <3>6. Good(k)
      BY <3>1, <3>5 DEF y
    <3> QED
      BY <1>1, <3>6
  <2>5. CASE list[k] \notin S
    <3>1. f[k] = f[k - 1] /\ k # i /\ k # j
      BY <2>2, <2>5
    <3>2. (k >= i => k - 1 >= i) /\ (k >= j => k - 1 >= j)
      BY <1>1, <3>1
    <3>3. Good(k)
      BY <2>1, <3>1, <3>2
    <3> QED
      BY <1>1, <3>3
  <2> QED
    BY <2>4, <2>5
<1> HIDE DEF T
<1>5. n \in T
  <2>1. n \in 0 .. n
    BY <1>1
  <2> QED
    BY <1>1, <1>3, <1>4, <2>1, IntervalInduction
<1> QED
  BY <1>1, <1>2, <1>5 DEF T

\* A signed query: the one token it has, by which key, and when.
LEMMA SignedSoundly ==
  ASSUME NEW auth, auth.validity_seconds \in Nat, NEW path, NEW query, query \in Seq(Range(query)),
         \A i \in DOMAIN query : query[i].value.timestamp \in Int,
         NEW now \in Int, Signed(auth, path, query, now)
  PROVE  \E i \in DOMAIN query :
           /\ query[i].name = "auth_key"
           /\ \A k \in DOMAIN query \ {i} : query[k].name # "auth_key"
           /\ \E key \in {auth.primary_key, auth.backup_key} \ {NoKey} :
                query[i].value.signed = << path, query[i].value.timestamp, key >>
           /\ now \in query[i].value.timestamp - FutureSkew
                        .. query[i].value.timestamp + auth.validity_seconds
<1> DEFINE S == {p \in Range(query) : p.name = "auth_key"}
           keys == Select(query, S)
           token == Head(keys).value
<1>1. /\ Len(keys) = 1 /\ InTime(auth, token.timestamp, now)
      /\ \/ MatchesKey(auth.primary_key, path, token)
         \/ MatchesKey(auth.backup_key, path, token)
  BY DEF Signed, AuthKeys
<1>2. keys \in Seq(Range(query)) /\ Range(keys) = Range(query) \cap S
  BY SelectFacts
<1>3. \A k \in DOMAIN query : query[k].name = "auth_key" => query[k] \in S
  BY DEF Range
<1>4. \A k, l \in DOMAIN query : query[k] \in S /\ query[l] \in S => ~ (k < l)
  <2> SUFFICES ASSUME NEW k \in DOMAIN query, NEW l \in DOMAIN query,
                      query[k] \in S, query[l] \in S, k < l
               PROVE  FALSE
    OBVIOUS
  <2>1. Len(keys) > 1
    <3> HIDE DEF S
    <3> QED
      BY SelectTwoRows
  <2> HIDE DEF keys
  <2> QED
    BY <1>1, <2>1
<1>5. \A p \in S : p.name = "auth_key"
  OBVIOUS
<1> HIDE DEF keys, S
<1>6. Head(keys) \in Range(keys)
  <2>1. Len(keys) = 1
    BY <1>1
  <2>2. keys # << >>
    <3> SUFFICES ASSUME keys = << >>
                 PROVE  FALSE
      OBVIOUS
    <3>1. Len(keys) = 0
      OBVIOUS
    <3> QED
      BY <2>1, <3>1
  <2> QED
    BY <1>2, <2>2, HeadRow
<1>7. PICK i \in DOMAIN query : Head(keys) = query[i]
  BY <1>2, <1>6 DEF Range
<1>8. query[i] \in S /\ query[i].name = "auth_key"
  BY <1>2, <1>5, <1>6, <1>7
<1>9. ASSUME NEW k \in DOMAIN query \ {i}
      PROVE  query[k].name # "auth_key"
  <2> SUFFICES ASSUME query[k].name = "auth_key"
               PROVE  FALSE
    OBVIOUS
  <2>1. ~ (k < i) /\ ~ (i < k)
    BY <1>3, <1>4, <1>8
  <2>2. i \in Nat /\ k \in Nat
    BY LenProperties
  <2> QED
    BY <2>1, <2>2
<1>10. token = query[i].value /\ token.timestamp \in Int
  BY <1>7
<1> HIDE DEF token
<1>11. \E key \in {auth.primary_key, auth.backup_key} \ {NoKey} :
         token.signed = << path, token.timestamp, key >>
  BY <1>1 DEF MatchesKey
<1>12. now \in token.timestamp - FutureSkew .. token.timestamp + auth.validity_seconds
  BY <1>1, <1>10, SkewAssumption DEF InTime
<1> QED
  BY <1>8, <1>9, <1>10, <1>11, <1>12

\* What the filters before the rate limiter let through: a request for a site of its
\* snapshot, on a connection that is meant for it.
LEMMA NotRefused ==
  ASSUME NEW r, Refusal(r) = 0
  PROVE  SiteOf(r) # NoHost /\ ~Misdirected(r)
  BY DEF Refusal

\* The bindings of a snapshot.
LEMMA SnapshotRoutable ==
  ASSUME NEW batch \in Traffic, NEW r \in batch
  PROVE  Routable(Bindings(r))
<1>1. r.config \in DOMAIN Configs
  BY TrafficAssumption
<1>2. Bindings(r) \in {Configs[r.config].http, Configs[r.config].https}
  BY DEF Bindings
<1> QED
  BY <1>1, <1>2, DispatcherAssumption DEF Routable

\* A request that is not refused has a site.
LEMMA SiteExists ==
  ASSUME NEW batch \in Traffic, NEW r \in batch, Refusal(r) = 0
  PROVE  SiteOf(r) \in Sites
<1>1. BestMatch(Bindings(r), r.host, SiteOf(r))
  <2>1. Routable(Bindings(r)) /\ r.host \in Seq(STRING)
    BY SnapshotRoutable, TrafficAssumption
  <2> QED
    BY <2>1, NotRefused, FindBest DEF SiteOf
<1>2. PICK b \in Bindings(r) : b.to = SiteOf(r)
  BY <1>1 DEF BestMatch
<1>3. r.config \in DOMAIN Configs
  BY TrafficAssumption
<1>4. Bindings(r) \in {Configs[r.config].http, Configs[r.config].https}
  BY DEF Bindings
<1> QED
  BY <1>2, <1>3, <1>4, DispatcherAssumption

\* A request that is handed over: the site, the connection and the client.
LEMMA RoutedSoundly ==
  ASSUME NEW batch \in Traffic, NEW r \in batch, Refusal(r) = 0
  PROVE  /\ BestMatch(Bindings(r), r.host, SiteOf(r))
         /\ r.https =>
              /\ \E b \in Handshake(r).contexts :
                   /\ b.to = Presented(r) /\ Covers(b, r.host)
                   /\ b.wildcard => Len(r.host) = Len(b.domain) + 1
              /\ r.sni \notin {NoSni, InvalidHost} => BestMatch(Bindings(r), r.sni, SiteOf(r))
         /\ Vouched(r, ClientOf(r))
<1>1. SiteOf(r) # NoHost /\ ~Misdirected(r)
  BY NotRefused
<1>2. Routable(Bindings(r)) /\ r.host \in Seq(STRING) /\ r.sni \in Seq(STRING)
  BY SnapshotRoutable, TrafficAssumption
<1>3. BestMatch(Bindings(r), r.host, SiteOf(r))
  BY <1>1, <1>2, FindBest DEF SiteOf
<1>4. ASSUME r.https
      PROVE  \E b \in Handshake(r).contexts :
               /\ b.to = Presented(r) /\ Covers(b, r.host)
               /\ b.wildcard => Len(r.host) = Len(b.domain) + 1
  <2>1. MatchesDomain(Handshake(r), Presented(r), r.host)
    BY <1>1, <1>4 DEF Misdirected
  <2>2. PICK b \in Handshake(r).contexts :
          /\ b.to = Presented(r)
          /\ IF b.wildcard THEN OneLabelBelow(r.host, b.domain) ELSE b.domain = r.host
    BY <2>1 DEF MatchesDomain
  <2>3. Covers(b, r.host) /\ (b.wildcard => Len(r.host) = Len(b.domain) + 1)
    BY <2>2 DEF Covers, OneLabelBelow
  <2> QED
    BY <2>2, <2>3
<1>5. ASSUME r.https, r.sni \notin {NoSni, InvalidHost}
      PROVE  BestMatch(Bindings(r), r.sni, SiteOf(r))
  <2>1. SniHost(r.sni) = r.sni /\ r.sni # NoSni
    BY <1>5 DEF SniHost
  <2>2. Find(Bindings(r), r.sni) = SiteOf(r)
    BY <1>1, <1>5, <2>1 DEF Misdirected
  <2> QED
    BY <1>1, <1>2, <2>2, FindBest
<1>6. Vouched(r, ClientOf(r))
  BY ClientVouched, TrafficAssumption
<1> QED
  BY <1>3, <1>4, <1>5, <1>6

\* The only step that hands the request of w over is Forward(w).
LEMMA HandedOverIsForward ==
  ASSUME DispatchInv, [DispatchNext]_dispatchVars, NEW w \in Workers,
         worker[w].pc = "passed", worker'[w].pc = "proxy"
  PROVE  Forward(w)
<1>1. worker'[w] # worker[w]
  OBVIOUS
<1>2. \A v \in Workers : \A job : worker' = [worker EXCEPT ![v] = job] => v = w
  BY <1>1 DEF DispatchInv, WorkersInv
<1>3. ASSUME NEW v \in Workers, NEW r \in requests, Answer(v, r) \/ ReadClock(v, r)
      PROVE  FALSE
  <2>1. v = w
    BY <1>2, <1>3 DEF Answer, ReadClock
  <2>2. worker[v].pc \in {"idle", "proxy"}
    BY <1>3 DEF Answer, ReadClock, Arrives
  <2> QED
    BY <2>1, <2>2
<1>4. ASSUME NEW v \in Workers, CheckThrows(v)
      PROVE  FALSE
  <2>1. v = w
    BY <1>2, <1>4 DEF CheckThrows
  <2>2. worker[v].pc = "timed"
    BY <1>4 DEF CheckThrows
  <2> QED
    BY <2>1, <2>2
<1>5. ASSUME NEW v \in Workers, LockedCheck(v)
      PROVE  FALSE
  <2>1. v = w
    BY <1>2, <1>5, LockedCheckDoes
  <2>2. worker[v].pc = "timed"
    BY <1>5, LockedCheckDoes
  <2> QED
    BY <2>1, <2>2
<1>6. ASSUME NEW v \in Workers, Forward(v)
      PROVE  v = w
  BY <1>2, <1>6 DEF Forward
<1>7. ~Tick /\ ~UNCHANGED dispatchVars
  BY <1>1 DEF Tick, dispatchVars
<1> QED
  BY <1>3, <1>4, <1>5, <1>6, <1>7 DEF DispatchNext

\* What reaches a backend was routed, vouched for and signed as configured.
THEOREM HandedOverSoundlyHolds == DispatchSpec => HandedOverSoundly
<1> DEFINE Soundly(w) ==
      LET r == worker[w].req
          site == worker[w].site
          auth == SiteSpec[site].url_auth
      IN  /\ BestMatch(Bindings(r), r.host, site)
          /\ r.https =>
               /\ \E b \in Handshake(r).contexts :
                    /\ b.to = Presented(r) /\ Covers(b, r.host)
                    /\ b.wildcard => Len(r.host) = Len(b.domain) + 1
               /\ r.sni \notin {NoSni, InvalidHost} => BestMatch(Bindings(r), r.sni, site)
          /\ Vouched(r, worker[w].client)
          /\ auth.enabled /\ (auth.scope_all \/ r.path \in auth.protected_uris) =>
               /\ \E i \in DOMAIN r.query :
                    LET token == r.query[i].value
                    IN  /\ r.query[i].name = "auth_key"
                        /\ \A k \in DOMAIN r.query \ {i} : r.query[k].name # "auth_key"
                        /\ \E key \in {auth.primary_key, auth.backup_key} \ {NoKey} :
                             token.signed = << r.path, token.timestamp, key >>
                        /\ clock \div TicksPerSecond \in
                             token.timestamp - FutureSkew .. token.timestamp + auth.validity_seconds
               /\ worker'[w].query
                    = Select(r.query, {p \in Range(r.query) : p.name \notin Reserved})
<1>1. ASSUME DispatchInv, [DispatchNext]_dispatchVars, NEW w \in Workers,
             worker[w].pc = "passed", worker'[w].pc = "proxy"
      PROVE  Soundly(w)
  <2> DEFINE r == worker[w].req
             site == worker[w].site
             auth == SiteSpec[site].url_auth
             now == clock \div TicksPerSecond
             authentication == Authenticate(auth, r.path, r.query, now)
  <2>1. /\ requests \in Traffic /\ r \in requests /\ Refusal(r) = 0
        /\ site = SiteOf(r) /\ worker[w].client = ClientOf(r) /\ clock \in Nat
    BY <1>1 DEF DispatchInv, WorkersInv, JobKept, Accepted
  <2>2. /\ BestMatch(Bindings(r), r.host, site)
        /\ r.https =>
             /\ \E b \in Handshake(r).contexts :
                  /\ b.to = Presented(r) /\ Covers(b, r.host)
                  /\ b.wildcard => Len(r.host) = Len(b.domain) + 1
             /\ r.sni \notin {NoSni, InvalidHost} => BestMatch(Bindings(r), r.sni, site)
        /\ Vouched(r, worker[w].client)
    BY <2>1, RoutedSoundly
  <2>3. Forward(w)
    BY <1>1, HandedOverIsForward
  <2>4. worker' = [worker EXCEPT ![w] =
          IF EvaluateAfterLimit(SiteSpec[site].policy, View(r)) # 0 \/ ~authentication.allowed
          THEN Idle ELSE [pc |-> "proxy", query |-> authentication.query]]
    BY <2>3 DEF Forward
  <2>5. worker'[w] =
          IF EvaluateAfterLimit(SiteSpec[site].policy, View(r)) # 0 \/ ~authentication.allowed
          THEN Idle ELSE [pc |-> "proxy", query |-> authentication.query]
    BY <1>1, <2>4 DEF DispatchInv, WorkersInv
  <2>6. authentication.allowed /\ worker'[w].query = authentication.query
    <3> HIDE DEF authentication, r, site
    <3> QED
      BY <1>1, <2>5 DEF Idle
  <2>7. ASSUME auth.enabled, auth.scope_all \/ r.path \in auth.protected_uris
        PROVE  /\ Signed(auth, r.path, r.query, now)
               /\ worker'[w].query = Retained(r.query)
    <3>1. Protects(auth, r.path)
      BY <2>7 DEF Protects
    <3>2. authentication = IF Signed(auth, r.path, r.query, now)
                           THEN [allowed |-> TRUE, query |-> Retained(r.query)]
                           ELSE [allowed |-> FALSE, query |-> r.query]
      BY <2>7, <3>1 DEF Authenticate
    <3> HIDE DEF authentication, r, auth, now
    <3> QED
      BY <2>6, <3>2
  <2>8. site \in Sites
    BY <2>1, SiteExists
  <2>9. auth.validity_seconds \in Nat
    BY <2>8, SiteSpecAssumption
  <2>10. now \in Int
    BY <2>1, PolicyAssumption
  <2>11. r.query \in Seq(Range(r.query)) /\ \A i \in DOMAIN r.query : r.query[i].value.timestamp \in Int
    BY <2>1, TrafficAssumption
  <2>12. ASSUME auth.enabled, auth.scope_all \/ r.path \in auth.protected_uris
         PROVE  \E i \in DOMAIN r.query :
                  /\ r.query[i].name = "auth_key"
                  /\ \A k \in DOMAIN r.query \ {i} : r.query[k].name # "auth_key"
                  /\ \E key \in {auth.primary_key, auth.backup_key} \ {NoKey} :
                       r.query[i].value.signed = << r.path, r.query[i].value.timestamp, key >>
                  /\ now \in r.query[i].value.timestamp - FutureSkew
                               .. r.query[i].value.timestamp + auth.validity_seconds
    <3>1. Signed(auth, r.path, r.query, now)
      BY <2>7, <2>12
    <3> HIDE DEF r, auth, now
    <3> QED
      BY <2>9, <2>10, <2>11, <3>1, SignedSoundly
  <2>13. ASSUME auth.enabled, auth.scope_all \/ r.path \in auth.protected_uris
         PROVE  worker'[w].query = Select(r.query, {p \in Range(r.query) : p.name \notin Reserved})
    BY <2>7, <2>13 DEF Retained
  <2> QED
    BY <2>2, <2>12, <2>13
<1>2. DispatchInv /\ [DispatchNext]_dispatchVars
        => [\A w \in Workers : worker[w].pc = "passed" /\ worker'[w].pc = "proxy"
              => Soundly(w)]_dispatchVars
  BY <1>1
<1>3. DispatchSpec
        => [][\A w \in Workers : worker[w].pc = "passed" /\ worker'[w].pc = "proxy"
                => Soundly(w)]_dispatchVars
  <2> HIDE DEF Soundly
  <2> QED
    BY <1>2, DispatchInvHolds, PTL DEF DispatchSpec
<1> QED
  BY <1>3 DEF HandedOverSoundly

-----------------------------------------------------------------------------
(* Types                                                                   *)

\* The threads between the reading of the clock and the mutex.
Timed == {v \in Workers : worker[v].pc = "timed"}

\* A check is only begun if it stays within the bound.
CountersInv ==
  /\ clock \in 1 .. MaxClock /\ failed \in BOOLEAN
  /\ checks \in Nat /\ checks + Cardinality(Timed) <= MaxChecks

\* There are finitely many threads, and fewer among fewer.
LEMMA FewerThreads ==
  ASSUME NEW A, A \subseteq Workers, NEW B, B \subseteq A
  PROVE  /\ Cardinality(A) \in Nat /\ Cardinality(B) \in Nat
         /\ Cardinality(B) <= Cardinality(A)
         /\ \A w \in A \ B : Cardinality(B) + 1 <= Cardinality(A)
         /\ \A w : Cardinality(A \cup {w}) \in Nat /\ Cardinality(A \cup {w}) <= Cardinality(A) + 1
<1>1. IsFiniteSet(A)
  BY DispatcherAssumption, FS_Subset
<1>2. IsFiniteSet(B) /\ Cardinality(B) <= Cardinality(A)
  BY <1>1, FS_Subset
<1>3. Cardinality(A) \in Nat /\ Cardinality(B) \in Nat
  BY <1>1, <1>2, FS_CardinalityType
<1>4. ASSUME NEW w \in A \ B
      PROVE  Cardinality(B) + 1 <= Cardinality(A)
  <2>1. B \subseteq A \ {w} /\ w \in A
    OBVIOUS
  <2>2. IsFiniteSet(A \ {w}) /\ Cardinality(A \ {w}) = Cardinality(A) - 1
    BY <1>1, <2>1, FS_RemoveElement
  <2>3. Cardinality(B) <= Cardinality(A \ {w})
    BY <2>1, <2>2, FS_Subset
  <2> QED
    BY <1>3, <2>2, <2>3
<1>5. ASSUME NEW w
      PROVE  Cardinality(A \cup {w}) \in Nat /\ Cardinality(A \cup {w}) <= Cardinality(A) + 1
  <2>1. CASE w \in A
    <3>1. A \cup {w} = A
      BY <2>1
    <3> QED
      BY <1>3, <3>1
  <2>2. CASE w \notin A
    <3>1. Cardinality(A \cup {w}) = Cardinality(A) + 1
      BY <1>1, <2>2, FS_AddElement
    <3> QED
      BY <1>3, <3>1
  <2> QED
    BY <2>1, <2>2
<1> QED
  BY <1>2, <1>3, <1>4, <1>5

\* The bounds are kept.
LEMMA CountersKeep ==
  ASSUME DispatchInv, CountersInv, [DispatchNext]_dispatchVars
  PROVE  CountersInv'
<1>1. /\ clock \in 1 .. MaxClock /\ failed \in BOOLEAN /\ checks \in Nat
      /\ checks + Cardinality(Timed) <= MaxChecks /\ MaxChecks \in Nat /\ MaxClock \in Nat
      /\ Timed \subseteq Workers
  BY DispatcherAssumption DEF CountersInv, Timed
<1>2. worker = [v \in Workers |-> worker[v]]
  BY DEF DispatchInv, WorkersInv
<1>3. ASSUME NEW w \in Workers, NEW job, worker' = [worker EXCEPT ![w] = job]
      PROVE  /\ Timed' \subseteq Timed \cup {w}
             /\ job.pc # "timed" => Timed' \subseteq Timed /\ w \notin Timed'
  BY <1>2, <1>3 DEF Timed
<1>4. Timed' \subseteq Workers
  BY DEF Timed
<1> DEFINE k == Cardinality(Timed)
           l == Cardinality(Timed')
<1>5. k \in Nat /\ l \in Nat /\ (Timed' \subseteq Timed => l <= k)
  BY <1>1, <1>4, FewerThreads
<1>6. \A w \in Timed : Timed' \subseteq Timed /\ w \notin Timed' => l + 1 <= k
  BY <1>1, FewerThreads
<1>7. \A w \in Workers : Timed' \subseteq Timed \cup {w} => l <= k + 1
  <2> SUFFICES ASSUME NEW w \in Workers, Timed' \subseteq Timed \cup {w}
               PROVE  l <= k + 1
    OBVIOUS
  <2>1. /\ Cardinality(Timed \cup {w}) \in Nat
        /\ Cardinality(Timed \cup {w}) <= Cardinality(Timed) + 1
    BY <1>1, FewerThreads
  <2>2. Timed \cup {w} \subseteq Workers
    BY <1>1
  <2>3. Cardinality(Timed') <= Cardinality(Timed \cup {w})
    BY <2>2, FewerThreads
  <2> QED
    BY <1>5, <2>1, <2>3
<1>8. checks + k <= MaxChecks
  BY <1>1
<1>9. Idle.pc # "timed"
  BY DEF Idle
<1>10. SUFFICES /\ clock' \in 1 .. MaxClock /\ failed' \in BOOLEAN
                /\ checks' \in Nat /\ checks' + l <= MaxChecks
  BY DEF CountersInv
<1> HIDE DEF k, l
<1>11. ASSUME NEW w \in Workers, NEW r \in requests, Answer(w, r)
       PROVE  /\ clock' \in 1 .. MaxClock /\ failed' \in BOOLEAN
              /\ checks' \in Nat /\ checks' + l <= MaxChecks
  <2>1. worker' = [worker EXCEPT ![w] = Idle] /\ UNCHANGED << clock, checks, failed >>
    BY <1>11 DEF Answer
  <2>2. l <= k
    BY <1>3, <1>5, <1>9, <2>1
  <2> QED
    BY <1>1, <1>5, <1>8, <2>1, <2>2
<1>12. ASSUME NEW w \in Workers, NEW r \in requests, ReadClock(w, r)
       PROVE  /\ clock' \in 1 .. MaxClock /\ failed' \in BOOLEAN
              /\ checks' \in Nat /\ checks' + l <= MaxChecks
  <2>1. \E job : worker' = [worker EXCEPT ![w] = job]
    BY <1>12 DEF ReadClock
  <2>2. checks + k < MaxChecks /\ UNCHANGED << clock, checks, failed >>
    BY <1>12 DEF ReadClock, k, Timed
  <2>3. l <= k + 1
    BY <1>3, <1>7, <2>1
  <2> QED
    BY <1>1, <1>5, <2>2, <2>3
<1>13. ASSUME NEW w \in Workers, LockedCheck(w) \/ CheckThrows(w)
       PROVE  /\ clock' \in 1 .. MaxClock /\ failed' \in BOOLEAN
              /\ checks' \in Nat /\ checks' + l <= MaxChecks
  <2>1. PICK job : worker' = [worker EXCEPT ![w] = job] /\ job.pc # "timed"
    <3>1. CASE LockedCheck(w)
      <4>1. worker' = [worker EXCEPT ![w] =
                         IF ResultAt(w).retry = 0 THEN Passed(worker[w]) ELSE Idle]
        BY <3>1, LockedCheckDoes
      <4>2. Passed(worker[w]).pc # "timed"
        BY DEF Passed
      <4> QED
        BY <1>9, <4>1, <4>2
    <3>2. CASE CheckThrows(w)
      <4>1. worker' = [worker EXCEPT ![w] = Idle]
        BY <3>2 DEF CheckThrows
      <4> QED
        BY <1>9, <4>1
    <3> QED
      BY <1>13, <3>1, <3>2
  <2>2. w \in Timed
    BY <1>13 DEF LockedCheck, CheckThrows, Timed
  <2>3. l + 1 <= k
    BY <1>3, <1>6, <2>1, <2>2
  <2>4. checks' = checks + 1 /\ clock' = clock /\ (failed' = failed \/ failed' = TRUE)
    BY <1>13 DEF LockedCheck, CheckThrows
  <2>5. failed' \in BOOLEAN
    BY <1>1, <2>4, Zenon
  <2>6. clock' \in 1 .. MaxClock
    BY <1>1, <2>4
  <2>7. checks' \in Nat /\ checks' + l <= MaxChecks
    <3>1. checks' = checks + 1
      BY <2>4, Zenon
    <3> QED
      BY <1>1, <1>5, <1>8, <2>3, <3>1
  <2> QED
    BY <2>5, <2>6, <2>7
<1>14. ASSUME NEW w \in Workers, Forward(w)
       PROVE  /\ clock' \in 1 .. MaxClock /\ failed' \in BOOLEAN
              /\ checks' \in Nat /\ checks' + l <= MaxChecks
  <2>1. PICK query : worker' = [worker EXCEPT ![w] = Idle]
                     \/ worker' = [worker EXCEPT ![w] = [pc |-> "proxy", query |-> query]]
    BY <1>14 DEF Forward
  <2> DEFINE job == [pc |-> "proxy", query |-> query]
  <2>2. job.pc # "timed"
    OBVIOUS
  <2> HIDE DEF job
  <2>3. worker' = [worker EXCEPT ![w] = Idle] \/ worker' = [worker EXCEPT ![w] = job]
    BY <2>1 DEF job
  <2>4. l <= k
    BY <1>3, <1>5, <1>9, <2>2, <2>3
  <2>5. UNCHANGED << clock, checks, failed >>
    BY <1>14 DEF Forward
  <2> QED
    BY <1>1, <1>5, <1>8, <2>4, <2>5
<1>15. CASE Tick
  <2>1. Timed' = Timed /\ checks' = checks /\ failed' = failed /\ clock' = clock + 1 /\ clock < MaxClock
    BY <1>15 DEF Tick, Timed
  <2>2. l = k
    BY <2>1 DEF k, l
  <2> QED
    BY <1>1, <1>8, <2>1, <2>2
<1>16. CASE UNCHANGED dispatchVars
  <2>1. Timed' = Timed /\ UNCHANGED << clock, checks, failed >>
    BY <1>16 DEF dispatchVars, Timed
  <2>2. l = k
    BY <2>1 DEF k, l
  <2> QED
    BY <1>1, <1>8, <2>1, <2>2
<1> QED
  BY <1>11, <1>12, <1>13, <1>14, <1>15, <1>16 DEF DispatchNext

\* The types of the dispatcher's variables, and the bounds of the model.
THEOREM DispatchTypeCorrect == DispatchSpec => []DispatchTypeOK
<1>1. DispatchInit => CountersInv
  <2> SUFFICES ASSUME DispatchInit
               PROVE  CountersInv
    OBVIOUS
  <2>1. Timed = {}
    BY DEF DispatchInit, Timed, Idle
  <2>2. Cardinality(Timed) = 0
    BY <2>1, FS_EmptySet
  <2>3. clock = 1 /\ checks = 0
    BY DEF DispatchInit
  <2>4. clock \in 1 .. MaxClock /\ checks \in Nat /\ checks + Cardinality(Timed) <= MaxChecks
    BY <2>2, <2>3, DispatcherAssumption
  <2>5. failed \in BOOLEAN
    BY Zenon DEF DispatchInit
  <2> QED
    BY <2>4, <2>5, Zenon DEF CountersInv
<1>2. DispatchInv /\ CountersInv /\ [DispatchNext]_dispatchVars => CountersInv'
  BY CountersKeep
<1>3. DispatchInv /\ CountersInv => DispatchTypeOK
  <2> SUFFICES ASSUME DispatchInv, CountersInv
               PROVE  DispatchTypeOK
    OBVIOUS
  <2>1. checks \in 0 .. MaxChecks
    <3>1. Timed \subseteq Workers
      BY DEF Timed
    <3>2. Cardinality(Timed) \in Nat
      BY <3>1, FewerThreads
    <3> QED
      BY <3>2, DispatcherAssumption DEF CountersInv
  <2>2. ASSUME NEW w \in Workers, worker[w].pc \in {"timed", "passed"}
        PROVE  /\ worker[w].req \in requests /\ worker[w].site \in Sites
               /\ worker[w].client \in Clients
    <3>1. Accepted(worker[w], requests) /\ requests \in Traffic
      BY <2>2 DEF DispatchInv, WorkersInv, JobKept
    <3> QED
      BY <3>1, SiteExists, TrafficAssumption DEF Accepted
  <2>3. ASSUME NEW s \in Limited
        PROVE  DOMAIN table[s].entries \subseteq Clients
    BY DEF DispatchInv, TablesInv, SiteInv, SiteKept, IsTable
  <2> QED
    BY <2>1, <2>2, <2>3 DEF DispatchTypeOK, CountersInv
<1> QED
  BY <1>1, <1>2, <1>3, DispatchInvHolds, PTL DEF DispatchSpec
=============================================================================

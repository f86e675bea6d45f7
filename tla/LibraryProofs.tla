---------------------------- MODULE LibraryProofs ----------------------------
(* Proofs about the components of MCLibrary, for all values of the constants *)
(* that their assumptions allow.                                             *)
(*                                                                           *)
(* The organizer leaves no empty directory; and it loses no file and brings  *)
(* the library in order, provided that no two files have the same name and   *)
(* that a subtitle has to go where the videos it belongs to go.              *)
(* Organizer_overwrite shows why the first is needed: the move does not look *)
(* at its destination.                                                       *)
(*                                                                           *)
(* What the groups view shows is a partition of the files it was given, and  *)
(* the enhanced plan moves each file once.  The linked nodes of the table    *)
(* are an ordered map.  All of these are loops over sequences: FoldProofs    *)
(* has the recursion that each stands for.                                   *)
EXTENDS MCLibrary, FunctionTheorems, SequenceTheorems, FiniteSetTheorems, TLAPS

-----------------------------------------------------------------------------
(* The table.                                                                *)

\* Follow, as the recursion of FoldProofs: p is <<n, link>>.
FollowNext(p, w, k) ==
    IF w.at = Nil THEN w ELSE [at |-> p[2][w.at], met |-> Append(w.met, w.at)]
FollowBase(p) == [at |-> p[1], met |-> <<>>]
Following == INSTANCE FoldProofs WITH Op <- FollowNext, Base <- FollowBase

LEMMA LeastIn ==
    ASSUME NEW I \in SUBSET Nat, I # {}
    PROVE  Min(I) \in I /\ \A k \in I : Min(I) <= k
<1>1. \E m \in I : \A k \in I : m <= k
  BY Following!LeastNumber
<1> QED BY <1>1 DEF Min

LEMMA IntervalSize ==
    ASSUME NEW n \in Nat
    PROVE  IsFiniteSet(1 .. n) /\ Cardinality(1 .. n) = n
<1>1. IsFiniteSet(1 .. n) /\ Cardinality(1 .. n) = IF 1 > n THEN 0 ELSE n - 1 + 1
  BY FS_Interval
<1> QED BY <1>1

\* A linked list of nodes: what is at a place, Nil before the first and after
\* the last.
At(s, i) == IF i \in DOMAIN s THEN s[i] ELSE Nil
IsList(s, first, link) ==
    /\ s \in Seq(Nat) /\ \A i, j \in DOMAIN s : s[i] = s[j] => i = j
    /\ first = At(s, 1)
    /\ \A i \in DOMAIN s : link[s[i]] = At(s, i + 1)

\* What it means for the places from 1 up to the length.
LEMMA ListFacts ==
    ASSUME NEW s, NEW first, NEW link, IsList(s, first, link)
    PROVE  /\ s \in Seq(Nat) /\ Len(s) \in Nat /\ DOMAIN s = 1 .. Len(s)
           /\ \A i \in 1 .. Len(s) : s[i] \in Nat /\ s[i] \in ToSet(s)
           /\ \A i, j \in 1 .. Len(s) : s[i] = s[j] => i = j
           /\ first = At(s, 1) /\ \A i \in 1 .. Len(s) : link[s[i]] = At(s, i + 1)
<1>1. s \in Seq(Nat) /\ Len(s) \in Nat /\ DOMAIN s = 1 .. Len(s)
  BY DEF IsList
<1>2. \A i \in 1 .. Len(s) : s[i] \in Nat
  BY <1>1
<1>3. \A i \in 1 .. Len(s) : s[i] \in ToSet(s)
  BY <1>1 DEF ToSet
<1>4. /\ \A i, j \in 1 .. Len(s) : s[i] = s[j] => i = j
      /\ first = At(s, 1) /\ \A i \in 1 .. Len(s) : link[s[i]] = At(s, i + 1)
  BY <1>1 DEF IsList
<1> QED BY <1>1, <1>2, <1>3, <1>4

\* A list is not longer than there are nodes.
LEMMA ListLength ==
    ASSUME NEW s \in Seq(Nat), \A i, j \in DOMAIN s : s[i] = s[j] => i = j,
           NEW S, IsFiniteSet(S), \A i \in DOMAIN s : s[i] \in S
    PROVE  Len(s) \in Nat /\ Len(s) <= Cardinality(S) /\ Cardinality(S) \in Nat
<1> DEFINE n == Len(s)
           f == [i \in 1 .. n |-> s[i]]
           T == {s[i] : i \in 1 .. n}
           c == Cardinality(T)
           d == Cardinality(S)
<1>1. n \in Nat /\ DOMAIN s = 1 .. n
  OBVIOUS
<1>2. f \in Bijection(1 .. n, T)
  <2> HIDE DEF n
  <2> QED BY <1>1 DEF Bijection, Injection, Surjection, IsInjective
<1>3. ExistsBijection(1 .. n, T)
  BY <1>2 DEF ExistsBijection
<1>4. IsFiniteSet(1 .. n) /\ Cardinality(1 .. n) = n
  <2> HIDE DEF n
  <2> QED BY <1>1, IntervalSize
<1>5. IsFiniteSet(T) /\ c = n
  <2> HIDE DEF n, T
  <2> QED BY <1>3, <1>4, FS_Bijection
<1>6. T \subseteq S
  BY <1>1
<1>7. c <= d /\ d \in Nat
  <2> HIDE DEF T
  <2> QED BY <1>6, FS_Subset, FS_CardinalityType
<1> HIDE DEF n, c, d
<1>8. n <= d
  BY <1>5, <1>7
<1> QED BY <1>1, <1>7, <1>8 DEF n, d

\* Who follows the links meets the list.
LEMMA FollowIs ==
    ASSUME NEW s, NEW first, NEW link, IsList(s, first, link), Nil \notin Nat,
           IsFiniteSet(DOMAIN link), \A i \in DOMAIN s : s[i] \in DOMAIN link
    PROVE  Follow(first, link) = s
<1> DEFINE p == <<first, link>>
           m == Cardinality(DOMAIN link)
           n == Len(s)
           f == Following!Recursion(p, m + 1)
           upto(k) == IF k <= n THEN k ELSE n
           met(k) == [i \in 1 .. upto(k) |-> s[i]]
           Good(k) == f[k].at = At(s, k + 1) /\ f[k].met = met(k)
           Bad == {k \in 0 .. (m + 1) : ~Good(k)}
<1>1. /\ s \in Seq(Nat) /\ n \in Nat /\ DOMAIN s = 1 .. n /\ m \in Nat /\ n <= m
      /\ \A i \in DOMAIN s : s[i] \in Nat
  <2>1. s \in Seq(Nat) /\ \A i, j \in DOMAIN s : s[i] = s[j] => i = j
    BY DEF IsList
  <2>2. n \in Nat /\ DOMAIN s = 1 .. n /\ \A i \in DOMAIN s : s[i] \in Nat
    BY <2>1
  <2>3. m \in Nat /\ n <= m
    BY <2>1, ListLength
  <2> QED BY <2>1, <2>2, <2>3
<1>2. /\ f[0] = FollowBase(p)
      /\ \A k \in 1 .. (m + 1) : f[k] = FollowNext(p, f[k - 1], k)
  BY <1>1, Following!RecursionUnfolds
<1>3. Follow(first, link) = f[m + 1].met
  BY DEF Follow, Following!Recursion, Following!IsRecursion, FollowNext, FollowBase
<1>4. f[0].at = first /\ f[0].met = <<>>
  <2>1. FollowBase(p).at = first /\ FollowBase(p).met = <<>>
    BY DEF FollowBase
  <2> HIDE DEF f, p
  <2> QED BY <1>2, <2>1
<1>5. ASSUME NEW k \in 1 .. (m + 1)
      PROVE  /\ f[k - 1].at = Nil => f[k] = f[k - 1]
             /\ f[k - 1].at # Nil => /\ f[k].at = link[f[k - 1].at]
                                     /\ f[k].met = Append(f[k - 1].met, f[k - 1].at)
  <2>1. \A w : FollowNext(p, w, k) =
          IF w.at = Nil THEN w ELSE [at |-> link[w.at], met |-> Append(w.met, w.at)]
    BY DEF FollowNext
  <2> HIDE DEF f, p, m
  <2> QED BY <1>2, <2>1
<1>6. 0 \notin Bad
  <2>1. met(0) = <<>>
    BY <1>1
  <2>2. At(s, 0 + 1) = first
    BY DEF IsList
  <2> HIDE DEF f, m, n, met
  <2> QED BY <1>4, <2>1, <2>2
<1>7. ASSUME NEW k \in 1 .. (m + 1), k - 1 \notin Bad PROVE k \notin Bad
  <2>1. k \in 0 .. (m + 1) /\ k - 1 \in 0 .. (m + 1) /\ k \in Nat /\ k - 1 \in Nat /\ k - 1 + 1 = k
    BY <1>1
  <2>2. f[k - 1].at = At(s, k) /\ f[k - 1].met = met(k - 1)
    <3> HIDE DEF f, met, m, n
    <3> QED BY <1>7, <2>1
  <2>3. CASE k <= n
    <3>1. k \in DOMAIN s /\ At(s, k) = s[k] /\ s[k] # Nil
      <4> HIDE DEF n, m
      <4> QED BY <1>1, <2>3, <2>1 DEF At
    <3>2. f[k].at = link[s[k]] /\ f[k].met = Append(met(k - 1), s[k])
      <4> HIDE DEF f, met, m, n
      <4> QED BY <1>5, <2>2, <3>1
    <3>3. link[s[k]] = At(s, k + 1)
      BY <3>1 DEF IsList
    <3>4. Append(met(k - 1), s[k]) = met(k)
      <4>1. met(k) = [i \in 1 .. k |-> s[i]] /\ met(k - 1) = [i \in 1 .. (k - 1) |-> s[i]]
        <5> HIDE DEF n, m
        <5> QED BY <2>3, <2>1, <1>1
      <4>2. [i \in 1 .. (k - 1) |-> s[i]] \in Seq(Nat) /\ Len([i \in 1 .. (k - 1) |-> s[i]]) = k - 1
        <5> HIDE DEF n, m
        <5> QED BY <1>1, <2>1, <2>3
      <4>3. Append([i \in 1 .. (k - 1) |-> s[i]], s[k]) = [i \in 1 .. k |-> s[i]]
        <5> HIDE DEF n, m
        <5> QED BY <1>1, <2>1, <2>3, <4>2
      <4> HIDE DEF met
      <4> QED BY <4>1, <4>3
    <3> HIDE DEF f, met, m, n
    <3> QED BY <3>2, <3>3, <3>4
  <2>4. CASE ~(k <= n)
    <3>1. At(s, k) = Nil /\ At(s, k + 1) = Nil
      <4> HIDE DEF n, m
      <4> QED BY <1>1, <2>1, <2>4 DEF At
    <3>2. met(k - 1) = met(k)
      <4>1. upto(k - 1) = n /\ upto(k) = n
        <5> HIDE DEF n, m
        <5> QED BY <1>1, <2>1, <2>4
      <4> HIDE DEF upto
      <4> QED BY <4>1
    <3> HIDE DEF f, met, m, n
    <3> QED BY <1>5, <2>2, <3>1, <3>2
  <2> QED BY <2>3, <2>4
<1>8. Good(m + 1)
  <2>1. m + 1 \in Nat /\ m + 1 \in 0 .. (m + 1) /\ Bad \in SUBSET (0 .. (m + 1))
    BY <1>1
  <2> HIDE DEF Bad, m
  <2>2. \A k \in 0 .. (m + 1) : k \notin Bad
    BY <1>6, <1>7, <2>1, Following!NoneFails
  <2>3. m + 1 \notin Bad
    BY <2>1, <2>2
  <2> HIDE DEF Good
  <2> QED BY <2>1, <2>3 DEF Bad
<1>9. met(m + 1) = s
  <2>1. upto(m + 1) = n
    <3> HIDE DEF m, n
    <3> QED BY <1>1
  <2>2. [i \in 1 .. n |-> s[i]] = s
    <3> HIDE DEF n
    <3> QED BY <1>1
  <2> HIDE DEF upto, n
  <2> QED BY <2>1, <2>2
<1> HIDE DEF met, f, m
<1> QED BY <1>3, <1>8, <1>9

\* A node before the first.
LEMMA ListBefore ==
    ASSUME NEW s, NEW first, NEW link, IsList(s, first, link),
           NEW n \in Nat, n \notin ToSet(s), NEW next, next[n] = first,
           \A m \in ToSet(s) : next[m] = link[m]
    PROVE  \E t : IsList(t, n, next) /\ ToSet(t) = ToSet(s) \cup {n}
<1> DEFINE d == Len(s)
           t == [i \in 1 .. (d + 1) |-> IF i = 1 THEN n ELSE s[i - 1]]
<1>1. /\ s \in Seq(Nat) /\ d \in Nat /\ DOMAIN s = 1 .. d
      /\ \A i \in 1 .. d : s[i] \in Nat /\ s[i] \in ToSet(s) /\ s[i] # n
      /\ \A i, j \in 1 .. d : s[i] = s[j] => i = j
      /\ first = At(s, 1) /\ \A i \in 1 .. d : link[s[i]] = At(s, i + 1)
  BY ListFacts
<1>2. t \in Seq(Nat) /\ DOMAIN t = 1 .. (d + 1) /\ Len(t) = d + 1
  <2> HIDE DEF d
  <2>1. \A i \in 1 .. (d + 1) : (IF i = 1 THEN n ELSE s[i - 1]) \in Nat
    BY <1>1
  <2> QED BY <1>1, <2>1
<1>3. t[1] = n /\ \A i \in 1 .. d : t[i + 1] = s[i] /\ i + 1 \in 1 .. (d + 1) /\ i + 1 # 1
  <2> HIDE DEF d
  <2> QED BY <1>1
<1>4. \A i \in 1 .. (d + 1) : i = 1 \/ (i - 1 \in 1 .. d /\ t[i] = s[i - 1])
  <2> HIDE DEF d
  <2> QED BY <1>1
<1>5. \A i, j \in 1 .. (d + 1) : t[i] = t[j] => i = j
  <2> HIDE DEF d, t
  <2> QED BY <1>1, <1>3, <1>4
<1>6. \A i \in 1 .. d : At(t, i + 1) = s[i]
  <2> HIDE DEF d, t
  <2> QED BY <1>2, <1>3 DEF At
<1>7. \A i \in DOMAIN t : next[t[i]] = At(t, i + 1)
  <2>1. SUFFICES ASSUME NEW i \in 1 .. (d + 1) PROVE next[t[i]] = At(t, i + 1)
    BY <1>2
  <2>2. \A j \in 0 .. d : At(s, j + 1) = At(t, j + 1 + 1)
    <3> HIDE DEF d, t
    <3> QED BY <1>1, <1>2, <1>3 DEF At
  <2>3. CASE i = 1
    <3>1. 0 \in 0 .. d /\ 0 + 1 = 1
      BY <1>1
    <3>2. At(s, 1) = At(t, 1 + 1)
      BY <2>2, <3>1
    <3> HIDE DEF d, t
    <3> QED BY <1>1, <1>3, <2>3, <3>2
  <2>4. CASE i # 1
    <3>1. i - 1 \in 1 .. d /\ i - 1 \in 0 .. d /\ t[i] = s[i - 1] /\ i - 1 + 1 = i
      <4> HIDE DEF d, t
      <4> QED BY <1>1, <1>4, <2>4
    <3>2. next[t[i]] = link[s[i - 1]] /\ link[s[i - 1]] = At(s, i)
      <4> HIDE DEF d, t
      <4> QED BY <1>1, <3>1
    <3>3. At(s, i) = At(t, i + 1)
      <4> HIDE DEF d, t
      <4> QED BY <2>2, <3>1
    <3> QED BY <3>2, <3>3
  <2> QED BY <2>3, <2>4
<1>8. n = At(t, 1)
  <2>1. 1 \in 1 .. (d + 1)
    BY <1>1
  <2> HIDE DEF d, t
  <2> QED BY <1>2, <1>3, <2>1 DEF At
<1>9. ToSet(t) = ToSet(s) \cup {n}
  <2>1. 1 \in 1 .. (d + 1)
    BY <1>1
  <2> HIDE DEF d, t
  <2>2. ToSet(s) = {s[i] : i \in 1 .. d} /\ ToSet(t) = {t[i] : i \in 1 .. (d + 1)}
    BY <1>1, <1>2 DEF ToSet
  <2>3. ASSUME NEW x \in ToSet(t) PROVE x \in ToSet(s) \cup {n}
    BY <1>3, <1>4, <2>2
  <2>4. ASSUME NEW x \in ToSet(s) PROVE x \in ToSet(t)
    BY <1>3, <2>2
  <2>5. n \in ToSet(t)
    BY <1>3, <2>1, <2>2
  <2> QED BY <2>3, <2>4, <2>5
<1>10. IsList(t, n, next)
  <2> HIDE DEF d, t
  <2> QED BY <1>2, <1>5, <1>7, <1>8 DEF IsList
<1> HIDE DEF t
<1> QED BY <1>9, <1>10

\* A node after the last.
LEMMA ListAfter ==
    ASSUME NEW s, NEW first, NEW link, IsList(s, first, link), Nil \notin Nat,
           NEW n \in Nat, n \notin ToSet(s), NEW next, next[n] = Nil,
           \A m \in ToSet(s) : next[m] = IF m = At(s, Len(s)) THEN n ELSE link[m]
    PROVE  /\ IsList(Append(s, n), IF At(s, Len(s)) = Nil THEN n ELSE first, next)
           /\ ToSet(Append(s, n)) = ToSet(s) \cup {n}
           /\ At(Append(s, n), Len(Append(s, n))) = n
           /\ \A i \in DOMAIN Append(s, n) : At(Append(s, n), i - 1) = At(s, i - 1)
<1> DEFINE d == Len(s)
           t == Append(s, n)
<1>1. /\ s \in Seq(Nat) /\ d \in Nat /\ DOMAIN s = 1 .. d
      /\ \A i \in 1 .. d : s[i] \in Nat /\ s[i] \in ToSet(s) /\ s[i] # n
      /\ \A i, j \in 1 .. d : s[i] = s[j] => i = j
      /\ first = At(s, 1) /\ \A i \in 1 .. d : link[s[i]] = At(s, i + 1)
  BY ListFacts
<1>2. /\ t \in Seq(Nat) /\ DOMAIN t = 1 .. (d + 1) /\ Len(t) = d + 1
      /\ t[d + 1] = n /\ \A i \in 1 .. d : t[i] = s[i] /\ i \in 1 .. (d + 1)
  BY <1>1
<1>3. d + 1 \in 1 .. (d + 1) /\ \A i \in 1 .. (d + 1) : i = d + 1 \/ i \in 1 .. d
  BY <1>1
<1>4. \A i, j \in 1 .. (d + 1) : t[i] = t[j] => i = j
  <2> SUFFICES ASSUME NEW i \in 1 .. (d + 1), NEW j \in 1 .. (d + 1), t[i] = t[j]
               PROVE  i = j
    OBVIOUS
  <2> HIDE DEF d, t
  <2>1. CASE i = d + 1 /\ j # d + 1
    BY <1>1, <1>2, <1>3, <2>1
  <2>2. CASE i # d + 1 /\ j = d + 1
    BY <1>1, <1>2, <1>3, <2>2
  <2>3. CASE i # d + 1 /\ j # d + 1
    BY <1>1, <1>2, <1>3, <2>3
  <2> QED BY <2>1, <2>2, <2>3
<1>5. \A i \in 1 .. (d + 1) : At(t, i - 1) = At(s, i - 1)
  <2> HIDE DEF d, t
  <2> QED BY <1>1, <1>2 DEF At
<1>6. At(t, d + 1) = n /\ At(t, d + 1 + 1) = Nil
  <2>1. d + 1 + 1 \notin 1 .. (d + 1)
    BY <1>1
  <2> HIDE DEF d, t
  <2> QED BY <1>2, <1>3, <2>1 DEF At
<1>7. At(t, 1) = IF At(s, d) = Nil THEN n ELSE first
  <2>1. CASE d = 0
    <3>1. At(s, d) = Nil
      <4> HIDE DEF d
      <4> QED BY <1>1, <2>1 DEF At
    <3>2. At(t, 1) = n
      <4>1. d + 1 = 1
        BY <2>1
      <4> HIDE DEF d, t
      <4> QED BY <1>6, <4>1
    <3> QED BY <3>1, <3>2
  <2>2. CASE d # 0
    <3>1. 1 \in 1 .. d /\ d \in 1 .. d /\ 1 \in 1 .. (d + 1)
      <4> HIDE DEF d
      <4> QED BY <1>1, <2>2
    <3>2. At(s, d) = s[d] /\ s[d] # Nil /\ At(s, 1) = s[1] /\ At(t, 1) = s[1]
      <4> HIDE DEF d, t
      <4> QED BY <1>1, <1>2, <3>1 DEF At
    <3> HIDE DEF d, t
    <3> QED BY <1>1, <3>2
  <2> QED BY <2>1, <2>2
<1>8. \A i \in 1 .. d : next[t[i]] = At(t, i + 1)
  <2> SUFFICES ASSUME NEW i \in 1 .. d PROVE next[t[i]] = At(t, i + 1)
    OBVIOUS
  <2>0. d \in 1 .. d /\ At(s, d) = s[d]
    <3>1. d \in 1 .. d
      BY <1>1
    <3> HIDE DEF d
    <3> QED BY <1>1, <3>1 DEF At
  <2>1. CASE i = d
    <3> HIDE DEF d, t
    <3> QED BY <1>1, <1>2, <1>6, <2>0, <2>1 DEF d
  <2>2. CASE i # d
    <3>1. i + 1 \in 1 .. d /\ i + 1 \in 1 .. (d + 1)
      <4> HIDE DEF d
      <4> QED BY <1>1, <2>2
    <3>2. s[i] # s[d]
      <4> HIDE DEF d, t
      <4> QED BY <1>1, <2>0, <2>2
    <3>3. At(s, i + 1) = s[i + 1] /\ At(t, i + 1) = s[i + 1]
      <4> HIDE DEF d, t
      <4> QED BY <1>1, <1>2, <3>1 DEF At
    <3>4. next[s[i]] = link[s[i]]
      BY <1>1, <2>0, <3>2
    <3> HIDE DEF d, t
    <3> QED BY <1>1, <1>2, <3>3, <3>4
  <2> QED BY <2>1, <2>2
<1>9. \A i \in 1 .. (d + 1) : next[t[i]] = At(t, i + 1)
  <2> HIDE DEF d, t
  <2> QED BY <1>2, <1>3, <1>6, <1>8
<1>10. ToSet(t) = ToSet(s) \cup {n}
  <2> HIDE DEF d, t
  <2>2. ToSet(s) = {s[i] : i \in 1 .. d} /\ ToSet(t) = {t[i] : i \in 1 .. (d + 1)}
    BY <1>1, <1>2 DEF ToSet
  <2>3. ASSUME NEW x \in ToSet(t) PROVE x \in ToSet(s) \cup {n}
    <3>1. PICK i \in 1 .. (d + 1) : x = t[i]
      BY <2>2
    <3> QED BY <1>2, <1>3, <2>2, <3>1
  <2>4. ASSUME NEW x \in ToSet(s) PROVE x \in ToSet(t)
    <3>1. PICK i \in 1 .. d : x = s[i]
      BY <2>2
    <3> QED BY <1>2, <2>2, <3>1
  <2>5. n \in ToSet(t)
    BY <1>2, <1>3, <2>2
  <2> QED BY <2>3, <2>4, <2>5
<1>11. IsList(t, IF At(s, d) = Nil THEN n ELSE first, next)
  <2> HIDE DEF d, t
  <2> QED BY <1>2, <1>4, <1>7, <1>9 DEF IsList
<1> HIDE DEF t
<1> QED BY <1>2, <1>5, <1>6, <1>10, <1>11 DEF t, d

\* RemoveAt, place by place.
Drop(s, j) == [i \in 1 .. (Len(s) - 1) |-> IF i < j THEN s[i] ELSE s[i + 1]]

LEMMA RemoveAtIs ==
    ASSUME NEW X, NEW s \in Seq(X), NEW j \in 1 .. Len(s)
    PROVE  RemoveAt(s, j) = Drop(s, j)
<1> DEFINE d == Len(s)
           a == SubSeq(s, 1, j - 1)
           b == SubSeq(s, j + 1, d)
<1>1. d \in Nat /\ j \in 1 .. d /\ j \in Nat /\ d - 1 \in Nat
  OBVIOUS
<1>2. a = [i \in 1 .. (j - 1) |-> s[i]] /\ a \in Seq(X) /\ Len(a) = j - 1
  OBVIOUS
<1>3. /\ b \in Seq(X) /\ Len(b) = d - j
      /\ \A i \in 1 .. (d - j) : b[i] = s[i + j]
  OBVIOUS
<1>4. \A i \in 1 .. (j - 1) : a[i] = s[i]
  BY <1>2
<1>5. a \o b = [i \in 1 .. (Len(a) + Len(b)) |-> IF i <= Len(a) THEN a[i] ELSE b[i - Len(a)]]
  <2>1. a \in Seq(X) /\ b \in Seq(X)
    BY <1>2, <1>3
  <2> DEFINE c == a \o b
             m == Len(a) + Len(b)
  <2> HIDE DEF a, b
  <2>2. c \in Seq(X) /\ Len(c) = m
    BY <2>1, ConcatProperties
  <2>3. \A i \in 1 .. m : c[i] = IF i <= Len(a) THEN a[i] ELSE b[i - Len(a)]
    BY <2>1, ConcatProperties
  <2>4. c = [i \in 1 .. m |-> c[i]]
    <3> HIDE DEF c, m
    <3> QED BY <2>2
  <2> HIDE DEF c, m
  <2>5. c = [i \in 1 .. m |-> IF i <= Len(a) THEN a[i] ELSE b[i - Len(a)]]
    BY <2>3, <2>4
  <2> QED BY <2>5 DEF c, m
<1>6. Len(a) + Len(b) = d - 1
  <2> HIDE DEF a, b, d
  <2> QED BY <1>1, <1>2, <1>3
<1>7. ASSUME NEW i \in 1 .. (d - 1)
      PROVE  (IF i <= Len(a) THEN a[i] ELSE b[i - Len(a)]) = IF i < j THEN s[i] ELSE s[i + 1]
  <2>1. CASE i < j
    <3>1. i <= j - 1 /\ i \in 1 .. (j - 1)
      <4> HIDE DEF d
      <4> QED BY <1>1, <2>1
    <3> HIDE DEF a, b, d
    <3> QED BY <1>2, <1>4, <2>1, <3>1
  <2>2. CASE ~(i < j)
    <3>1. ~(i <= j - 1) /\ i - (j - 1) \in 1 .. (d - j) /\ i - (j - 1) + j = i + 1
      <4> HIDE DEF d
      <4> QED BY <1>1, <2>2
    <3>2. b[i - (j - 1)] = s[i + 1]
      <4> HIDE DEF b, d
      <4> QED BY <1>3, <3>1
    <3> HIDE DEF a, b, d
    <3> QED BY <1>2, <2>2, <3>1, <3>2
  <2> QED BY <2>1, <2>2
<1>8. a \o b = [i \in 1 .. (d - 1) |-> IF i < j THEN s[i] ELSE s[i + 1]]
  <2> HIDE DEF a, b, d
  <2> QED BY <1>5, <1>6, <1>7
<1> HIDE DEF a, b
<1> QED BY <1>8 DEF RemoveAt, Drop, a, b, d

LEMMA DropFacts ==
    ASSUME NEW X, NEW s \in Seq(X), NEW j \in 1 .. Len(s)
    PROVE  /\ Drop(s, j) \in Seq(X) /\ Len(Drop(s, j)) = Len(s) - 1
           /\ DOMAIN Drop(s, j) = 1 .. (Len(s) - 1)
           /\ \A i \in 1 .. (Len(s) - 1) : i < j => Drop(s, j)[i] = s[i] /\ i \in 1 .. Len(s)
           /\ \A i \in 1 .. (Len(s) - 1) : ~(i < j) => Drop(s, j)[i] = s[i + 1] /\ i + 1 \in 1 .. Len(s)
<1> DEFINE d == Len(s)
<1>1. d \in Nat /\ j \in 1 .. d /\ j \in Nat /\ d - 1 \in Nat /\ DOMAIN s = 1 .. d
      /\ \A i \in 1 .. d : s[i] \in X
  OBVIOUS
<1>2. Drop(s, j) = [i \in 1 .. (d - 1) |-> IF i < j THEN s[i] ELSE s[i + 1]]
  BY DEF Drop
<1>3. \A i \in 1 .. (d - 1) : i \in 1 .. d /\ i + 1 \in 1 .. d
  <2> HIDE DEF d
  <2> QED BY <1>1
<1>4. \A i \in 1 .. (d - 1) : (IF i < j THEN s[i] ELSE s[i + 1]) \in X
  <2> HIDE DEF d
  <2> QED BY <1>1, <1>3
<1>5. /\ Drop(s, j) \in Seq(X) /\ Len(Drop(s, j)) = d - 1
      /\ DOMAIN Drop(s, j) = 1 .. (d - 1)
  <2> HIDE DEF d
  <2> QED BY <1>1, <1>2, <1>4
<1> HIDE DEF d
<1> QED BY <1>2, <1>3, <1>5 DEF d

\* A node is left out: the one before it and the one after it are linked.
IsBack(s, prev) == \A i \in DOMAIN s : prev[s[i]] = At(s, i - 1)

LEMMA ListWithout ==
    ASSUME NEW s, NEW first, NEW link, IsList(s, first, link), Nil \notin Nat,
           NEW j \in 1 .. Len(s), NEW next,
           \A m \in ToSet(s) :
             m # s[j] => next[m] = IF m = At(s, j - 1) THEN link[s[j]] ELSE link[m]
    PROVE  /\ IsList(Drop(s, j), IF j = 1 THEN link[s[j]] ELSE first, next)
           /\ ToSet(Drop(s, j)) = ToSet(s) \ {s[j]}
           /\ At(Drop(s, j), Len(s) - 1) = IF j = Len(s) THEN At(s, j - 1) ELSE At(s, Len(s))
<1> DEFINE d == Len(s)
           t == Drop(s, j)
<1>1. /\ s \in Seq(Nat) /\ d \in Nat /\ DOMAIN s = 1 .. d
      /\ \A i \in 1 .. d : s[i] \in Nat /\ s[i] \in ToSet(s)
      /\ \A i, k \in 1 .. d : s[i] = s[k] => i = k
      /\ first = At(s, 1) /\ \A i \in 1 .. d : link[s[i]] = At(s, i + 1)
  BY ListFacts
<1>2. j \in 1 .. d /\ d - 1 \in Nat
  BY <1>1
<1>3. /\ t \in Seq(Nat) /\ Len(t) = d - 1 /\ DOMAIN t = 1 .. (d - 1)
      /\ \A i \in 1 .. (d - 1) : i < j => t[i] = s[i] /\ i \in 1 .. d
      /\ \A i \in 1 .. (d - 1) : ~(i < j) => t[i] = s[i + 1] /\ i + 1 \in 1 .. d
  <2>1. s \in Seq(Nat) /\ j \in 1 .. Len(s)
    BY <1>1
  <2>2. /\ t \in Seq(Nat) /\ Len(t) = d - 1 /\ DOMAIN t = 1 .. (d - 1)
        /\ \A i \in 1 .. (d - 1) : i < j => t[i] = s[i] /\ i \in 1 .. d
    BY <2>1, DropFacts
  <2>3. \A i \in 1 .. (d - 1) : ~(i < j) => t[i] = s[i + 1] /\ i + 1 \in 1 .. d
    BY <2>1, DropFacts
  <2> HIDE DEF d, t
  <2> QED BY <2>2, <2>3
<1>4. \A i, k \in 1 .. (d - 1) : t[i] = t[k] => i = k
  <2> SUFFICES ASSUME NEW i \in 1 .. (d - 1), NEW k \in 1 .. (d - 1), t[i] = t[k]
               PROVE  i = k
    OBVIOUS
  <2> DEFINE x == IF i < j THEN i ELSE i + 1
             y == IF k < j THEN k ELSE k + 1
  <2>1. t[i] = s[x] /\ x \in 1 .. d
    <3> HIDE DEF d, t
    <3> QED BY <1>2, <1>3
  <2>2. t[k] = s[y] /\ y \in 1 .. d
    <3> HIDE DEF d, t
    <3> QED BY <1>2, <1>3
  <2>3. x = y
    <3>1. s[x] = s[y]
      BY <2>1, <2>2
    <3> HIDE DEF d, t, x, y
    <3> QED BY <1>1, <2>1, <2>2, <3>1
  <2>4. i \in Int /\ k \in Int /\ j \in Int
    BY <1>1
  <2> HIDE DEF d, t
  <2> QED BY <2>3, <2>4
<1>5. \A i \in 1 .. d : i < j => At(t, i) = IF i < d THEN s[i] ELSE Nil
  <2> HIDE DEF d, t
  <2> QED BY <1>1, <1>2, <1>3 DEF At
<1>6. \A i \in 0 .. d : ~(i < j) => At(t, i) = At(s, i + 1)
  <2> HIDE DEF d, t
  <2> QED BY <1>1, <1>2, <1>3 DEF At
<1>7. \A i \in 0 .. (d - 1) : i < j => At(t, i) = At(s, i)
  <2> HIDE DEF d, t
  <2> QED BY <1>1, <1>2, <1>3 DEF At
<1>8. ASSUME NEW i \in 1 .. (d - 1) PROVE next[t[i]] = At(t, i + 1)
  <2>1. CASE i < j
    <3>1. t[i] = s[i] /\ i \in 1 .. d /\ s[i] # s[j] /\ s[i] \in ToSet(s)
      <4> HIDE DEF d, t
      <4>1. t[i] = s[i] /\ i \in 1 .. d /\ i # j
        BY <1>2, <1>3, <2>1
      <4> QED BY <1>1, <1>2, <4>1
    <3>2. next[t[i]] = IF s[i] = At(s, j - 1) THEN link[s[j]] ELSE link[s[i]]
      <4> HIDE DEF d, t
      <4> QED BY <3>1
    <3>3. CASE i = j - 1
      <4>1. j - 1 \in 1 .. d /\ i + 1 \in 0 .. d /\ ~(i + 1 < j) /\ i + 1 + 1 = j + 1
        <5> HIDE DEF d
        <5> QED BY <1>1, <1>2, <3>1, <3>3
      <4>2. At(s, j - 1) = s[i] /\ link[s[j]] = At(s, j + 1)
        <5> HIDE DEF d
        <5> QED BY <1>1, <1>2, <3>3, <4>1 DEF At
      <4>3. At(t, i + 1) = At(s, j + 1)
        <5> HIDE DEF d, t
        <5> QED BY <1>6, <4>1
      <4> QED BY <3>2, <4>2, <4>3
    <3>4. CASE i # j - 1
      <4>1. i + 1 \in 0 .. (d - 1) /\ i + 1 < j /\ j - 1 \in 1 .. d
        <5> HIDE DEF d
        <5> QED BY <1>1, <1>2, <2>1, <3>4
      <4>2. At(s, j - 1) # s[i] /\ link[s[i]] = At(s, i + 1)
        <5> HIDE DEF d
        <5> QED BY <1>1, <1>2, <3>1, <3>4, <4>1 DEF At
      <4>3. At(t, i + 1) = At(s, i + 1)
        <5> HIDE DEF d, t
        <5> QED BY <1>7, <4>1
      <4> QED BY <3>2, <4>2, <4>3
    <3> QED BY <3>3, <3>4
  <2>2. CASE ~(i < j)
    <3>1. /\ t[i] = s[i + 1] /\ i + 1 \in 1 .. d /\ s[i + 1] # s[j] /\ s[i + 1] \in ToSet(s)
          /\ i + 1 \in 0 .. d /\ ~(i + 1 < j) /\ i + 1 # j - 1
      <4> HIDE DEF d, t
      <4>1. t[i] = s[i + 1] /\ i + 1 \in 1 .. d
        BY <1>3, <2>2
      <4>2. i + 1 # j /\ i + 1 \in 0 .. d /\ ~(i + 1 < j) /\ i + 1 # j - 1
        BY <1>1, <1>2, <2>2, <4>1
      <4> QED BY <1>1, <1>2, <4>1, <4>2
    <3>2. s[i + 1] # At(s, j - 1)
      <4>1. j - 1 \in DOMAIN s => j - 1 \in 1 .. d
        BY <1>1
      <4> HIDE DEF d
      <4> QED BY <1>1, <3>1, <4>1 DEF At
    <3>3. next[t[i]] = link[s[i + 1]] /\ link[s[i + 1]] = At(s, i + 1 + 1)
      <4> HIDE DEF d, t
      <4> QED BY <1>1, <3>1, <3>2
    <3>4. At(t, i + 1) = At(s, i + 1 + 1)
      <4> HIDE DEF d, t
      <4> QED BY <1>6, <3>1
    <3> QED BY <3>3, <3>4
  <2> QED BY <2>1, <2>2
<1>9. At(t, 1) = IF j = 1 THEN link[s[j]] ELSE first
  <2>1. CASE j = 1
    <3>1. 1 \in 0 .. d /\ ~(1 < j) /\ 1 + 1 = j + 1
      <4> HIDE DEF d
      <4> QED BY <1>1, <1>2, <2>1
    <3>2. At(t, 1) = At(s, j + 1)
      <4> HIDE DEF d, t
      <4> QED BY <1>6, <3>1
    <3> HIDE DEF t, d
    <3> QED BY <1>1, <1>2, <2>1, <3>2
  <2>2. CASE j # 1
    <3>1. 1 \in 0 .. (d - 1) /\ 1 < j
      <4> HIDE DEF d
      <4> QED BY <1>1, <1>2, <2>2
    <3> HIDE DEF t, d
    <3> QED BY <1>1, <1>7, <2>2, <3>1
  <2> QED BY <2>1, <2>2
<1>10. IsList(t, IF j = 1 THEN link[s[j]] ELSE first, next)
  <2> HIDE DEF d, t
  <2> QED BY <1>3, <1>4, <1>8, <1>9 DEF IsList
<1>11. ToSet(t) = ToSet(s) \ {s[j]}
  <2>1. ToSet(s) = {s[i] : i \in 1 .. d} /\ ToSet(t) = {t[i] : i \in 1 .. (d - 1)}
    BY <1>1, <1>3 DEF ToSet
  <2>2. ASSUME NEW x \in ToSet(t) PROVE x \in ToSet(s) \ {s[j]}
    <3>1. PICK i \in 1 .. (d - 1) : x = t[i]
      BY <2>1
    <3> DEFINE y == IF i < j THEN i ELSE i + 1
    <3>2. x = s[y] /\ y \in 1 .. d /\ y # j
      <4> HIDE DEF d, t
      <4>1. y # j
        BY <1>1, <1>2
      <4>2. t[i] = s[y] /\ y \in 1 .. d
        BY <1>2, <1>3
      <4> QED BY <3>1, <4>1, <4>2
    <3> HIDE DEF d, t, y
    <3> QED BY <1>1, <1>2, <3>2
  <2>3. ASSUME NEW x \in ToSet(s), x # s[j] PROVE x \in ToSet(t)
    <3>1. PICK i \in 1 .. d : x = s[i] /\ i # j
      BY <2>1, <2>3
    <3>2. CASE i < j
      <4>1. i \in 1 .. (d - 1)
        <5> HIDE DEF d
        <5> QED BY <1>1, <1>2, <3>2
      <4> HIDE DEF d, t
      <4> QED BY <1>3, <2>1, <3>1, <3>2, <4>1
    <3>3. CASE ~(i < j)
      <4>1. i - 1 \in 1 .. (d - 1) /\ ~(i - 1 < j) /\ i - 1 + 1 = i
        <5> HIDE DEF d
        <5> QED BY <1>1, <1>2, <3>1, <3>3
      <4>2. t[i - 1] = s[i]
        <5> HIDE DEF d, t
        <5> QED BY <1>3, <4>1
      <4> HIDE DEF d, t
      <4> QED BY <2>1, <3>1, <4>1, <4>2
    <3> QED BY <3>2, <3>3
  <2> QED BY <2>2, <2>3
<1>12. At(t, d - 1) = IF j = d THEN At(s, j - 1) ELSE At(s, d)
  <2>1. CASE j = d
    <3>1. d - 1 \in 0 .. (d - 1) /\ d - 1 < j
      <4> HIDE DEF d
      <4> QED BY <1>1, <1>2, <2>1
    <3> HIDE DEF t, d
    <3> QED BY <1>7, <2>1, <3>1
  <2>2. CASE j # d
    <3>1. d - 1 \in 0 .. d /\ ~(d - 1 < j) /\ d - 1 + 1 = d
      <4> HIDE DEF d
      <4> QED BY <1>1, <1>2, <2>2
    <3> HIDE DEF t, d
    <3> QED BY <1>6, <2>2, <3>1
  <2> QED BY <2>1, <2>2
<1> HIDE DEF t, d
<1> QED BY <1>10, <1>11, <1>12 DEF t, d

\* The same for the links back.
LEMMA BackWithout ==
    ASSUME NEW s, NEW first, NEW link, IsList(s, first, link), Nil \notin Nat,
           NEW j \in 1 .. Len(s), NEW prev, IsBack(s, prev), NEW back,
           \A m \in ToSet(s) :
             m # s[j] => back[m] = IF m = At(s, j + 1) THEN prev[s[j]] ELSE prev[m]
    PROVE  IsBack(Drop(s, j), back)
<1> DEFINE d == Len(s)
           t == Drop(s, j)
<1>1. /\ s \in Seq(Nat) /\ d \in Nat /\ DOMAIN s = 1 .. d
      /\ \A i \in 1 .. d : s[i] \in Nat /\ s[i] \in ToSet(s)
      /\ \A i, k \in 1 .. d : s[i] = s[k] => i = k
  BY ListFacts
<1>2. j \in 1 .. d /\ \A i \in 1 .. d : prev[s[i]] = At(s, i - 1)
  BY <1>1 DEF IsBack
<1>3. /\ DOMAIN t = 1 .. (d - 1)
      /\ \A i \in 1 .. (d - 1) : i < j => t[i] = s[i] /\ i \in 1 .. d
      /\ \A i \in 1 .. (d - 1) : ~(i < j) => t[i] = s[i + 1] /\ i + 1 \in 1 .. d
  BY <1>1, DropFacts
<1>4. ASSUME NEW i \in 1 .. (d - 1) PROVE back[t[i]] = At(t, i - 1)
  <2>1. CASE i < j
    <3>1. t[i] = s[i] /\ i \in 1 .. d /\ s[i] # s[j] /\ s[i] \in ToSet(s) /\ i # j + 1
      <4> HIDE DEF d, t
      <4> QED BY <1>1, <1>2, <1>3, <2>1
    <3>2. s[i] # At(s, j + 1)
      <4> HIDE DEF d
      <4> QED BY <1>1, <3>1 DEF At
    <3>3. back[t[i]] = At(s, i - 1)
      <4> HIDE DEF d, t
      <4> QED BY <1>2, <3>1, <3>2
    <3>4. At(t, i - 1) = At(s, i - 1)
      <4> HIDE DEF d, t
      <4> QED BY <1>1, <1>2, <1>3, <2>1 DEF At
    <3> QED BY <3>3, <3>4
  <2>2. CASE i = j
    <3>1. /\ t[i] = s[j + 1] /\ j + 1 \in 1 .. d /\ s[j + 1] # s[j]
          /\ s[j + 1] \in ToSet(s)
      <4> HIDE DEF d, t
      <4> QED BY <1>1, <1>2, <1>3, <2>2
    <3>2. At(s, j + 1) = s[j + 1]
      <4> HIDE DEF d
      <4> QED BY <1>1, <3>1 DEF At
    <3>3. back[t[i]] = At(s, j - 1)
      <4> HIDE DEF d, t
      <4> QED BY <1>2, <3>1, <3>2
    <3>4. At(t, i - 1) = At(s, j - 1)
      <4> HIDE DEF d, t
      <4> QED BY <1>1, <1>2, <1>3, <2>2 DEF At
    <3> QED BY <3>3, <3>4
  <2>3. CASE ~(i < j) /\ i # j
    <3>1. /\ t[i] = s[i + 1] /\ i + 1 \in 1 .. d /\ s[i + 1] # s[j]
          /\ s[i + 1] \in ToSet(s) /\ i + 1 # j + 1 /\ i + 1 - 1 = i
      <4>1. t[i] = s[i + 1] /\ i + 1 \in 1 .. d
        <5> HIDE DEF d, t
        <5> QED BY <1>3, <2>3
      <4>2. i + 1 # j /\ i + 1 # j + 1 /\ i + 1 - 1 = i
        <5> HIDE DEF d, t
        <5> QED BY <1>1, <1>2, <2>3, <4>1
      <4>3. s[i + 1] \in ToSet(s) /\ s[i + 1] # s[j]
        <5> HIDE DEF d, t
        <5> QED BY <1>1, <1>2, <4>1, <4>2
      <4> HIDE DEF d, t
      <4> QED BY <4>1, <4>2, <4>3
    <3>2. s[i + 1] # At(s, j + 1)
      <4> HIDE DEF d
      <4> QED BY <1>1, <3>1 DEF At
    <3>3. back[t[i]] = At(s, i)
      <4> HIDE DEF d, t
      <4> QED BY <1>2, <3>1, <3>2
    <3>4. At(t, i - 1) = At(s, i)
      <4>1. i - 1 \in 1 .. (d - 1) /\ ~(i - 1 < j) /\ i - 1 + 1 = i /\ i \in 1 .. d
        <5> HIDE DEF d, t
        <5> QED BY <1>1, <1>2, <2>3
      <4>2. t[i - 1] = s[i]
        <5> HIDE DEF d, t
        <5> QED BY <1>3, <4>1
      <4> HIDE DEF d, t
      <4> QED BY <1>1, <1>3, <4>1, <4>2 DEF At
    <3> QED BY <3>3, <3>4
  <2> QED BY <2>1, <2>2, <2>3
<1> HIDE DEF t, d
<1> QED BY <1>3, <1>4 DEF IsBack, t, d

-----------------------------------------------------------------------------
(* The nodes, the list of them in order, and the chains of the buckets.      *)
NodeNo == 1 .. (Cardinality(Keys) + 1)
HashNodes ==
    [key : Keys, value : Values, next_in_bucket : NodeNo \cup {Nil},
     prev_in_order : NodeNo \cup {Nil}, next_in_order : NodeNo \cup {Nil}]

InBucket(ns) == [n \in DOMAIN ns |-> ns[n].next_in_bucket]
Later(ns) == [n \in DOMAIN ns |-> ns[n].next_in_order]
Earlier(ns) == [n \in DOMAIN ns |-> ns[n].prev_in_order]

NodesOK(ns) ==
    /\ ns \in [DOMAIN ns -> HashNodes] /\ DOMAIN ns \subseteq NodeNo
    /\ \A m, n \in DOMAIN ns : ns[m].key = ns[n].key => m = n

OrderOK(ns, order, first, last) ==
    /\ IsList(order, first, Later(ns)) /\ ToSet(order) = DOMAIN ns
    /\ last = At(order, Len(order)) /\ IsBack(order, Earlier(ns))

\* The chain of bucket b, of those of S.
Hashed(ns, S, cap, b) == {n \in S : Hash[ns[n].key] % cap = b}
IsChain(c, ns, bks, cap, S, b) ==
    IsList(c, bks[b], InBucket(ns)) /\ ToSet(c) = Hashed(ns, S, cap, b)
ChainsOK(ns, bks, cap, S) ==
    /\ bks \in [0 .. (cap - 1) -> NodeNo \cup {Nil}]
    /\ \A b \in 0 .. (cap - 1) : \E c : IsChain(c, ns, bks, cap, S, b)

SizeOK(cap, sz, order) ==
    cap \in Nat \ {0} /\ sz = Len(order) /\ (cap > 1 => sz < cap)

TableOK(order) ==
    /\ NodesOK(nodes) /\ OrderOK(nodes, order, head, tail)
    /\ ChainsOK(nodes, buckets, capacity, DOMAIN nodes)
    /\ SizeOK(capacity, size, order)

\* _rehash changes the chains alone.
SameButChains(new, ns) ==
    /\ DOMAIN new = DOMAIN ns /\ NodesOK(new)
    /\ \A n \in DOMAIN ns :
         /\ new[n].key = ns[n].key /\ new[n].value = ns[n].value
         /\ new[n].prev_in_order = ns[n].prev_in_order
         /\ new[n].next_in_order = ns[n].next_in_order

Chained(ns, wide, w) ==
    LET node == ns[w.node]
        b == Hash[node.key] % wide
    IN  [node    |-> node.next_in_order,
         buckets |-> [w.buckets EXCEPT ![b] = w.node],
         nodes   |-> [w.nodes EXCEPT ![w.node].next_in_bucket = w.buckets[b]]]
Unchained(ns, first, wide) ==
    [node |-> first, buckets |-> [b \in 0 .. (wide - 1) |-> Nil], nodes |-> ns]
RehashedBy(ns, first, wide) ==
    LET Walk[left \in 0 .. Cardinality(DOMAIN ns)] ==
          IF left = 0 THEN Unchained(ns, first, wide) ELSE Chained(ns, wide, Walk[left - 1])
    IN  Walk[Cardinality(DOMAIN ns)]
RehashNext(p, w, k) == Chained(p[1], p[3], w)
RehashBase(p) == Unchained(p[1], p[2], p[3])
Rehashing == INSTANCE FoldProofs WITH Op <- RehashNext, Base <- RehashBase

LEMMA RehashUnfolds ==
    ASSUME NEW ns, NEW first, NEW wide, Cardinality(DOMAIN ns) \in Nat
    PROVE  \E f :
             /\ f[0] = Unchained(ns, first, wide)
             /\ \A k \in 1 .. Cardinality(DOMAIN ns) : f[k] = Chained(ns, wide, f[k - 1])
             /\ Rehashed(ns, first, wide) = f[Cardinality(DOMAIN ns)]
<1> DEFINE p == <<ns, first, wide>>
           m == Cardinality(DOMAIN ns)
           f == Rehashing!Recursion(p, m)
<1>1. f[0] = RehashBase(p) /\ \A k \in 1 .. m : f[k] = RehashNext(p, f[k - 1], k)
  BY Rehashing!RecursionUnfolds
<1>2. RehashBase(p) = Unchained(ns, first, wide) /\ \A w, k : RehashNext(p, w, k) = Chained(ns, wide, w)
  BY DEF RehashBase, RehashNext
<1>3. Rehashed(ns, first, wide) = RehashedBy(ns, first, wide)
  BY Zenon DEF Rehashed, RehashedBy, Chained, Unchained
<1>4. RehashedBy(ns, first, wide) = f[m]
  BY DEF RehashedBy, Rehashing!Recursion, Rehashing!IsRecursion, RehashNext, RehashBase
<1> HIDE DEF f, p, m
<1> QED BY <1>1, <1>2, <1>3, <1>4 DEF m

\* One step of it puts a node, which is in no chain yet, in front of its chain.
IsFront(bks, heads, x, b, B) ==
    /\ heads \in [B -> NodeNo \cup {Nil}] /\ heads[b] = x
    /\ \A a \in B : a # b => heads[a] = bks[a]
Relinked(us, ns, x, m, D) ==
    /\ us \in [D -> HashNodes] /\ \A n \in D : n # x => us[n] = ns[n]
    /\ us[x] = [ns[x] EXCEPT !.next_in_bucket = m]

LEMMA ChainedFacts ==
    ASSUME NEW ns, NEW wide, NEW w, NEW D, NEW B,
           w.nodes \in [D -> HashNodes], w.node \in D, w.buckets \in [B -> NodeNo \cup {Nil}],
           Hash[ns[w.node].key] % wide \in B, w.node \in NodeNo
    PROVE  /\ Chained(ns, wide, w).node = ns[w.node].next_in_order
           /\ IsFront(w.buckets, Chained(ns, wide, w).buckets, w.node,
                      Hash[ns[w.node].key] % wide, B)
           /\ Relinked(Chained(ns, wide, w).nodes, w.nodes, w.node,
                       w.buckets[Hash[ns[w.node].key] % wide], D)
<1> DEFINE x == w.node
           b == Hash[ns[x].key] % wide
           u == [w.nodes[x] EXCEPT !.next_in_bucket = w.buckets[b]]
           bs == [w.buckets EXCEPT ![b] = x]
           us == [w.nodes EXCEPT ![x] = u]
<1>1. Chained(ns, wide, w) = [node |-> ns[x].next_in_order, buckets |-> bs,
                              nodes |-> [w.nodes EXCEPT ![x].next_in_bucket = w.buckets[b]]]
  BY Zenon DEF Chained
<1>2. [w.nodes EXCEPT ![x].next_in_bucket = w.buckets[b]] = us
  OBVIOUS
<1>3. b \in B /\ w.buckets[b] \in NodeNo \cup {Nil} /\ x \in D /\ w.nodes[x] \in HashNodes
  OBVIOUS
<1>4. u \in HashNodes
  <2> HIDE DEF b, x
  <2> QED BY <1>3 DEF HashNodes
<1>5. us \in [D -> HashNodes] /\ us[x] = u /\ \A n \in D : n # x => us[n] = w.nodes[n]
  <2> HIDE DEF u, b, x
  <2> QED BY <1>3, <1>4
<1>6. bs \in [B -> NodeNo \cup {Nil}] /\ bs[b] = x /\ \A a \in B : a # b => bs[a] = w.buckets[a]
  <2>1. x \in NodeNo \cup {Nil}
    OBVIOUS
  <2> HIDE DEF b, x
  <2> QED BY <1>3, <2>1
<1>7. /\ Chained(ns, wide, w).node = ns[x].next_in_order
      /\ Chained(ns, wide, w).buckets = bs /\ Chained(ns, wide, w).nodes = us
  <2> HIDE DEF u, b, x, bs, us
  <2> QED BY <1>1, <1>2
<1>8. IsFront(w.buckets, bs, x, b, B)
  <2> HIDE DEF u, b, x, bs, us
  <2> QED BY <1>6 DEF IsFront
<1>9. Relinked(us, w.nodes, x, w.buckets[b], D)
  <2> HIDE DEF b, x, bs, us
  <2> QED BY <1>5 DEF Relinked
<1> HIDE DEF u, bs, us
<1> QED BY <1>7, <1>8, <1>9

\* A list is one for any links that are the same where its nodes are.
LEMMA ListLike ==
    ASSUME NEW s, NEW first, NEW link, IsList(s, first, link), NEW next,
           \A n \in ToSet(s) : next[n] = link[n]
    PROVE  IsList(s, first, next)
<1>1. \A i \in DOMAIN s : s[i] \in ToSet(s)
  BY DEF ToSet
<1> QED BY <1>1 DEF IsList

\* The other chains stay.
SameChains(new, ns, S) ==
    \A n \in S : new[n].next_in_bucket = ns[n].next_in_bucket /\ new[n].key = ns[n].key

LEMMA ChainFront ==
    ASSUME NEW ns, NEW bks, NEW cap, NEW S \in SUBSET DOMAIN ns,
           ChainsOK(ns, bks, cap, S),
           NEW x \in NodeNo, x \notin S, NEW b \in 0 .. (cap - 1),
           NEW heads, IsFront(bks, heads, x, b, 0 .. (cap - 1)),
           NEW new, x \in DOMAIN new, S \subseteq DOMAIN new,
           new[x].next_in_bucket = bks[b], Hash[new[x].key] % cap = b,
           SameChains(new, ns, S)
    PROVE  ChainsOK(new, heads, cap, S \cup {x})
<1>0. /\ heads \in [0 .. (cap - 1) -> NodeNo \cup {Nil}] /\ heads[b] = x
      /\ \A a \in 0 .. (cap - 1) : a # b => heads[a] = bks[a]
  BY DEF IsFront
<1>1. \A n \in S : InBucket(new)[n] = InBucket(ns)[n]
  BY DEF InBucket, SameChains
<1>2. InBucket(new)[x] = bks[b]
  BY DEF InBucket
<1>3. ASSUME NEW a \in 0 .. (cap - 1)
      PROVE  \E c : IsChain(c, new, heads, cap, S \cup {x}, a)
  <2>1. PICK c : IsChain(c, ns, bks, cap, S, a)
    BY DEF ChainsOK
  <2>2. IsList(c, bks[a], InBucket(ns)) /\ ToSet(c) = Hashed(ns, S, cap, a)
    BY <2>1 DEF IsChain
  <2>3. ToSet(c) \subseteq S
    BY <2>2 DEF Hashed
  <2>4. CASE a # b
    <3>1. heads[a] = bks[a]
      BY <1>0, <2>4
    <3>2. IsList(c, heads[a], InBucket(new))
      BY <1>1, <2>2, <2>3, <3>1, ListLike
    <3>3. Hashed(new, S \cup {x}, cap, a) = Hashed(ns, S, cap, a)
      BY <2>4 DEF Hashed, SameChains
    <3> QED BY <2>2, <3>2, <3>3 DEF IsChain
  <2>5. CASE a = b
    <3>1. x \notin ToSet(c) /\ x \in Nat
      BY <2>3 DEF NodeNo
    <3>2. \E t : IsList(t, x, InBucket(new)) /\ ToSet(t) = ToSet(c) \cup {x}
      <4>1. InBucket(new)[x] = bks[a] /\ \A m \in ToSet(c) : InBucket(new)[m] = InBucket(ns)[m]
        BY <1>1, <1>2, <2>3, <2>5
      <4> QED BY <2>2, <3>1, <4>1, ListBefore
    <3>3. PICK t : IsList(t, x, InBucket(new)) /\ ToSet(t) = ToSet(c) \cup {x}
      BY <3>2
    <3>4. Hashed(new, S \cup {x}, cap, a) = Hashed(ns, S, cap, a) \cup {x}
      BY <2>5 DEF Hashed, SameChains
    <3>5. heads[a] = x
      BY <1>0, <2>5
    <3> QED BY <2>2, <3>3, <3>4, <3>5 DEF IsChain
  <2> QED BY <2>4, <2>5
<1> QED BY <1>0, <1>3 DEF ChainsOK

\* What it has done after k nodes.
Chaining(w, k, ns, order, wide) ==
    /\ w.node = At(order, k + 1) /\ SameButChains(w.nodes, ns)
    /\ ChainsOK(w.nodes, w.buckets, wide, {order[i] : i \in 1 .. k})

LEMMA ChainingStarts ==
    ASSUME NEW ns, NodesOK(ns), NEW first, NEW order, IsList(order, first, Later(ns)),
           NEW wide \in Nat \ {0}
    PROVE  Chaining(Unchained(ns, first, wide), 0, ns, order, wide)
<1> DEFINE w == Unchained(ns, first, wide)
           bks == [b \in 0 .. (wide - 1) |-> Nil]
<1>1. w.node = first /\ w.nodes = ns /\ w.buckets = bks
  BY DEF Unchained
<1>2. first = At(order, 0 + 1)
  BY DEF IsList
<1>3. SameButChains(ns, ns)
  BY DEF SameButChains
<1>4. ASSUME NEW b \in 0 .. (wide - 1) PROVE IsChain(<<>>, ns, bks, wide, {}, b)
  <2>1. <<>> \in Seq(Nat) /\ At(<<>>, 1) = Nil /\ bks[b] = Nil /\ ToSet(<<>>) = {} /\ DOMAIN <<>> = {}
    BY DEF At, ToSet
  <2> QED BY <2>1 DEF IsChain, IsList, Hashed
<1>5. ChainsOK(ns, bks, wide, {})
  <2>1. bks \in [0 .. (wide - 1) -> NodeNo \cup {Nil}]
    OBVIOUS
  <2> QED BY <1>4, <2>1 DEF ChainsOK
<1>6. {order[i] : i \in 1 .. 0} = {}
  OBVIOUS
<1> HIDE DEF w, bks
<1> QED BY <1>1, <1>2, <1>3, <1>5, <1>6 DEF Chaining, w

LEMMA ChainingGoesOn ==
    ASSUME NEW ns, NodesOK(ns), NEW first, NEW order, IsList(order, first, Later(ns)),
           ToSet(order) = DOMAIN ns, NEW wide \in Nat \ {0}, Hash \in [Keys -> Int],
           NEW k \in 1 .. Len(order), NEW w, Chaining(w, k - 1, ns, order, wide)
    PROVE  Chaining(Chained(ns, wide, w), k, ns, order, wide)
<1> DEFINE x == order[k]
           b == Hash[ns[x].key] % wide
           B == 0 .. (wide - 1)
           D == DOMAIN ns
           S == {order[i] : i \in 1 .. (k - 1)}
           r == Chained(ns, wide, w)
<1>1. /\ Len(order) \in Nat /\ DOMAIN order = 1 .. Len(order) /\ k \in Nat /\ k - 1 + 1 = k
      /\ \A i \in 1 .. Len(order) : order[i] \in ToSet(order)
      /\ \A i, j \in 1 .. Len(order) : order[i] = order[j] => i = j
      /\ Later(ns)[order[k]] = At(order, k + 1)
  BY ListFacts
<1>2. /\ w.node = x /\ SameButChains(w.nodes, ns)
      /\ ChainsOK(w.nodes, w.buckets, wide, S)
  BY <1>1 DEF Chaining, At
<1>3. x \in D /\ S \subseteq D /\ x \notin S /\ {order[i] : i \in 1 .. k} = S \cup {x}
  <2>1. x \in D /\ S \subseteq D /\ x \notin S
    BY <1>1
  <2>2. \A i \in 1 .. k : i = k \/ i \in 1 .. (k - 1)
    BY <1>1
  <2>3. 1 .. (k - 1) \subseteq 1 .. k /\ k \in 1 .. k
    BY <1>1
  <2> QED BY <2>1, <2>2, <2>3
<1>4. /\ D \subseteq NodeNo /\ ns \in [D -> HashNodes] /\ w.nodes \in [D -> HashNodes]
      /\ w.buckets \in [B -> NodeNo \cup {Nil}]
  BY <1>2 DEF NodesOK, SameButChains, ChainsOK
<1>5. ns[x].key \in Keys /\ ns[x].next_in_order = At(order, k + 1)
  <2>1. ns[x] \in HashNodes
    BY <1>3, <1>4
  <2>2. Later(ns)[x] = ns[x].next_in_order
    BY <1>3 DEF Later
  <2> QED BY <1>1, <2>1, <2>2 DEF HashNodes
<1>6. b \in B
  <2>1. Hash[ns[x].key] \in Int
    BY <1>5
  <2> QED BY <2>1
<1>7. /\ r.node = ns[x].next_in_order /\ r.buckets \in [B -> NodeNo \cup {Nil}]
      /\ r.buckets[b] = x /\ \A a \in B : a # b => r.buckets[a] = w.buckets[a]
      /\ r.nodes \in [D -> HashNodes] /\ \A n \in D : n # x => r.nodes[n] = w.nodes[n]
      /\ r.nodes[x] = [w.nodes[x] EXCEPT !.next_in_bucket = w.buckets[b]]
  <2>1. /\ w.nodes \in [D -> HashNodes] /\ w.node \in D /\ w.buckets \in [B -> NodeNo \cup {Nil}]
        /\ Hash[ns[w.node].key] % wide \in B /\ w.node \in NodeNo
    <3> HIDE DEF D, B
    <3> QED BY <1>2, <1>3, <1>4, <1>6
  <2> HIDE DEF D, B
  <2>2. /\ Chained(ns, wide, w).node = ns[w.node].next_in_order
        /\ IsFront(w.buckets, Chained(ns, wide, w).buckets, w.node,
                   Hash[ns[w.node].key] % wide, B)
        /\ Relinked(Chained(ns, wide, w).nodes, w.nodes, w.node,
                    w.buckets[Hash[ns[w.node].key] % wide], D)
    BY <2>1, ChainedFacts
  <2>3. r.node = ns[x].next_in_order /\ IsFront(w.buckets, r.buckets, x, b, B)
        /\ Relinked(r.nodes, w.nodes, x, w.buckets[b], D)
    BY <1>2, <2>2
  <2> HIDE DEF x, b, r
  <2> QED BY <2>3 DEF IsFront, Relinked
<1>8. /\ r.nodes[x].next_in_bucket = w.buckets[b] /\ r.nodes[x].key = w.nodes[x].key
      /\ r.nodes[x].value = w.nodes[x].value
      /\ r.nodes[x].prev_in_order = w.nodes[x].prev_in_order
      /\ r.nodes[x].next_in_order = w.nodes[x].next_in_order
  <2>1. w.nodes[x] \in HashNodes
    BY <1>3, <1>4
  <2> HIDE DEF r, x, b
  <2> QED BY <1>7, <2>1 DEF HashNodes
<1>9. DOMAIN r.nodes = D /\ DOMAIN w.nodes = D
  <2> HIDE DEF r, D
  <2> QED BY <1>4, <1>7
<1>10. \A n \in D : /\ r.nodes[n].key = w.nodes[n].key /\ r.nodes[n].value = w.nodes[n].value
                    /\ r.nodes[n].prev_in_order = w.nodes[n].prev_in_order
                    /\ r.nodes[n].next_in_order = w.nodes[n].next_in_order
  <2> HIDE DEF r, D, x
  <2> QED BY <1>7, <1>8
<1>11. SameButChains(r.nodes, ns)
  <2>1. /\ \A m, n \in D : ns[m].key = ns[n].key => m = n
        /\ \A n \in D : /\ w.nodes[n].key = ns[n].key /\ w.nodes[n].value = ns[n].value
                        /\ w.nodes[n].prev_in_order = ns[n].prev_in_order
                        /\ w.nodes[n].next_in_order = ns[n].next_in_order
    BY <1>2 DEF NodesOK, SameButChains
  <2>2. NodesOK(r.nodes)
    <3> HIDE DEF r, D
    <3> QED BY <1>4, <1>7, <1>9, <1>10, <2>1 DEF NodesOK
  <2> HIDE DEF r
  <2> QED BY <1>9, <1>10, <2>1, <2>2 DEF SameButChains
<1>12. ChainsOK(r.nodes, r.buckets, wide, S \cup {x})
  <2>1. Hash[r.nodes[x].key] % wide = b
    <3>1. w.nodes[x].key = ns[x].key
      BY <1>2, <1>3 DEF SameButChains
    <3> HIDE DEF r, x
    <3> QED BY <1>8, <3>1
  <2>2. SameChains(r.nodes, w.nodes, S)
    <3> HIDE DEF r, x, S, D
    <3> QED BY <1>3, <1>7 DEF SameChains
  <2>3. S \in SUBSET DOMAIN w.nodes /\ x \in DOMAIN r.nodes /\ S \subseteq DOMAIN r.nodes /\ x \in NodeNo
    <3> HIDE DEF r, x, S, D
    <3> QED BY <1>3, <1>4, <1>9
  <2>4. IsFront(w.buckets, r.buckets, x, b, 0 .. (wide - 1))
    <3> HIDE DEF r, x, b
    <3> QED BY <1>7 DEF IsFront
  <2>5. b \in 0 .. (wide - 1) /\ x \notin S /\ ChainsOK(w.nodes, w.buckets, wide, S)
        /\ r.nodes[x].next_in_bucket = w.buckets[b]
    BY <1>2, <1>3, <1>6, <1>8
  <2> HIDE DEF r, x, S, D, b, B
  <2> QED BY <2>1, <2>2, <2>3, <2>4, <2>5, ChainFront
<1>13. r.node = At(order, k + 1)
  <2> HIDE DEF r, x
  <2> QED BY <1>5, <1>7
<1> HIDE DEF r, x, S
<1> QED BY <1>3, <1>11, <1>12, <1>13 DEF Chaining, r

\* A list of all nodes has as many places as there are nodes.
LEMMA ListCount ==
    ASSUME NEW s, NEW first, NEW link, IsList(s, first, link)
    PROVE  Len(s) \in Nat /\ IsFiniteSet(ToSet(s)) /\ Cardinality(ToSet(s)) = Len(s)
<1> DEFINE n == Len(s)
           f == [i \in 1 .. n |-> s[i]]
           T == ToSet(s)
<1>1. n \in Nat /\ DOMAIN s = 1 .. n
  BY ListFacts
<1>2. T = {s[i] : i \in 1 .. n} /\ \A i, j \in 1 .. n : s[i] = s[j] => i = j
  <2>1. \A i, j \in 1 .. n : s[i] = s[j] => i = j
    BY ListFacts
  <2> QED BY <1>1, <2>1 DEF ToSet
<1>3. f \in Bijection(1 .. n, T)
  <2> HIDE DEF n, T
  <2> QED BY <1>1, <1>2 DEF Bijection, Injection, Surjection, IsInjective
<1>4. ExistsBijection(1 .. n, T)
  BY <1>3 DEF ExistsBijection
<1>5. IsFiniteSet(1 .. n) /\ Cardinality(1 .. n) = n
  <2> HIDE DEF n
  <2> QED BY <1>1, IntervalSize
<1>6. IsFiniteSet(T) /\ Cardinality(T) = n
  <2> HIDE DEF n, T
  <2> QED BY <1>4, <1>5, FS_Bijection
<1> QED BY <1>1, <1>6

\* _rehash leaves each node in one chain, that of its bucket.
LEMMA RehashedFacts ==
    ASSUME NEW ns, NodesOK(ns), NEW first, NEW order, IsList(order, first, Later(ns)),
           ToSet(order) = DOMAIN ns, NEW wide \in Nat \ {0}, Hash \in [Keys -> Int]
    PROVE  /\ SameButChains(Rehashed(ns, first, wide).nodes, ns)
           /\ ChainsOK(Rehashed(ns, first, wide).nodes, Rehashed(ns, first, wide).buckets,
                       wide, DOMAIN ns)
<1> DEFINE n == Len(order)
<1>1. n \in Nat /\ Cardinality(DOMAIN ns) = n /\ DOMAIN order = 1 .. n
  <2>1. n \in Nat /\ Cardinality(DOMAIN ns) = n
    BY ListCount
  <2>2. DOMAIN order = 1 .. n
    BY ListFacts
  <2> QED BY <2>1, <2>2
<1>2. PICK f :
        /\ f[0] = Unchained(ns, first, wide)
        /\ \A k \in 1 .. n : f[k] = Chained(ns, wide, f[k - 1])
        /\ Rehashed(ns, first, wide) = f[n]
  <2> HIDE DEF n
  <2>1. Cardinality(DOMAIN ns) \in Nat
    BY <1>1
  <2>2. \E f :
          /\ f[0] = Unchained(ns, first, wide)
          /\ \A k \in 1 .. Cardinality(DOMAIN ns) : f[k] = Chained(ns, wide, f[k - 1])
          /\ Rehashed(ns, first, wide) = f[Cardinality(DOMAIN ns)]
    BY <2>1, RehashUnfolds
  <2> QED BY <1>1, <2>2
<1> DEFINE Bad == {k \in 0 .. n : ~Chaining(f[k], k, ns, order, wide)}
<1>3. 0 \notin Bad
  BY <1>2, ChainingStarts
<1>4. ASSUME NEW k \in 1 .. n, k - 1 \notin Bad PROVE k \notin Bad
  <2>1. k - 1 \in 0 .. n
    BY <1>1
  <2>2. Chaining(f[k - 1], k - 1, ns, order, wide)
    BY <1>4, <2>1
  <2>3. Chaining(Chained(ns, wide, f[k - 1]), k, ns, order, wide)
    BY <2>2, ChainingGoesOn
  <2> QED BY <1>2, <2>3
<1>5. Chaining(f[n], n, ns, order, wide)
  <2>1. n \in 0 .. n /\ Bad \in SUBSET (0 .. n)
    BY <1>1
  <2> HIDE DEF n
  <2>2. \A k \in 0 .. n : k \notin Bad
    <3> HIDE DEF Bad
    <3> QED BY <1>1, <1>3, <1>4, <2>1, Rehashing!NoneFails
  <2> QED BY <2>1, <2>2
<1>6. {order[i] : i \in 1 .. n} = DOMAIN ns
  <2> HIDE DEF n
  <2> QED BY <1>1 DEF ToSet
<1> HIDE DEF n
<1> QED BY <1>2, <1>5, <1>6 DEF Chaining

-----------------------------------------------------------------------------
(* What the table shows.                                                     *)
RowsBy(order, ns) ==
    [i \in DOMAIN order |-> [key |-> ns[order[i]].key, value |-> ns[order[i]].value]]

LEMMA OrderIs ==
    ASSUME NEW ns, NEW order, NEW first, NEW last, OrderOK(ns, order, first, last),
           NodesOK(ns), TableAssumption
    PROVE  /\ Follow(first, Later(ns)) = order
           /\ IsFiniteSet(DOMAIN ns) /\ Len(order) = Cardinality(DOMAIN ns)
           /\ order \in Seq(DOMAIN ns)
<1>1. IsList(order, first, Later(ns)) /\ ToSet(order) = DOMAIN ns /\ DOMAIN Later(ns) = DOMAIN ns
  BY DEF OrderOK, Later
<1>2. IsFiniteSet(DOMAIN ns) /\ Cardinality(DOMAIN ns) = Len(order)
  BY <1>1, ListCount
<1>3. \A i \in DOMAIN order : order[i] \in DOMAIN ns
  BY <1>1 DEF ToSet
<1>4. Follow(first, Later(ns)) = order
  BY <1>1, <1>2, <1>3, FollowIs DEF TableAssumption
<1>5. order \in Seq(DOMAIN ns)
  <2>1. Len(order) \in Nat /\ order \in Seq(Nat) /\ DOMAIN order = 1 .. Len(order)
    BY <1>1, ListFacts
  <2> QED BY <1>3, <2>1
<1> QED BY <1>2, <1>4, <1>5

LEMMA RowsAre ==
    ASSUME NEW order, TableOK(order), TableAssumption
    PROVE  rows = RowsBy(order, nodes)
<1>1. InOrder = order
  <2>1. NodesOK(nodes) /\ OrderOK(nodes, order, head, tail)
    BY DEF TableOK
  <2>2. Follow(head, Later(nodes)) = order
    BY <2>1, OrderIs
  <2> QED BY <2>2 DEF InOrder, Later
<1> QED BY <1>1 DEF rows, RowsBy

LEMMA RowsNext ==
    ASSUME NEW order, TableOK(order)', TableAssumption
    PROVE  rows' = RowsBy(order, nodes')
<1>1. InOrder' = order
  <2>1. NodesOK(nodes') /\ OrderOK(nodes', order, head', tail')
    BY DEF TableOK
  <2>2. Follow(head', Later(nodes')) = order
    BY <2>1, OrderIs
  <2> QED BY <2>2 DEF InOrder, Later
<1> QED BY <1>1 DEF rows, RowsBy

\* Where a list of all nodes has a key.
LEMMA KeyPlaces ==
    ASSUME NEW order, TableOK(order), TableAssumption, NEW k
    PROVE  \/ Map!Place(k) = 0 /\ \A n \in DOMAIN nodes : nodes[n].key # k
           \/ /\ Map!Place(k) \in 1 .. Len(order)
              /\ nodes[order[Map!Place(k)]].key = k
<1> DEFINE I == {i \in 1 .. Len(rows) : rows[i].key = k}
<1>1. rows = RowsBy(order, nodes)
  BY RowsAre
<1>2. order \in Seq(DOMAIN nodes) /\ ToSet(order) = DOMAIN nodes
  <2>1. NodesOK(nodes) /\ OrderOK(nodes, order, head, tail)
    BY DEF TableOK
  <2> QED BY <2>1, OrderIs DEF OrderOK
<1>3. Map!Place(k) = IF I # {} THEN Min(I) ELSE 0
  BY DEF Map!Place, SelectInSeq, Map!SelectInSeq, Map!Min, Min
<1>4. DOMAIN rows = DOMAIN order /\ Len(rows) = Len(order) /\ DOMAIN order = 1 .. Len(order)
  <2>1. DOMAIN order = 1 .. Len(order) /\ Len(order) \in Nat
    BY <1>2
  <2> QED BY <1>1, <2>1 DEF RowsBy
<1>5. \A i \in 1 .. Len(order) : rows[i].key = nodes[order[i]].key
  BY <1>1, <1>4 DEF RowsBy
<1>6. I # {} => Min(I) \in I
  <2>1. I \in SUBSET Nat
    OBVIOUS
  <2> HIDE DEF I
  <2> QED BY <2>1, LeastIn
<1>7. CASE I # {}
  BY <1>3, <1>4, <1>5, <1>6, <1>7
<1>8. CASE I = {}
  BY <1>2, <1>3, <1>4, <1>5, <1>8 DEF ToSet
<1> QED BY <1>7, <1>8

\* Where the chain of its bucket has it.
LEMMA ChainHas ==
    ASSUME NEW order, TableOK(order), TableAssumption, NEW k \in Keys
    PROVE  /\ BucketOf(k) \in 0 .. (capacity - 1)
           /\ IsChain(Chain(BucketOf(k)), nodes, buckets, capacity, DOMAIN nodes, BucketOf(k))
           /\ \/ Lookup(k) = 0 /\ \A n \in DOMAIN nodes : nodes[n].key # k
              \/ /\ Lookup(k) \in 1 .. Len(Chain(BucketOf(k))) /\ Lookup(k) # 0
                 /\ NodeOf(k) \in DOMAIN nodes /\ nodes[NodeOf(k)].key = k
<1> DEFINE b == BucketOf(k)
           s == Chain(b)
           I == {i \in 1 .. Len(s) : nodes[s[i]].key = k}
<1>0. /\ NodesOK(nodes) /\ OrderOK(nodes, order, head, tail)
      /\ ChainsOK(nodes, buckets, capacity, DOMAIN nodes) /\ capacity \in Nat \ {0}
  BY DEF TableOK, SizeOK
<1>1. b \in 0 .. (capacity - 1)
  <2>1. Hash[k] \in Int
    BY DEF TableAssumption
  <2> QED BY <1>0, <2>1 DEF BucketOf
<1>2. PICK c : IsChain(c, nodes, buckets, capacity, DOMAIN nodes, b)
  <2> HIDE DEF b
  <2> QED BY <1>0, <1>1 DEF ChainsOK
<1>3. IsList(c, buckets[b], InBucket(nodes)) /\ ToSet(c) = Hashed(nodes, DOMAIN nodes, capacity, b)
  BY <1>2 DEF IsChain
<1>4. s = c
  <2>1. IsFiniteSet(DOMAIN nodes)
    BY <1>0, OrderIs
  <2>2. DOMAIN InBucket(nodes) = DOMAIN nodes
    BY DEF InBucket
  <2>3. \A i \in DOMAIN c : c[i] \in DOMAIN InBucket(nodes)
    BY <1>3, <2>2 DEF ToSet, Hashed
  <2>4. Follow(buckets[b], InBucket(nodes)) = c
    <3> HIDE DEF b
    <3> QED BY <1>3, <2>1, <2>2, <2>3, FollowIs DEF TableAssumption
  <2> QED BY <2>4 DEF Chain, InBucket
<1>5. Lookup(k) = IF I # {} THEN Min(I) ELSE 0
  BY DEF Lookup, SelectInSeq
<1>6. I # {} => Min(I) \in I
  <2>1. I \in SUBSET Nat
    OBVIOUS
  <2> HIDE DEF I
  <2> QED BY <2>1, LeastIn
<1>7. /\ Len(s) \in Nat /\ DOMAIN s = 1 .. Len(s)
      /\ \A i \in 1 .. Len(s) : s[i] \in DOMAIN nodes
  <2> HIDE DEF s
  <2>1. Len(s) \in Nat /\ DOMAIN s = 1 .. Len(s) /\ \A i \in 1 .. Len(s) : s[i] \in ToSet(s)
    BY <1>3, <1>4, ListFacts
  <2> QED BY <1>3, <1>4, <2>1 DEF Hashed
<1>8. CASE I # {}
  <2>1. Lookup(k) \in 1 .. Len(s) /\ nodes[s[Lookup(k)]].key = k
    BY <1>5, <1>6, <1>8
  <2>2. Lookup(k) # 0
    <3> HIDE DEF s
    <3> QED BY <1>7, <2>1
  <2>3. NodeOf(k) = s[Lookup(k)]
    BY DEF NodeOf
  <2> HIDE DEF s, b
  <2> QED BY <1>1, <1>2, <1>4, <1>7, <2>1, <2>2, <2>3 DEF b, s
<1>9. CASE I = {}
  <2>1. Lookup(k) = 0
    BY <1>5, <1>9
  <2>2. ASSUME NEW n \in DOMAIN nodes, nodes[n].key = k PROVE FALSE
    <3>1. n \in Hashed(nodes, DOMAIN nodes, capacity, b)
      BY <2>2 DEF Hashed, BucketOf
    <3>2. n \in ToSet(s)
      <4> HIDE DEF s, b
      <4> QED BY <1>3, <1>4, <3>1
    <3>3. PICK i \in 1 .. Len(s) : n = s[i]
      <4> HIDE DEF s
      <4> QED BY <1>7, <3>2 DEF ToSet
    <3>4. i \in I
      BY <2>2, <3>3
    <3> QED BY <1>9, <3>4
  <2> HIDE DEF s, b
  <2> QED BY <1>1, <1>2, <1>4, <2>1, <2>2 DEF b, s
<1> QED BY <1>8, <1>9

\* What the table has of a key is what the map has of it.
LEMMA KeyFacts ==
    ASSUME NEW order, TableOK(order), TableAssumption, NEW k \in Keys
    PROVE  /\ Lookup(k) = 0 => Map!Place(k) = 0 /\ Map!Value(k) = None
           /\ Lookup(k) # 0 =>
                /\ Map!Place(k) \in 1 .. Len(order) /\ Map!Place(k) # 0
                /\ order[Map!Place(k)] = NodeOf(k)
                /\ Map!Value(k) = nodes[NodeOf(k)].value
<1>1. /\ \/ Map!Place(k) = 0 /\ \A n \in DOMAIN nodes : nodes[n].key # k
         \/ /\ Map!Place(k) \in 1 .. Len(order)
            /\ nodes[order[Map!Place(k)]].key = k
  BY KeyPlaces
<1>2. \/ Lookup(k) = 0 /\ \A n \in DOMAIN nodes : nodes[n].key # k
      \/ /\ Lookup(k) # 0
         /\ NodeOf(k) \in DOMAIN nodes /\ nodes[NodeOf(k)].key = k
  BY ChainHas
<1>3. /\ order \in Seq(DOMAIN nodes) /\ rows = RowsBy(order, nodes)
      /\ \A m, n \in DOMAIN nodes : nodes[m].key = nodes[n].key => m = n
  <2>1. NodesOK(nodes) /\ OrderOK(nodes, order, head, tail)
    BY DEF TableOK
  <2>2. order \in Seq(DOMAIN nodes)
    BY <2>1, OrderIs
  <2> QED BY <2>1, <2>2, RowsAre DEF NodesOK
<1>4. Len(order) \in Nat /\ \A i \in 1 .. Len(order) : order[i] \in DOMAIN nodes /\ i # 0
  BY <1>3
<1>5. \A i \in 1 .. Len(order) : rows[i].value = nodes[order[i]].value
  BY <1>3 DEF RowsBy
<1>6. Map!Value(k) = IF Map!Place(k) = 0 THEN None ELSE rows[Map!Place(k)].value
  BY DEF Map!Value
<1>7. CASE Lookup(k) = 0
  <2>1. Map!Place(k) = 0
    BY <1>1, <1>2, <1>4, <1>7
  <2> QED BY <1>6, <1>7, <2>1
<1>8. CASE Lookup(k) # 0
  <2>1. /\ Map!Place(k) \in 1 .. Len(order) /\ Map!Place(k) # 0
        /\ nodes[order[Map!Place(k)]].key = k
    BY <1>1, <1>2, <1>4, <1>8
  <2>2. order[Map!Place(k)] = NodeOf(k)
    BY <1>2, <1>3, <1>4, <1>8, <2>1
  <2> QED BY <1>5, <1>6, <1>8, <2>1, <2>2
<1> QED BY <1>7, <1>8

-----------------------------------------------------------------------------
(* Each operation, for the list of the nodes in order.                       *)
TableStep(order) ==
    /\ TableOK(order)' /\ Map!MapNext
    /\ size' = Len(rows') /\ (capacity' > 1 => size' < capacity')

LEMMA RowsLength ==
    ASSUME NEW order, TableOK(order)', TableAssumption
    PROVE  size' = Len(rows') /\ (capacity' > 1 => size' < capacity')
<1>1. size' = Len(order) /\ (capacity' > 1 => size' < capacity') /\ DOMAIN order = 1 .. Len(order)
      /\ Len(order) \in Nat
  <2>1. OrderOK(nodes', order, head', tail') /\ SizeOK(capacity', size', order)
    BY DEF TableOK
  <2>2. Len(order) \in Nat /\ DOMAIN order = 1 .. Len(order)
    BY <2>1, ListFacts DEF OrderOK
  <2> QED BY <2>1, <2>2 DEF SizeOK
<1>2. rows' = RowsBy(order, nodes')
  BY RowsNext
<1>3. Len(rows') = Len(order)
  BY <1>1, <1>2 DEF RowsBy
<1> QED BY <1>1, <1>3

LEMMA TableGets ==
    ASSUME NEW order, TableOK(order), TableAssumption, NEW k \in Keys, get(k)
    PROVE  TableStep(order)
<1>1. UNCHANGED <<capacity, size, buckets, head, tail, nodes>>
  BY DEF get
<1>2. TableOK(order)'
  BY <1>1 DEF TableOK
<1>3. rows' = rows
  BY <1>2, <1>1, RowsAre, RowsNext
<1>4. answer' = Map!Value(k)
  BY KeyFacts DEF get
<1>5. Map!MapNext
  BY <1>3, <1>4 DEF Map!MapNext, Map!MapGet
<1> QED BY <1>2, <1>5, RowsLength DEF TableStep

\* A value is changed: nothing else is.
ValueSet(new, ns, n, v) ==
    \A m \in DOMAIN ns :
      new[m].key = ns[m].key /\ new[m].value = IF m = n THEN v ELSE ns[m].value

Valued(ns, n, v) == [ns EXCEPT ![n].value = v]

LEMMA ValueChanged ==
    ASSUME NEW ns, NodesOK(ns), NEW n \in DOMAIN ns, NEW v \in Values,
           NEW new, new = Valued(ns, n, v)
    PROVE  /\ NodesOK(new) /\ DOMAIN new = DOMAIN ns
           /\ InBucket(new) = InBucket(ns) /\ Later(new) = Later(ns) /\ Earlier(new) = Earlier(ns)
           /\ ValueSet(new, ns, n, v)
<1> DEFINE u == [ns[n] EXCEPT !.value = v]
<1>1. ns \in [DOMAIN ns -> HashNodes] /\ DOMAIN ns \subseteq NodeNo
      /\ \A m, l \in DOMAIN ns : ns[m].key = ns[l].key => m = l
  BY DEF NodesOK
<1>2. new = [ns EXCEPT ![n] = u]
  BY DEF Valued
<1>3. /\ u \in HashNodes /\ u.value = v /\ u.key = ns[n].key
      /\ u.next_in_bucket = ns[n].next_in_bucket
      /\ u.prev_in_order = ns[n].prev_in_order /\ u.next_in_order = ns[n].next_in_order
  <2>1. ns[n] \in HashNodes
    BY <1>1
  <2> QED BY <2>1 DEF HashNodes
<1>4. /\ DOMAIN new = DOMAIN ns /\ new[n] = u /\ \A m \in DOMAIN ns : m # n => new[m] = ns[m]
  <2> HIDE DEF u
  <2> QED BY <1>2
<1>5. new \in [DOMAIN ns -> HashNodes]
  <2> HIDE DEF u
  <2> QED BY <1>1, <1>2, <1>3
<1>6. \A m \in DOMAIN ns :
        /\ new[m].key = ns[m].key /\ new[m].value = IF m = n THEN v ELSE ns[m].value
        /\ new[m].next_in_bucket = ns[m].next_in_bucket
        /\ new[m].prev_in_order = ns[m].prev_in_order /\ new[m].next_in_order = ns[m].next_in_order
  <2> HIDE DEF u
  <2> QED BY <1>3, <1>4
<1>7. NodesOK(new)
  BY <1>1, <1>4, <1>5, <1>6 DEF NodesOK
<1>8. InBucket(new) = InBucket(ns) /\ Later(new) = Later(ns) /\ Earlier(new) = Earlier(ns)
  BY <1>4, <1>6 DEF InBucket, Later, Earlier
<1> QED BY <1>4, <1>6, <1>7, <1>8 DEF ValueSet

LEMMA TablePutsOld ==
    ASSUME NEW order, TableOK(order), TableAssumption, NEW k \in Keys, NEW v \in Values,
           Lookup(k) # 0, answer' = nodes[NodeOf(k)].value,
           nodes' = Valued(nodes, NodeOf(k), v),
           UNCHANGED <<capacity, size, buckets, head, tail>>
    PROVE  TableStep(order)
<1> DEFINE n == NodeOf(k)
           i == Map!Place(k)
<1>1. /\ NodesOK(nodes) /\ OrderOK(nodes, order, head, tail)
      /\ ChainsOK(nodes, buckets, capacity, DOMAIN nodes) /\ SizeOK(capacity, size, order)
  BY DEF TableOK
<1>2. n \in DOMAIN nodes
  BY ChainHas
<1>3. /\ NodesOK(nodes') /\ DOMAIN nodes' = DOMAIN nodes
      /\ InBucket(nodes') = InBucket(nodes) /\ Later(nodes') = Later(nodes)
      /\ Earlier(nodes') = Earlier(nodes)
      /\ \A m \in DOMAIN nodes :
           nodes'[m].key = nodes[m].key /\ nodes'[m].value = IF m = n THEN v ELSE nodes[m].value
  <2> HIDE DEF n
  <2>1. nodes' = Valued(nodes, n, v)
    BY DEF n
  <2>2. /\ NodesOK(nodes') /\ DOMAIN nodes' = DOMAIN nodes
        /\ InBucket(nodes') = InBucket(nodes) /\ Later(nodes') = Later(nodes)
        /\ Earlier(nodes') = Earlier(nodes) /\ ValueSet(nodes', nodes, n, v)
    BY <1>1, <1>2, <2>1, ValueChanged
  <2> QED BY <2>2 DEF ValueSet
<1>4. OrderOK(nodes', order, head, tail)
  BY <1>1, <1>3 DEF OrderOK
<1>5. \A b : Hashed(nodes', DOMAIN nodes', capacity, b) = Hashed(nodes, DOMAIN nodes, capacity, b)
  BY <1>3 DEF Hashed
<1>6. ChainsOK(nodes', buckets, capacity, DOMAIN nodes')
  BY <1>1, <1>3, <1>5 DEF ChainsOK, IsChain
<1>7. TableOK(order)'
  BY <1>1, <1>3, <1>4, <1>6 DEF TableOK
<1>8. /\ i \in 1 .. Len(order) /\ i # 0 /\ order[i] = n
      /\ Map!Value(k) = nodes[n].value
  BY KeyFacts
<1>9. rows' = [rows EXCEPT ![i].value = v]
  <2> DEFINE d == Len(order)
  <2>1. order \in Seq(DOMAIN nodes) /\ d \in Nat /\ DOMAIN order = 1 .. d
        /\ \A j, l \in 1 .. d : order[j] = order[l] => j = l
    <3>1. order \in Seq(DOMAIN nodes)
      BY <1>1, OrderIs
    <3>2. d \in Nat /\ DOMAIN order = 1 .. d /\ \A j, l \in 1 .. d : order[j] = order[l] => j = l
      BY <1>1, ListFacts DEF OrderOK
    <3> QED BY <3>1, <3>2
  <2>2. rows = RowsBy(order, nodes) /\ rows' = RowsBy(order, nodes')
    BY <1>7, RowsAre, RowsNext
  <2> DEFINE r == [key |-> nodes[order[i]].key, value |-> nodes[order[i]].value]
             u == [key |-> nodes[order[i]].key, value |-> v]
  <2>3. [r EXCEPT !.value = v] = u /\ rows[i] = r
    BY <1>8, <2>1, <2>2 DEF RowsBy
  <2>4. [rows EXCEPT ![i].value = v] = [rows EXCEPT ![i] = u]
    <3> HIDE DEF i, r, u
    <3> QED BY <2>3
  <2>5. DOMAIN rows = 1 .. d /\ rows' = [j \in 1 .. d |-> rows'[j]]
        /\ rows = [j \in 1 .. d |-> rows[j]]
    <3> HIDE DEF d
    <3> QED BY <2>1, <2>2 DEF RowsBy
  <2>6. ASSUME NEW j \in 1 .. d PROVE rows'[j] = IF j = i THEN u ELSE rows[j]
    <3> HIDE DEF d, i, n
    <3>1. order[j] \in DOMAIN nodes
      BY <2>1
    <3>2. /\ rows'[j] = [key |-> nodes'[order[j]].key, value |-> nodes'[order[j]].value]
          /\ rows[j] = [key |-> nodes[order[j]].key, value |-> nodes[order[j]].value]
      BY <2>1, <2>2 DEF RowsBy
    <3>3. /\ nodes'[order[j]].key = nodes[order[j]].key
          /\ nodes'[order[j]].value = IF order[j] = n THEN v ELSE nodes[order[j]].value
      BY <1>3, <3>1
    <3>4. order[j] = n <=> j = i
      BY <1>8, <2>1
    <3> QED BY <3>2, <3>3, <3>4
  <2>7. [rows EXCEPT ![i] = u] = [j \in 1 .. d |-> IF j = i THEN u ELSE rows[j]]
    <3> HIDE DEF d, i, u
    <3> QED BY <2>5
  <2> HIDE DEF d, i, u
  <2> QED BY <2>4, <2>5, <2>6, <2>7
<1>10. Map!MapNext
  <2>1. Map!MapPut(k, v)
    <3> HIDE DEF i, n
    <3> QED BY <1>8, <1>9 DEF Map!MapPut, i, n
  <2> QED BY <2>1 DEF Map!MapNext
<1> QED BY <1>7, <1>10, RowsLength DEF TableStep

\* The empty table.
LEMMA EmptyTable ==
    ASSUME NEW bks, NEW cap \in Nat \ {0}, bks = [b \in 0 .. (cap - 1) |-> Nil]
    PROVE  /\ NodesOK(<<>>) /\ OrderOK(<<>>, <<>>, Nil, Nil)
           /\ ChainsOK(<<>>, bks, cap, DOMAIN <<>>) /\ SizeOK(cap, 0, <<>>)
<1>1. DOMAIN <<>> = {} /\ <<>> \in Seq(Nat) /\ Len(<<>>) = 0 /\ ToSet(<<>>) = {}
      /\ \A i : At(<<>>, i) = Nil
  BY DEF ToSet, At
<1>2. \A link : IsList(<<>>, Nil, link)
  BY <1>1 DEF IsList
<1>3. NodesOK(<<>>)
  <2>1. <<>> \in [DOMAIN <<>> -> HashNodes]
    OBVIOUS
  <2> QED BY <1>1, <2>1 DEF NodesOK
<1>4. OrderOK(<<>>, <<>>, Nil, Nil)
  BY <1>1, <1>2 DEF OrderOK, IsBack
<1>5. ASSUME NEW b \in 0 .. (cap - 1) PROVE IsChain(<<>>, <<>>, bks, cap, DOMAIN <<>>, b)
  BY <1>1, <1>2 DEF IsChain, Hashed
<1>6. ChainsOK(<<>>, bks, cap, DOMAIN <<>>)
  BY <1>5 DEF ChainsOK
<1> QED BY <1>1, <1>3, <1>4, <1>6 DEF SizeOK

LEMMA TableClears ==
    ASSUME NEW order, TableOK(order), TableAssumption, clear
    PROVE  TableStep(<<>>)
<1>1. capacity \in Nat \ {0} /\ DOMAIN buckets = 0 .. (capacity - 1)
  BY DEF TableOK, SizeOK, ChainsOK
<1>2. TableOK(<<>>)'
  BY <1>1, EmptyTable DEF clear, TableOK
<1>3. rows' = <<>>
  BY <1>2, RowsNext DEF RowsBy
<1>4. Map!MapNext
  BY <1>3 DEF Map!MapNext, Map!MapClear, clear
<1> QED BY <1>2, <1>4, RowsLength DEF TableStep

\* A new node: after the last, and in front of its chain.
NewNode(k, v, first, last) ==
    [key |-> k, value |-> v, next_in_bucket |-> first,
     prev_in_order |-> last, next_in_order |-> Nil]
Onto(node, n) == [node EXCEPT !.next_in_order = n]
AddedTo(ns, n, node, last) ==
    [m \in DOMAIN ns \cup {n} |->
       IF m = n THEN node ELSE IF m = last THEN Onto(ns[m], n) ELSE ns[m]]

\* What an added node leaves of the others.
OnlyAdded(new, ns) ==
    \A m \in DOMAIN ns :
      /\ new[m].key = ns[m].key /\ new[m].value = ns[m].value
      /\ new[m].next_in_bucket = ns[m].next_in_bucket
      /\ new[m].prev_in_order = ns[m].prev_in_order

Lacks(ns, k) == \A m \in DOMAIN ns : ns[m].key # k

LEMMA AddedFacts ==
    ASSUME NEW ns, NodesOK(ns), NEW n \in NodeNo, n \notin DOMAIN ns, Nil \notin Nat,
           NEW order, NEW first, NEW last, OrderOK(ns, order, first, last),
           NEW k \in Keys, Lacks(ns, k), NEW v \in Values,
           NEW h \in NodeNo \cup {Nil}, NEW new, new = AddedTo(ns, n, NewNode(k, v, h, last), last)
    PROVE  /\ NodesOK(new) /\ DOMAIN new = DOMAIN ns \cup {n} /\ n \in Nat
           /\ OrderOK(new, Append(order, n), IF last = Nil THEN n ELSE first, n)
           /\ OnlyAdded(new, ns)
           /\ new[n].key = k /\ new[n].value = v /\ new[n].next_in_bucket = h
<1> DEFINE D == DOMAIN ns
           node == NewNode(k, v, h, last)
           d == Len(order)
<1>1. /\ ns \in [D -> HashNodes] /\ D \subseteq NodeNo /\ n \in Nat
      /\ \A m, l \in D : ns[m].key = ns[l].key => m = l
      /\ \A m \in D : m \in Nat
  BY DEF NodesOK, NodeNo
<1>2. /\ IsList(order, first, Later(ns)) /\ ToSet(order) = D
      /\ last = At(order, d) /\ IsBack(order, Earlier(ns))
  BY DEF OrderOK
<1>3. /\ order \in Seq(Nat) /\ d \in Nat /\ DOMAIN order = 1 .. d
      /\ \A i \in 1 .. d : order[i] \in D
  BY <1>2, ListFacts
<1>4. last \in D \cup {Nil} /\ last \in NodeNo \cup {Nil} /\ last # n /\ n # Nil
  <2>1. last \in D \cup {Nil}
    <3> HIDE DEF D, d
    <3> QED BY <1>2, <1>3 DEF At
  <2> QED BY <1>1, <2>1
<1>5. /\ node \in HashNodes /\ node.key = k /\ node.value = v /\ node.next_in_bucket = h
      /\ node.next_in_order = Nil /\ node.prev_in_order = last
  BY <1>4 DEF NewNode, HashNodes
<1>6. ASSUME NEW m \in D
      PROVE  /\ Onto(ns[m], n) \in HashNodes
             /\ Onto(ns[m], n).key = ns[m].key /\ Onto(ns[m], n).value = ns[m].value
             /\ Onto(ns[m], n).next_in_bucket = ns[m].next_in_bucket
             /\ Onto(ns[m], n).prev_in_order = ns[m].prev_in_order
             /\ Onto(ns[m], n).next_in_order = n
  <2>1. ns[m] \in HashNodes
    BY <1>1
  <2> QED BY <2>1 DEF Onto, HashNodes
<1>7. /\ DOMAIN new = D \cup {n} /\ new[n] = node
      /\ \A m \in D : new[m] = IF m = last THEN Onto(ns[m], n) ELSE ns[m]
      /\ new = [m \in D \cup {n} |-> new[m]]
  <2> HIDE DEF node, D
  <2> QED BY <1>1, <1>4 DEF AddedTo, node, D
<1>8. \A m \in D : new[m] \in HashNodes
  <2> HIDE DEF node, D
  <2> QED BY <1>1, <1>6, <1>7
<1>9. \A m \in D :
        /\ new[m].key = ns[m].key /\ new[m].value = ns[m].value
        /\ new[m].next_in_bucket = ns[m].next_in_bucket
        /\ new[m].prev_in_order = ns[m].prev_in_order
        /\ new[m].next_in_order = IF m = last THEN n ELSE ns[m].next_in_order
  <2> HIDE DEF node, D
  <2> QED BY <1>6, <1>7
<1>10. NodesOK(new)
  <2>1. new \in [DOMAIN new -> HashNodes]
    <3> HIDE DEF node, D
    <3> QED BY <1>5, <1>7, <1>8
  <2>2. \A m, l \in DOMAIN new : new[m].key = new[l].key => m = l
    <3>1. new[n].key = k /\ \A m \in D : new[m].key = ns[m].key /\ ns[m].key # k
      BY <1>5, <1>7, <1>9 DEF Lacks
    <3> HIDE DEF node, D
    <3> QED BY <1>1, <1>7, <3>1
  <2> HIDE DEF node
  <2> QED BY <1>1, <1>7, <2>1, <2>2 DEF NodesOK
<1>11. /\ IsList(Append(order, n), IF last = Nil THEN n ELSE first, Later(new))
       /\ ToSet(Append(order, n)) = D \cup {n}
       /\ At(Append(order, n), Len(Append(order, n))) = n
       /\ \A i \in DOMAIN Append(order, n) : At(Append(order, n), i - 1) = At(order, i - 1)
  <2>1. Later(new)[n] = Nil
    BY <1>5, <1>7 DEF Later
  <2>2. \A m \in ToSet(order) : Later(new)[m] = IF m = At(order, Len(order)) THEN n ELSE Later(ns)[m]
    <3>1. \A m \in D : Later(new)[m] = new[m].next_in_order /\ Later(ns)[m] = ns[m].next_in_order
      BY <1>7 DEF Later
    <3> HIDE DEF node
    <3> QED BY <1>2, <1>9, <3>1
  <2>3. n \notin ToSet(order)
    BY <1>2
  <2>4. /\ IsList(Append(order, n), IF At(order, Len(order)) = Nil THEN n ELSE first, Later(new))
        /\ ToSet(Append(order, n)) = ToSet(order) \cup {n}
        /\ At(Append(order, n), Len(Append(order, n))) = n
    BY <1>1, <1>2, <2>1, <2>2, <2>3, ListAfter
  <2>5. \A i \in DOMAIN Append(order, n) : At(Append(order, n), i - 1) = At(order, i - 1)
    BY <1>1, <1>2, <2>1, <2>2, <2>3, ListAfter
  <2> QED BY <1>2, <2>4, <2>5
<1>12. IsBack(Append(order, n), Earlier(new))
  <2> DEFINE t == Append(order, n)
  <2>1. /\ DOMAIN t = 1 .. (d + 1) /\ t[d + 1] = n
        /\ \A i \in 1 .. d : t[i] = order[i]
        /\ \A i \in 1 .. (d + 1) : i = d + 1 \/ i \in 1 .. d
        /\ d + 1 - 1 = d
    BY <1>3
  <2>2. /\ \A m \in D : Earlier(new)[m] = Earlier(ns)[m]
        /\ Earlier(new)[n] = last
    BY <1>5, <1>7, <1>9 DEF Earlier
  <2>3. \A i \in 1 .. (d + 1) : Earlier(new)[t[i]] = At(order, i - 1)
    <3>1. \A i \in 1 .. d : Earlier(ns)[order[i]] = At(order, i - 1)
      BY <1>2, <1>3 DEF IsBack
    <3> HIDE DEF t, d, D, node
    <3> QED BY <1>2, <1>3, <2>1, <2>2, <3>1
  <2> HIDE DEF t, d
  <2> QED BY <1>11, <2>1, <2>3 DEF IsBack, t
<1>13. OrderOK(new, Append(order, n), IF last = Nil THEN n ELSE first, n)
  <2> HIDE DEF D, d, node
  <2> QED BY <1>7, <1>11, <1>12 DEF OrderOK
<1>14. OnlyAdded(new, ns)
  BY <1>9 DEF OnlyAdded
<1> HIDE DEF node, d
<1> QED BY <1>1, <1>5, <1>7, <1>10, <1>13, <1>14

\* There is a node that is not in use, as there are more than keys.
LEMMA FreeIsFree ==
    ASSUME NodesOK(nodes), TableAssumption, NEW k \in Keys,
           \A m \in DOMAIN nodes : nodes[m].key # k
    PROVE  Free \in NodeNo /\ Free \notin DOMAIN nodes
<1> DEFINE c == Cardinality(Keys)
           D == DOMAIN nodes
           I == {n \in 1 .. (c + 1) : n \notin D}
           f == [m \in D |-> nodes[m].key]
<1>1. /\ nodes \in [D -> HashNodes] /\ \A m, l \in D : nodes[m].key = nodes[l].key => m = l
      /\ IsFiniteSet(Keys)
  BY DEF NodesOK, TableAssumption
<1>2. f \in Injection(D, Keys)
  <2>1. \A m \in D : nodes[m].key \in Keys
    BY <1>1 DEF HashNodes
  <2> HIDE DEF D
  <2> QED BY <1>1, <2>1 DEF Injection, IsInjective
<1>3. IsFiniteSet(D) /\ Cardinality(D) <= c
  <2> HIDE DEF f, D
  <2> QED BY <1>1, <1>2, FS_Injection
<1>4. c \in Nat /\ Cardinality(D) \in Nat
  BY <1>1, <1>3, FS_CardinalityType
<1>5. IsFiniteSet(1 .. (c + 1)) /\ Cardinality(1 .. (c + 1)) = c + 1
  <2> DEFINE e == c + 1
  <2>1. e \in Nat
    BY <1>4
  <2>2. IsFiniteSet(1 .. e) /\ Cardinality(1 .. e) = e
    <3> HIDE DEF e
    <3> QED BY <2>1, IntervalSize
  <2> QED BY <2>2
<1>6. I # {}
  <2> SUFFICES ASSUME I = {} PROVE FALSE
    OBVIOUS
  <2>1. 1 .. (c + 1) \in SUBSET D
    OBVIOUS
  <2>2. Cardinality(1 .. (c + 1)) <= Cardinality(D)
    <3> HIDE DEF D, c
    <3> QED BY <1>3, <2>1, FS_Subset
  <2> DEFINE e == Cardinality(D)
  <2>3. c + 1 <= e
    BY <1>5, <2>2
  <2>4. e <= c /\ e \in Nat
    BY <1>3, <1>4
  <2> HIDE DEF e, c
  <2> QED BY <1>4, <2>3, <2>4
<1>7. Min(I) \in I
  <2>1. I \in SUBSET Nat
    <3> HIDE DEF c
    <3> QED BY <1>4
  <2> HIDE DEF I
  <2> QED BY <1>6, <2>1, LeastIn
<1>8. Free = Min(I)
  BY DEF Free
<1> HIDE DEF c
<1> QED BY <1>7, <1>8 DEF NodeNo, c

\* A new last row.
LEMMA RowAdded ==
    ASSUME NEW ns, NEW order \in Seq(DOMAIN ns), NEW n, n \notin DOMAIN ns, NEW new,
           OnlyAdded(new, ns)
    PROVE  RowsBy(Append(order, n), new) =
             Append(RowsBy(order, ns), [key |-> new[n].key, value |-> new[n].value])
<1> DEFINE d == Len(order)
           t == Append(order, n)
           row == [key |-> new[n].key, value |-> new[n].value]
           s == RowsBy(order, ns)
<1>1. /\ d \in Nat /\ DOMAIN order = 1 .. d /\ \A i \in 1 .. d : order[i] \in DOMAIN ns
      /\ DOMAIN t = 1 .. (d + 1) /\ t[d + 1] = n /\ \A i \in 1 .. d : t[i] = order[i]
      /\ \A i \in 1 .. (d + 1) : i = d + 1 \/ (i \in 1 .. d /\ i # d + 1)
  OBVIOUS
<1>2. /\ s = [i \in 1 .. d |-> s[i]]
      /\ \A i \in 1 .. d : s[i] = [key |-> ns[order[i]].key, value |-> ns[order[i]].value]
  <2> HIDE DEF d
  <2> QED BY <1>1 DEF RowsBy
<1>3. s \in Seq({s[i] : i \in 1 .. d}) /\ Len(s) = d
  <2> DEFINE X == {s[i] : i \in 1 .. d}
  <2>1. \A i \in 1 .. d : s[i] \in X
    OBVIOUS
  <2>2. [i \in 1 .. d |-> s[i]] \in Seq(X) /\ Len([i \in 1 .. d |-> s[i]]) = d
    <3> HIDE DEF X, d, s
    <3> QED BY <1>1, <2>1
  <2> HIDE DEF s, d
  <2> QED BY <1>2, <2>2
<1>4. Append(s, row) = [i \in 1 .. (d + 1) |-> IF i = d + 1 THEN row ELSE s[i]]
  <2> DEFINE X == {s[i] : i \in 1 .. d} \cup {row}
             q == Append(s, row)
  <2>1. s \in Seq(X) /\ row \in X
    <3> HIDE DEF s, d, row
    <3> QED BY <1>3
  <2> HIDE DEF X, s, row
  <2>2. /\ q \in Seq(X) /\ Len(q) = d + 1
        /\ \A i \in 1 .. d : q[i] = s[i]
        /\ q[d + 1] = row
    <3> HIDE DEF d
    <3> QED BY <1>3, <2>1, AppendProperties
  <2>3. q = [i \in 1 .. (d + 1) |-> q[i]]
    <3> HIDE DEF d, q
    <3> QED BY <2>2
  <2>4. \A i \in 1 .. (d + 1) : q[i] = IF i = d + 1 THEN row ELSE s[i]
    <3> HIDE DEF d, q
    <3> QED BY <1>1, <2>2
  <2> HIDE DEF d, q
  <2>5. q = [i \in 1 .. (d + 1) |-> IF i = d + 1 THEN row ELSE s[i]]
    BY <2>3, <2>4
  <2> QED BY <2>5 DEF q
<1>5. RowsBy(t, new) = [i \in 1 .. (d + 1) |-> [key |-> new[t[i]].key, value |-> new[t[i]].value]]
  <2> HIDE DEF t, d
  <2> QED BY <1>1 DEF RowsBy
<1>6. ASSUME NEW i \in 1 .. (d + 1)
      PROVE  [key |-> new[t[i]].key, value |-> new[t[i]].value] = IF i = d + 1 THEN row ELSE s[i]
  <2>1. CASE i = d + 1
    <3>1. t[i] = n
      <4> HIDE DEF t, d
      <4> QED BY <1>1, <2>1
    <3> HIDE DEF t, d
    <3> QED BY <2>1, <3>1
  <2>2. CASE i # d + 1
    <3>1. i \in 1 .. d /\ t[i] = order[i] /\ order[i] \in DOMAIN ns
      <4> HIDE DEF t, d
      <4> QED BY <1>1, <2>2
    <3>2. new[order[i]].key = ns[order[i]].key /\ new[order[i]].value = ns[order[i]].value
      BY <3>1 DEF OnlyAdded
    <3> HIDE DEF t, d, s
    <3> QED BY <1>2, <2>2, <3>1, <3>2
  <2> QED BY <2>1, <2>2
<1> HIDE DEF t, d, s, row
<1>7. RowsBy(t, new) = Append(s, row)
  BY <1>4, <1>5, <1>6
<1> QED BY <1>7 DEF t, s, row

\* What a new key does; it is put as the code writes it.
Grown == (capacity * 3) \div 2
PutNew(k, v) ==
    LET n == Free
        added == AddedTo(nodes, n, NewNode(k, v, buckets[BucketOf(k)], tail), tail)
        first == IF tail = Nil THEN n ELSE head
        grown == Rehashed(added, first, Grown)
    IN  /\ head' = first /\ tail' = n /\ size' = size + 1
        /\ IF 5 * size' >= 4 * capacity
           THEN /\ capacity' = Grown
                /\ buckets' = grown.buckets /\ nodes' = grown.nodes
           ELSE /\ buckets' = [buckets EXCEPT ![BucketOf(k)] = n]
                /\ nodes' = added /\ UNCHANGED capacity

LEMMA PutIs ==
    ASSUME NEW k, NEW v, put(k, v)
    PROVE  \/ /\ Lookup(k) # 0 /\ answer' = nodes[NodeOf(k)].value
              /\ nodes' = Valued(nodes, NodeOf(k), v)
              /\ UNCHANGED <<capacity, size, buckets, head, tail>>
           \/ Lookup(k) = 0 /\ answer' = None /\ PutNew(k, v)
BY Zenon DEF put, PutNew, Valued, AddedTo, NewNode, Onto, Grown

LEMMA TablePutsNew ==
    ASSUME NEW order, TableOK(order), TableAssumption, NEW k \in Keys, NEW v \in Values,
           Lookup(k) = 0, answer' = None, PutNew(k, v), NEW n, n = Free
    PROVE  TableStep(Append(order, n))
<1> DEFINE b == BucketOf(k)
           added == AddedTo(nodes, n, NewNode(k, v, buckets[b], tail), tail)
           first == IF tail = Nil THEN n ELSE head
           t == Append(order, n)
           D == DOMAIN nodes
<1>1. /\ NodesOK(nodes) /\ OrderOK(nodes, order, head, tail)
      /\ ChainsOK(nodes, buckets, capacity, DOMAIN nodes) /\ SizeOK(capacity, size, order)
      /\ Nil \notin Nat /\ Hash \in [Keys -> Int]
  BY DEF TableOK, TableAssumption
<1>2. b \in 0 .. (capacity - 1) /\ \A m \in DOMAIN nodes : nodes[m].key # k
  BY ChainHas
<1>3. n \in NodeNo /\ n \notin DOMAIN nodes
  BY <1>1, <1>2, FreeIsFree
<1>4. /\ buckets \in [0 .. (capacity - 1) -> NodeNo \cup {Nil}]
      /\ buckets[b] \in NodeNo \cup {Nil}
  <2> HIDE DEF b
  <2> QED BY <1>1, <1>2 DEF ChainsOK
<1>5. /\ NodesOK(added) /\ DOMAIN added = D \cup {n} /\ n \in Nat
      /\ OrderOK(added, t, first, n) /\ OnlyAdded(added, nodes)
      /\ added[n].key = k /\ added[n].value = v /\ added[n].next_in_bucket = buckets[b]
  <2> DEFINE h == buckets[b]
  <2> HIDE DEF b, h
  <2>1. added = AddedTo(nodes, n, NewNode(k, v, h, tail), tail)
    BY DEF h
  <2> HIDE DEF added
  <2>2. /\ NodesOK(added) /\ DOMAIN added = DOMAIN nodes \cup {n} /\ n \in Nat
        /\ OrderOK(added, Append(order, n), IF tail = Nil THEN n ELSE head, n)
        /\ OnlyAdded(added, nodes)
        /\ added[n].key = k /\ added[n].value = v /\ added[n].next_in_bucket = h
    <3>1. h \in NodeNo \cup {Nil}
      BY <1>4 DEF h
    <3>2. Lacks(nodes, k)
      BY <1>2 DEF Lacks
    <3> QED BY <1>1, <1>3, <2>1, <3>1, <3>2, AddedFacts
  <2> QED BY <2>2 DEF h
<1>6. /\ Len(order) \in Nat /\ size = Len(order) /\ Len(t) = Len(order) + 1
      /\ capacity \in Nat \ {0} /\ (capacity > 1 => size < capacity)
      /\ order \in Seq(DOMAIN nodes)
  <2>1. order \in Seq(DOMAIN nodes)
    BY <1>1, OrderIs
  <2> QED BY <1>1, <2>1 DEF SizeOK
<1>7. head' = first /\ tail' = n /\ size' = size + 1
  BY DEF PutNew
<1>8. ASSUME 5 * size' >= 4 * capacity
      PROVE  /\ TableOK(t)'
             /\ \A m \in DOMAIN nodes : nodes'[m].key = added[m].key /\ nodes'[m].value = added[m].value
             /\ nodes'[n].key = k /\ nodes'[n].value = v
  <2> DEFINE grown == Rehashed(added, first, Grown)
  <2>1. capacity' = Grown /\ buckets' = grown.buckets /\ nodes' = grown.nodes
    BY <1>8 DEF PutNew
  <2>2. Grown \in Nat \ {0} /\ (Grown > 1 => size' < Grown)
    <3>1. \A c \in Nat : c > 0 => (c * 3) \div 2 \in Nat /\ (c * 3) \div 2 > 0
      OBVIOUS
    <3>2. \A c \in Nat : c > 1 => (c * 3) \div 2 >= c + 1
      OBVIOUS
    <3>3. capacity = 1 => (capacity * 3) \div 2 = 1
      OBVIOUS
    <3>4. size' = size + 1
      BY <1>7
    <3> QED BY <1>6, <3>1, <3>2, <3>3, <3>4 DEF Grown
  <2>3. SameButChains(grown.nodes, added) /\ ChainsOK(grown.nodes, grown.buckets, Grown, DOMAIN added)
    <3>1. IsList(t, first, Later(added)) /\ ToSet(t) = DOMAIN added
      BY <1>5 DEF OrderOK
    <3> HIDE DEF added, first, t
    <3> QED BY <1>1, <1>5, <2>2, <3>1, RehashedFacts
  <2>4. /\ DOMAIN nodes' = DOMAIN added /\ NodesOK(nodes')
        /\ \A m \in DOMAIN added :
             /\ nodes'[m].key = added[m].key /\ nodes'[m].value = added[m].value
             /\ nodes'[m].prev_in_order = added[m].prev_in_order
             /\ nodes'[m].next_in_order = added[m].next_in_order
    <3> HIDE DEF grown, added
    <3> QED BY <2>1, <2>3 DEF SameButChains
  <2>5. Later(nodes') = Later(added) /\ Earlier(nodes') = Earlier(added)
    <3> HIDE DEF added
    <3> QED BY <2>4 DEF Later, Earlier
  <2>6. OrderOK(nodes', t, head', tail')
    <3> HIDE DEF added, first, t
    <3> QED BY <1>5, <1>7, <2>4, <2>5 DEF OrderOK
  <2>7. ChainsOK(nodes', buckets', capacity', DOMAIN nodes')
    <3> HIDE DEF added, grown
    <3> QED BY <2>1, <2>3, <2>4
  <2>8. SizeOK(capacity', size', t)
    <3> HIDE DEF t
    <3> QED BY <1>6, <1>7, <2>1, <2>2 DEF SizeOK
  <2>9. TableOK(t)'
    <3> HIDE DEF t
    <3> QED BY <2>4, <2>6, <2>7, <2>8 DEF TableOK
  <2>10. /\ \A m \in DOMAIN nodes : nodes'[m].key = added[m].key /\ nodes'[m].value = added[m].value
         /\ nodes'[n].key = k /\ nodes'[n].value = v
    <3> HIDE DEF added, b
    <3> QED BY <1>5, <2>4
  <2> HIDE DEF t, added, b
  <2> QED BY <2>9, <2>10
<1>9. ASSUME ~(5 * size' >= 4 * capacity)
      PROVE  /\ TableOK(t)'
             /\ \A m \in DOMAIN nodes : nodes'[m].key = added[m].key /\ nodes'[m].value = added[m].value
             /\ nodes'[n].key = k /\ nodes'[n].value = v
  <2>1. /\ buckets' = [buckets EXCEPT ![b] = n] /\ nodes' = added /\ capacity' = capacity
    BY <1>9 DEF PutNew
  <2>2. IsFront(buckets, buckets', n, b, 0 .. (capacity - 1))
    <3> HIDE DEF added, b
    <3> QED BY <1>2, <1>3, <1>4, <2>1 DEF IsFront
  <2>3. ChainsOK(added, buckets', capacity, D \cup {n})
    <3>1. SameChains(added, nodes, D)
      BY <1>5 DEF SameChains, OnlyAdded
    <3>2. Hash[added[n].key] % capacity = b
      BY <1>5 DEF BucketOf
    <3>3. n \in DOMAIN added /\ D \subseteq DOMAIN added /\ D \in SUBSET DOMAIN nodes
      BY <1>5
    <3>4. ChainsOK(nodes, buckets, capacity, D) /\ n \notin D
      BY <1>1, <1>3
    <3> HIDE DEF added, b, D
    <3> QED BY <1>2, <1>3, <1>5, <2>2, <3>1, <3>2, <3>3, <3>4, ChainFront
  <2>4. ChainsOK(nodes', buckets', capacity', DOMAIN nodes')
    <3> HIDE DEF added
    <3> QED BY <1>5, <2>1, <2>3
  <2>5. SizeOK(capacity', size', t)
    <3>1. capacity' > 1 => size' < capacity'
      BY <1>6, <1>7, <1>9, <2>1
    <3> HIDE DEF t
    <3> QED BY <1>6, <1>7, <2>1, <3>1 DEF SizeOK
  <2>6. OrderOK(nodes', t, head', tail') /\ NodesOK(nodes')
    <3> HIDE DEF added, first, t
    <3> QED BY <1>5, <1>7, <2>1
  <2>7. TableOK(t)'
    <3> HIDE DEF t
    <3> QED BY <2>4, <2>5, <2>6 DEF TableOK
  <2>8. /\ \A m \in DOMAIN nodes : nodes'[m].key = added[m].key /\ nodes'[m].value = added[m].value
        /\ nodes'[n].key = k /\ nodes'[n].value = v
    <3> HIDE DEF added, b
    <3> QED BY <1>5, <2>1
  <2> HIDE DEF t, added, b
  <2> QED BY <2>7, <2>8
<1>10. /\ TableOK(t)'
       /\ \A m \in DOMAIN nodes : nodes'[m].key = added[m].key /\ nodes'[m].value = added[m].value
       /\ nodes'[n].key = k /\ nodes'[n].value = v
  <2> HIDE DEF t, added, b
  <2> QED BY <1>8, <1>9
<1>11. rows' = Append(rows, [key |-> k, value |-> v])
  <2>1. rows = RowsBy(order, nodes) /\ rows' = RowsBy(t, nodes')
    <3> HIDE DEF t
    <3> QED BY <1>10, RowsAre, RowsNext
  <2>2. RowsBy(t, added) = Append(RowsBy(order, nodes), [key |-> added[n].key, value |-> added[n].value])
    <3> HIDE DEF added
    <3> QED BY <1>3, <1>5, <1>6, RowAdded
  <2>3. RowsBy(t, nodes') = RowsBy(t, added)
    <3>1. \A i \in DOMAIN t : t[i] \in D \cup {n}
      <4>1. ToSet(t) = D \cup {n}
        BY <1>5 DEF OrderOK
      <4> HIDE DEF t, D
      <4> QED BY <4>1 DEF ToSet
    <3>2. \A m \in D \cup {n} : nodes'[m].key = added[m].key /\ nodes'[m].value = added[m].value
      <4> HIDE DEF added, b
      <4> QED BY <1>5, <1>10
    <3> HIDE DEF t, D, added
    <3> QED BY <3>1, <3>2 DEF RowsBy
  <2> HIDE DEF t, added, b
  <2> QED BY <1>5, <2>1, <2>2, <2>3
<1>12. Map!MapNext
  <2>1. Map!Place(k) = 0 /\ Map!Value(k) = None
    BY KeyFacts
  <2>2. Map!MapPut(k, v)
    BY <1>11, <2>1 DEF Map!MapPut
  <2> QED BY <2>2 DEF Map!MapNext
<1> HIDE DEF t
<1> QED BY <1>10, <1>12, RowsLength DEF TableStep, t

\* A node is taken out.
Cut(r, m, node, before) ==
    [r EXCEPT
       !.next_in_bucket = IF m = before THEN node.next_in_bucket ELSE @,
       !.next_in_order = IF m = node.prev_in_order THEN node.next_in_order ELSE @,
       !.prev_in_order = IF m = node.next_in_order THEN node.prev_in_order ELSE @]
CutFrom(ns, n, before) == [m \in DOMAIN ns \ {n} |-> Cut(ns[m], m, ns[n], before)]

IsCut(new, ns, n, before) ==
    \A m \in DOMAIN ns \ {n} :
      /\ new[m].key = ns[m].key /\ new[m].value = ns[m].value
      /\ new[m].next_in_bucket =
           IF m = before THEN ns[n].next_in_bucket ELSE ns[m].next_in_bucket
      /\ new[m].next_in_order =
           IF m = ns[n].prev_in_order THEN ns[n].next_in_order ELSE ns[m].next_in_order
      /\ new[m].prev_in_order =
           IF m = ns[n].next_in_order THEN ns[n].prev_in_order ELSE ns[m].prev_in_order

LEMMA CutFacts ==
    ASSUME NEW ns, NodesOK(ns), NEW n \in DOMAIN ns, NEW before,
           NEW new, new = CutFrom(ns, n, before)
    PROVE  NodesOK(new) /\ DOMAIN new = DOMAIN ns \ {n} /\ IsCut(new, ns, n, before)
<1> DEFINE D == DOMAIN ns \ {n}
           node == ns[n]
<1>1. /\ ns \in [DOMAIN ns -> HashNodes] /\ DOMAIN ns \subseteq NodeNo
      /\ \A m, l \in DOMAIN ns : ns[m].key = ns[l].key => m = l
  BY DEF NodesOK
<1>2. node \in HashNodes
  BY <1>1
<1>3. /\ node.next_in_bucket \in NodeNo \cup {Nil} /\ node.next_in_order \in NodeNo \cup {Nil}
      /\ node.prev_in_order \in NodeNo \cup {Nil}
  <2> HIDE DEF node
  <2> QED BY <1>2 DEF HashNodes
<1>4. ASSUME NEW m \in D
      PROVE  /\ Cut(ns[m], m, node, before) \in HashNodes
             /\ Cut(ns[m], m, node, before).key = ns[m].key
             /\ Cut(ns[m], m, node, before).value = ns[m].value
             /\ Cut(ns[m], m, node, before).next_in_bucket =
                  IF m = before THEN node.next_in_bucket ELSE ns[m].next_in_bucket
             /\ Cut(ns[m], m, node, before).next_in_order =
                  IF m = node.prev_in_order THEN node.next_in_order ELSE ns[m].next_in_order
             /\ Cut(ns[m], m, node, before).prev_in_order =
                  IF m = node.next_in_order THEN node.prev_in_order ELSE ns[m].prev_in_order
  <2> DEFINE r == ns[m]
  <2>1. r \in HashNodes
    BY <1>1
  <2> HIDE DEF node, r
  <2>2. Cut(r, m, node, before) \in HashNodes
    BY <1>3, <2>1 DEF Cut, HashNodes
  <2>3. /\ Cut(r, m, node, before).key = r.key
        /\ Cut(r, m, node, before).value = r.value
        /\ Cut(r, m, node, before).next_in_bucket =
             IF m = before THEN node.next_in_bucket ELSE r.next_in_bucket
        /\ Cut(r, m, node, before).next_in_order =
             IF m = node.prev_in_order THEN node.next_in_order ELSE r.next_in_order
        /\ Cut(r, m, node, before).prev_in_order =
             IF m = node.next_in_order THEN node.prev_in_order ELSE r.prev_in_order
    BY <2>1 DEF Cut, HashNodes
  <2> QED BY <2>2, <2>3 DEF r
<1>5. /\ DOMAIN new = D /\ new = [m \in D |-> new[m]]
      /\ \A m \in D : new[m] = Cut(ns[m], m, node, before)
  BY DEF CutFrom
<1>6. IsCut(new, ns, n, before)
  <2> HIDE DEF node
  <2> QED BY <1>4, <1>5 DEF IsCut, node
<1>7. NodesOK(new)
  <2>1. new \in [D -> HashNodes]
    <3> HIDE DEF D, node
    <3> QED BY <1>4, <1>5
  <2>2. \A m \in D : new[m].key = ns[m].key /\ m \in DOMAIN ns
    BY <1>6 DEF IsCut
  <2> HIDE DEF node
  <2> QED BY <1>1, <1>5, <2>1, <2>2 DEF NodesOK
<1> QED BY <1>5, <1>6, <1>7

\* The list in order without it.
LEMMA CutOrder ==
    ASSUME NEW ns, NEW order, NEW first, NEW last, OrderOK(ns, order, first, last), NodesOK(ns),
           Nil \notin Nat, NEW j \in 1 .. Len(order), NEW n, n = order[j], NEW before,
           NEW new, DOMAIN new = DOMAIN ns \ {n}, IsCut(new, ns, n, before)
    PROVE  OrderOK(new, Drop(order, j),
                   IF ns[n].prev_in_order = Nil THEN ns[n].next_in_order ELSE first,
                   IF ns[n].next_in_order = Nil THEN ns[n].prev_in_order ELSE last)
<1> DEFINE d == Len(order)
           t == Drop(order, j)
<1>1. /\ IsList(order, first, Later(ns)) /\ ToSet(order) = DOMAIN ns
      /\ last = At(order, d) /\ IsBack(order, Earlier(ns))
  BY DEF OrderOK
<1>2. /\ order \in Seq(Nat) /\ d \in Nat /\ DOMAIN order = 1 .. d
      /\ \A i \in 1 .. d : order[i] \in Nat /\ order[i] \in DOMAIN ns
      /\ Later(ns)[order[j]] = At(order, j + 1)
  BY <1>1, ListFacts
<1>3. n \in DOMAIN ns /\ Later(ns)[n] = ns[n].next_in_order /\ Earlier(ns)[n] = ns[n].prev_in_order
  BY <1>2 DEF Later, Earlier
<1>4. ns[n].next_in_order = At(order, j + 1) /\ ns[n].prev_in_order = At(order, j - 1)
  <2>1. Earlier(ns)[order[j]] = At(order, j - 1)
    BY <1>1, <1>2 DEF IsBack
  <2> QED BY <1>2, <1>3, <2>1
<1>5. (ns[n].prev_in_order = Nil <=> j = 1) /\ (ns[n].next_in_order = Nil <=> j = d)
  <2>1. \A i \in 1 .. d : order[i] # Nil
    BY <1>2
  <2>2. j \in 1 .. d
    OBVIOUS
  <2> HIDE DEF d
  <2> QED BY <1>2, <1>4, <2>1, <2>2 DEF At
<1>6. \A m \in ToSet(order) :
        m # order[j] => Later(new)[m] = IF m = At(order, j - 1) THEN Later(ns)[order[j]] ELSE Later(ns)[m]
  <2>1. \A m \in DOMAIN ns \ {n} : Later(new)[m] = new[m].next_in_order /\ Later(ns)[m] = ns[m].next_in_order
    BY DEF Later
  <2> QED BY <1>1, <1>3, <1>4, <2>1 DEF IsCut
<1>7. \A m \in ToSet(order) :
        m # order[j] => Earlier(new)[m] =
          IF m = At(order, j + 1) THEN Earlier(ns)[order[j]] ELSE Earlier(ns)[m]
  <2>1. \A m \in DOMAIN ns \ {n} : Earlier(new)[m] = new[m].prev_in_order /\ Earlier(ns)[m] = ns[m].prev_in_order
    BY DEF Earlier
  <2> QED BY <1>1, <1>3, <1>4, <2>1 DEF IsCut
<1>8. /\ IsList(t, IF j = 1 THEN Later(ns)[order[j]] ELSE first, Later(new))
      /\ ToSet(t) = ToSet(order) \ {order[j]}
      /\ At(t, d - 1) = IF j = d THEN At(order, j - 1) ELSE At(order, d)
  BY <1>1, <1>6, ListWithout
<1>9. IsBack(t, Earlier(new))
  BY <1>1, <1>7, BackWithout
<1>10. Len(t) = d - 1
  <2>1. order \in Seq(Nat)
    BY <1>2
  <2> QED BY <2>1, DropFacts
<1> HIDE DEF d, t
<1> QED BY <1>1, <1>3, <1>4, <1>5, <1>8, <1>9, <1>10 DEF OrderOK, d, t

\* The chains without it.
Headed(bks, b, x) == [bks EXCEPT ![b] = x]

CutPlace(ns, bks, cap, n, b, c, j, before) ==
    /\ NodesOK(ns) /\ ChainsOK(ns, bks, cap, DOMAIN ns)
    /\ n \in DOMAIN ns /\ b \in 0 .. (cap - 1) /\ Hash[ns[n].key] % cap = b
    /\ IsChain(c, ns, bks, cap, DOMAIN ns, b) /\ j \in 1 .. Len(c) /\ n = c[j]
    /\ before = At(c, j - 1)
CutLeaves(new, heads, ns, bks, n, b, before) ==
    /\ DOMAIN new = DOMAIN ns \ {n} /\ IsCut(new, ns, n, before)
    /\ heads = IF before # Nil THEN bks ELSE Headed(bks, b, ns[n].next_in_bucket)

LEMMA CutChains ==
    ASSUME NEW ns, NEW bks, NEW cap, NEW n, NEW b, NEW c, NEW j, NEW before,
           NEW new, NEW heads, Nil \notin Nat,
           CutPlace(ns, bks, cap, n, b, c, j, before), CutLeaves(new, heads, ns, bks, n, b, before)
    PROVE  ChainsOK(new, heads, cap, DOMAIN new)
<1> DEFINE B == 0 .. (cap - 1)
           D == DOMAIN ns
           d == Len(c)
<1>0. /\ NodesOK(ns) /\ ChainsOK(ns, bks, cap, DOMAIN ns)
      /\ n \in DOMAIN ns /\ b \in 0 .. (cap - 1) /\ Hash[ns[n].key] % cap = b
      /\ IsChain(c, ns, bks, cap, DOMAIN ns, b) /\ j \in 1 .. Len(c) /\ n = c[j]
      /\ before = At(c, j - 1) /\ DOMAIN new = DOMAIN ns \ {n} /\ IsCut(new, ns, n, before)
      /\ heads = IF before # Nil THEN bks ELSE Headed(bks, b, ns[n].next_in_bucket)
  BY DEF CutPlace, CutLeaves
<1>1. /\ bks \in [B -> NodeNo \cup {Nil}] /\ ns \in [D -> HashNodes] /\ D \subseteq NodeNo
  BY <1>0 DEF ChainsOK, NodesOK
<1>2. /\ ns[n].next_in_bucket \in NodeNo \cup {Nil}
  <2>1. ns[n] \in HashNodes
    BY <1>0, <1>1
  <2> QED BY <1>0, <2>1 DEF HashNodes
<1>3. IsList(c, bks[b], InBucket(ns)) /\ ToSet(c) = Hashed(ns, D, cap, b)
  BY <1>0 DEF IsChain
<1>4. /\ d \in Nat /\ DOMAIN c = 1 .. d
      /\ \A i \in 1 .. d : c[i] \in Nat /\ c[i] \in ToSet(c)
  BY <1>0, <1>3, ListFacts
<1>5. InBucket(ns)[n] = ns[n].next_in_bucket
  BY <1>0 DEF InBucket
<1>6. /\ heads \in [B -> NodeNo \cup {Nil}]
      /\ heads[b] = IF before # Nil THEN bks[b] ELSE ns[n].next_in_bucket
      /\ \A a \in B : a # b => heads[a] = bks[a]
  <2> HIDE DEF B
  <2>1. b \in B
    BY <1>0 DEF B
  <2>2. heads = IF before # Nil THEN bks ELSE [bks EXCEPT ![b] = ns[n].next_in_bucket]
    BY <1>0 DEF Headed
  <2> QED BY <1>0, <1>1, <1>2, <2>1, <2>2
<1>7. before # Nil <=> j # 1
  <2>1. \A i \in 1 .. d : c[i] # Nil
    BY <1>0, <1>4
  <2>2. j \in 1 .. d
    BY <1>0
  <2> HIDE DEF d
  <2> QED BY <1>0, <1>4, <2>1, <2>2 DEF At
<1>8. \A m \in D \ {n} :
        /\ InBucket(new)[m] = IF m = before THEN ns[n].next_in_bucket ELSE InBucket(ns)[m]
        /\ new[m].key = ns[m].key
  BY <1>0 DEF InBucket, IsCut
<1>9. before = Nil \/ before \in Hashed(ns, D, cap, b)
  <2> HIDE DEF d, D
  <2> QED BY <1>0, <1>3, <1>4 DEF At
<1>10. ASSUME NEW a \in B PROVE \E s : IsChain(s, new, heads, cap, DOMAIN new, a)
  <2>1. CASE a = b
    <3>1. \A m \in ToSet(c) :
            m # c[j] => InBucket(new)[m] = IF m = At(c, j - 1) THEN InBucket(ns)[c[j]] ELSE InBucket(ns)[m]
      <4>1. ToSet(c) \subseteq D
        BY <1>0, <1>3 DEF Hashed
      <4> QED BY <1>0, <1>5, <1>8, <4>1
    <3>2. /\ IsList(Drop(c, j), IF j = 1 THEN InBucket(ns)[c[j]] ELSE bks[b], InBucket(new))
          /\ ToSet(Drop(c, j)) = ToSet(c) \ {c[j]}
      BY <1>0, <1>3, <3>1, ListWithout
    <3>3. heads[a] = IF j = 1 THEN InBucket(ns)[c[j]] ELSE bks[b]
      BY <1>0, <1>5, <1>6, <1>7, <2>1
    <3>4. Hashed(new, DOMAIN new, cap, a) = Hashed(ns, D, cap, b) \ {n}
      BY <1>0, <1>8, <2>1 DEF Hashed
    <3> QED BY <1>0, <1>3, <3>2, <3>3, <3>4 DEF IsChain
  <2>2. CASE a # b
    <3>1. PICK s : IsChain(s, ns, bks, cap, D, a)
      BY <1>0 DEF ChainsOK
    <3>2. IsList(s, bks[a], InBucket(ns)) /\ ToSet(s) = Hashed(ns, D, cap, a)
      BY <1>0, <3>1 DEF IsChain
    <3>3. \A m \in ToSet(s) : (m \in D \ {n} /\ m # before) \/ (before = Nil /\ m \in D \ {n})
      BY <1>0, <1>9, <2>2, <3>2 DEF Hashed
    <3>4. \A m \in ToSet(s) : InBucket(new)[m] = InBucket(ns)[m]
      <4>1. \A m \in D : m # Nil
        BY <1>0, <1>1 DEF NodeNo
      <4> HIDE DEF D
      <4> QED BY <1>0, <1>8, <3>3, <4>1
    <3>5. IsList(s, bks[a], InBucket(new))
      BY <1>0, <3>2, <3>4, ListLike
    <3>6. Hashed(new, DOMAIN new, cap, a) = Hashed(ns, D, cap, a)
      BY <1>0, <1>8, <2>2 DEF Hashed
    <3> QED BY <1>0, <1>6, <2>2, <3>2, <3>5, <3>6 DEF IsChain
  <2> QED BY <1>0, <2>1, <2>2
<1> QED BY <1>0, <1>6, <1>10 DEF ChainsOK

\* The row is left out.
Differ(s) == \A i, l \in 1 .. Len(s) : s[i] = s[l] => i = l
RowLeaves(new, ns, order, j, before) ==
    /\ order \in Seq(DOMAIN ns) /\ j \in 1 .. Len(order) /\ Differ(order)
    /\ IsCut(new, ns, order[j], before)

LEMMA RowDropped ==
    ASSUME NEW ns, NEW order, NEW j, NEW before, NEW new, RowLeaves(new, ns, order, j, before)
    PROVE  RowsBy(Drop(order, j), new) = RemoveAt(RowsBy(order, ns), j)
<1> DEFINE d == Len(order)
           t == Drop(order, j)
           s == RowsBy(order, ns)
           X == {s[i] : i \in 1 .. d}
<1>1. /\ d \in Nat /\ DOMAIN order = 1 .. d /\ \A i \in 1 .. d : order[i] \in DOMAIN ns
      /\ j \in 1 .. d /\ \A i, l \in 1 .. d : order[i] = order[l] => i = l
      /\ order \in Seq(DOMAIN ns) /\ IsCut(new, ns, order[j], before)
  BY DEF Differ, RowLeaves
<1>2. /\ s = [i \in 1 .. d |-> s[i]]
      /\ \A i \in 1 .. d : s[i] = [key |-> ns[order[i]].key, value |-> ns[order[i]].value]
  <2> HIDE DEF d
  <2> QED BY <1>1 DEF RowsBy
<1>3. s \in Seq(X) /\ Len(s) = d
  <2>1. \A i \in 1 .. d : s[i] \in X
    OBVIOUS
  <2>2. [i \in 1 .. d |-> s[i]] \in Seq(X) /\ Len([i \in 1 .. d |-> s[i]]) = d
    <3> HIDE DEF X, d, s
    <3> QED BY <1>1, <2>1
  <2> HIDE DEF s, d, X
  <2> QED BY <1>2, <2>2
<1>4. RemoveAt(s, j) = Drop(s, j)
  <2>1. j \in 1 .. Len(s)
    BY <1>1, <1>3
  <2> HIDE DEF s, X, d
  <2> QED BY <1>3, <2>1, RemoveAtIs
<1>5. Drop(s, j) = [i \in 1 .. (d - 1) |-> IF i < j THEN s[i] ELSE s[i + 1]]
  <2> HIDE DEF s, X, d
  <2> QED BY <1>3 DEF Drop
<1>6. /\ DOMAIN t = 1 .. (d - 1)
      /\ \A i \in 1 .. (d - 1) : i < j => t[i] = order[i] /\ i \in 1 .. d
  <2> QED BY <1>1, DropFacts
<1>7. \A i \in 1 .. (d - 1) : ~(i < j) => t[i] = order[i + 1] /\ i + 1 \in 1 .. d
  BY <1>1, DropFacts
<1>8. RowsBy(t, new) = [i \in 1 .. (d - 1) |-> [key |-> new[t[i]].key, value |-> new[t[i]].value]]
  <2> HIDE DEF t, d
  <2> QED BY <1>6 DEF RowsBy
<1>9. ASSUME NEW i \in 1 .. (d - 1)
      PROVE  [key |-> new[t[i]].key, value |-> new[t[i]].value] = IF i < j THEN s[i] ELSE s[i + 1]
  <2> DEFINE l == IF i < j THEN i ELSE i + 1
  <2>1. l \in 1 .. d /\ t[i] = order[l] /\ l # j
    <3>1. l # j
      <4> HIDE DEF d
      <4> QED BY <1>1
    <3>2. l \in 1 .. d /\ t[i] = order[l]
      <4> HIDE DEF t, d
      <4> QED BY <1>6, <1>7
    <3> QED BY <3>1, <3>2
  <2>2. order[l] \in DOMAIN ns \ {order[j]}
    <3> HIDE DEF l
    <3> QED BY <1>1, <2>1
  <2>3. new[order[l]].key = ns[order[l]].key /\ new[order[l]].value = ns[order[l]].value
    <3> HIDE DEF l
    <3> QED BY <1>1, <2>2 DEF IsCut
  <2>4. s[l] = [key |-> ns[order[l]].key, value |-> ns[order[l]].value]
    <3> HIDE DEF l, s, d
    <3> QED BY <1>2, <2>1
  <2>5. s[l] = IF i < j THEN s[i] ELSE s[i + 1]
    <3> HIDE DEF s
    <3> QED OBVIOUS
  <2> HIDE DEF l, s, t, d
  <2> QED BY <2>1, <2>3, <2>4, <2>5
<1> HIDE DEF t, d, s, X
<1>10. RowsBy(t, new) = Drop(s, j)
  BY <1>5, <1>8, <1>9
<1> QED BY <1>4, <1>10 DEF t, s

TailOf(node, last) == IF node.next_in_order = Nil THEN node.prev_in_order ELSE last
HeadOf(node, first) == IF node.prev_in_order = Nil THEN node.next_in_order ELSE first
BeforeOf(k) == IF Lookup(k) = 1 THEN Nil ELSE Chain(BucketOf(k))[Lookup(k) - 1]

TakeOut(k) ==
    /\ nodes' = CutFrom(nodes, NodeOf(k), BeforeOf(k))
    /\ buckets' = IF BeforeOf(k) # Nil THEN buckets
                  ELSE Headed(buckets, BucketOf(k), nodes[NodeOf(k)].next_in_bucket)
    /\ head' = HeadOf(nodes[NodeOf(k)], head)
    /\ tail' = TailOf(nodes[NodeOf(k)], tail)
    /\ answer' = nodes[NodeOf(k)].value
    /\ size' = size - 1 /\ capacity' = capacity

LEMMA RemoveIs ==
    ASSUME NEW k, remove(k)
    PROVE  \/ /\ Lookup(k) = 0 /\ answer' = None
              /\ UNCHANGED <<capacity, size, buckets, head, tail, nodes>>
           \/ Lookup(k) # 0 /\ TakeOut(k)
BY Zenon DEF remove, TakeOut, CutFrom, Cut, HeadOf, TailOf, TailAfter, BeforeOf, Headed

LEMMA TableRemovesNothing ==
    ASSUME NEW order, TableOK(order), TableAssumption, NEW k \in Keys,
           Lookup(k) = 0, answer' = None, UNCHANGED <<capacity, size, buckets, head, tail, nodes>>
    PROVE  TableStep(order)
<1>1. TableOK(order)'
  BY DEF TableOK
<1>2. rows' = rows
  BY <1>1, RowsAre, RowsNext
<1>3. Map!Place(k) = 0 /\ Map!Value(k) = None
  BY KeyFacts
<1>4. Map!MapNext
  BY <1>2, <1>3 DEF Map!MapNext, Map!MapRemove
<1> QED BY <1>1, <1>4, RowsLength DEF TableStep

LEMMA TableRemoves ==
    ASSUME NEW order, TableOK(order), TableAssumption, NEW k \in Keys,
           Lookup(k) # 0, TakeOut(k), NEW j, j = Map!Place(k)
    PROVE  TableStep(Drop(order, j))
<1> DEFINE n == NodeOf(k)
           b == BucketOf(k)
           c == Chain(b)
           before == BeforeOf(k)
           t == Drop(order, j)
<1>1. /\ NodesOK(nodes) /\ OrderOK(nodes, order, head, tail)
      /\ ChainsOK(nodes, buckets, capacity, DOMAIN nodes) /\ SizeOK(capacity, size, order)
      /\ Nil \notin Nat /\ Hash \in [Keys -> Int]
  BY DEF TableOK, TableAssumption
<1>2. /\ b \in 0 .. (capacity - 1)
      /\ IsChain(c, nodes, buckets, capacity, DOMAIN nodes, b)
      /\ Lookup(k) \in 1 .. Len(c) /\ n \in DOMAIN nodes /\ nodes[n].key = k
  BY ChainHas
<1>3. n = c[Lookup(k)]
  BY DEF NodeOf
<1>4. /\ j \in 1 .. Len(order) /\ j # 0 /\ order[j] = n
      /\ Map!Value(k) = nodes[n].value
  BY KeyFacts
<1>5. before = At(c, Lookup(k) - 1)
  <2>1. Len(c) \in Nat /\ DOMAIN c = 1 .. Len(c)
    BY <1>2, ListFacts DEF IsChain
  <2> HIDE DEF c
  <2> QED BY <1>2, <2>1 DEF At, BeforeOf, c
<1>6. Hash[nodes[n].key] % capacity = b
  BY <1>2 DEF BucketOf
<1>7. /\ nodes' = CutFrom(nodes, n, before)
      /\ buckets' = IF before # Nil THEN buckets ELSE Headed(buckets, b, nodes[n].next_in_bucket)
      /\ head' = HeadOf(nodes[n], head) /\ tail' = TailOf(nodes[n], tail)
      /\ answer' = nodes[n].value /\ size' = size - 1 /\ capacity' = capacity
  BY DEF TakeOut
<1> HIDE DEF n, c, before, b
<1>8. NodesOK(nodes') /\ DOMAIN nodes' = DOMAIN nodes \ {n} /\ IsCut(nodes', nodes, n, before)
  BY <1>1, <1>2, <1>7, CutFacts
<1>9. OrderOK(nodes', t, head', tail')
  <2>1. OrderOK(nodes', t, HeadOf(nodes[n], head), TailOf(nodes[n], tail))
    BY <1>1, <1>4, <1>8, CutOrder DEF HeadOf, TailOf
  <2> QED BY <1>7, <2>1
<1>10. ChainsOK(nodes', buckets', capacity', DOMAIN nodes')
  <2> DEFINE i == Lookup(k)
             new == nodes'
             heads == buckets'
  <2>2. /\ i \in 1 .. Len(c) /\ n = c[i] /\ before = At(c, i - 1)
    BY <1>2, <1>3, <1>5
  <2>3. /\ DOMAIN new = DOMAIN nodes \ {n} /\ IsCut(new, nodes, n, before)
    BY <1>8
  <2>4. heads = IF before # Nil THEN buckets ELSE Headed(buckets, b, nodes[n].next_in_bucket)
    BY <1>7
  <2> HIDE DEF i, new, heads
  <2>5. ChainsOK(new, heads, capacity, DOMAIN new)
    <3>1. CutPlace(nodes, buckets, capacity, n, b, c, i, before)
      BY <1>1, <1>2, <1>6, <2>2 DEF CutPlace
    <3>2. CutLeaves(new, heads, nodes, buckets, n, b, before)
      BY <2>3, <2>4 DEF CutLeaves
    <3> QED BY <1>1, <3>1, <3>2, CutChains
  <2> QED BY <1>7, <2>5 DEF new, heads
<1>11. SizeOK(capacity', size', t)
  <2>1. Len(order) \in Nat
    BY <1>1, ListFacts DEF OrderOK
  <2>2. order \in Seq(Nat)
    BY <1>1, ListFacts DEF OrderOK
  <2>3. Len(t) = Len(order) - 1
    BY <1>4, <2>2, DropFacts
  <2> HIDE DEF t
  <2> QED BY <1>1, <1>7, <2>1, <2>3 DEF SizeOK
<1>12. TableOK(t)'
  <2> QED BY <1>8, <1>9, <1>10, <1>11 DEF TableOK
<1>13. rows' = RemoveAt(rows, j)
  <2>1. order \in Seq(DOMAIN nodes) /\ Differ(order)
    <3>1. order \in Seq(DOMAIN nodes)
      BY <1>1, OrderIs
    <3>2. Differ(order)
      BY <1>1, ListFacts DEF OrderOK, Differ
    <3> QED BY <3>1, <3>2
  <2>2. rows = RowsBy(order, nodes) /\ rows' = RowsBy(t, nodes')
    BY <1>12, RowsAre, RowsNext
  <2>3. IsCut(nodes', nodes, order[j], before)
    BY <1>4, <1>8
  <2>4. RowsBy(t, nodes') = RemoveAt(RowsBy(order, nodes), j)
    <3>1. RowLeaves(nodes', nodes, order, j, before)
      BY <1>4, <2>1, <2>3 DEF RowLeaves
    <3> QED BY <3>1, RowDropped
  <2> QED BY <2>2, <2>4
<1>14. Map!MapNext
  <2>1. Map!MapRemove(k)
    BY <1>4, <1>7, <1>13 DEF Map!MapRemove, RemoveAt, Map!RemoveAt
  <2> QED BY <2>1 DEF Map!MapNext
<1> QED BY <1>12, <1>14, RowsLength DEF TableStep, t

-----------------------------------------------------------------------------
TableInv == \E order : TableOK(order)

LEMMA TableStarts ==
    ASSUME TableInit, TableAssumption
    PROVE  TableInv /\ rows = <<>> /\ answer = None
<1>1. TableOK(<<>>)
  BY EmptyTable DEF TableInit, TableAssumption, TableOK
<1>2. rows = <<>>
  BY <1>1, RowsAre DEF RowsBy
<1> QED BY <1>1, <1>2 DEF TableInv, TableInit

LEMMA TableGoesOn ==
    ASSUME TableInv, TableAssumption, TableNext
    PROVE  \E order : TableStep(order)
<1>1. PICK order : TableOK(order)
  BY DEF TableInv
<1>2. ASSUME NEW k \in Keys, NEW v \in Values, put(k, v) PROVE \E t : TableStep(t)
  <2>1. CASE /\ Lookup(k) # 0 /\ answer' = nodes[NodeOf(k)].value
             /\ nodes' = Valued(nodes, NodeOf(k), v)
             /\ UNCHANGED <<capacity, size, buckets, head, tail>>
    <3>1. TableStep(order)
      BY <1>1, <2>1, TablePutsOld
    <3> QED BY <3>1
  <2>2. CASE Lookup(k) = 0 /\ answer' = None /\ PutNew(k, v)
    <3>1. TableStep(Append(order, Free))
      BY <1>1, <2>2, TablePutsNew
    <3> QED BY <3>1
  <2> QED BY <1>2, <2>1, <2>2, PutIs, Zenon
<1>3. ASSUME NEW k \in Keys, get(k) PROVE \E t : TableStep(t)
  <2>1. TableStep(order)
    BY <1>1, <1>3, TableGets
  <2> QED BY <2>1
<1>4. ASSUME NEW k \in Keys, remove(k) PROVE \E t : TableStep(t)
  <2>1. CASE /\ Lookup(k) = 0 /\ answer' = None
             /\ UNCHANGED <<capacity, size, buckets, head, tail, nodes>>
    <3>1. TableStep(order)
      BY <1>1, <2>1, TableRemovesNothing
    <3> QED BY <3>1
  <2>2. CASE Lookup(k) # 0 /\ TakeOut(k)
    <3>1. TableStep(Drop(order, Map!Place(k)))
      BY <1>1, <2>2, TableRemoves
    <3> QED BY <3>1
  <2> QED BY <1>4, <2>1, <2>2, RemoveIs, Zenon
<1>5. ASSUME clear PROVE \E t : TableStep(t)
  <2>1. TableStep(<<>>)
    BY <1>1, <1>5, TableClears
  <2> QED BY <2>1
<1> QED BY <1>2, <1>3, <1>4, <1>5 DEF TableNext

TableDoes == Map!MapNext /\ size' = Len(rows') /\ (capacity' > 1 => size' < capacity')

LEMMA LinkedTableIsMap == TableSpec => TableIsMap
<1>1. TableInit => TableInv /\ rows = <<>> /\ answer = None
  BY TableStarts, TableAssumption
<1>2. TableInv /\ [TableNext]_tableVars => TableInv' /\ [TableDoes]_tableVars
  <2> SUFFICES ASSUME TableInv, [TableNext]_tableVars PROVE TableInv' /\ [TableDoes]_tableVars
    OBVIOUS
  <2>1. CASE TableNext
    <3>1. PICK order : TableStep(order)
      BY <2>1, TableGoesOn, TableAssumption
    <3> QED BY <3>1 DEF TableStep, TableInv, TableDoes
  <2>2. CASE UNCHANGED tableVars
    BY <2>2 DEF TableInv, TableOK, tableVars
  <2> QED BY <2>1, <2>2
<1> QED BY <1>1, <1>2, PTL DEF TableSpec, TableIsMap, TableDoes

-----------------------------------------------------------------------------
(* The organizer.                                                            *)
OwnName == \A f, g \in Files : Home[f].name = Home[g].name => f = g
OneGoal == \A m \in Matches : Goal[m[1]] = Goal[m[2]]

-----------------------------------------------------------------------------
(* The inductive invariant.  A file only ever moves between places of its    *)
(* name, and of these to the one in the directory it has to go to; so what   *)
(* a move overwrites is an incomplete copy or the file that is moved, and    *)
(* what an unlink removes was copied before or deleted by others since.      *)
Executing == {"validate", "mkdir", "move", "copy", "unlink"}

StateOK ==
    /\ disk \in [Locs -> Files \cup {Torn, Nothing}]
    /\ pc \in Places /\ erased \subseteq Files
    /\ plan \in Seq(Ops) /\ results \in Seq(BOOLEAN)
    /\ pc = "plan" => results = <<>>
    /\ pc \in Executing => Len(results) < Len(plan)
DestinationsOK ==
    \A i \in DOMAIN plan : plan[i].dst = Destination(plan[i].src)
NamesKept == \A l \in Locs : disk[l] \in Files => Home[disk[l]].name = l.name
TornInGoal == \A l \in Locs : disk[l] = Torn => l.dir = Goal[l.name]
CopyOK ==
    /\ pc \in {"copy", "unlink"} => op.src # op.dst
    /\ pc = "unlink" /\ disk[op.src] \in Files =>
           disk[op.dst] = disk[op.src] \/ disk[op.src] \in erased

OrganizerInv ==
    StateOK /\ DestinationsOK /\ NamesKept /\ TornInGoal /\ CopyOK /\ NothingLost
-----------------------------------------------------------------------------
\* What is at each place at first.
LEMMA InitialDisk ==
    ASSUME Init, NEW l \in Locs
    PROVE  \/ disk[l] = Nothing /\ \A f \in Files : Home[f] # l
           \/ disk[l] \in Files /\ Home[disk[l]] = l
<1>1. CASE \E f \in Files : Home[f] = l
  <2>1. disk[l] = CHOOSE f \in Files : Home[f] = l
    BY <1>1 DEF Init
  <2> QED BY <1>1, <2>1
<1>2. CASE ~\E f \in Files : Home[f] = l
  BY <1>2 DEF Init
<1> QED BY <1>1, <1>2

\* Each file is at its home at first, and nothing else is anywhere.
LEMMA OrganizerInit == Init => OrganizerInv
<1> SUFFICES ASSUME Init PROVE OrganizerInv
  OBVIOUS
<1>1. ASSUME NEW l \in Locs
      PROVE  \/ disk[l] = Nothing /\ \A f \in Files : Home[f] # l
             \/ disk[l] \in Files /\ Home[disk[l]] = l
  BY InitialDisk
<1>2. disk \in [Locs -> Files \cup {Torn, Nothing}]
  <2>1. disk = [l \in Locs |-> disk[l]]
    BY DEF Init
  <2> QED BY <1>1, <2>1
<1>3. StateOK
  BY <1>2 DEF Init, StateOK, Places, Executing
<1>4. DestinationsOK /\ CopyOK
  BY DEF Init, DestinationsOK, CopyOK
<1>5. NamesKept /\ TornInGoal
  BY <1>1, OrganizerAssumption DEF NamesKept, TornInGoal
<1>6. NothingLost
  BY <1>1, OrganizerAssumption DEF NothingLost, Init
<1> QED BY <1>3, <1>4, <1>5, <1>6 DEF OrganizerInv

-----------------------------------------------------------------------------
\* Planning.  A video has as many subtitles as there are names at most, so
\* there are sequences of their operations.
LEMMA SubtitleMovesFinite ==
    ASSUME NEW l \in Locs
    PROVE  IsFiniteSet(SubtitleMoves(l))
<1> DEFINE nameOf == [m \in SubtitleMoves(l) |-> m.src.name]
<1>1. nameOf \in [SubtitleMoves(l) -> Names]
  <2>1. ASSUME NEW m \in SubtitleMoves(l) PROVE m.src.name \in Names
    <3>1. PICK s \in Locs : m = Move(s, [dir |-> Goal[l.name], name |-> s.name])
      BY DEF SubtitleMoves
    <3> QED BY <3>1 DEF Move, Locs
  <2> QED BY <2>1
<1>2. ASSUME NEW a \in SubtitleMoves(l), NEW b \in SubtitleMoves(l),
             nameOf[a] = nameOf[b]
      PROVE  a = b
  <2>1. PICK s \in Locs :
            s.dir = l.dir /\ a = Move(s, [dir |-> Goal[l.name], name |-> s.name])
    BY DEF SubtitleMoves
  <2>2. PICK t \in Locs :
            t.dir = l.dir /\ b = Move(t, [dir |-> Goal[l.name], name |-> t.name])
    BY DEF SubtitleMoves
  <2>3. s = t
    BY <1>2, <2>1, <2>2 DEF Move, Locs
  <2> QED BY <2>1, <2>2, <2>3
<1>3. nameOf \in Injection(SubtitleMoves(l), Names)
  BY <1>1, <1>2 DEF Injection, IsInjective
<1> QED BY <1>3, FS_Injection, OrganizerAssumption

\* The operations planned for subtitles keep their names and go to the
\* directory that the subtitle's own name has to go to.
LEMMA SubtitlesPlanned ==
    ASSUME StateOK, OneGoal, NEW l \in Locs,
           NEW subs \in SetToSeqs(SubtitleMoves(l))
    PROVE  /\ subs \in Seq(Ops)
           /\ \A i \in DOMAIN subs : subs[i].dst = Destination(subs[i].src)
<1>1. ASSUME NEW m \in SubtitleMoves(l)
      PROVE  m \in Ops /\ m.dst = Destination(m.src)
  <2>1. PICK s \in Locs :
            /\ <<l.name, s.name>> \in Matches /\ Present(s)
            /\ m = Move(s, [dir |-> Goal[l.name], name |-> s.name])
    BY DEF SubtitleMoves
  <2>2. Goal[s.name] = Goal[l.name]
    BY <2>1 DEF OneGoal
  <2>3. Goal[l.name] \in Dirs /\ s.name \in Names
    BY OrganizerAssumption DEF Locs
  <2> QED BY <2>1, <2>2, <2>3 DEF Move, Ops, Destination, Present, StateOK, Locs
<1>2. subs \in [1..Cardinality(SubtitleMoves(l)) -> SubtitleMoves(l)]
  BY DEF SetToSeqs
<1>3. Cardinality(SubtitleMoves(l)) \in Nat
  BY SubtitleMovesFinite, FS_CardinalityType
<1>4. subs \in Seq(SubtitleMoves(l))
  BY <1>2, <1>3
<1> QED BY <1>1, <1>4
\* A plan that grows by operations to where their files have to go.
LEMMA PlanGrows ==
    ASSUME OrganizerInv, pc = "plan", NEW ops \in Seq(Ops),
           \A i \in DOMAIN ops : ops[i].dst = Destination(ops[i].src),
           plan' = plan \o ops,
           UNCHANGED <<disk, pc, results>>, erased' = erased
    PROVE  OrganizerInv'
<1>1. plan \in Seq(Ops) /\ results = <<>>
  BY DEF OrganizerInv, StateOK
<1>2. StateOK'
  BY <1>1 DEF OrganizerInv, StateOK, Executing
<1>3. DestinationsOK'
  BY <1>1 DEF OrganizerInv, DestinationsOK, Destination
<1>4. NamesKept' /\ TornInGoal' /\ CopyOK' /\ NothingLost'
  BY DEF OrganizerInv, NamesKept, TornInGoal, CopyOK, NothingLost
<1> QED BY <1>2, <1>3, <1>4 DEF OrganizerInv

\* The operation of a video that is there goes to its own destination.
LEMMA VideoPlanned ==
    ASSUME StateOK, NEW l \in Locs, Present(l)
    PROVE  Move(l, Destination(l)) \in Ops
<1>1. Destination(l) \in Locs
  BY OrganizerAssumption DEF Destination, Locs
<1> QED BY <1>1 DEF Move, Ops, Present, StateOK

LEMMA PlanKeeps == OrganizerInv /\ OneGoal /\ Plan => OrganizerInv'
<1> SUFFICES ASSUME OrganizerInv, OneGoal, Plan PROVE OrganizerInv'
  OBVIOUS
<1>1. ASSUME NEW l \in Locs, PlanVideo(l) PROVE OrganizerInv'
  <2>1. CASE Present(l)
    <3>1. PICK subs \in SetToSeqs(SubtitleMoves(l)) :
              plan' = plan \o <<Move(l, Destination(l))>> \o subs
      BY <1>1, <2>1 DEF PlanVideo
    <3> DEFINE ops == <<Move(l, Destination(l))>> \o subs
    <3>2. /\ subs \in Seq(Ops)
          /\ \A i \in DOMAIN subs : subs[i].dst = Destination(subs[i].src)
      BY SubtitlesPlanned DEF OrganizerInv
    <3>3. Move(l, Destination(l)) \in Ops
      BY <2>1, VideoPlanned DEF OrganizerInv
    <3>4. ops \in Seq(Ops) /\ plan' = plan \o ops
      BY <3>1, <3>2, <3>3 DEF OrganizerInv, StateOK
    <3>5. ASSUME NEW i \in DOMAIN ops PROVE ops[i].dst = Destination(ops[i].src)
      <4>1. CASE i = 1
        BY <3>2, <4>1 DEF Move
      <4>2. CASE i # 1
        <5>1. i - 1 \in DOMAIN subs /\ ops[i] = subs[i - 1]
          BY <3>2, <3>5, <4>2
        <5> QED BY <3>2, <5>1
      <4> QED BY <4>1, <4>2
    <3>6. pc = "plan" /\ UNCHANGED <<disk, pc, results>> /\ erased' = erased
      BY <1>1, <2>1 DEF PlanVideo, runVars
    <3> HIDE DEF ops
    <3> QED BY <3>4, <3>5, <3>6, PlanGrows
  <2>2. CASE ~Present(l)
    <3>1. UNCHANGED <<disk, pc, plan, results>> /\ erased' = erased
      BY <1>1, <2>2 DEF PlanVideo, runVars
    <3> QED BY <3>1 DEF OrganizerInv, StateOK, DestinationsOK, Destination,
                        NamesKept, TornInGoal, CopyOK, op, NothingLost
  <2> QED BY <2>1, <2>2
<1>2. ASSUME NEW l \in Locs, PlanWithoutSubtitles(l) PROVE OrganizerInv'
  <2> DEFINE ops == <<Move(l, Destination(l))>>
  <2>1. Move(l, Destination(l)) \in Ops
    BY <1>2, VideoPlanned DEF OrganizerInv, PlanWithoutSubtitles
  <2>2. ops \in Seq(Ops) /\ plan' = plan \o ops
    BY <1>2, <2>1 DEF PlanWithoutSubtitles, OrganizerInv, StateOK
  <2>3. \A i \in DOMAIN ops : ops[i].dst = Destination(ops[i].src)
    BY DEF Move
  <2>4. pc = "plan" /\ UNCHANGED <<disk, pc, results>> /\ erased' = erased
    BY <1>2 DEF PlanWithoutSubtitles
  <2> HIDE DEF ops
  <2> QED BY <2>2, <2>3, <2>4, PlanGrows
<1>3. CASE PlanIsMade
  <2>1. StateOK'
    BY <1>3 DEF PlanIsMade, OrganizerInv, StateOK, Executing, Places, runVars
  <2>2. UNCHANGED <<disk, plan, results, erased>> /\ pc' \notin {"copy", "unlink"}
    BY <1>3 DEF PlanIsMade, runVars
  <2> QED BY <2>1, <2>2 DEF OrganizerInv, DestinationsOK, Destination,
                            NamesKept, TornInGoal, CopyOK, op, NothingLost
<1> QED BY <1>1, <1>2, <1>3 DEF Plan

-----------------------------------------------------------------------------
\* Executing.  What holds when the plan is followed up to its next operation.
LEMMA Noted ==
    ASSUME OrganizerInv, pc \in Executing, NEW r \in BOOLEAN, Note(r), plan' = plan
    PROVE  /\ results' \in Seq(BOOLEAN) /\ plan' \in Seq(Ops) /\ DestinationsOK'
           /\ pc' \in {"validate", "cleanup", "done"}
           /\ pc' \in Executing => Len(results') < Len(plan')
<1>1. results \in Seq(BOOLEAN) /\ plan \in Seq(Ops)
  BY DEF OrganizerInv, StateOK
<1>2. results' = Append(results, r)
  BY DEF Note
<1>3. results' \in Seq(BOOLEAN)
  BY <1>1, <1>2, Zenon, AppendProperties
<1>4. /\ pc' \in {"validate", "cleanup", "done"}
      /\ pc' = "validate" => Len(results') < Len(plan)
  BY <1>2 DEF Note
<1> QED BY <1>1, <1>3, <1>4 DEF OrganizerInv, DestinationsOK, Destination, Executing

\* The operation at hand moves a file between two places of its name.
LEMMA OperationAtHand ==
    ASSUME OrganizerInv, pc \in Executing
    PROVE  /\ op.src \in Locs /\ op.dst \in Locs
           /\ op.dst = Destination(op.src) /\ op.src.name = op.dst.name
           /\ op.dst.dir = Goal[op.dst.name]
<1>1. Len(results) + 1 \in DOMAIN plan /\ plan \in Seq(Ops)
  BY DEF OrganizerInv, StateOK
<1>2. op \in Ops /\ op.dst = Destination(op.src)
  BY <1>1 DEF OrganizerInv, DestinationsOK, op
<1> QED BY <1>2 DEF Ops, Destination

\* What a move overwrites is the file that is moved, or no file at all.
LEMMA NothingOverwritten ==
    ASSUME OrganizerInv, OwnName, pc \in Executing, Present(op.src), op.src # op.dst
    PROVE  /\ disk[op.src] \in Files
           /\ disk[op.dst] \in Files => disk[op.dst] = disk[op.src]
<1>1. op.src.dir # op.dst.dir
  BY OperationAtHand DEF Locs
<1>2. disk[op.src] # Torn
  BY <1>1, OperationAtHand DEF OrganizerInv, TornInGoal
<1>3. disk[op.src] \in Files
  BY <1>2, OperationAtHand DEF OrganizerInv, StateOK, Present
<1> QED BY <1>3, OperationAtHand DEF OrganizerInv, NamesKept, OwnName
\* The file of the operation at hand comes to its destination, and stays at
\* its source or not.
LEMMA FileMoved ==
    ASSUME OrganizerInv, OwnName, pc \in Executing, Present(op.src),
           NEW left \in {disk[op.src], Nothing}, erased' = erased,
           disk' = [disk EXCEPT ![op.src] = left, ![op.dst] = disk[op.src]]
    PROVE  /\ disk' \in [Locs -> Files \cup {Torn, Nothing}]
           /\ NamesKept' /\ TornInGoal' /\ NothingLost'
<1>1. op.src \in Locs /\ op.dst \in Locs /\ op.src.name = op.dst.name
      /\ op.dst.dir = Goal[op.dst.name]
  BY OperationAtHand
<1>2. disk \in [Locs -> Files \cup {Torn, Nothing}]
  BY DEF OrganizerInv, StateOK
<1>3. disk' \in [Locs -> Files \cup {Torn, Nothing}]
  BY <1>1, <1>2
<1>4. ASSUME NEW l \in Locs
      PROVE  disk'[l] = IF l = op.dst THEN disk[op.src]
                        ELSE IF l = op.src THEN left ELSE disk[l]
  BY <1>1, <1>2
<1>5. NamesKept'
  <2>1. ASSUME NEW l \in Locs, disk'[l] \in Files
        PROVE  Home[disk'[l]].name = l.name
    <3>1. CASE l = op.dst
      <4>1. disk'[l] = disk[op.src]
        BY <1>4, <3>1
      <4>2. Home[disk[op.src]].name = op.src.name
        BY <1>1, <2>1, <4>1 DEF OrganizerInv, NamesKept
      <4> QED BY <1>1, <3>1, <4>1, <4>2
    <3>2. CASE l = op.src /\ l # op.dst
      <4>1. disk'[l] = left
        BY <1>4, <3>2
      <4>2. disk'[l] = disk[op.src]
        BY <2>1, <4>1, OrganizerAssumption
      <4> QED BY <1>1, <2>1, <3>2, <4>2 DEF OrganizerInv, NamesKept
    <3>3. CASE l # op.src /\ l # op.dst
      BY <1>4, <2>1, <3>3 DEF OrganizerInv, NamesKept
    <3> QED BY <3>1, <3>2, <3>3
  <2> QED BY <2>1 DEF NamesKept
<1>6. TornInGoal'
  BY <1>1, <1>4, OrganizerAssumption DEF OrganizerInv, TornInGoal
<1>7. ASSUME NEW f \in Files \ erased PROVE \E l \in Locs : disk'[l] = f
  <2>1. PICK l \in Locs : disk[l] = f
    BY DEF OrganizerInv, NothingLost
  <2>2. CASE l = op.src
    BY <1>1, <1>4, <2>1, <2>2
  <2>3. CASE l = op.dst /\ op.src # op.dst
    BY <1>1, <1>4, <2>1, <2>3, NothingOverwritten
  <2>4. CASE l # op.src /\ l # op.dst
    BY <1>4, <2>1, <2>4
  <2> QED BY <2>2, <2>3, <2>4
<1>8. NothingLost'
  BY <1>7 DEF NothingLost
<1> QED BY <1>3, <1>5, <1>6, <1>8

\* A step that only notes a result keeps the invariant.
LEMMA NotedAlone ==
    ASSUME OrganizerInv, pc \in Executing, NEW r \in BOOLEAN, Note(r),
           plan' = plan, disk' = disk, erased' = erased
    PROVE  OrganizerInv'
<1>1. StateOK'
  BY Noted DEF OrganizerInv, StateOK, Places, Executing
<1>2. DestinationsOK' /\ CopyOK'
  BY Noted DEF CopyOK
<1>3. NamesKept' /\ TornInGoal' /\ NothingLost'
  BY DEF OrganizerInv, NamesKept, TornInGoal, NothingLost
<1> QED BY <1>1, <1>2, <1>3 DEF OrganizerInv

LEMMA ExecuteKeeps == OrganizerInv /\ OwnName /\ Execute => OrganizerInv'
<1> SUFFICES ASSUME OrganizerInv, OwnName, Execute PROVE OrganizerInv'
  OBVIOUS
<1>1. CASE ValidateFails \/ MoveFails \/ OperationFails
  <2>1. /\ pc \in Executing /\ Note(FALSE)
        /\ plan' = plan /\ disk' = disk /\ erased' = erased
    BY <1>1 DEF ValidateFails, MoveFails, OperationFails, Executing, runVars
  <2> QED BY <2>1, NotedAlone
<1>2. CASE Validated \/ EnsureDestinationDirectory
  <2>1. /\ pc \in Executing /\ pc' \in {"mkdir", "move"}
        /\ UNCHANGED <<disk, plan, results>> /\ erased' = erased
    BY <1>2 DEF Validated, EnsureDestinationDirectory, Executing, runVars
  <2>2. StateOK'
    BY <2>1 DEF OrganizerInv, StateOK, Places, Executing
  <2>3. CopyOK'
    BY <2>1 DEF CopyOK
  <2>4. DestinationsOK' /\ NamesKept' /\ TornInGoal' /\ NothingLost'
    BY <2>1 DEF OrganizerInv, DestinationsOK, Destination, NamesKept,
                TornInGoal, NothingLost
  <2> QED BY <2>2, <2>3, <2>4 DEF OrganizerInv
<1>3. CASE Rename
  <2>1. pc \in Executing /\ Present(op.src) /\ Note(TRUE) /\ plan' = plan /\ erased' = erased
        /\ disk' = [disk EXCEPT ![op.src] = Nothing, ![op.dst] = disk[op.src]]
    BY <1>3 DEF Rename, Movable, Executing, runVars
  <2>2. /\ disk' \in [Locs -> Files \cup {Torn, Nothing}]
        /\ NamesKept' /\ TornInGoal' /\ NothingLost'
    BY <2>1, FileMoved
  <2>3. StateOK'
    BY <2>1, <2>2, Noted DEF OrganizerInv, StateOK, Places, Executing
  <2>4. DestinationsOK' /\ CopyOK'
    BY <2>1, Noted DEF CopyOK
  <2> QED BY <2>2, <2>3, <2>4 DEF OrganizerInv
<1>4. CASE StartCopy
  <2>1. /\ pc \in Executing /\ Present(op.src) /\ op.src # op.dst /\ pc' = "copy"
        /\ UNCHANGED <<plan, results>> /\ erased' = erased
        /\ disk' = [disk EXCEPT ![op.dst] = Torn]
    BY <1>4 DEF StartCopy, Movable, Executing, runVars
  <2>2. op.dst \in Locs /\ op.src \in Locs /\ op.dst.dir = Goal[op.dst.name]
    BY <2>1, OperationAtHand
  <2>3. StateOK'
    BY <2>1, <2>2 DEF OrganizerInv, StateOK, Places, Executing
  <2>4. DestinationsOK' /\ CopyOK'
    BY <2>1 DEF OrganizerInv, DestinationsOK, Destination, CopyOK, op
  <2>5. ASSUME NEW l \in Locs
        PROVE  disk'[l] = IF l = op.dst THEN Torn ELSE disk[l]
    BY <2>1, <2>2 DEF OrganizerInv, StateOK
  <2>6. NamesKept' /\ TornInGoal'
    BY <2>2, <2>5, OrganizerAssumption DEF OrganizerInv, NamesKept, TornInGoal
  <2>7. NothingLost'
    <3>1. ASSUME NEW f \in Files \ erased PROVE \E l \in Locs : disk'[l] = f
      <4>1. PICK l \in Locs : disk[l] = f
        BY DEF OrganizerInv, NothingLost
      <4>2. CASE l = op.dst
        BY <2>1, <2>2, <2>5, <4>1, <4>2, NothingOverwritten
      <4> QED BY <2>5, <4>1, <4>2
    <3> QED BY <2>1, <3>1 DEF NothingLost
  <2> QED BY <2>3, <2>4, <2>6, <2>7 DEF OrganizerInv
<1>5. CASE CopyDone
  <2>1. /\ pc = "copy" /\ Present(op.src) /\ op.src # op.dst /\ pc' = "unlink"
        /\ UNCHANGED <<plan, results>> /\ erased' = erased
        /\ disk' = [disk EXCEPT ![op.dst] = disk[op.src]]
    BY <1>5 DEF CopyDone, OrganizerInv, CopyOK, runVars
  <2>2. op.src \in Locs /\ op.dst \in Locs /\ pc \in Executing
    BY <2>1, OperationAtHand DEF Executing
  <2>3. disk' = [disk EXCEPT ![op.src] = disk[op.src], ![op.dst] = disk[op.src]]
    BY <2>1, <2>2 DEF OrganizerInv, StateOK
  <2>4. /\ disk' \in [Locs -> Files \cup {Torn, Nothing}]
        /\ NamesKept' /\ TornInGoal' /\ NothingLost'
    BY <2>1, <2>2, <2>3, FileMoved
  <2>5. StateOK'
    BY <2>1, <2>2, <2>4 DEF OrganizerInv, StateOK, Places, Executing
  <2>6. DestinationsOK' /\ op' = op
    BY <2>1 DEF OrganizerInv, DestinationsOK, Destination, op
  <2>7. disk'[op.dst] = disk[op.src] /\ disk'[op.src] = disk[op.src]
    BY <2>1, <2>2 DEF OrganizerInv, StateOK
  <2>8. CopyOK'
    BY <2>1, <2>6, <2>7 DEF CopyOK
  <2> QED BY <2>4, <2>5, <2>6, <2>8 DEF OrganizerInv
<1>6. CASE Unlink
  <2>1. /\ pc = "unlink" /\ op.src # op.dst /\ Note(TRUE) /\ plan' = plan /\ erased' = erased
        /\ disk' = [disk EXCEPT ![op.src] = Nothing] /\ pc \in Executing
    BY <1>6 DEF Unlink, OrganizerInv, CopyOK, Executing, runVars
  <2>2. op.src \in Locs /\ op.dst \in Locs
    BY <2>1, OperationAtHand
  <2>3. ASSUME NEW l \in Locs
        PROVE  disk'[l] = IF l = op.src THEN Nothing ELSE disk[l]
    BY <2>1, <2>2 DEF OrganizerInv, StateOK
  <2>4. disk' \in [Locs -> Files \cup {Torn, Nothing}]
    BY <2>1, <2>2 DEF OrganizerInv, StateOK
  <2>5. StateOK'
    BY <2>1, <2>4, Noted DEF OrganizerInv, StateOK, Places, Executing
  <2>6. DestinationsOK' /\ CopyOK'
    BY <2>1, Noted DEF CopyOK
  <2>7. NamesKept' /\ TornInGoal'
    BY <2>3, OrganizerAssumption DEF OrganizerInv, NamesKept, TornInGoal
  <2>8. NothingLost'
    <3>1. ASSUME NEW f \in Files \ erased PROVE \E l \in Locs : disk'[l] = f
      <4>1. PICK l \in Locs : disk[l] = f
        BY DEF OrganizerInv, NothingLost
      <4>2. CASE l = op.src
        BY <2>1, <2>2, <2>3, <4>1, <4>2 DEF OrganizerInv, CopyOK
      <4> QED BY <2>3, <4>1, <4>2
    <3> QED BY <2>1, <3>1 DEF NothingLost
  <2> QED BY <2>5, <2>6, <2>7, <2>8 DEF OrganizerInv
<1> QED BY <1>1, <1>2, <1>3, <1>4, <1>5, <1>6 DEF Execute

-----------------------------------------------------------------------------
\* Others.  A file that is deleted where it was copied to may be unlinked.
LEMMA DeletionKeeps ==
    ASSUME OrganizerInv, NEW l \in Locs, FileDeleted(l)
    PROVE  OrganizerInv'
<1>1. /\ disk' = [disk EXCEPT ![l] = Nothing]
      /\ erased' = erased \cup ({disk[l]} \cap Files)
      /\ UNCHANGED <<pc, plan, results>>
  BY DEF FileDeleted
<1>2. ASSUME NEW k \in Locs
      PROVE  disk'[k] = IF k = l THEN Nothing ELSE disk[k]
  BY <1>1 DEF OrganizerInv, StateOK
<1>3. StateOK'
  BY <1>1 DEF OrganizerInv, StateOK
<1>4. DestinationsOK' /\ op' = op
  BY <1>1 DEF OrganizerInv, DestinationsOK, Destination, op
<1>5. NamesKept' /\ TornInGoal'
  BY <1>2, OrganizerAssumption DEF OrganizerInv, NamesKept, TornInGoal
<1>6. CopyOK'
  <2>1. pc \in {"copy", "unlink"} => op.src \in Locs /\ op.dst \in Locs
    BY OperationAtHand DEF Executing
  <2> QED BY <1>1, <1>2, <1>4, <2>1, OrganizerAssumption DEF OrganizerInv, CopyOK
<1>7. NothingLost'
  BY <1>1, <1>2 DEF OrganizerInv, NothingLost
<1> QED BY <1>3, <1>4, <1>5, <1>6, <1>7 DEF OrganizerInv

\* Every step keeps the invariant.
LEMMA OrganizerStep ==
    OrganizerInv /\ OwnName /\ OneGoal /\ [Next]_vars => OrganizerInv'
<1> SUFFICES ASSUME OrganizerInv, OwnName, OneGoal, [Next]_vars PROVE OrganizerInv'
  OBVIOUS
<1>1. CASE Start \/ Killed
  <2>1. /\ pc' \in {"plan", "idle"} /\ plan' = <<>> /\ results' = <<>>
        /\ disk' = disk /\ erased' = erased
    BY <1>1 DEF Start, Killed
  <2>2. StateOK'
    BY <2>1 DEF OrganizerInv, StateOK, Places, Executing
  <2> QED BY <2>1, <2>2 DEF OrganizerInv, DestinationsOK, NamesKept, TornInGoal,
                            CopyOK, NothingLost
<1>2. CASE Plan
  BY <1>2, PlanKeeps
<1>3. CASE Execute
  BY <1>3, ExecuteKeeps
<1>4. CASE Cleanup
  <2>1. UNCHANGED <<disk, plan, results>> /\ erased' = erased
        /\ (pc' = pc \/ pc' = "done")
    BY <1>4 DEF Cleanup, Visit, NextPass, runVars
  <2> QED BY <2>1 DEF OrganizerInv, StateOK, Places, Executing, DestinationsOK,
                      Destination, NamesKept, TornInGoal, CopyOK, op, NothingLost
<1>5. CASE Others \/ UNCHANGED vars
  <2>1. CASE (\E d \in Dirs : DirectoryRemoved(d)) \/ UNCHANGED vars
    <3>1. UNCHANGED <<disk, pc, plan, results>> /\ erased' = erased
      BY <2>1 DEF DirectoryRemoved, vars
    <3> QED BY <3>1 DEF OrganizerInv, StateOK, DestinationsOK, Destination,
                        NamesKept, TornInGoal, CopyOK, op, NothingLost
  <2> QED BY <1>5, <2>1, DeletionKeeps DEF Others
<1> QED BY <1>1, <1>2, <1>3, <1>4, <1>5 DEF Next

(* If no two files have one name and subtitles go where their videos go, no  *)
(* number of runs, failed operations and kills loses a file: one nobody      *)
(* deleted is complete in some place in every state.                         *)
THEOREM NothingIsLost ==
    ASSUME OwnName, OneGoal
    PROVE  Spec => []NothingLost
<1>1. Init => OrganizerInv
  BY OrganizerInit
<1>2. OrganizerInv /\ [Next]_vars => OrganizerInv'
  BY OrganizerStep
<1>3. OrganizerInv => NothingLost
  BY DEF OrganizerInv
<1> QED BY <1>1, <1>2, <1>3, PTL DEF Spec

-----------------------------------------------------------------------------
(* The clean-up.  In a pass that has removed nothing so far, a directory that *)
(* was visited is not empty, and nothing has changed since.                   *)

CleanInv ==
    /\ pc = "plan" => results = <<>>
    /\ pc = "cleanup" /\ ~troubled /\ ~removed =>
         \A d \in (dirs \cap Below(Source)) \ todo : ~IsEmpty(d)
    /\ NoEmptyDirectories

\* Noting a result starts the clean-up if any operation succeeded.
LEMMA NotedCleans ==
    ASSUME NEW r, Note(r)
    PROVE  CleanInv'
<1>1. pc' \in {"validate", "cleanup", "done"}
      /\ (pc' = "cleanup" => todo' = Below(Source))
      /\ (pc' = "done" => ~\E i \in DOMAIN results' : results'[i])
  BY DEF Note
<1>2. Below(Source)' = Below(Source)
  BY DEF Below
<1>3. NoEmptyDirectories'
  BY <1>1 DEF NoEmptyDirectories, Undisturbed
<1>4. (pc = "cleanup" /\ ~troubled /\ ~removed =>
         \A d \in (dirs \cap Below(Source)) \ todo : ~IsEmpty(d))'
  BY <1>1, <1>2
<1> QED BY <1>1, <1>3, <1>4 DEF CleanInv

LEMMA CleanStep == CleanInv /\ [Next]_vars => CleanInv'
<1> SUFFICES ASSUME CleanInv, [Next]_vars PROVE CleanInv'
  OBVIOUS
<1>1. ASSUME pc' \notin {"cleanup", "done", "plan"} PROVE CleanInv'
  BY <1>1 DEF CleanInv, NoEmptyDirectories, Undisturbed
<1>2. ASSUME troubled', pc' # "plan" PROVE CleanInv'
  BY <1>2 DEF CleanInv, NoEmptyDirectories, Undisturbed
<1>3. CASE Start
  <2>1. pc' = "plan" /\ results' = <<>>
    BY <1>3 DEF Start
  <2> QED BY <2>1 DEF CleanInv, NoEmptyDirectories, Undisturbed
<1>4. CASE Plan
  <2>1. CASE PlanIsMade
    <3>1. results' = <<>> /\ (pc' = "done" \/ pc' = "validate")
      BY <2>1 DEF PlanIsMade, CleanInv
    <3> QED BY <3>1 DEF CleanInv, NoEmptyDirectories, Undisturbed
  <2>2. CASE \E l \in Locs : PlanVideo(l) \/ PlanWithoutSubtitles(l)
    <3>1. pc = "plan" /\ pc' = "plan" /\ results' = results
      BY <2>2 DEF PlanVideo, PlanWithoutSubtitles
    <3> QED BY <3>1 DEF CleanInv, NoEmptyDirectories, Undisturbed
  <2> QED BY <1>4, <2>1, <2>2 DEF Plan
<1>5. CASE Execute
  <2>1. CASE Validated \/ EnsureDestinationDirectory \/ StartCopy \/ CopyDone
    BY <1>1, <2>1 DEF Validated, EnsureDestinationDirectory, StartCopy, CopyDone
  <2>2. CASE ValidateFails \/ Rename \/ MoveFails \/ Unlink \/ OperationFails
    BY <2>2, NotedCleans DEF ValidateFails, Rename, MoveFails, Unlink, OperationFails
  <2> QED BY <1>5, <2>1, <2>2 DEF Execute
<1>6. CASE Cleanup
  <2>1. ASSUME NEW d \in Dirs, Visit(d) PROVE CleanInv'
    <3>1. pc = "cleanup" /\ pc' = "cleanup" /\ todo' = todo \ {d}
          /\ UNCHANGED <<disk, troubled>> /\ Below(Source)' = Below(Source)
      BY <2>1 DEF Visit, runVars, Below
    <3>2. CASE removed'
      BY <3>1, <3>2 DEF CleanInv, NoEmptyDirectories, Undisturbed
    <3>3. CASE ~removed'
      <4>1. UNCHANGED <<dirs, removed>> /\ ~(d \in dirs /\ IsEmpty(d))
        BY <2>1, <3>3 DEF Visit
      <4>2. \A e : IsEmpty(e)' <=> IsEmpty(e)
        BY <3>1, <4>1 DEF IsEmpty, Present
      <4> QED BY <3>1, <4>1, <4>2 DEF CleanInv, NoEmptyDirectories, Undisturbed
    <3> QED BY <3>2, <3>3
  <2>2. CASE NextPass
    <3>1. pc = "cleanup" /\ todo = {} /\ UNCHANGED <<disk, dirs, results, troubled>>
          /\ Below(Source)' = Below(Source)
      BY <2>2 DEF NextPass, runVars, Below
    <3>2. CASE removed
      <4>1. pc' = "cleanup" /\ todo' = Below(Source) \cap dirs
        BY <2>2, <3>1, <3>2 DEF NextPass
      <4> QED BY <3>1, <4>1 DEF CleanInv, NoEmptyDirectories, Undisturbed
    <3>3. CASE ~removed
      <4>1. pc' = "done"
        BY <2>2, <3>3 DEF NextPass
      <4>2. \A e : IsEmpty(e)' <=> IsEmpty(e)
        BY <3>1 DEF IsEmpty, Present
      <4> QED BY <3>1, <3>3, <4>1, <4>2 DEF CleanInv, NoEmptyDirectories, Undisturbed
    <3> QED BY <3>2, <3>3
  <2> QED BY <1>6, <2>1, <2>2 DEF Cleanup
<1>7. CASE Killed
  BY <1>2, <1>7 DEF Killed, Trouble
<1>8. CASE Others
  <2>1. troubled' /\ pc' = pc /\ results' = results
    BY <1>8 DEF Others, FileDeleted, DirectoryRemoved, Trouble
  <2> QED BY <2>1 DEF CleanInv, NoEmptyDirectories, Undisturbed
<1>9. CASE UNCHANGED vars
  <2>1. \A e : IsEmpty(e)' <=> IsEmpty(e)
    BY <1>9 DEF IsEmpty, Present, vars
  <2> QED BY <1>9, <2>1 DEF vars, CleanInv, NoEmptyDirectories, Undisturbed, Below
<1> QED BY <1>3, <1>4, <1>5, <1>6, <1>7, <1>8, <1>9 DEF Next

\* Whatever was moved, and in whichever order the directories of a pass are
\* visited: a run that nothing disturbed and that moved anything leaves no empty
\* directory below the one that was organized.
THEOREM NoEmptyAlways == Spec => []NoEmptyDirectories
<1>1. Init => CleanInv
  BY DEF Init, CleanInv, NoEmptyDirectories, Undisturbed
<1>2. CleanInv => NoEmptyDirectories
  BY DEF CleanInv
<1> QED BY <1>1, <1>2, CleanStep, PTL DEF Spec

-----------------------------------------------------------------------------
(* The directories are a tree whose files are in directories that exist.     *)

\* With a directory those that it is in are created.
LEMMA AboveClosed ==
    ASSUME NEW d \in Dirs
    PROVE  /\ d \in Above(d) /\ Above(d) \subseteq Dirs
           /\ \A e \in Above(d) \ {Top} : Parent[e] \in Above(d)
<1>1. d \in Above(d) /\ Above(d) \subseteq Dirs
  BY DEF Above
<1>2. ASSUME NEW e \in Above(d), e # Top PROVE Parent[e] \in Above(d)
  <2> DEFINE p == Parent[e]
  <2>1. e \in Dirs /\ p \in Dirs
    BY <1>1, <1>2, OrganizerAssumption
  <2>2. CASE e = d
    BY <1>2, <2>1, <2>2 DEF Above, Below, Tree
  <2>3. CASE e # d
    <3>1. d \in Tree[e] /\ d \in Dirs \ {Top}
      BY <1>2, <2>1, <2>3 DEF Above, Below, Tree
    <3>2. ASSUME NEW S \in SUBSET Dirs,
                 \A x \in Dirs \ {Top} : Parent[x] \in S \cup {p} => x \in S
          PROVE  d \in S
      <4>1. e \in S
        BY <1>2, <2>1, <3>2
      <4>2. \A x \in Dirs \ {Top} : Parent[x] \in S \cup {e} => x \in S
        BY <3>2, <4>1
      <4> QED BY <2>1, <3>1, <4>2 DEF Tree
    <3>3. d \in Tree[p]
      BY <2>1, <3>1, <3>2 DEF Tree
    <3> QED BY <2>1, <3>3 DEF Above, Below
  <2> QED BY <2>2, <2>3
<1> QED BY <1>1, <1>2

\* What is below a directory is in it or in one that is below it too.
LEMMA BelowClosed ==
    ASSUME NEW d \in Dirs
    PROVE  /\ Below(d) \subseteq Dirs \ {Top}
           /\ \A e \in Below(d) : Parent[e] \in Within(d)
<1>1. Below(d) \subseteq Dirs \ {Top}
  BY DEF Below, Tree
<1>2. ASSUME NEW x \in Dirs \ {Top}, Parent[x] \in Below(d) \cup {d} PROVE x \in Below(d)
  <2>1. ASSUME NEW S \in SUBSET Dirs,
               \A y \in Dirs \ {Top} : Parent[y] \in S \cup {d} => y \in S
        PROVE  x \in S
    <3>1. Below(d) \subseteq S
      BY <2>1 DEF Below, Tree
    <3> QED BY <1>2, <2>1, <3>1
  <2> QED BY <2>1 DEF Below, Tree
<1>3. ASSUME NEW e \in Below(d), Parent[e] \notin Below(d) \cup {d} PROVE FALSE
  <2> DEFINE S == Below(d) \ {e}
  <2>1. \A x \in Dirs \ {Top} : Parent[x] \in S \cup {d} => x \in S
    BY <1>2, <1>3
  <2>2. S \in SUBSET Dirs
    BY <1>1
  <2>3. e \in S
    <3> HIDE DEF S
    <3> QED BY <1>3, <2>1, <2>2 DEF Below, Tree
  <2> QED BY <2>3
<1> QED BY <1>1, <1>3 DEF Within

TreeOK ==
    /\ dirs \subseteq Dirs
    /\ \A l \in Locs : Present(l) => l.dir \in dirs
    /\ \A d \in dirs \ {Top} : Parent[d] \in dirs

LEMMA TreeInit == Init => TreeOK
<1> SUFFICES ASSUME Init PROVE TreeOK
  OBVIOUS
<1>1. \A x : x \in dirs <=> \/ \E f \in Files : x \in Above(Home[f].dir)
                            \/ x \in Above(Source) \/ x \in Within(Source) \/ x = Top
  <2> DEFINE homes == UNION {Above(Home[f].dir) : f \in Files}
  <2>1. dirs = homes \cup Above(Source) \cup Within(Source) \cup {Top}
    BY DEF Init
  <2>2. \A x : x \in homes <=> \E f \in Files : x \in Above(Home[f].dir)
    OBVIOUS
  <2> HIDE DEF homes
  <2> QED BY <2>1, <2>2
<1>2. /\ Source \in Dirs /\ Top \in Dirs
      /\ \A f \in Files : Home[f].dir \in Dirs
  BY OrganizerAssumption DEF Locs
<1>3. dirs \subseteq Dirs
  <2>1. Above(Source) \subseteq Dirs /\ Within(Source) \subseteq Dirs
    BY <1>2, AboveClosed, BelowClosed DEF Within
  <2>2. \A f \in Files : Above(Home[f].dir) \subseteq Dirs
    BY <1>2, AboveClosed
  <2> QED BY <1>1, <1>2, <2>1, <2>2
<1>4. ASSUME NEW l \in Locs, Present(l) PROVE l.dir \in dirs
  <2>1. PICK f \in Files : Home[f] = l
    BY <1>4 DEF Init, Present
  <2>2. l.dir \in Above(Home[f].dir)
    BY <1>2, <2>1, AboveClosed
  <2> QED BY <1>1, <2>2
<1>5. ASSUME NEW d \in dirs, d # Top PROVE Parent[d] \in dirs
  <2>1. CASE \E f \in Files : d \in Above(Home[f].dir)
    <3>1. PICK f \in Files : d \in Above(Home[f].dir)
      BY <2>1
    <3>2. Parent[d] \in Above(Home[f].dir)
      BY <1>2, <1>5, <3>1, AboveClosed
    <3> QED BY <1>1, <3>2
  <2>2. CASE d \in Above(Source)
    <3>1. Parent[d] \in Above(Source)
      BY <1>2, <1>5, <2>2, AboveClosed
    <3> QED BY <1>1, <3>1
  <2>3. CASE d \in Below(Source)
    <3>1. Parent[d] \in Within(Source)
      BY <1>2, <2>3, BelowClosed
    <3> QED BY <1>1, <3>1
  <2>4. CASE d = Source
    BY <1>2, <2>2, <2>4, AboveClosed
  <2>5. d \in Within(Source) => d \in Below(Source) \/ d = Source
    BY DEF Within
  <2> QED BY <1>1, <1>5, <2>1, <2>2, <2>3, <2>4, <2>5
<1> QED BY <1>3, <1>4, <1>5 DEF TreeOK

\* A directory goes only when it is empty.
LEMMA RemovalKeepsTree ==
    ASSUME TreeOK, NEW d, d \in dirs, IsEmpty(d), dirs' = dirs \ {d}, disk' = disk
    PROVE  TreeOK'
BY DEF TreeOK, IsEmpty, Present

LEMMA TreeStep == OrganizerInv /\ TreeOK /\ [Next]_vars => TreeOK'
<1> SUFFICES ASSUME OrganizerInv, TreeOK, [Next]_vars PROVE TreeOK'
  OBVIOUS
<1>1. ASSUME UNCHANGED <<disk, dirs>> PROVE TreeOK'
  BY <1>1 DEF TreeOK, Present
<1>2. ASSUME NEW l \in Locs, l.dir \in dirs \/ disk'[l] = Nothing, dirs' = dirs,
             \A k \in Locs : k # l /\ disk'[k] # Nothing => Present(k)
      PROVE  TreeOK'
  BY <1>2 DEF TreeOK, Present
<1>3. CASE Start \/ Plan \/ Killed \/ UNCHANGED vars
  BY <1>1, <1>3 DEF Start, Plan, PlanVideo, PlanWithoutSubtitles, PlanIsMade, Killed, vars
<1>4. CASE Execute
  <2>1. CASE ValidateFails \/ Validated \/ MoveFails \/ OperationFails
    BY <1>1, <2>1 DEF ValidateFails, Validated, MoveFails, OperationFails
  <2>2. CASE EnsureDestinationDirectory
    <3>1. CASE op.dst.dir \in created
      BY <1>1, <2>2, <3>1 DEF EnsureDestinationDirectory
    <3>2. CASE op.dst.dir \notin created
      <4>1. dirs' = dirs \cup Above(op.dst.dir) /\ disk' = disk
        BY <2>2, <3>2 DEF EnsureDestinationDirectory
      <4>2. op.dst.dir \in Dirs
        BY <2>2, OperationAtHand DEF EnsureDestinationDirectory, Executing, Locs
      <4> QED BY <4>1, <4>2, AboveClosed DEF TreeOK, Present
    <3> QED BY <3>1, <3>2
  <2>3. CASE Rename \/ StartCopy \/ CopyDone \/ Unlink
    <3>1. pc \in Executing
      BY <2>3 DEF Rename, StartCopy, CopyDone, Unlink, Executing
    <3>2. op.src \in Locs /\ op.dst \in Locs /\ disk \in [Locs -> Files \cup {Torn, Nothing}]
      BY <3>1, OperationAtHand DEF OrganizerInv, StateOK
    <3>3. dirs' = dirs
      BY <2>3 DEF Rename, StartCopy, CopyDone, Unlink
    <3>4. CASE Unlink
      <4>1. disk' = [disk EXCEPT ![op.src] = Nothing]
        BY <3>4 DEF Unlink
      <4>2. disk'[op.src] = Nothing /\ \A k \in Locs : k # op.src => disk'[k] = disk[k]
        BY <3>2, <4>1
      <4> QED BY <1>2, <3>2, <3>3, <4>2 DEF Present
    <3>5. CASE Rename \/ StartCopy \/ CopyDone
      <4>1. op.dst.dir \in dirs
        BY <3>5 DEF Rename, StartCopy, CopyDone, Movable
      <4>2. \A k \in Locs : k # op.dst => disk'[k] \in {disk[k], Nothing}
        BY <3>2, <3>5 DEF Rename, StartCopy, CopyDone
      <4> QED BY <1>2, <3>2, <3>3, <4>1, <4>2 DEF Present
    <3> QED BY <2>3, <3>4, <3>5
  <2> QED BY <1>4, <2>1, <2>2, <2>3 DEF Execute
<1>5. CASE Cleanup
  <2>1. ASSUME NEW d \in Dirs, Visit(d) PROVE TreeOK'
    BY <1>1, <2>1, RemovalKeepsTree DEF Visit
  <2>2. CASE NextPass
    BY <1>1, <2>2 DEF NextPass
  <2> QED BY <1>5, <2>1, <2>2 DEF Cleanup
<1>6. CASE Others
  <2>1. ASSUME NEW l \in Locs, FileDeleted(l) PROVE TreeOK'
    <3>1. disk' = [disk EXCEPT ![l] = Nothing] /\ dirs' = dirs
      BY <2>1 DEF FileDeleted
    <3>2. disk'[l] = Nothing /\ \A k \in Locs : k # l => disk'[k] = disk[k]
      BY <3>1 DEF OrganizerInv, StateOK
    <3> QED BY <1>2, <3>1, <3>2 DEF Present
  <2>2. ASSUME NEW d \in Dirs, DirectoryRemoved(d) PROVE TreeOK'
    BY <2>2, RemovalKeepsTree DEF DirectoryRemoved
  <2> QED BY <1>6, <2>1, <2>2 DEF Others
<1> QED BY <1>3, <1>4, <1>5, <1>6 DEF Next

-----------------------------------------------------------------------------
(* Types.                                                                    *)

RestOK ==
    /\ todo \subseteq Locs \cup Dirs /\ created \subseteq Dirs
    /\ Len(results) <= Len(plan)
    /\ removed \in BOOLEAN /\ troubled \in BOOLEAN
    /\ runs \in 0 .. MaxRuns /\ troubles \in 0 .. MaxTroubles

LEMMA NoteRest ==
    ASSUME OrganizerInv, RestOK, pc \in Executing, NEW r \in BOOLEAN, Note(r), plan' = plan
    PROVE  /\ todo' \subseteq Locs \cup Dirs /\ removed' \in BOOLEAN
           /\ Len(results') = Len(results) + 1 /\ Len(results') <= Len(plan')
<1>1. results \in Seq(BOOLEAN) /\ plan \in Seq(Ops) /\ Len(results) < Len(plan)
  BY DEF OrganizerInv, StateOK
<1>2. results' = Append(results, r) /\ removed' = FALSE /\ todo' \subseteq Below(Source)
  BY DEF Note
<1>3. Len(results') = Len(results) + 1
  BY <1>1, <1>2
<1>4. Below(Source) \subseteq Dirs
  BY OrganizerAssumption, BelowClosed
<1>5. Len(results') <= Len(plan)
  BY <1>1, <1>3
<1> QED BY <1>2, <1>3, <1>4, <1>5

LEMMA TroubleCounted ==
    ASSUME RestOK, Trouble \/ UNCHANGED <<runs, troubles, troubled>>
    PROVE  /\ runs' \in 0 .. MaxRuns /\ troubles' \in 0 .. MaxTroubles
           /\ troubled' \in BOOLEAN
<1>1. /\ runs \in 0 .. MaxRuns /\ troubles \in 0 .. MaxTroubles /\ troubled \in BOOLEAN
      /\ MaxTroubles \in Nat
  BY OrganizerAssumption DEF RestOK
<1>2. \/ troubles < MaxTroubles /\ troubles' = troubles + 1 /\ troubled' = TRUE /\ runs' = runs
      \/ runs' = runs /\ troubles' = troubles /\ troubled' = troubled
  BY DEF Trouble
<1>3. troubles' \in 0 .. MaxTroubles
  BY <1>1, <1>2
<1>4. runs' = runs /\ troubled' \in BOOLEAN
  BY <1>1, <1>2
<1> QED BY <1>1, <1>3, <1>4

LEMMA RestStep ==
    OrganizerInv /\ OneGoal /\ RestOK /\ [Next]_vars => RestOK'
<1> SUFFICES ASSUME OrganizerInv, OneGoal, RestOK, [Next]_vars PROVE RestOK'
  OBVIOUS
<1>1. CASE Start
  <2>1. Videos \subseteq Locs
    BY DEF Videos
  <2>2. runs' \in 0 .. MaxRuns
    BY <1>1, OrganizerAssumption DEF Start, RestOK
  <2>3. /\ todo' = Videos /\ plan' = <<>> /\ results' = <<>> /\ created' = {}
        /\ troubled' = FALSE /\ UNCHANGED <<removed, troubles>>
    BY <1>1 DEF Start
  <2>4. Len(results') <= Len(plan')
    BY <2>3
  <2> QED BY <2>1, <2>2, <2>3, <2>4 DEF RestOK
<1>2. CASE Plan
  <2>1. pc = "plan" /\ results = <<>> /\ UNCHANGED <<results, created, removed>>
        /\ todo' \subseteq todo
    BY <1>2 DEF Plan, PlanVideo, PlanWithoutSubtitles, PlanIsMade, OrganizerInv, StateOK
  <2>2. Trouble \/ UNCHANGED <<runs, troubles, troubled>>
    BY <1>2 DEF Plan, PlanVideo, PlanWithoutSubtitles, PlanIsMade, runVars
  <2>3. plan' \in Seq(Ops)
    BY <1>2, PlanKeeps DEF OrganizerInv, StateOK
  <2>4. Len(results') <= Len(plan')
    BY <2>1, <2>3
  <2> QED BY <2>1, <2>2, <2>4, TroubleCounted DEF RestOK
<1>3. CASE Execute
  <2>1. Trouble \/ UNCHANGED <<runs, troubles, troubled>>
    BY <1>3 DEF Execute, ValidateFails, Validated, EnsureDestinationDirectory, Rename,
                StartCopy, MoveFails, CopyDone, Unlink, OperationFails, runVars
  <2>2. plan' = plan /\ pc \in Executing
    BY <1>3 DEF Execute, ValidateFails, Validated, EnsureDestinationDirectory, Rename,
                StartCopy, MoveFails, CopyDone, Unlink, OperationFails, Executing
  <2>3. created' \subseteq Dirs
    <3>1. op.dst.dir \in Dirs
      BY <2>2, OperationAtHand DEF Locs
    <3>2. created' = created \/ created' = created \cup {op.dst.dir}
      BY <1>3 DEF Execute, ValidateFails, Validated, EnsureDestinationDirectory, Rename,
                  StartCopy, MoveFails, CopyDone, Unlink, OperationFails
    <3> QED BY <3>1, <3>2 DEF RestOK
  <2>4. UNCHANGED <<todo, results, removed>> \/ \E r \in BOOLEAN : Note(r)
    BY <1>3 DEF Execute, ValidateFails, Validated, EnsureDestinationDirectory, Rename,
                StartCopy, MoveFails, CopyDone, Unlink, OperationFails
  <2> QED BY <2>1, <2>2, <2>3, <2>4, NoteRest, TroubleCounted DEF RestOK
<1>4. CASE Cleanup
  <2>1. /\ UNCHANGED <<plan, results, created, runs, troubles, troubled>>
        /\ removed' \in {removed, TRUE, FALSE}
        /\ todo' \subseteq todo \/ todo' \subseteq Below(Source)
    BY <1>4 DEF Cleanup, Visit, NextPass, runVars
  <2>2. Below(Source) \subseteq Dirs
    BY OrganizerAssumption, BelowClosed
  <2> QED BY <2>1, <2>2 DEF RestOK
<1>5. CASE Killed
  <2>1. Trouble /\ todo' = {} /\ created' = {} /\ plan' = <<>> /\ results' = <<>>
        /\ removed' = removed
    BY <1>5 DEF Killed
  <2> QED BY <2>1, TroubleCounted DEF RestOK
<1>6. CASE Others
  <2>1. Trouble /\ UNCHANGED <<todo, created, plan, results, removed>>
    BY <1>6 DEF Others, FileDeleted, DirectoryRemoved
  <2> QED BY <2>1, TroubleCounted DEF RestOK
<1>7. CASE UNCHANGED vars
  BY <1>7 DEF vars, RestOK
<1> QED BY <1>1, <1>2, <1>3, <1>4, <1>5, <1>6, <1>7 DEF Next

LEMMA TypesFollow == OrganizerInv /\ TreeOK /\ RestOK => TypeOK
BY DEF OrganizerInv, StateOK, TreeOK, RestOK, TypeOK

-----------------------------------------------------------------------------
(* What a video or a subtitle leaves, and what its plan has.                 *)

\* The operations planned for a video: its own first, then those of all the
\* subtitles beside it that are not in place.
PlansFor(l, ops) ==
    /\ ops \in Seq(Ops) /\ plan' = plan \o ops
    /\ \A i \in DOMAIN ops :
         LET s == ops[i].src
         IN  /\ s \in Locs /\ s.dir = l.dir /\ Present(s) /\ ops[i].file = disk[s]
             /\ ops[i].dst = Destination(s)
             /\ s = l \/ s.name \in Subtitles
    /\ Present(l) => 1 \in DOMAIN ops /\ ops[1].src = l
    /\ Present(l) /\ ~troubled' =>
         \A s \in Locs : /\ s.dir = l.dir /\ <<l.name, s.name>> \in Matches /\ Present(s)
                         /\ s.dir # Goal[l.name]
                         => \E i \in DOMAIN ops : ops[i].src = s

\* A sequence of all the subtitles' operations has each of them.
LEMMA SequenceHasAll ==
    ASSUME NEW S, IsFiniteSet(S), NEW s \in SetToSeqs(S), NEW m \in S
    PROVE  \E i \in DOMAIN s : s[i] = m
<1> DEFINE n == Cardinality(S)
<1>1. n \in Nat /\ s \in [1 .. n -> S] /\ \A i, j \in 1 .. n : i # j => s[i] # s[j]
  BY FS_CardinalityType DEF SetToSeqs
<1>2. IsFiniteSet(1 .. n) /\ Cardinality(1 .. n) = n
  BY <1>1, FS_Interval
<1>3. IsFiniteSet(S \ {m}) /\ Cardinality(S \ {m}) = n - 1
  BY FS_RemoveElement
<1> SUFFICES ASSUME \A i \in 1 .. n : s[i] # m PROVE FALSE
  BY <1>1
<1>4. s \in [1 .. n -> S \ {m}]
  BY <1>1
<1>5. Cardinality(S \ {m}) < Cardinality(1 .. n)
  BY <1>1, <1>2, <1>3
<1> QED BY <1>1, <1>2, <1>3, <1>4, <1>5, FS_PigeonHole

LEMMA VideosPlanned ==
    ASSUME OrganizerInv, OneGoal, NEW l \in Locs, PlanVideo(l) \/ PlanWithoutSubtitles(l)
    PROVE  \E ops : PlansFor(l, ops)
<1> DEFINE own == <<Move(l, Destination(l))>>
<1>1. Present(l) => /\ Move(l, Destination(l)) \in Ops /\ own \in Seq(Ops) /\ Len(own) = 1
                    /\ own[1].src = l /\ own[1].file = disk[l] /\ own[1].dst = Destination(l)
  BY VideoPlanned DEF OrganizerInv, Move
<1>2. CASE ~Present(l)
  <2>1. plan' = plan
    BY <1>2 DEF PlanVideo, PlanWithoutSubtitles
  <2>2. PlansFor(l, <<>>)
    BY <1>2, <2>1 DEF PlansFor, OrganizerInv, StateOK
  <2> QED BY <2>2
<1>3. CASE PlanWithoutSubtitles(l)
  <2>1. plan' = Append(plan, Move(l, Destination(l))) /\ troubled' /\ Present(l)
    BY <1>3 DEF PlanWithoutSubtitles, Trouble
  <2>2. plan' = plan \o own
    BY <1>1, <2>1 DEF OrganizerInv, StateOK
  <2> HIDE DEF own
  <2>3. DOMAIN own = {1}
    BY <1>1, <2>1
  <2>4. PlansFor(l, own)
    BY <1>1, <2>1, <2>2, <2>3 DEF PlansFor
  <2> QED BY <2>4
<1>4. CASE PlanVideo(l) /\ Present(l)
  <2>1. PICK subs \in SetToSeqs(SubtitleMoves(l)) : plan' = plan \o own \o subs
    BY <1>4 DEF PlanVideo
  <2>2. /\ subs \in Seq(Ops)
        /\ \A i \in DOMAIN subs : subs[i].dst = Destination(subs[i].src)
    BY SubtitlesPlanned DEF OrganizerInv
  <2>3. ASSUME NEW i \in DOMAIN subs
        PROVE  /\ subs[i].src \in Locs /\ subs[i].src.dir = l.dir /\ Present(subs[i].src)
               /\ subs[i].file = disk[subs[i].src] /\ subs[i].src.name \in Subtitles
    <3>1. subs[i] \in SubtitleMoves(l)
      <4>1. subs \in [1 .. Cardinality(SubtitleMoves(l)) -> SubtitleMoves(l)]
        BY DEF SetToSeqs
      <4> QED BY <4>1
    <3>2. PICK s \in Locs :
              /\ s.dir = l.dir /\ <<l.name, s.name>> \in Matches /\ Present(s)
              /\ subs[i] = Move(s, [dir |-> Goal[l.name], name |-> s.name])
      BY <3>1 DEF SubtitleMoves
    <3> QED BY <3>2 DEF Move, Subtitles
  <2> DEFINE ops == own \o subs
  <2>4. ops \in Seq(Ops) /\ plan' = plan \o ops
    <3>1. plan \in Seq(Ops) /\ own \in Seq(Ops) /\ subs \in Seq(Ops)
      BY <1>1, <1>4, <2>2 DEF OrganizerInv, StateOK
    <3> HIDE DEF own
    <3>2. ASSUME NEW a \in Seq(Ops), NEW b \in Seq(Ops), NEW c \in Seq(Ops)
          PROVE  (a \o b) \o c = a \o (b \o c)
      BY ConcatAssociative
    <3>3. own \o subs \in Seq(Ops)
      BY <3>1
    <3> QED BY <2>1, <3>1, <3>2, <3>3, Zenon
  <2>5. 1 \in DOMAIN ops /\ ops[1] = own[1]
    BY <1>1, <1>4, <2>2
  <2>6. ASSUME NEW i \in DOMAIN ops, i # 1
        PROVE  i - 1 \in DOMAIN subs /\ ops[i] = subs[i - 1]
    BY <1>1, <1>4, <2>2, <2>6
  <2>7. ASSUME NEW i \in DOMAIN subs
        PROVE  i + 1 \in DOMAIN ops /\ ops[i + 1] = subs[i]
    BY <1>1, <1>4, <2>2, <2>7
  <2>8. ASSUME NEW s \in Locs, s.dir = l.dir, <<l.name, s.name>> \in Matches, Present(s),
               s.dir # Goal[l.name]
        PROVE  \E i \in DOMAIN ops : ops[i].src = s
    <3> DEFINE m == Move(s, [dir |-> Goal[l.name], name |-> s.name])
    <3>1. m \in SubtitleMoves(l)
      BY <2>8 DEF SubtitleMoves
    <3>2. PICK i \in DOMAIN subs : subs[i] = m
      BY <3>1, SubtitleMovesFinite, SequenceHasAll
    <3>3. m.src = s
      BY DEF Move
    <3> QED BY <2>7, <3>2, <3>3
  <2> HIDE DEF ops, own
  <2>9. \A i \in DOMAIN ops :
          /\ ops[i].src \in Locs /\ ops[i].src.dir = l.dir /\ Present(ops[i].src)
          /\ ops[i].file = disk[ops[i].src] /\ ops[i].dst = Destination(ops[i].src)
          /\ ops[i].src = l \/ ops[i].src.name \in Subtitles
    BY <1>1, <1>4, <2>2, <2>3, <2>5, <2>6
  <2>10. PlansFor(l, ops)
    BY <1>1, <1>4, <2>4, <2>5, <2>8, <2>9 DEF PlansFor
  <2> QED BY <2>10
<1> QED BY <1>2, <1>3, <1>4

\* Where the operations of the longer plan come from.
LEMMA PlanExtended ==
    ASSUME OrganizerInv, NEW l, NEW ops, PlansFor(l, ops)
    PROVE  /\ \A i \in DOMAIN plan : i \in DOMAIN plan' /\ plan'[i] = plan[i]
           /\ \A k \in DOMAIN ops : \E i \in DOMAIN plan' : i > 0 /\ plan'[i] = ops[k]
           /\ \A i \in DOMAIN plan' :
                \/ i \in DOMAIN plan /\ plan'[i] = plan[i]
                \/ \E k \in DOMAIN ops : plan'[i] = ops[k]
<1>1. plan \in Seq(Ops) /\ ops \in Seq(Ops) /\ plan' = plan \o ops
  BY DEF PlansFor, OrganizerInv, StateOK
<1>2. \A i \in DOMAIN plan : i \in DOMAIN plan' /\ plan'[i] = plan[i]
  BY <1>1
<1>3. ASSUME NEW k \in DOMAIN ops
      PROVE  Len(plan) + k \in DOMAIN plan' /\ Len(plan) + k > 0 /\ plan'[Len(plan) + k] = ops[k]
  BY <1>1
<1>4. ASSUME NEW i \in DOMAIN plan', i \notin DOMAIN plan
      PROVE  i - Len(plan) \in DOMAIN ops /\ plan'[i] = ops[i - Len(plan)]
  BY <1>1, <1>4
<1> QED BY <1>2, <1>3, <1>4

-----------------------------------------------------------------------------
(* Order.  A file is at home or where it has to go, and an incomplete copy   *)
(* is one of a file that was organized: it is still at home unless others    *)
(* deleted it.                                                               *)

PlacesKept == \A l \in Locs : disk[l] \in Files => l = Home[disk[l]] \/ l.dir = Goal[l.name]
TornFromHome ==
    \A l \in Locs : disk[l] = Torn =>
      \E f \in Files : /\ Home[f].name = l.name /\ Home[f].dir \in Within(Source)
                       /\ f \in erased \/ disk[Home[f]] = f
PlanOK ==
    /\ \A i \in DOMAIN plan :
         /\ plan[i].src.dir \in Within(Source)
         /\ plan[i].file \in Files => Home[plan[i].file].name = plan[i].src.name
    /\ pc = "plan" =>
         todo \subseteq {l \in Locs : l.dir \in Within(Source) /\ l.name \notin Subtitles}

\* Of places with the name of the operation at hand, only its destination has
\* the directory that files of this name have to go to.
LEMMA OneDestination ==
    ASSUME OrganizerInv, pc \in Executing, NEW l \in Locs,
           l.name = op.dst.name \/ l.name = op.src.name, l.dir = Goal[l.name]
    PROVE  l = op.dst
BY OperationAtHand DEF Locs

LEMMA PlacesInit == Init => PlacesKept /\ TornFromHome /\ PlanOK
<1> SUFFICES ASSUME Init PROVE PlacesKept /\ TornFromHome /\ PlanOK
  OBVIOUS
<1>1. ASSUME NEW l \in Locs
      PROVE  \/ disk[l] = Nothing /\ \A f \in Files : Home[f] # l
             \/ disk[l] \in Files /\ Home[disk[l]] = l
  BY InitialDisk
<1>2. PlanOK
  BY DEF Init, PlanOK
<1> QED BY <1>1, <1>2, OrganizerAssumption DEF PlacesKept, TornFromHome

\* An incomplete copy stays one of a file that is at home or deleted, unless a
\* file of its name is taken away.
LEMMA TornStays ==
    ASSUME TornFromHome, erased \subseteq erased', NEW l \in Locs, disk[l] = Torn,
           \A k \in Locs : disk'[k] # disk[k] /\ disk[k] \in Files =>
             k.name # l.name \/ disk[k] \in erased'
    PROVE  \E f \in Files : /\ Home[f].name = l.name /\ Home[f].dir \in Within(Source)
                            /\ f \in erased' \/ disk'[Home[f]] = f
<1>1. PICK f \in Files : /\ Home[f].name = l.name /\ Home[f].dir \in Within(Source)
                         /\ f \in erased \/ disk[Home[f]] = f
  BY DEF TornFromHome
<1>2. Home[f] \in Locs
  BY OrganizerAssumption
<1> QED BY <1>1, <1>2

LEMMA PlacesStep ==
    OrganizerInv /\ OwnName /\ PlacesKept /\ TornFromHome /\ PlanOK /\ [Next]_vars
    => PlacesKept' /\ TornFromHome'
<1> SUFFICES ASSUME OrganizerInv, OwnName, PlacesKept, TornFromHome, PlanOK, [Next]_vars
             PROVE  PlacesKept' /\ TornFromHome'
  OBVIOUS
<1>0. disk \in [Locs -> Files \cup {Torn, Nothing}] /\ Torn \notin Files /\ Nothing \notin Files
      /\ Torn # Nothing
  BY OrganizerAssumption DEF OrganizerInv, StateOK
<1>1. ASSUME UNCHANGED <<disk, erased>> PROVE PlacesKept' /\ TornFromHome'
  BY <1>1 DEF PlacesKept, TornFromHome
<1>2. CASE Rename \/ CopyDone
  <2>1. /\ pc \in Executing /\ Present(op.src) /\ erased' = erased
        /\ \/ disk' = [disk EXCEPT ![op.src] = Nothing, ![op.dst] = disk[op.src]]
           \/ disk' = [disk EXCEPT ![op.dst] = disk[op.src]]
    BY <1>2 DEF Rename, CopyDone, Movable, Executing, runVars
  <2>2. /\ op.src \in Locs /\ op.dst \in Locs /\ op.dst.dir = Goal[op.dst.name]
        /\ op.src.name = op.dst.name
    BY <2>1, OperationAtHand
  <2>3. CASE op.src = op.dst
    <3>1. disk' = disk
      BY <1>0, <2>1, <2>2, <2>3
    <3> QED BY <1>1, <2>1, <3>1
  <2>4. CASE op.src # op.dst
    <3>1. /\ disk'[op.dst] \in Files
          /\ \A l \in Locs : l # op.dst => disk'[l] \in {disk[l], Nothing}
          /\ \A l \in Locs : disk'[l] # disk[l] => l = op.dst \/ l = op.src
      BY <1>0, <2>1, <2>2, <2>4, NothingOverwritten
    <3>2. PlacesKept'
      BY <1>0, <2>2, <3>1 DEF PlacesKept
    <3>3. ASSUME NEW l \in Locs, disk'[l] = Torn
          PROVE  disk[l] = Torn /\ l # op.dst /\ l.name # op.dst.name
      <4>1. l # op.dst /\ disk[l] = Torn
        BY <1>0, <3>1, <3>3
      <4> QED BY <2>1, <4>1, OneDestination DEF OrganizerInv, TornInGoal
    <3>4. TornFromHome'
      BY <2>1, <2>2, <3>1, <3>3, TornStays DEF TornFromHome
    <3> QED BY <3>2, <3>4
  <2> QED BY <2>3, <2>4
<1>3. CASE StartCopy
  <2>1. /\ pc \in Executing /\ Present(op.src) /\ op.src # op.dst /\ erased' = erased
        /\ disk' = [disk EXCEPT ![op.dst] = Torn]
    BY <1>3 DEF StartCopy, Movable, Executing, runVars
  <2>2. /\ op.src \in Locs /\ op.dst \in Locs /\ op.dst.dir = Goal[op.dst.name]
        /\ op.src.name = op.dst.name
    BY <2>1, OperationAtHand
  <2>3. disk'[op.dst] = Torn /\ \A l \in Locs : l # op.dst => disk'[l] = disk[l]
    BY <1>0, <2>1, <2>2
  <2>4. PlacesKept'
    BY <1>0, <2>2, <2>3 DEF PlacesKept
  <2>5. ASSUME NEW l \in Locs, disk'[l] = Torn
        PROVE  \E f \in Files : /\ Home[f].name = l.name /\ Home[f].dir \in Within(Source)
                                /\ f \in erased' \/ disk'[Home[f]] = f
    <3>1. CASE l = op.dst
      <4> DEFINE f == disk[op.src]
      <4>1. f \in Files
        BY <2>1, NothingOverwritten
      <4>2. Home[f].name = op.src.name
        BY <2>2, <4>1 DEF OrganizerInv, NamesKept
      <4>3. op.src.dir # Goal[op.src.name]
        BY <2>1, <2>2, OneDestination
      <4>4. Home[f] = op.src
        BY <2>2, <4>1, <4>3 DEF PlacesKept
      <4>5. op.src.dir \in Within(Source)
        <5>1. Len(results) + 1 \in DOMAIN plan
          BY <2>1 DEF OrganizerInv, StateOK
        <5> QED BY <5>1 DEF PlanOK, op
      <4>6. disk'[Home[f]] = f
        BY <2>1, <2>2, <2>3, <4>4
      <4> HIDE DEF f
      <4> QED BY <2>2, <3>1, <4>1, <4>2, <4>4, <4>5, <4>6
    <3>2. CASE l # op.dst
      <4>1. disk[l] = Torn
        BY <2>3, <2>5, <3>2
      <4>2. l.name # op.dst.name
        BY <2>1, <3>2, <4>1, OneDestination DEF OrganizerInv, TornInGoal
      <4> QED BY <2>1, <2>3, <4>1, <4>2, TornStays
    <3> QED BY <3>1, <3>2
  <2>6. TornFromHome'
    BY <2>5 DEF TornFromHome
  <2> QED BY <2>4, <2>6
<1>4. CASE Unlink
  <2>1. /\ pc \in Executing /\ pc = "unlink" /\ erased' = erased
        /\ disk' = [disk EXCEPT ![op.src] = Nothing]
    BY <1>4 DEF Unlink, Executing, runVars
  <2>2. op.src \in Locs /\ op.dst \in Locs /\ op.src.name = op.dst.name
    BY <2>1, OperationAtHand
  <2>3. disk'[op.src] = Nothing /\ \A l \in Locs : l # op.src => disk'[l] = disk[l]
    BY <1>0, <2>1, <2>2
  <2>4. PlacesKept'
    BY <1>0, <2>3 DEF PlacesKept
  <2>5. ASSUME NEW l \in Locs, disk'[l] = Torn
        PROVE  \E f \in Files : /\ Home[f].name = l.name /\ Home[f].dir \in Within(Source)
                                /\ f \in erased' \/ disk'[Home[f]] = f
    <3>1. disk[l] = Torn
      BY <1>0, <2>3, <2>5
    <3>2. op.src.name # l.name \/ disk[op.src] \in erased \/ disk[op.src] \notin Files
      <4> SUFFICES ASSUME op.src.name = l.name, disk[op.src] \in Files
                   PROVE  disk[op.src] \in erased
        OBVIOUS
      <4>1. l = op.dst
        BY <2>1, <3>1, OneDestination DEF OrganizerInv, TornInGoal
      <4>2. disk[op.dst] = disk[op.src] \/ disk[op.src] \in erased
        BY <2>1 DEF OrganizerInv, CopyOK
      <4> QED BY <1>0, <3>1, <4>1, <4>2
    <3> QED BY <2>1, <2>3, <3>1, <3>2, TornStays
  <2>6. TornFromHome'
    BY <2>5 DEF TornFromHome
  <2> QED BY <2>4, <2>6
<1>5. ASSUME NEW k \in Locs, FileDeleted(k) PROVE PlacesKept' /\ TornFromHome'
  <2>1. /\ disk' = [disk EXCEPT ![k] = Nothing]
        /\ erased \subseteq erased' /\ (disk[k] \in Files => disk[k] \in erased')
    BY <1>5 DEF FileDeleted
  <2>2. disk'[k] = Nothing /\ \A l \in Locs : l # k => disk'[l] = disk[l]
    BY <1>0, <2>1
  <2>3. PlacesKept'
    BY <1>0, <2>2 DEF PlacesKept
  <2>4. \A l \in Locs : disk'[l] = Torn => disk[l] = Torn
    BY <1>0, <2>2
  <2>5. TornFromHome'
    BY <2>1, <2>2, <2>4, TornStays DEF TornFromHome
  <2> QED BY <2>3, <2>5
<1>6. CASE ~(Rename \/ CopyDone \/ StartCopy \/ Unlink \/ \E k \in Locs : FileDeleted(k))
  <2>1. UNCHANGED <<disk, erased>>
    BY <1>6 DEF Next, Start, Plan, PlanVideo, PlanWithoutSubtitles, PlanIsMade, Execute,
                ValidateFails, Validated, EnsureDestinationDirectory, MoveFails,
                OperationFails, Cleanup, Visit, NextPass, Killed, Others,
                DirectoryRemoved, vars, runVars
  <2> QED BY <1>1, <2>1
<1> QED BY <1>2, <1>3, <1>4, <1>5, <1>6

\* Videos that are planned for are in the organized folder, and so are the
\* subtitles beside them.
LEMMA PlanStep ==
    OrganizerInv /\ OneGoal /\ PlanOK /\ [Next]_vars => PlanOK'
<1> SUFFICES ASSUME OrganizerInv, OneGoal, PlanOK, [Next]_vars PROVE PlanOK'
  OBVIOUS
<1>1. CASE Start
  <2>1. plan' = <<>> /\ todo' = Videos
    BY <1>1 DEF Start
  <2> QED BY <2>1 DEF PlanOK, Videos
<1>2. ASSUME NEW l \in Locs, PlanVideo(l) \/ PlanWithoutSubtitles(l) PROVE PlanOK'
  <2>1. PICK ops : PlansFor(l, ops)
    BY <1>2, VideosPlanned
  <2>2. pc = "plan" /\ l \in todo /\ todo' = todo \ {l}
    BY <1>2 DEF PlanVideo, PlanWithoutSubtitles
  <2>3. l.dir \in Within(Source)
    BY <2>2 DEF PlanOK
  <2>4. ASSUME NEW k \in DOMAIN ops
        PROVE  /\ ops[k].src.dir \in Within(Source)
               /\ ops[k].file \in Files => Home[ops[k].file].name = ops[k].src.name
    BY <2>1, <2>3 DEF PlansFor, OrganizerInv, NamesKept
  <2>5. ASSUME NEW i \in DOMAIN plan'
        PROVE  \/ i \in DOMAIN plan /\ plan'[i] = plan[i]
               \/ \E k \in DOMAIN ops : plan'[i] = ops[k]
    BY <2>1, PlanExtended
  <2> QED BY <2>2, <2>4, <2>5 DEF PlanOK
<1>3. CASE Killed
  BY <1>3 DEF Killed, PlanOK
<1>4. CASE PlanIsMade \/ Execute \/ Cleanup \/ Others \/ UNCHANGED vars
  <2>1. plan' = plan /\ (pc' = "plan" => pc = "plan" /\ todo' = todo)
    BY <1>4 DEF PlanIsMade, Execute, ValidateFails, Validated, EnsureDestinationDirectory,
                Rename, StartCopy, MoveFails, CopyDone, Unlink, OperationFails, Note,
                Cleanup, Visit, NextPass, Others, FileDeleted, DirectoryRemoved, vars
  <2> QED BY <2>1 DEF PlanOK
<1> QED BY <1>1, <1>2, <1>3, <1>4 DEF Next, Plan

-----------------------------------------------------------------------------
(* What holds during a run that nothing has troubled so far.                 *)

\* What a video has to leave.
Misplaced(l) ==
    /\ l.dir \in Within(Source) /\ l.name \notin Subtitles /\ Present(l)
    /\ l.dir # Goal[l.name]

\* The operation of l is yet to be executed.
Ahead(l) == \E i \in DOMAIN plan : i > Len(results) /\ plan[i].src = l

\* The file of an operation is at its destination, or written there anew.
AtGoal(i) ==
    plan[i].file \in Files =>
      \/ disk[plan[i].dst] = plan[i].file
      \/ pc = "copy" /\ op.dst = plan[i].dst

\* What is not in place yet is still planned for, and what is done stays done.
VideosAhead == \A l \in Locs : Misplaced(l) => (pc = "plan" /\ l \in todo) \/ Ahead(l)
SubtitlesAhead ==
    \A i \in DOMAIN plan : \A s \in Locs :
      /\ plan[i].src.name \notin Subtitles /\ <<plan[i].src.name, s.name>> \in Matches
      /\ s.dir = plan[i].src.dir /\ Present(s)
      => s.dir = Goal[s.name] \/ Ahead(s)
DoneStays ==
    /\ \A i \in DOMAIN plan :
         plan[i].src = plan[i].dst \/ (i \in DOMAIN results /\ results[i]) => AtGoal(i)
    /\ \A i \in DOMAIN results :
         results[i] /\ plan[i].src # plan[i].dst => ~Present(plan[i].src)
NothingFails ==
    /\ pc = "plan" \/ pc \in Executing => created \subseteq dirs
    /\ pc = "move" => op.dst.dir \in dirs
    /\ pc \in {"mkdir", "move", "copy"} => Present(op.src)
    /\ pc = "unlink" /\ op.file \in Files => disk[op.dst] = op.file
    /\ pc \in {"cleanup", "done"} => Len(results) = Len(plan)

CalmOK ==
    pc # "idle" /\ ~troubled => VideosAhead /\ SubtitlesAhead /\ DoneStays /\ NothingFails

\* Nothing comes to be where it does not have to go, and what has been tried
\* is no longer there: the rest is still ahead.
LEMMA AheadKept ==
    ASSUME OrganizerInv, VideosAhead, SubtitlesAhead,
           plan' = plan, pc \in Executing,
           results' = results \/ \E r \in BOOLEAN : results' = Append(results, r),
           \A l \in Locs : disk'[l] # Nothing =>
             l.dir = Goal[l.name] \/ (Present(l) /\ (l # op.src \/ results' = results))
    PROVE  VideosAhead' /\ SubtitlesAhead'
<1>1. plan \in Seq(Ops) /\ results \in Seq(BOOLEAN)
  BY DEF OrganizerInv, StateOK
<1>2. ASSUME NEW l \in Locs, Ahead(l), l # op.src \/ results' = results
      PROVE  Ahead(l)'
  <2>1. PICK i \in DOMAIN plan : i > Len(results) /\ plan[i].src = l
    BY <1>2 DEF Ahead
  <2>2. CASE results' = results
    BY <1>1, <2>1, <2>2 DEF Ahead
  <2>3. CASE l # op.src /\ \E r \in BOOLEAN : results' = Append(results, r)
    <3>1. Len(results') = Len(results) + 1
      BY <1>1, <2>3
    <3>2. i # Len(results) + 1
      BY <2>1, <2>3 DEF op
    <3>3. i > Len(results')
      BY <1>1, <2>1, <3>1, <3>2
    <3> QED BY <2>1, <3>3 DEF Ahead
  <2> QED BY <1>2, <2>2, <2>3
<1>3. VideosAhead'
  <2> SUFFICES ASSUME NEW l \in Locs, Misplaced(l)' PROVE Ahead(l)'
    BY DEF VideosAhead
  <2>1. Misplaced(l) /\ (l # op.src \/ results' = results)
    BY DEF Misplaced, Present, Within, Below
  <2>2. Ahead(l)
    BY <2>1 DEF VideosAhead, Executing
  <2> QED BY <1>2, <2>1, <2>2
<1>4. SubtitlesAhead'
  <2> SUFFICES ASSUME NEW i \in DOMAIN plan, NEW s \in Locs,
                      plan[i].src.name \notin Subtitles,
                      <<plan[i].src.name, s.name>> \in Matches,
                      s.dir = plan[i].src.dir, disk'[s] # Nothing, s.dir # Goal[s.name]
               PROVE  Ahead(s)'
    BY DEF SubtitlesAhead, Present
  <2>1. Present(s) /\ (s # op.src \/ results' = results)
    OBVIOUS
  <2>2. Ahead(s)
    BY <2>1 DEF SubtitlesAhead
  <2> QED BY <1>2, <2>1, <2>2
<1> QED BY <1>3, <1>4

\* Operations that are at their goal stay there, and the one that is noted as
\* done has come there and left its source.
LEMMA DoneKept ==
    ASSUME OrganizerInv, DoneStays, plan' = plan, pc \in Executing,
           \A i \in DOMAIN plan : AtGoal(i) => AtGoal(i)',
           \A l \in Locs : disk'[l] # Nothing => Present(l) \/ l.dir = Goal[l.name],
           \/ results' = results
           \/ \E r \in BOOLEAN :
                /\ results' = Append(results, r)
                /\ r => /\ \A k \in DOMAIN plan : k = Len(results) + 1 => AtGoal(k)'
                        /\ op.src # op.dst => disk'[op.src] = Nothing
    PROVE  DoneStays'
<1>1. plan \in Seq(Ops) /\ results \in Seq(BOOLEAN) /\ Len(results) < Len(plan)
  BY DEF OrganizerInv, StateOK
<1>2. ASSUME NEW i \in DOMAIN results', results'[i]
      PROVE  \/ i \in DOMAIN results /\ results[i]
             \/ /\ i = Len(results) + 1 /\ AtGoal(i)'
                /\ plan[i].src # plan[i].dst => disk'[plan[i].src] = Nothing
  <2>1. CASE results' = results
    BY <1>2, <2>1
  <2>2. CASE results' # results
    <3>1. PICK r \in BOOLEAN :
            /\ results' = Append(results, r)
            /\ r => /\ \A k \in DOMAIN plan : k = Len(results) + 1 => AtGoal(k)'
                    /\ op.src # op.dst => disk'[op.src] = Nothing
      BY <2>2
    <3>2. \/ i = Len(results) + 1
          \/ i \in DOMAIN results
      BY <1>1, <1>2, <3>1
    <3>3. results'[Len(results) + 1] = r /\ \A k \in DOMAIN results : results'[k] = results[k]
      BY <1>1, <3>1
    <3>4. CASE i \in DOMAIN results
      BY <1>2, <3>3, <3>4, Zenon
    <3>5. CASE i = Len(results) + 1
      <4>1. r
        BY <1>2, <3>3, <3>5, Zenon
      <4>2. AtGoal(i)' /\ (op.src # op.dst => disk'[op.src] = Nothing)
        <5>1. i \in DOMAIN plan
          BY <1>1, <3>5
        <5> QED BY <3>1, <3>5, <4>1, <5>1, Zenon
      <4> QED BY <3>5, <4>2 DEF op
    <3> QED BY <3>2, <3>4, <3>5
  <2> QED BY <2>1, <2>2
<1>3. ASSUME NEW i \in DOMAIN plan,
             plan[i].src = plan[i].dst \/ (i \in DOMAIN results' /\ results'[i])
      PROVE  AtGoal(i)'
  BY <1>2, <1>3 DEF DoneStays
<1>4. ASSUME NEW i \in DOMAIN results', results'[i], plan[i].src # plan[i].dst
      PROVE  disk'[plan[i].src] = Nothing
  <2>1. CASE i \in DOMAIN results /\ results[i]
    <3>1. ~Present(plan[i].src)
      BY <1>4, <2>1 DEF DoneStays
    <3>2. i \in DOMAIN plan
      BY <1>1, <2>1
    <3>3. plan[i] \in Ops /\ plan[i].dst = Destination(plan[i].src)
      BY <1>1, <3>2 DEF OrganizerInv, DestinationsOK
    <3>4. plan[i].src \in Locs /\ plan[i].src.dir # Goal[plan[i].src.name]
      BY <1>4, <3>3 DEF Ops, Destination, Locs
    <3> QED BY <3>1, <3>4
  <2> QED BY <1>2, <1>4, <2>1
<1> QED BY <1>3, <1>4 DEF DoneStays, Present

\* Noting how an operation ended leads to the next one or ends the plan.
LEMMA NoteCalm ==
    ASSUME OrganizerInv, NothingFails, pc \in Executing, NEW r \in BOOLEAN, Note(r),
           UNCHANGED <<plan, dirs, created>>
    PROVE  NothingFails'
<1>1. results \in Seq(BOOLEAN) /\ plan \in Seq(Ops) /\ Len(results) < Len(plan)
  BY DEF OrganizerInv, StateOK
<1>2. /\ results' = Append(results, r) /\ pc' \in {"validate", "cleanup", "done"}
      /\ pc' # "validate" => ~(Len(results') < Len(plan))
  BY DEF Note
<1>3. Len(results') = Len(results) + 1
  BY <1>1, <1>2
<1>4. pc' \in {"cleanup", "done"} => Len(results') = Len(plan')
  BY <1>1, <1>2, <1>3
<1> QED BY <1>2, <1>4 DEF NothingFails, Executing

\* Operations that go to one place are of one file.
LEMMA SameFile ==
    ASSUME OrganizerInv, OwnName, PlanOK, pc \in Executing, disk[op.src] \in Files,
           NEW i \in DOMAIN plan, plan[i].dst = op.dst, plan[i].file \in Files
    PROVE  disk[op.src] = plan[i].file
<1>1. op.src \in Locs /\ op.src.name = op.dst.name
  BY OperationAtHand
<1>2. plan[i].dst = Destination(plan[i].src)
  BY DEF OrganizerInv, DestinationsOK
<1>3. plan[i].src.name = op.src.name
  BY <1>1, <1>2 DEF Destination
<1>4. Home[plan[i].file].name = op.src.name
  BY <1>3 DEF PlanOK
<1>5. Home[disk[op.src]].name = op.src.name
  BY <1>1 DEF OrganizerInv, NamesKept
<1> QED BY <1>4, <1>5 DEF OwnName

\* A move takes nothing from its goal.
LEMMA GoalsKept ==
    ASSUME OrganizerInv, OwnName, PlanOK, pc \in Executing, plan' = plan, op.src # op.dst,
           \A l \in Locs \ {op.src, op.dst} : disk'[l] = disk[l],
           \/ Present(op.src) /\ disk'[op.dst] = disk[op.src]
           \/ pc # "copy" /\ disk'[op.dst] = disk[op.dst]
           \/ pc # "copy" /\ pc' = "copy" /\ op' = op,
           NEW i \in DOMAIN plan, AtGoal(i)
    PROVE  AtGoal(i)'
<1> SUFFICES ASSUME plan[i].file \in Files PROVE AtGoal(i)'
  BY DEF AtGoal
<1>1. Present(op.src) => disk[op.src] \in Files
  BY NothingOverwritten
<1>2. plan[i].dst \in Locs /\ plan[i].dst.dir = Goal[plan[i].dst.name]
  <2>1. plan[i] \in Ops /\ plan[i].dst = Destination(plan[i].src)
    BY DEF OrganizerInv, StateOK, DestinationsOK
  <2> QED BY <2>1 DEF Ops, Destination
<1>3. plan[i].dst # op.src
  BY <1>2, OneDestination
<1>4. CASE plan[i].dst = op.dst
  <2>1. CASE Present(op.src) /\ disk'[op.dst] = disk[op.src]
    BY <1>1, <1>4, <2>1, SameFile DEF AtGoal
  <2>2. CASE pc # "copy" /\ disk'[op.dst] = disk[op.dst]
    BY <1>4, <2>2 DEF AtGoal
  <2>3. CASE pc' = "copy" /\ op' = op
    BY <1>4, <2>3 DEF AtGoal
  <2> QED BY <2>1, <2>2, <2>3
<1>5. CASE plan[i].dst # op.dst
  BY <1>2, <1>3, <1>5 DEF AtGoal
<1> QED BY <1>4, <1>5

\* The file is moved, at once or by a copy and an unlink.
LEMMA MovesCalm ==
    ASSUME OrganizerInv, OwnName, PlanOK, VideosAhead, SubtitlesAhead, DoneStays, NothingFails,
           Rename \/ StartCopy \/ CopyDone \/ Unlink
    PROVE  VideosAhead' /\ SubtitlesAhead' /\ DoneStays' /\ NothingFails'
<1>1. pc \in Executing /\ UNCHANGED <<plan, dirs, created>>
  BY DEF Rename, StartCopy, CopyDone, Unlink, Executing
<1>2. /\ op.src \in Locs /\ op.dst \in Locs /\ op.dst = Destination(op.src)
      /\ op.src.name = op.dst.name /\ op.dst.dir = Goal[op.dst.name]
      /\ disk \in [Locs -> Files \cup {Torn, Nothing}]
  BY <1>1, OperationAtHand DEF OrganizerInv, StateOK
<1> DEFINE k == Len(results) + 1
<1>3. k \in DOMAIN plan /\ op = plan[k] /\ k \notin DOMAIN results
  BY <1>1 DEF OrganizerInv, StateOK, op
<1>4. /\ \A l \in Locs \ {op.src, op.dst} : disk'[l] = disk[l]
      /\ disk'[op.src] # Nothing => Present(op.src)
  BY <1>2 DEF Rename, StartCopy, CopyDone, Unlink, Movable, Present
<1>5. \A l \in Locs : disk'[l] # Nothing => Present(l) \/ l.dir = Goal[l.name]
  BY <1>2, <1>4 DEF Present
<1> HIDE DEF k
<1>6. CASE Rename /\ op.src = op.dst
  <2>1. Note(TRUE) /\ disk' = disk /\ pc' # "copy" /\ results' = Append(results, TRUE)
    BY <1>2, <1>6 DEF Rename, Note
  <2>2. NothingFails'
    BY <1>1, <2>1, NoteCalm
  <2>3. ASSUME NEW l \in Locs, disk'[l] # Nothing
        PROVE  l.dir = Goal[l.name] \/ (Present(l) /\ (l # op.src \/ results' = results))
    BY <1>2, <1>6, <2>1, <2>3 DEF Present
  <2>4. VideosAhead' /\ SubtitlesAhead'
    BY <1>1, <2>1, <2>3, AheadKept
  <2>5. pc # "copy"
    BY <1>6 DEF Rename
  <2>6. \A i \in DOMAIN plan : AtGoal(i) => AtGoal(i)'
    BY <1>1, <2>1, <2>5 DEF AtGoal
  <2>7. AtGoal(k)
    BY <1>3, <1>6 DEF DoneStays
  <2>8. \A i \in DOMAIN plan : i = Len(results) + 1 => AtGoal(i)'
    BY <1>3, <2>6, <2>7 DEF k
  <2>9. DoneStays'
    BY <1>1, <1>5, <1>6, <2>1, <2>6, <2>8, DoneKept
  <2> QED BY <2>2, <2>4, <2>9
<1>7. CASE Rename /\ op.src # op.dst
  <2>1. /\ Note(TRUE) /\ results' = Append(results, TRUE) /\ Present(op.src) /\ pc' # "copy"
        /\ disk'[op.src] = Nothing /\ disk'[op.dst] = disk[op.src]
    BY <1>2, <1>7 DEF Rename, Movable, Note
  <2>2. NothingFails'
    BY <1>1, <2>1, NoteCalm
  <2>3. VideosAhead' /\ SubtitlesAhead'
    BY <1>1, <1>2, <1>4, <2>1, AheadKept DEF Present
  <2>4. \A i \in DOMAIN plan : AtGoal(i) => AtGoal(i)'
    BY <1>1, <1>4, <1>7, <2>1, GoalsKept
  <2>5. \A i \in DOMAIN plan : i = Len(results) + 1 => AtGoal(i)'
    <3>1. disk[op.src] \in Files
      BY <1>1, <2>1, <1>7, NothingOverwritten
    <3>2. op.file \in Files => disk[op.src] = op.file
      BY <1>1, <1>3, <3>1, SameFile
    <3> QED BY <1>1, <1>3, <2>1, <3>2 DEF AtGoal, k
  <2>6. DoneStays'
    BY <1>1, <1>5, <2>1, <2>4, <2>5, DoneKept
  <2> QED BY <2>2, <2>3, <2>6
<1>8. CASE StartCopy
  <2>1. /\ op.src # op.dst /\ results' = results /\ Present(op.src)
        /\ pc = "move" /\ pc' = "copy" /\ op' = op
        /\ disk'[op.src] = disk[op.src]
    BY <1>1, <1>2, <1>8 DEF StartCopy, Movable, op
  <2>2. NothingFails'
    BY <1>1, <2>1 DEF NothingFails, Executing, Present
  <2>3. VideosAhead' /\ SubtitlesAhead'
    BY <1>1, <1>2, <1>4, <2>1, AheadKept DEF Present
  <2>4. \A i \in DOMAIN plan : AtGoal(i) => AtGoal(i)'
    BY <1>1, <1>4, <2>1, GoalsKept
  <2>5. DoneStays'
    BY <1>1, <1>5, <2>1, <2>4, DoneKept
  <2> QED BY <2>2, <2>3, <2>5
<1>9. CASE CopyDone
  <2>1. /\ op.src # op.dst /\ results' = results /\ Present(op.src)
        /\ pc' = "unlink" /\ op' = op
        /\ disk'[op.src] = disk[op.src] /\ disk'[op.dst] = disk[op.src]
    BY <1>1, <1>2, <1>9 DEF CopyDone, op, OrganizerInv, CopyOK
  <2>2. op.file \in Files => disk[op.src] = op.file
    <3>1. disk[op.src] \in Files
      BY <1>1, <2>1, NothingOverwritten
    <3> QED BY <1>1, <1>3, <3>1, SameFile
  <2>3. NothingFails'
    BY <1>1, <2>1, <2>2 DEF NothingFails, Executing, Present
  <2>4. VideosAhead' /\ SubtitlesAhead'
    BY <1>1, <1>2, <1>4, <2>1, AheadKept DEF Present
  <2>5. \A i \in DOMAIN plan : AtGoal(i) => AtGoal(i)'
    BY <1>1, <1>4, <2>1, GoalsKept
  <2>6. DoneStays'
    BY <1>1, <1>5, <2>1, <2>5, DoneKept
  <2> QED BY <2>3, <2>4, <2>6
<1>10. CASE Unlink
  <2>1. /\ op.src # op.dst /\ Note(TRUE) /\ results' = Append(results, TRUE)
        /\ pc = "unlink" /\ pc' # "copy"
        /\ disk'[op.src] = Nothing /\ disk'[op.dst] = disk[op.dst]
    BY <1>1, <1>2, <1>10 DEF Unlink, Note, OrganizerInv, CopyOK
  <2>2. NothingFails'
    BY <1>1, <2>1, NoteCalm
  <2>3. VideosAhead' /\ SubtitlesAhead'
    BY <1>1, <1>2, <1>4, <2>1, AheadKept DEF Present
  <2>4. \A i \in DOMAIN plan : AtGoal(i) => AtGoal(i)'
    BY <1>1, <1>4, <2>1, GoalsKept
  <2>5. \A i \in DOMAIN plan : i = Len(results) + 1 => AtGoal(i)'
    BY <1>1, <1>3, <2>1 DEF AtGoal, k, NothingFails
  <2>6. DoneStays'
    BY <1>1, <1>5, <2>1, <2>4, <2>5, DoneKept
  <2> QED BY <2>2, <2>3, <2>6
<1> QED BY <1>6, <1>7, <1>8, <1>9, <1>10

LEMMA CalmExecute ==
    ASSUME OrganizerInv, OwnName, PlanOK, VideosAhead, SubtitlesAhead, DoneStays, NothingFails,
           Execute, ~troubled'
    PROVE  VideosAhead' /\ SubtitlesAhead' /\ DoneStays' /\ NothingFails'
<1>1. ~MoveFails /\ ~OperationFails
  BY DEF MoveFails, OperationFails, Movable, Trouble, NothingFails
<1>2. CASE ValidateFails
  <2>1. /\ pc \in Executing /\ Note(FALSE) /\ results' = Append(results, FALSE)
        /\ ~Present(op.src) /\ pc # "copy" /\ UNCHANGED <<disk, dirs, plan, created>>
    BY <1>2 DEF ValidateFails, Executing, Note
  <2>2. NothingFails'
    BY <2>1, NoteCalm
  <2>3. VideosAhead' /\ SubtitlesAhead'
    BY <2>1, AheadKept DEF Present
  <2>4. \A i \in DOMAIN plan : AtGoal(i) => AtGoal(i)'
    BY <2>1 DEF AtGoal
  <2>5. DoneStays'
    BY <2>1, <2>4, DoneKept DEF Present
  <2> QED BY <2>2, <2>3, <2>5
<1>3. CASE Validated \/ EnsureDestinationDirectory
  <2>1. /\ pc \in Executing /\ pc # "copy" /\ UNCHANGED <<disk, plan, results>> /\ op' = op
    BY <1>3 DEF Validated, EnsureDestinationDirectory, Executing, op
  <2>2. VideosAhead' /\ SubtitlesAhead'
    BY <2>1, AheadKept DEF Present
  <2>3. \A i \in DOMAIN plan : AtGoal(i) => AtGoal(i)'
    BY <2>1 DEF AtGoal
  <2>4. DoneStays'
    BY <2>1, <2>3, DoneKept DEF Present
  <2>5. CASE Validated
    <3>1. pc' = "mkdir" /\ Present(op.src) /\ UNCHANGED <<dirs, created>>
      BY <2>5 DEF Validated
    <3>2. NothingFails'
      BY <2>1, <3>1 DEF NothingFails, Executing, Present
    <3> QED BY <2>2, <2>4, <3>2
  <2>6. CASE EnsureDestinationDirectory
    <3>1. /\ pc = "mkdir" /\ pc' = "move" /\ Present(op.src)
          /\ created \subseteq dirs
      BY <2>6 DEF EnsureDestinationDirectory, NothingFails, Executing
    <3>2. created' \subseteq dirs' /\ op.dst.dir \in dirs'
      BY <2>6, <3>1 DEF EnsureDestinationDirectory, Above
    <3>3. NothingFails'
      BY <2>1, <3>1, <3>2 DEF NothingFails, Executing, Present
    <3> QED BY <2>2, <2>4, <3>3
  <2> QED BY <1>3, <2>5, <2>6
<1> QED BY <1>1, <1>2, <1>3, MovesCalm DEF Execute

\* A video that is planned for is ahead, with the subtitles beside it.
LEMMA CalmPlan ==
    ASSUME OrganizerInv, OneGoal, PlanOK, VideosAhead, SubtitlesAhead, DoneStays, NothingFails,
           NEW l \in Locs, PlanVideo(l), ~troubled'
    PROVE  VideosAhead' /\ SubtitlesAhead' /\ DoneStays' /\ NothingFails'
<1>1. PICK ops : PlansFor(l, ops)
  BY VideosPlanned
<1>2. /\ \A i \in DOMAIN plan : i \in DOMAIN plan' /\ plan'[i] = plan[i]
      /\ \A k \in DOMAIN ops : \E i \in DOMAIN plan' : i > 0 /\ plan'[i] = ops[k]
      /\ \A i \in DOMAIN plan' :
           \/ i \in DOMAIN plan /\ plan'[i] = plan[i]
           \/ \E k \in DOMAIN ops : plan'[i] = ops[k]
  BY <1>1, PlanExtended
<1>3. /\ pc = "plan" /\ l \in todo /\ todo' = todo \ {l} /\ results = <<>>
      /\ UNCHANGED <<disk, dirs, pc, results, created>>
  BY DEF PlanVideo, OrganizerInv, StateOK
<1>4. ASSUME NEW s \in Locs, Ahead(s) \/ \E k \in DOMAIN ops : ops[k].src = s
      PROVE  Ahead(s)'
  <2>1. CASE Ahead(s)
    BY <1>2, <1>3, <2>1 DEF Ahead
  <2>2. CASE \E k \in DOMAIN ops : ops[k].src = s
    BY <1>2, <1>3, <2>2 DEF Ahead
  <2> QED BY <1>4, <2>1, <2>2
<1>5. VideosAhead'
  <2> SUFFICES ASSUME NEW v \in Locs, Misplaced(v)' PROVE v \in todo' \/ Ahead(v)'
    BY <1>3 DEF VideosAhead
  <2>1. Misplaced(v)
    BY <1>3 DEF Misplaced, Present, Within, Below
  <2>2. CASE v = l
    <3>1. \E k \in DOMAIN ops : ops[k].src = l
      BY <1>1, <2>1, <2>2 DEF PlansFor, Misplaced
    <3> QED BY <1>4, <2>2, <3>1
  <2>3. CASE v # l
    BY <1>3, <1>4, <2>1, <2>3 DEF VideosAhead
  <2> QED BY <2>2, <2>3
<1>6. SubtitlesAhead'
  <2> SUFFICES ASSUME NEW i \in DOMAIN plan', NEW s \in Locs,
                      plan'[i].src.name \notin Subtitles,
                      <<plan'[i].src.name, s.name>> \in Matches,
                      s.dir = plan'[i].src.dir, disk'[s] # Nothing, s.dir # Goal[s.name]
               PROVE  Ahead(s)'
    BY DEF SubtitlesAhead, Present
  <2>1. CASE i \in DOMAIN plan /\ plan'[i] = plan[i]
    <3>1. Ahead(s)
      BY <1>3, <2>1 DEF SubtitlesAhead, Present
    <3> QED BY <1>4, <3>1
  <2>2. CASE \E k \in DOMAIN ops : plan'[i] = ops[k]
    <3>1. plan'[i].src = l /\ Present(l)
      BY <1>1, <2>2 DEF PlansFor
    <3>2. Goal[s.name] = Goal[l.name]
      BY <3>1 DEF OneGoal
    <3>3. \E k \in DOMAIN ops : ops[k].src = s
      BY <1>1, <1>3, <3>1, <3>2 DEF PlansFor, Present
    <3> QED BY <1>4, <3>3
  <2> QED BY <1>2, <2>1, <2>2
<1>7. DoneStays'
  <2>1. ASSUME NEW i \in DOMAIN plan', plan'[i].src = plan'[i].dst PROVE AtGoal(i)'
    BY <1>1, <1>2, <1>3, <2>1 DEF PlansFor, DoneStays, AtGoal
  <2> QED BY <1>3, <2>1 DEF DoneStays
<1>8. NothingFails'
  BY <1>3 DEF NothingFails, Executing
<1> QED BY <1>5, <1>6, <1>7, <1>8

LEMMA CalmStep ==
    OrganizerInv /\ OwnName /\ OneGoal /\ PlanOK /\ CalmOK /\ [Next]_vars => CalmOK'
<1> SUFFICES ASSUME OrganizerInv, OwnName, OneGoal, PlanOK, CalmOK, [Next]_vars,
                    pc' # "idle", ~troubled'
             PROVE  VideosAhead' /\ SubtitlesAhead' /\ DoneStays' /\ NothingFails'
  BY DEF CalmOK
<1>1. CASE Start
  <2>1. /\ pc' = "plan" /\ todo' = Videos /\ plan' = <<>> /\ results' = <<>>
        /\ created' = {} /\ disk' = disk
    BY <1>1 DEF Start
  <2>2. VideosAhead'
    <3> SUFFICES ASSUME NEW l \in Locs, Misplaced(l)' PROVE l \in todo'
      BY <2>1 DEF VideosAhead
    <3> QED BY <2>1 DEF Misplaced, Videos, Present, Within, Below
  <2>3. SubtitlesAhead' /\ DoneStays' /\ NothingFails'
    BY <2>1 DEF SubtitlesAhead, DoneStays, NothingFails, Executing
  <2> QED BY <2>2, <2>3
<1>2. CASE Plan
  <2>1. pc = "plan" /\ ~troubled
    <3>1. ~\E l \in Locs : PlanWithoutSubtitles(l)
      BY DEF PlanWithoutSubtitles, Trouble
    <3>2. pc = "plan" /\ troubled' = troubled
      BY <1>2, <3>1 DEF Plan, PlanVideo, PlanIsMade, runVars
    <3>3. ~troubled
      BY <3>2
    <3> QED BY <3>2, <3>3
  <2>2. VideosAhead /\ SubtitlesAhead /\ DoneStays /\ NothingFails
    BY <2>1 DEF CalmOK
  <2>3. ASSUME NEW l \in Locs, PlanWithoutSubtitles(l) PROVE FALSE
    BY <2>3 DEF PlanWithoutSubtitles, Trouble
  <2>4. CASE PlanIsMade
    <3>1. /\ todo = {} /\ pc' \in {"validate", "done"} /\ results = <<>>
          /\ UNCHANGED <<disk, dirs, plan, results, created>>
          /\ (pc' = "done" => plan = <<>>)
      BY <2>4 DEF PlanIsMade, OrganizerInv, StateOK
    <3>2. VideosAhead'
      BY <2>2, <3>1 DEF VideosAhead, Misplaced, Ahead, Present, Within, Below
    <3>3. SubtitlesAhead' /\ DoneStays'
      BY <2>1, <2>2, <3>1 DEF SubtitlesAhead, DoneStays, AtGoal, Ahead, Present
    <3>4. NothingFails'
      BY <2>1, <2>2, <3>1 DEF NothingFails, Executing
    <3> QED BY <3>2, <3>3, <3>4
  <2> QED BY <1>2, <2>2, <2>3, <2>4, CalmPlan DEF Plan
<1>3. CASE Execute
  <2>1. pc # "idle" /\ ~troubled
    <3>1. ~OperationFails
      BY DEF OperationFails, Trouble
    <3>2. pc # "idle" /\ troubled' = troubled
      BY <1>3, <3>1 DEF Execute, ValidateFails, Validated, EnsureDestinationDirectory,
                        Rename, StartCopy, MoveFails, CopyDone, Unlink, runVars
    <3>3. ~troubled
      BY <3>2
    <3> QED BY <3>2, <3>3
  <2> QED BY <1>3, <2>1, CalmExecute DEF CalmOK
<1>4. CASE Cleanup
  <2>1. /\ pc = "cleanup" /\ ~troubled /\ pc' \in {"cleanup", "done"}
        /\ UNCHANGED <<disk, plan, results>>
    BY <1>4 DEF Cleanup, Visit, NextPass, runVars
  <2>2. VideosAhead /\ SubtitlesAhead /\ DoneStays /\ NothingFails
    BY <2>1 DEF CalmOK
  <2>3. VideosAhead' /\ SubtitlesAhead' /\ DoneStays'
    BY <2>1, <2>2 DEF VideosAhead, Misplaced, Within, Below, SubtitlesAhead, DoneStays,
                      AtGoal, Ahead, Present
  <2>4. NothingFails'
    BY <2>1, <2>2 DEF NothingFails, Executing
  <2> QED BY <2>3, <2>4
<1>5. CASE Killed \/ Others
  BY <1>5 DEF Killed, Others, FileDeleted, DirectoryRemoved, Trouble
<1>6. CASE UNCHANGED vars
  <2>1. UNCHANGED <<disk, dirs, pc, todo, plan, results, created, troubled>> /\ op' = op
    BY <1>6 DEF vars, op
  <2>2. VideosAhead /\ SubtitlesAhead /\ DoneStays /\ NothingFails
    BY <2>1 DEF CalmOK
  <2> QED BY <2>1, <2>2 DEF VideosAhead, Misplaced, Within, Below, SubtitlesAhead, DoneStays,
                            AtGoal, Ahead, Present, NothingFails
<1> QED BY <1>1, <1>2, <1>3, <1>4, <1>5, <1>6 DEF Next

\* The inductive invariant of the order.
OrderInv ==
    OrganizerInv /\ TreeOK /\ RestOK /\ PlacesKept /\ TornFromHome /\ PlanOK /\ CalmOK

\* A run that is over has nothing ahead, so all is where it has to be; what is
\* torn is not one of a file at home, as that would be where it has to be, too.
LEMMA OrderFollows == OrderInv /\ OneGoal => LibraryInOrder
<1> SUFFICES ASSUME OrderInv, OneGoal PROVE LibraryInOrder
  OBVIOUS
<1>1. TypeOK
  BY TypesFollow DEF OrderInv
<1> SUFFICES ASSUME Undisturbed PROVE VideosInPlace /\ DoneIsDone /\ SubtitlesFollow
  BY <1>1 DEF LibraryInOrder, VideosInPlace, DoneIsDone, SubtitlesFollow
<1>2. VideosAhead /\ SubtitlesAhead /\ DoneStays /\ NothingFails /\ pc = "done"
  BY DEF OrderInv, CalmOK, Undisturbed
<1>3. plan \in Seq(Ops) /\ results \in Seq(BOOLEAN) /\ Len(results) = Len(plan)
  BY <1>2 DEF OrderInv, OrganizerInv, StateOK, NothingFails
<1>4. \A l \in Locs : ~Ahead(l)
  BY <1>3 DEF Ahead
<1>5. \A l \in Locs : ~Misplaced(l)
  BY <1>2, <1>4 DEF VideosAhead
<1>6. ASSUME NEW l \in Locs, l.dir \in Within(Source), l.name \notin Subtitles, Present(l)
      PROVE  /\ l.dir = Goal[l.name]
             /\ disk[l] = Torn => \E f \in erased : Home[f].name = l.name
  <2>1. l.dir = Goal[l.name]
    BY <1>5, <1>6 DEF Misplaced
  <2>2. ASSUME disk[l] = Torn PROVE \E f \in erased : Home[f].name = l.name
    <3>1. PICK f \in Files : /\ Home[f].name = l.name /\ Home[f].dir \in Within(Source)
                             /\ f \in erased \/ disk[Home[f]] = f
      BY <2>2 DEF OrderInv, TornFromHome
    <3>2. CASE disk[Home[f]] = f
      <4>1. Home[f] \in Locs /\ Present(Home[f])
        BY <3>2, OrganizerAssumption DEF Present
      <4>2. Home[f].dir = Goal[Home[f].name]
        BY <1>5, <1>6, <3>1, <4>1 DEF Misplaced
      <4>3. Home[f] = l
        BY <2>1, <3>1, <4>1, <4>2 DEF Locs
      <4> QED BY <2>2, <3>2, <4>3, OrganizerAssumption
    <3> QED BY <3>1, <3>2
  <2> QED BY <2>1, <2>2
<1>7. VideosInPlace
  BY <1>1, <1>6 DEF VideosInPlace
<1>8. DoneIsDone
  <2> SUFFICES ASSUME NEW i \in DOMAIN results, results[i]
               PROVE  /\ plan[i].file # Torn => disk[plan[i].dst] = plan[i].file
                      /\ plan[i].src # plan[i].dst => ~Present(plan[i].src)
    BY DEF DoneIsDone
  <2>1. i \in DOMAIN plan /\ plan[i] \in Ops
    BY <1>3
  <2>2. AtGoal(i) /\ (plan[i].src # plan[i].dst => ~Present(plan[i].src))
    BY <1>2, <2>1 DEF DoneStays
  <2> QED BY <1>2, <2>1, <2>2 DEF AtGoal, Ops
<1>9. SubtitlesFollow
  <2> SUFFICES ASSUME NEW i \in DOMAIN plan, NEW s \in Locs,
                      plan[i].src.name \notin Subtitles,
                      <<plan[i].src.name, s.name>> \in Matches,
                      s.dir = plan[i].src.dir, Present(s)
               PROVE  s.dir = Goal[s.name]
    BY DEF SubtitlesFollow, OneGoal
  <2> QED BY <1>2, <1>4 DEF SubtitlesAhead
<1> QED BY <1>7, <1>8, <1>9

(* If no two files have one name and subtitles go where their videos go: a   *)
(* run that nothing disturbed leaves each video and its subtitles where they *)
(* have to go, whatever the runs before it left, what it reports done is     *)
(* done, and the disk is a tree at all times.                                *)
THEOREM LibraryStaysInOrder ==
    ASSUME OwnName, OneGoal
    PROVE  Spec => []LibraryInOrder
<1>1. Init => OrderInv
  <2> SUFFICES ASSUME Init PROVE OrderInv
    OBVIOUS
  <2>1. RestOK
    <3>1. 0 \in 0 .. MaxRuns /\ 0 \in 0 .. MaxTroubles
      BY OrganizerAssumption
    <3>2. /\ todo = {} /\ created = {} /\ plan = <<>> /\ results = <<>>
          /\ removed = FALSE /\ troubled = FALSE /\ runs = 0 /\ troubles = 0
      BY DEF Init
    <3>3. Len(results) <= Len(plan)
      BY <3>2
    <3> QED BY <3>1, <3>2, <3>3 DEF RestOK
  <2>2. CalmOK
    BY DEF Init, CalmOK
  <2> QED BY <2>1, <2>2, OrganizerInit, TreeInit, PlacesInit DEF OrderInv
<1>2. OrderInv /\ [Next]_vars => OrderInv'
  BY OrganizerStep, TreeStep, RestStep, PlacesStep, PlanStep, CalmStep DEF OrderInv
<1>3. OrderInv => LibraryInOrder
  BY OrderFollows
<1> QED BY <1>1, <1>2, <1>3, PTL DEF Spec

-----------------------------------------------------------------------------
(* The grouper: sequences.                                                   *)
\* Kept, as the recursion of FoldProofs: p is <<s, S>>.
KeepNext(p, kept, n) == IF p[1][n] \in p[2] THEN Append(kept, p[1][n]) ELSE kept
NoneYet(p) == <<>>
Keeping == INSTANCE FoldProofs WITH Op <- KeepNext, Base <- NoneYet

LEMMA KeptUnfolds ==
    ASSUME NEW X, NEW s \in Seq(X), NEW S
    PROVE  \E upto :
             /\ upto[0] = <<>>
             /\ \A n \in 1 .. Len(s) :
                  upto[n] = IF s[n] \in S THEN Append(upto[n - 1], s[n]) ELSE upto[n - 1]
             /\ Kept(s, S) = upto[Len(s)]
<1> DEFINE f == Keeping!Recursion(<<s, S>>, Len(s))
<1>1. Len(s) \in Nat
  OBVIOUS
<1>2. /\ f[0] = NoneYet(<<s, S>>)
      /\ \A n \in 1 .. Len(s) : f[n] = KeepNext(<<s, S>>, f[n - 1], n)
  BY <1>1, Keeping!RecursionUnfolds
<1>3. Kept(s, S) = f[Len(s)]
  BY DEF Kept, Keeping!Recursion, Keeping!IsRecursion, KeepNext, NoneYet
<1>4. \A a, n : KeepNext(<<s, S>>, a, n) = IF s[n] \in S THEN Append(a, s[n]) ELSE a
  BY DEF KeepNext
<1> HIDE DEF f
<1> QED BY <1>2, <1>3, <1>4 DEF NoneYet

LEMMA KeptFacts ==
    ASSUME NEW X, NEW s \in Seq(X), NEW S
    PROVE  /\ Kept(s, S) \in Seq(X)
           /\ \E place : Keeping!Keeps(Kept(s, S), s, S, Len(s), place)
<1>1. PICK upto :
             /\ upto[0] = <<>>
             /\ \A n \in 1 .. Len(s) :
                  upto[n] = IF s[n] \in S THEN Append(upto[n - 1], s[n]) ELSE upto[n - 1]
             /\ Kept(s, S) = upto[Len(s)]
  BY KeptUnfolds, Zenon
<1>2. /\ upto[Len(s)] \in Seq(X)
      /\ \E place : Keeping!Keeps(upto[Len(s)], s, S, Len(s), place)
  BY <1>1, Keeping!KeptFrom DEF Keeping!KeptUpTo
<1> QED BY <1>1, <1>2

-----------------------------------------------------------------------------
\* FlattenSeq, as the recursion of FoldProofs.
JoinNext(ss, flat, n) == flat \o ss[n]
Joining == INSTANCE FoldProofs WITH Op <- JoinNext, Base <- NoneYet

FlattensTo(h, ss) ==
    h = [i \in 1 .. Len(ss) |-> IF i = 1 THEN ss[i] ELSE h[i - 1] \o ss[i]]

LEMMA FlattenExists ==
    ASSUME NEW X, NEW ss \in Seq(Seq(X))
    PROVE  \E h : FlattensTo(h, ss)
<1> DEFINE f == Joining!Recursion(ss, Len(ss))
           h == [i \in 1 .. Len(ss) |-> f[i]]
<1>1. Len(ss) \in Nat /\ ss \in [1 .. Len(ss) -> Seq(X)]
  OBVIOUS
<1>2. /\ f[0] = <<>>
      /\ \A i \in 1 .. Len(ss) : f[i] = f[i - 1] \o ss[i]
  BY <1>1, Joining!RecursionUnfolds DEF JoinNext, NoneYet
<1> HIDE DEF f
<1>3. \A i \in 1 .. Len(ss) : h[i] = f[i]
  OBVIOUS
<1>4. ASSUME NEW i \in 1 .. Len(ss)
      PROVE  h[i] = IF i = 1 THEN ss[i] ELSE h[i - 1] \o ss[i]
  <2>1. CASE i = 1
    <3>1. 1 \in 1 .. Len(ss) /\ 1 - 1 = 0
      BY <1>1, <2>1
    <3>2. f[1] = f[1 - 1] \o ss[1]
      BY <1>2, <3>1
    <3>3. f[1] = <<>> \o ss[1]
      BY <1>2, <3>1, <3>2
    <3>4. <<>> \o ss[1] = ss[1]
      BY <1>1, <2>1, ConcatEmptySeq
    <3> QED BY <1>3, <2>1, <3>3, <3>4
  <2>2. CASE i # 1
    <3>1. i - 1 \in 1 .. Len(ss)
      BY <1>1, <2>2
    <3> QED BY <1>2, <1>3, <2>2, <3>1
  <2> QED BY <2>1, <2>2
<1>5. h = [i \in 1 .. Len(ss) |-> h[i]]
  OBVIOUS
<1> HIDE DEF h
<1>6. FlattensTo(h, ss)
  BY <1>4, <1>5 DEF FlattensTo
<1> QED BY <1>6

LEMMA FlattenUnfolds ==
    ASSUME NEW X, NEW ss \in Seq(Seq(X))
    PROVE  \E f :
             /\ f[0] = <<>>
             /\ \A k \in 1 .. Len(ss) : f[k] = f[k - 1] \o ss[k]
             /\ FlattenSeq(ss) = f[Len(ss)]
<1> DEFINE h == CHOOSE h : FlattensTo(h, ss)
           f == [k \in 0 .. Len(ss) |-> IF k = 0 THEN <<>> ELSE h[k]]
<1>1. Len(ss) \in Nat /\ ss \in [1 .. Len(ss) -> Seq(X)]
  OBVIOUS
<1>2. FlattensTo(h, ss)
  BY FlattenExists
<1>3. FlattenSeq(ss) = IF Len(ss) = 0 THEN ss ELSE h[Len(ss)]
  BY DEF FlattenSeq, FlattensTo
<1> HIDE DEF h
<1>4. \A i \in 1 .. Len(ss) : h[i] = IF i = 1 THEN ss[i] ELSE h[i - 1] \o ss[i]
  BY <1>2 DEF FlattensTo
<1>5. f[0] = <<>> /\ \A k \in 1 .. Len(ss) : f[k] = h[k]
  BY <1>1
<1>6. FlattenSeq(ss) = f[Len(ss)]
  <2>1. CASE Len(ss) = 0
    <3>1. ss = <<>>
      BY <2>1
    <3> QED BY <1>3, <1>5, <2>1, <3>1
  <2>2. CASE Len(ss) # 0
    <3>1. Len(ss) \in 1 .. Len(ss)
      BY <1>1, <2>2
    <3> QED BY <1>3, <1>5, <2>2, <3>1
  <2> QED BY <2>1, <2>2
<1> HIDE DEF f
<1>7. ASSUME NEW k \in 1 .. Len(ss) PROVE f[k] = f[k - 1] \o ss[k]
  <2>1. CASE k = 1
    <3>1. <<>> \o ss[1] = ss[1]
      BY <1>1, <2>1, ConcatEmptySeq
    <3>2. 1 \in 1 .. Len(ss) /\ 1 - 1 = 0
      BY <1>1, <2>1
    <3>3. f[1] = ss[1] /\ f[1 - 1] = <<>>
      BY <1>4, <1>5, <3>2
    <3> QED BY <2>1, <3>1, <3>3
  <2>2. CASE k # 1
    <3>1. k - 1 \in 1 .. Len(ss)
      BY <1>1, <2>2
    <3> QED BY <1>4, <1>5, <2>2, <3>1
  <2> QED BY <2>1, <2>2
<1> QED BY <1>5, <1>6, <1>7

LEMMA FlattenFacts ==
    ASSUME NEW X, NEW ss \in Seq(Seq(X))
    PROVE  /\ FlattenSeq(ss) \in Seq(X)
           /\ \E row, col : Joining!Spreads(FlattenSeq(ss), ss, Len(ss), row, col)
<1>1. PICK f : /\ f[0] = <<>>
               /\ \A k \in 1 .. Len(ss) : f[k] = f[k - 1] \o ss[k]
               /\ FlattenSeq(ss) = f[Len(ss)]
  BY FlattenUnfolds, Zenon
<1>2. f[Len(ss)] \in Seq(X) /\ \E row, col : Joining!Spreads(f[Len(ss)], ss, Len(ss), row, col)
  BY <1>1, Joining!SpreadsFrom
<1> QED BY <1>1, <1>2

-----------------------------------------------------------------------------
PartsOnce(ss) ==
    \A i, j \in DOMAIN ss : \A k \in DOMAIN ss[i], l \in DOMAIN ss[j] :
      ss[i][k] = ss[j][l] => i = j /\ k = l

\* A flat sequence has what its parts have, and has it once if they do.
LEMMA FlattenOnce ==
    ASSUME NEW X, NEW ss \in Seq(Seq(X))
    PROVE  /\ \A x : x \in ToSet(FlattenSeq(ss)) <=> \E i \in DOMAIN ss : x \in ToSet(ss[i])
           /\ IsInjective(FlattenSeq(ss)) <=> PartsOnce(ss)
<1> DEFINE flat == FlattenSeq(ss)
<1>1. flat \in Seq(X) /\ \E row, col : Joining!Spreads(flat, ss, Len(ss), row, col)
  BY FlattenFacts
<1>2. PICK row, col : Joining!Spreads(flat, ss, Len(ss), row, col)
  BY <1>1
<1> HIDE DEF flat
<1>3. Joining!Placed(flat, ss, row, col)
  BY <1>1, <1>2, Joining!PlacesSpread
<1>4. /\ \A m \in DOMAIN flat : /\ row[m] \in DOMAIN ss /\ col[m] \in DOMAIN ss[row[m]]
                                /\ flat[m] = ss[row[m]][col[m]]
      /\ \A i \in DOMAIN ss : \A k \in DOMAIN ss[i] :
           \E m \in DOMAIN flat : row[m] = i /\ col[m] = k
  BY <1>3 DEF Joining!Placed
<1>5. \A l, m \in DOMAIN flat : row[l] = row[m] /\ col[l] = col[m] => l = m
  BY <1>3 DEF Joining!Placed
<1>6. ASSUME NEW x PROVE x \in ToSet(flat) <=> \E i \in DOMAIN ss : x \in ToSet(ss[i])
  <2>1. ASSUME x \in ToSet(flat) PROVE \E i \in DOMAIN ss : x \in ToSet(ss[i])
    <3>1. PICK m \in DOMAIN flat : x = flat[m]
      BY <2>1 DEF ToSet
    <3>2. row[m] \in DOMAIN ss /\ x \in ToSet(ss[row[m]])
      BY <1>4, <3>1 DEF ToSet
    <3> QED BY <3>2
  <2>2. ASSUME NEW i \in DOMAIN ss, x \in ToSet(ss[i]) PROVE x \in ToSet(flat)
    <3>1. PICK k \in DOMAIN ss[i] : x = ss[i][k]
      BY <2>2 DEF ToSet
    <3> QED BY <1>4, <3>1 DEF ToSet
  <2> QED BY <2>1, <2>2
<1>7. ASSUME PartsOnce(ss) PROVE IsInjective(flat)
  <2> SUFFICES ASSUME NEW l \in DOMAIN flat, NEW m \in DOMAIN flat, flat[l] = flat[m]
               PROVE  l = m
    BY DEF IsInjective
  <2>1. row[l] = row[m] /\ col[l] = col[m]
    BY <1>4, <1>7 DEF PartsOnce
  <2> QED BY <1>5, <2>1
<1>8. ASSUME IsInjective(flat) PROVE PartsOnce(ss)
  <2> SUFFICES ASSUME NEW i \in DOMAIN ss, NEW j \in DOMAIN ss,
                      NEW k \in DOMAIN ss[i], NEW l \in DOMAIN ss[j], ss[i][k] = ss[j][l]
               PROVE  i = j /\ k = l
    BY DEF PartsOnce
  <2>1. PICK m \in DOMAIN flat : row[m] = i /\ col[m] = k
    BY <1>4
  <2>2. PICK n \in DOMAIN flat : row[n] = j /\ col[n] = l
    BY <1>4
  <2>3. flat[m] = flat[n]
    BY <1>4, <2>1, <2>2
  <2> QED BY <1>8, <2>1, <2>2, <2>3 DEF IsInjective
<1>9. IsInjective(flat) <=> PartsOnce(ss)
  BY <1>7, <1>8
<1> QED BY <1>6, <1>9 DEF flat

-----------------------------------------------------------------------------
(* Tables of the grouper.                                                    *)

Tables(T, F) == Seq([title : T, files : Seq(F)])

LEMMA SeqFacts ==
    ASSUME NEW R, NEW s \in Seq(R)
    PROVE  /\ DOMAIN s = 1 .. Len(s) /\ Len(s) \in Nat
           /\ \A i \in DOMAIN s : s[i] \in R
OBVIOUS

LEMMA TableFacts ==
    ASSUME NEW T, NEW F, NEW table \in Tables(T, F)
    PROVE  /\ DOMAIN table = 1 .. Len(table) /\ Len(table) \in Nat
           /\ \A i \in DOMAIN table :
                /\ table[i].title \in T /\ table[i].files \in Seq(F)
                /\ table[i] = Row(table[i].title, table[i].files)
<1> DEFINE R == [title : T, files : Seq(F)]
<1>1. table \in Seq(R)
  BY DEF Tables
<1>2. \A r \in R : r.title \in T /\ r.files \in Seq(F) /\ r = Row(r.title, r.files)
  BY DEF Row
<1> HIDE DEF R
<1>3. DOMAIN table = 1 .. Len(table) /\ Len(table) \in Nat /\ \A i \in DOMAIN table : table[i] \in R
  BY <1>1, SeqFacts
<1> QED BY <1>2, <1>3

\* No two rows of one title; no file twice; files that are in the same rows.
Titled(table) == \A i, j \in DOMAIN table : table[i].title = table[j].title => i = j
Once(table) ==
    \A i, j \in DOMAIN table : \A k \in DOMAIN table[i].files, l \in DOMAIN table[j].files :
      table[i].files[k] = table[j].files[l] => i = j /\ k = l
Together(table, e, d) ==
    \A i \in DOMAIN table : e \in ToSet(table[i].files) <=> d \in ToSet(table[i].files)
Filled(table) == \A i \in DOMAIN table : table[i].files # <<>>
Holds(table, x) == \E i \in DOMAIN table : x \in ToSet(table[i].files)

LEMMA FilesInFacts ==
    ASSUME NEW R, NEW F, \A r \in R : r.files \in Seq(F), NEW table \in Seq(R)
    PROVE  /\ FilesIn(table) \in Seq(F)
           /\ \A x : x \in ToSet(FilesIn(table)) <=> Holds(table, x)
           /\ IsInjective(FilesIn(table)) <=> Once(table)
<1> DEFINE ss == [i \in DOMAIN table |-> table[i].files]
<1>1. DOMAIN table = 1 .. Len(table) /\ Len(table) \in Nat /\ \A i \in DOMAIN table : table[i] \in R
  OBVIOUS
<1>2. ss \in Seq(Seq(F))
  BY <1>1
<1>3. DOMAIN ss = DOMAIN table /\ \A i \in DOMAIN table : ss[i] = table[i].files
  OBVIOUS
<1>4. FilesIn(table) = FlattenSeq(ss)
  BY DEF FilesIn
<1> HIDE DEF ss
<1>5. FlattenSeq(ss) \in Seq(F)
  BY <1>2, FlattenFacts
<1>6. /\ \A x : x \in ToSet(FlattenSeq(ss)) <=> \E i \in DOMAIN ss : x \in ToSet(ss[i])
      /\ IsInjective(FlattenSeq(ss)) <=> PartsOnce(ss)
  BY <1>2, FlattenOnce
<1>7. \A x : (\E i \in DOMAIN ss : x \in ToSet(ss[i])) <=> Holds(table, x)
  BY <1>3 DEF Holds
<1>8. PartsOnce(ss) <=> Once(table)
  BY <1>3 DEF PartsOnce, Once
<1> QED BY <1>4, <1>5, <1>6, <1>7, <1>8

\* Where the first row of a title is.
Place(table, t) == SelectInSeq(table, LAMBDA row : row.title = t)

LEMMA PlaceFacts ==
    ASSUME NEW R, NEW table \in Seq(R), NEW t
    PROVE  \/ Place(table, t) = 0 /\ \A i \in DOMAIN table : table[i].title # t
           \/ Place(table, t) \in DOMAIN table /\ table[Place(table, t)].title = t
<1> DEFINE I == {i \in 1 .. Len(table) : table[i].title = t}
<1>1. DOMAIN table = 1 .. Len(table) /\ I \in SUBSET Nat
  OBVIOUS
<1>2. Place(table, t) = IF I # {} THEN Min(I) ELSE 0
  BY DEF Place, SelectInSeq
<1>3. I # {} => Min(I) \in I
  BY <1>1, LeastIn
<1> QED BY <1>1, <1>2, <1>3

\* Put sets one row, the one of its title if there is one, or a new last row.
PutAt(q, table, i, t, fs) ==
    /\ i \in DOMAIN q /\ q[i] = Row(t, fs)
    /\ DOMAIN q = DOMAIN table \cup {i}
    /\ \A j \in DOMAIN table : j # i => q[j] = table[j]
    /\ i \in DOMAIN table => table[i].title = t /\ Get(table, t) = table[i].files
    /\ i \notin DOMAIN table => /\ \A j \in DOMAIN table : table[j].title # t
                                /\ Get(table, t) = <<>>
                                /\ q = Append(table, Row(t, fs))

LEMMA PutFacts ==
    ASSUME NEW T, NEW F, NEW table \in Tables(T, F), NEW t \in T, NEW fs \in Seq(F)
    PROVE  /\ Put(table, t, fs) \in Tables(T, F) /\ Get(table, t) \in Seq(F)
           /\ \E i : PutAt(Put(table, t, fs), table, i, t, fs)
<1> DEFINE R == [title : T, files : Seq(F)]
           i == Place(table, t)
           q == Put(table, t, fs)
<1>1. table \in Seq(R) /\ Row(t, fs) \in R /\ DOMAIN table = 1 .. Len(table) /\ Len(table) \in Nat
  BY DEF Tables, Row
<1>2. q = IF i = 0 THEN Append(table, Row(t, fs)) ELSE [table EXCEPT ![i].files = fs]
  BY DEF Put, Place
<1>3. Get(table, t) = IF i = 0 THEN <<>> ELSE table[i].files
  BY DEF Get, Place
<1>4. \/ i = 0 /\ \A j \in DOMAIN table : table[j].title # t
      \/ i \in DOMAIN table /\ table[i].title = t
  BY <1>1, PlaceFacts
<1> HIDE DEF i, q
<1>5. CASE i = 0
  <2> DEFINE n == Len(table) + 1
  <2>1. q = Append(table, Row(t, fs)) /\ Get(table, t) = <<>>
    BY <1>2, <1>3, <1>5
  <2>2. /\ q \in Seq(R) /\ Len(q) = n /\ q[n] = Row(t, fs)
        /\ \A j \in 1 .. Len(table) : q[j] = table[j]
    BY <1>1, <2>1, AppendProperties
  <2>3. DOMAIN q = 1 .. n /\ 1 .. n = (1 .. Len(table)) \cup {n} /\ n \notin 1 .. Len(table) /\ n \in 1 .. n
    BY <1>1, <2>2
  <2>4. \A j \in DOMAIN table : table[j].title # t
    BY <1>1, <1>4, <1>5
  <2> HIDE DEF n, R
  <2>5. PutAt(q, table, n, t, fs)
    BY <1>1, <2>1, <2>2, <2>3, <2>4 DEF PutAt
  <2> QED BY <2>1, <2>2, <2>5 DEF Tables, R, q
<1>6. CASE i # 0
  <2>1. /\ i \in DOMAIN table /\ table[i].title = t
        /\ q = [table EXCEPT ![i].files = fs] /\ Get(table, t) = table[i].files
    BY <1>2, <1>3, <1>4, <1>6
  <2>2. table[i] \in R
    <3> HIDE DEF R
    <3> QED BY <1>1, <2>1
  <2>3. [table[i] EXCEPT !.files = fs] = Row(t, fs)
    BY <2>1, <2>2 DEF Row
  <2>4. DOMAIN q = DOMAIN table /\ q[i] = Row(t, fs) /\ \A j \in DOMAIN table : j # i => q[j] = table[j]
    BY <1>1, <2>1, <2>3
  <2>5. q \in Seq(R)
    <3>1. q = [table EXCEPT ![i] = Row(t, fs)]
      BY <2>1, <2>3
    <3> HIDE DEF R
    <3>2. table \in Seq(R) /\ i \in 1 .. Len(table) /\ Row(t, fs) \in R
      BY <1>1, <2>1
    <3>3. [table EXCEPT ![i] = Row(t, fs)] \in Seq(R)
      BY <3>2, ExceptSeq
    <3> QED BY <3>1, <3>3
  <2>6. PutAt(q, table, i, t, fs)
    BY <2>1, <2>4 DEF PutAt
  <2>7. Get(table, t) \in Seq(F)
    BY <2>1, <2>2
  <2> QED BY <2>5, <2>6, <2>7 DEF Tables, q
<1> QED BY <1>5, <1>6

LEMMA PutKeeps ==
    ASSUME NEW q, NEW table, NEW i, NEW t, NEW fs, PutAt(q, table, i, t, fs)
    PROVE  /\ Titled(table) => Titled(q)
           /\ Filled(table) /\ fs # <<>> => Filled(q)
           /\ \A x : Holds(q, x) <=>
                x \in ToSet(fs) \/ \E j \in DOMAIN table : j # i /\ x \in ToSet(table[j].files)
           /\ \A e, d : Together(table, e, d) /\ (e \in ToSet(fs) <=> d \in ToSet(fs))
                          => Together(q, e, d)
           /\ \A j \in DOMAIN q : q[j] = Row(t, fs) \/ (j # i /\ j \in DOMAIN table /\ q[j] = table[j])
<1>1. q[i].files = fs /\ q[i].title = t /\ i \in DOMAIN q
  BY DEF PutAt, Row
<1>2. \A j \in DOMAIN q : j = i \/ (j # i /\ j \in DOMAIN table /\ q[j] = table[j])
  BY DEF PutAt
<1>3. ASSUME NEW j \in DOMAIN table, j # i PROVE j \in DOMAIN q /\ q[j] = table[j]
  BY <1>3 DEF PutAt
<1>4. Titled(table) => \A j \in DOMAIN table : j # i => table[j].title # t
  BY DEF PutAt, Titled
<1>5. Titled(table) => Titled(q)
  BY <1>1, <1>2, <1>4 DEF Titled
<1>6. Filled(table) /\ fs # <<>> => Filled(q)
  BY <1>1, <1>2 DEF Filled
<1>7. ASSUME NEW x
      PROVE  Holds(q, x) <=>
               x \in ToSet(fs) \/ \E j \in DOMAIN table : j # i /\ x \in ToSet(table[j].files)
  BY <1>1, <1>2, <1>3 DEF Holds
<1>8. ASSUME NEW e, NEW d, Together(table, e, d), e \in ToSet(fs) <=> d \in ToSet(fs)
      PROVE  Together(q, e, d)
  BY <1>1, <1>2, <1>8 DEF Together
<1>9. \A j \in DOMAIN q : q[j] = Row(t, fs) \/ (j # i /\ j \in DOMAIN table /\ q[j] = table[j])
  BY <1>2 DEF PutAt
<1> QED BY <1>5, <1>6, <1>7, <1>8, <1>9

LEMMA PutOnce ==
    ASSUME NEW q, NEW table, NEW i, NEW t, NEW fs, PutAt(q, table, i, t, fs),
           Once(table), IsInjective(fs),
           \A j \in DOMAIN table : j # i => \A x \in ToSet(fs) : x \notin ToSet(table[j].files)
    PROVE  Once(q)
<1>1. q[i].files = fs /\ i \in DOMAIN q
  BY DEF PutAt, Row
<1>2. \A j \in DOMAIN q : j = i \/ (j # i /\ j \in DOMAIN table /\ q[j] = table[j])
  BY DEF PutAt
<1> SUFFICES ASSUME NEW m \in DOMAIN q, NEW n \in DOMAIN q,
                    NEW k \in DOMAIN q[m].files, NEW l \in DOMAIN q[n].files,
                    q[m].files[k] = q[n].files[l]
             PROVE  m = n /\ k = l
  BY DEF Once
<1>3. CASE m = i /\ n = i
  BY <1>1, <1>3 DEF IsInjective
<1>4. ASSUME NEW j \in DOMAIN table, j # i, NEW x \in DOMAIN fs, NEW y \in DOMAIN table[j].files
      PROVE  fs[x] # table[j].files[y]
  BY <1>4 DEF ToSet
<1>5. CASE m = i /\ n # i
  BY <1>1, <1>2, <1>4, <1>5
<1>6. CASE m # i /\ n = i
  BY <1>1, <1>2, <1>4, <1>6
<1>7. CASE m # i /\ n # i
  BY <1>2, <1>7 DEF Once
<1> QED BY <1>3, <1>5, <1>6, <1>7

LEMMA ConcatFacts ==
    ASSUME NEW X, NEW s \in Seq(X), NEW t \in Seq(X)
    PROVE  /\ s \o t \in Seq(X)
           /\ ToSet(s \o t) = ToSet(s) \cup ToSet(t)
           /\ IsInjective(s) /\ IsInjective(t) /\ (\A x \in ToSet(t) : x \notin ToSet(s))
                => IsInjective(s \o t)
           /\ s \o t = <<>> <=> s = <<>> /\ t = <<>>
<1> DEFINE a == Len(s)
           b == Len(t)
           u == s \o t
<1>1. /\ u \in Seq(X) /\ Len(u) = a + b
      /\ \A i \in 1 .. (a + b) : u[i] = IF i <= a THEN s[i] ELSE t[i - a]
  BY ConcatProperties
<1>2. a \in Nat /\ b \in Nat /\ DOMAIN s = 1 .. a /\ DOMAIN t = 1 .. b /\ DOMAIN u = 1 .. (a + b)
  BY <1>1
<1> HIDE DEF a, b, u
<1>3. /\ \A i \in 1 .. a : i \in 1 .. (a + b) /\ u[i] = s[i]
      /\ \A i \in 1 .. b : i + a \in 1 .. (a + b) /\ u[i + a] = t[i]
  <2>1. ASSUME NEW i \in 1 .. a PROVE i \in 1 .. (a + b) /\ u[i] = s[i]
    BY <1>1, <1>2
  <2>2. ASSUME NEW i \in 1 .. b PROVE i + a \in 1 .. (a + b) /\ u[i + a] = t[i]
    <3>1. i + a \in 1 .. (a + b) /\ ~(i + a <= a) /\ (i + a) - a = i
      BY <1>2
    <3> QED BY <1>1, <3>1
  <2> QED BY <2>1, <2>2
<1>4. \A i \in 1 .. (a + b) : \/ i \in 1 .. a /\ u[i] = s[i]
                              \/ i - a \in 1 .. b /\ u[i] = t[i - a]
  BY <1>1, <1>2
<1>5. ToSet(u) = ToSet(s) \cup ToSet(t)
  <2>1. ASSUME NEW x \in ToSet(u) PROVE x \in ToSet(s) \cup ToSet(t)
    BY <1>2, <1>4 DEF ToSet
  <2>2. ASSUME NEW x \in ToSet(s) PROVE x \in ToSet(u)
    BY <1>2, <1>3 DEF ToSet
  <2>3. ASSUME NEW x \in ToSet(t) PROVE x \in ToSet(u)
    BY <1>2, <1>3 DEF ToSet
  <2> QED BY <2>1, <2>2, <2>3
<1>6. ASSUME IsInjective(s), IsInjective(t), \A x \in ToSet(t) : x \notin ToSet(s)
      PROVE  IsInjective(u)
  <2>1. \A i \in 1 .. a : \A j \in 1 .. b : s[i] # t[j]
    BY <1>2, <1>6 DEF ToSet
  <2> SUFFICES ASSUME NEW i \in 1 .. (a + b), NEW j \in 1 .. (a + b), u[i] = u[j]
               PROVE  i = j
    BY <1>2 DEF IsInjective
  <2>2. CASE i \in 1 .. a /\ u[i] = s[i] /\ j \in 1 .. a /\ u[j] = s[j]
    BY <1>2, <1>6, <2>2 DEF IsInjective
  <2>3. CASE i - a \in 1 .. b /\ u[i] = t[i - a] /\ j - a \in 1 .. b /\ u[j] = t[j - a]
    <3>1. i - a = j - a
      BY <1>2, <1>6, <2>3 DEF IsInjective
    <3> QED BY <1>2, <3>1
  <2> QED BY <1>4, <2>1, <2>2, <2>3
<1>7. u = <<>> <=> s = <<>> /\ t = <<>>
  BY ConcatEqualIffEmpty DEF u
<1> QED BY <1>1, <1>5, <1>6, <1>7 DEF u

\* Where the files of a table are that fs was added to under t.
AddedUnder(new, table, t, fs) ==
    \A j \in DOMAIN new : \A x \in ToSet(new[j].files) :
      \/ new[j].title = t /\ x \in ToSet(fs)
      \/ \E i \in DOMAIN table : table[i].title = new[j].title /\ x \in ToSet(table[i].files)

\* What AddTo does.
LEMMA AddFacts ==
    ASSUME NEW T, NEW F, NEW table \in Tables(T, F), NEW t \in T, NEW fs \in Seq(F)
    PROVE  /\ AddTo(table, t, fs) \in Tables(T, F)
           /\ Titled(table) => Titled(AddTo(table, t, fs))
           /\ Filled(table) /\ fs # <<>> => Filled(AddTo(table, t, fs))
           /\ Once(table) /\ IsInjective(fs) /\ (\A x \in ToSet(fs) : ~Holds(table, x))
                => Once(AddTo(table, t, fs))
           /\ \A x : Holds(AddTo(table, t, fs), x) <=> Holds(table, x) \/ x \in ToSet(fs)
           /\ \A e, d : Together(table, e, d) /\ (e \in ToSet(fs) <=> d \in ToSet(fs))
                          => Together(AddTo(table, t, fs), e, d)
           /\ AddedUnder(AddTo(table, t, fs), table, t, fs)
<1> DEFINE old == Get(table, t)
           new == old \o fs
           q == AddTo(table, t, fs)
<1>1. old \in Seq(F)
  BY PutFacts
<1>2. /\ new \in Seq(F) /\ ToSet(new) = ToSet(old) \cup ToSet(fs)
      /\ IsInjective(old) /\ IsInjective(fs) /\ (\A x \in ToSet(fs) : x \notin ToSet(old))
           => IsInjective(new)
      /\ fs # <<>> => new # <<>>
  BY <1>1, ConcatFacts
<1>3. q = Put(table, t, new)
  BY DEF AddTo
<1> HIDE DEF old, new, q
<1>4. q \in Tables(T, F) /\ \E i : PutAt(q, table, i, t, new)
  BY <1>2, <1>3, PutFacts
<1>5. PICK i : PutAt(q, table, i, t, new)
  BY <1>4
<1>6. \/ i \in DOMAIN table /\ table[i].title = t /\ old = table[i].files
      \/ i \notin DOMAIN table /\ old = <<>>
  BY <1>5 DEF PutAt, old
<1>7. \A x : x \in ToSet(old) <=> i \in DOMAIN table /\ x \in ToSet(table[i].files)
  BY <1>6 DEF ToSet
<1>8. /\ Titled(table) => Titled(q)
      /\ Filled(table) /\ new # <<>> => Filled(q)
      /\ \A x : Holds(q, x) <=>
           x \in ToSet(new) \/ \E j \in DOMAIN table : j # i /\ x \in ToSet(table[j].files)
      /\ \A e, d : Together(table, e, d) /\ (e \in ToSet(new) <=> d \in ToSet(new))
                     => Together(q, e, d)
      /\ \A j \in DOMAIN q : q[j] = Row(t, new) \/ (j # i /\ j \in DOMAIN table /\ q[j] = table[j])
  BY <1>5, PutKeeps
<1>9. ASSUME Once(table), IsInjective(fs), \A x \in ToSet(fs) : ~Holds(table, x)
      PROVE  Once(q)
  <2>1. IsInjective(old)
    BY <1>6, <1>9 DEF Once, IsInjective
  <2>2. \A x \in ToSet(fs) : x \notin ToSet(old)
    BY <1>7, <1>9 DEF Holds
  <2>3. ASSUME NEW j \in DOMAIN table, j # i, NEW x \in ToSet(new)
        PROVE  x \notin ToSet(table[j].files)
    <3>1. CASE x \in ToSet(fs)
      BY <1>9, <3>1 DEF Holds
    <3>2. CASE x \in ToSet(old)
      <4>1. i \in DOMAIN table /\ x \in ToSet(table[i].files)
        BY <1>7, <3>2
      <4>2. PICK k \in DOMAIN table[i].files : table[i].files[k] = x
        BY <4>1 DEF ToSet
      <4>3. \A l \in DOMAIN table[j].files : table[j].files[l] # x
        BY <1>9, <2>3, <4>1, <4>2 DEF Once
      <4> QED BY <4>3 DEF ToSet
    <3> QED BY <1>2, <2>3, <3>1, <3>2
  <2> QED BY <1>2, <1>5, <1>9, <2>1, <2>2, <2>3, PutOnce
<1>10. \A x : Holds(q, x) <=> Holds(table, x) \/ x \in ToSet(fs)
  BY <1>2, <1>7, <1>8 DEF Holds
<1>11. ASSUME NEW e, NEW d, Together(table, e, d), e \in ToSet(fs) <=> d \in ToSet(fs)
       PROVE  Together(q, e, d)
  <2>1. e \in ToSet(new) <=> d \in ToSet(new)
    BY <1>2, <1>7, <1>11 DEF Together
  <2> QED BY <1>8, <1>11, <2>1
<1>12. ASSUME NEW j \in DOMAIN q, NEW x \in ToSet(q[j].files)
       PROVE  \/ q[j].title = t /\ x \in ToSet(fs)
              \/ \E m \in DOMAIN table : table[m].title = q[j].title /\ x \in ToSet(table[m].files)
  <2>1. CASE q[j] = Row(t, new)
    <3>1. q[j].title = t /\ q[j].files = new
      BY <2>1 DEF Row
    <3> QED BY <1>2, <1>6, <1>7, <1>12, <3>1
  <2>2. CASE j \in DOMAIN table /\ q[j] = table[j]
    BY <1>12, <2>2
  <2> QED BY <1>8, <2>1, <2>2
<1>13. AddedUnder(q, table, t, fs)
  BY <1>12 DEF AddedUnder
<1> QED BY <1>2, <1>4, <1>8, <1>9, <1>10, <1>11, <1>13 DEF q

\* What is kept of a sequence, and of a table.
LEMMA KeptSet ==
    ASSUME NEW X, NEW s \in Seq(X), NEW S
    PROVE  /\ Kept(s, S) \in Seq(X)
           /\ \A x : x \in ToSet(Kept(s, S)) <=> x \in ToSet(s) /\ x \in S
           /\ IsInjective(s) => IsInjective(Kept(s, S))
<1> DEFINE k == Kept(s, S)
<1>1. k \in Seq(X) /\ \E at : Keeping!Keeps(k, s, S, Len(s), at)
  BY KeptFacts
<1>2. PICK at : Keeping!Keeps(k, s, S, Len(s), at)
  BY <1>1
<1> HIDE DEF k
<1>a. DOMAIN k = 1 .. Len(k) /\ Len(k) \in Nat /\ DOMAIN s = 1 .. Len(s) /\ Len(s) \in Nat
  BY <1>1
<1>b. /\ at \in [1 .. Len(k) -> 1 .. Len(s)]
      /\ \A i \in 1 .. Len(k) : k[i] = s[at[i]] /\ s[at[i]] \in S
      /\ \A m \in 1 .. Len(s) : s[m] \in S => \E i \in 1 .. Len(k) : at[i] = m
  BY <1>2 DEF Keeping!Keeps
<1>3. /\ DOMAIN k = 1 .. Len(k) /\ Len(k) \in Nat /\ DOMAIN s = 1 .. Len(s) /\ Len(s) \in Nat
      /\ at \in [1 .. Len(k) -> 1 .. Len(s)]
      /\ \A i \in DOMAIN k : at[i] \in DOMAIN s /\ k[i] = s[at[i]] /\ s[at[i]] \in S
      /\ \A m \in DOMAIN s : s[m] \in S => \E i \in DOMAIN k : at[i] = m
  BY <1>a, <1>b
<1>4. \A x : x \in ToSet(k) <=> x \in ToSet(s) /\ x \in S
  <2>1. \A x \in ToSet(k) : x \in ToSet(s) /\ x \in S
    BY <1>3 DEF ToSet
  <2>2. ASSUME NEW x \in ToSet(s), x \in S PROVE x \in ToSet(k)
    <3>1. PICK m \in DOMAIN s : s[m] = x
      BY <2>2 DEF ToSet
    <3>2. PICK i \in DOMAIN k : at[i] = m
      BY <1>3, <2>2, <3>1
    <3> QED BY <1>3, <3>1, <3>2 DEF ToSet
  <2> QED BY <2>1, <2>2
<1>5. ASSUME IsInjective(s), NEW i \in DOMAIN k, NEW j \in DOMAIN k, k[i] = k[j]
      PROVE  i = j
  <2>1. at[i] = at[j]
    BY <1>3, <1>5 DEF IsInjective
  <2>2. ~(i < j) /\ ~(j < i)
    <3>1. at[i] \in Nat /\ at[j] \in Nat
      BY <1>3
    <3> QED BY <1>2, <1>3, <2>1, <3>1 DEF Keeping!Keeps
  <2> QED BY <1>3, <2>2
<1>6. IsInjective(s) => IsInjective(k)
  BY <1>5 DEF IsInjective
<1> QED BY <1>1, <1>4, <1>6 DEF k

LEMMA KeptRows ==
    ASSUME NEW R, NEW table \in Seq(R), NEW S
    PROVE  /\ Titled(table) => Titled(Kept(table, S))
           /\ Once(table) => Once(Kept(table, S))
           /\ Filled(table) => Filled(Kept(table, S))
           /\ \A e, d : Together(table, e, d) => Together(Kept(table, S), e, d)
           /\ \A j \in DOMAIN Kept(table, S) :
                Kept(table, S)[j] \in S /\ \E i \in DOMAIN table : Kept(table, S)[j] = table[i]
           /\ \A i \in DOMAIN table : table[i] \in S =>
                \E j \in DOMAIN Kept(table, S) : Kept(table, S)[j] = table[i]
<1> DEFINE k == Kept(table, S)
<1>1. k \in Seq(R) /\ \E at : Keeping!Keeps(k, table, S, Len(table), at)
  BY KeptFacts
<1>2. PICK at : Keeping!Keeps(k, table, S, Len(table), at)
  BY <1>1
<1> HIDE DEF k
<1>a. DOMAIN k = 1 .. Len(k) /\ Len(k) \in Nat /\ DOMAIN table = 1 .. Len(table) /\ Len(table) \in Nat
  BY <1>1
<1>b. /\ at \in [1 .. Len(k) -> 1 .. Len(table)]
      /\ \A i \in 1 .. Len(k) : k[i] = table[at[i]] /\ table[at[i]] \in S
      /\ \A m \in 1 .. Len(table) : table[m] \in S => \E i \in 1 .. Len(k) : at[i] = m
  BY <1>2 DEF Keeping!Keeps
<1>3. /\ DOMAIN k = 1 .. Len(k) /\ Len(k) \in Nat /\ DOMAIN table = 1 .. Len(table) /\ Len(table) \in Nat
      /\ \A i \in DOMAIN k : at[i] \in DOMAIN table /\ k[i] = table[at[i]] /\ table[at[i]] \in S
      /\ \A m \in DOMAIN table : table[m] \in S => \E i \in DOMAIN k : at[i] = m
  BY <1>a, <1>b
<1>4. ASSUME NEW i \in DOMAIN k, NEW j \in DOMAIN k, at[i] = at[j] PROVE i = j
  <2>1. ~(i < j) /\ ~(j < i)
    <3>1. at[i] \in Nat /\ at[j] \in Nat
      BY <1>3
    <3> QED BY <1>2, <1>3, <1>4, <3>1 DEF Keeping!Keeps
  <2> QED BY <1>3, <2>1
<1>5. Titled(table) => Titled(k)
  BY <1>3, <1>4 DEF Titled
<1>6. Once(table) => Once(k)
  <2> SUFFICES ASSUME Once(table), NEW i \in DOMAIN k, NEW j \in DOMAIN k,
                      NEW x \in DOMAIN k[i].files, NEW y \in DOMAIN k[j].files,
                      k[i].files[x] = k[j].files[y]
               PROVE  i = j /\ x = y
    BY DEF Once
  <2>1. at[i] = at[j] /\ x = y
    BY <1>3 DEF Once
  <2> QED BY <1>4, <2>1
<1>7. Filled(table) => Filled(k)
  BY <1>3 DEF Filled
<1>8. \A e, d : Together(table, e, d) => Together(k, e, d)
  BY <1>3 DEF Together
<1>9. \A j \in DOMAIN k : k[j] \in S /\ \E i \in DOMAIN table : k[j] = table[i]
  BY <1>3
<1>10. \A i \in DOMAIN table : table[i] \in S => \E j \in DOMAIN k : k[j] = table[i]
  BY <1>3
<1> QED BY <1>5, <1>6, <1>7, <1>8, <1>9, <1>10 DEF k
-----------------------------------------------------------------------------
\* GroupBy, for a key of titles.
GroupNext(key, table, f) == AddTo(table, key[f.title], <<f>>)
NoRows(p) == <<>>
Grouping == INSTANCE FoldProofs WITH Op <- GroupNext, Base <- NoRows

Grouped(key, fs) == GroupBy(fs, LAMBDA f : key[f.title])

LEMMA GroupByUnfolds ==
    ASSUME NEW F, NEW fs \in Seq(F), NEW key
    PROVE  \E acc :
             /\ acc[0] = <<>>
             /\ \A k \in 1 .. Len(fs) : acc[k] = AddTo(acc[k - 1], key[fs[k].title], <<fs[k]>>)
             /\ Grouped(key, fs) = acc[Len(fs)]
<1>1. Grouping!Fold(key, fs) = Grouped(key, fs)
  BY DEF Grouping!Fold, FoldLeft, MapThenFoldSet,
         Grouping!Greatest, Max, GroupNext, NoRows, GroupBy, Grouped
<1>2. PICK acc : /\ acc[0] = NoRows(key)
                 /\ \A k \in 1 .. Len(fs) : acc[k] = GroupNext(key, acc[k - 1], fs[k])
                 /\ Grouping!Fold(key, fs) = acc[Len(fs)]
  BY Grouping!FoldUnfolds
<1>3. \A k \in 1 .. Len(fs) : acc[k] = AddTo(acc[k - 1], key[fs[k].title], <<fs[k]>>)
  BY <1>2 DEF GroupNext
<1> QED BY <1>1, <1>2, <1>3 DEF NoRows

LEMMA GroupByFacts ==
    ASSUME NEW T, NEW F, NEW fs \in Seq(F), NEW key, \A f \in F : key[f.title] \in T
    PROVE  LET table == Grouped(key, fs)
           IN  /\ table \in Tables(T, F) /\ Titled(table) /\ Filled(table)
               /\ IsInjective(fs) => Once(table)
               /\ \A x : Holds(table, x) <=> x \in ToSet(fs)
               /\ \A j \in DOMAIN table : \A x \in ToSet(table[j].files) : key[x.title] = table[j].title
<1>1. PICK acc : /\ acc[0] = <<>>
                 /\ \A k \in 1 .. Len(fs) : acc[k] = AddTo(acc[k - 1], key[fs[k].title], <<fs[k]>>)
                 /\ Grouped(key, fs) = acc[Len(fs)]
  BY GroupByUnfolds
<1>2. Len(fs) \in Nat /\ DOMAIN fs = 1 .. Len(fs) /\ \A k \in 1 .. Len(fs) : fs[k] \in F
  OBVIOUS
<1> DEFINE Good(k) ==
             /\ acc[k] \in Tables(T, F) /\ Titled(acc[k]) /\ Filled(acc[k])
             /\ IsInjective(fs) => Once(acc[k])
             /\ \A x : Holds(acc[k], x) <=> \E i \in 1 .. k : x = fs[i]
             /\ \A j \in DOMAIN acc[k] : \A x \in ToSet(acc[k][j].files) : key[x.title] = acc[k][j].title
           Bad == {k \in 0 .. Len(fs) : ~Good(k)}
<1>3. 0 \notin Bad
  <2>1. <<>> \in Tables(T, F) /\ DOMAIN <<>> = {}
    BY DEF Tables
  <2>2. Good(0)
    BY <1>1, <2>1 DEF Titled, Filled, Once, Holds
  <2> QED BY <2>2
<1>4. ASSUME NEW k \in 1 .. Len(fs), k - 1 \notin Bad PROVE k \notin Bad
  <2> DEFINE old == acc[k - 1]
             f == fs[k]
             t == key[f.title]
             new == acc[k]
  <2>1. Good(k - 1)
    BY <1>2, <1>4
  <2>2. new = AddTo(old, t, <<f>>) /\ f \in F /\ t \in T /\ <<f>> \in Seq(F) /\ old \in Tables(T, F)
    BY <1>1, <1>2, <2>1
  <2>3. ToSet(<<f>>) = {f} /\ IsInjective(<<f>>) /\ <<f>> # <<>>
    BY DEF ToSet, IsInjective
  <2>4. \A i \in 1 .. k - 1 : i \in DOMAIN fs /\ k \in DOMAIN fs /\ i # k
    BY <1>2
  <2>5. \A i \in 1 .. k : i = k \/ i \in 1 .. k - 1
    OBVIOUS
  <2>6. k \in 1 .. k /\ \A i \in 1 .. k - 1 : i \in 1 .. k
    BY <1>2
  <2>7. /\ \A x : Holds(old, x) <=> \E i \in 1 .. k - 1 : x = fs[i]
        /\ IsInjective(fs) => ~Holds(old, f)
    BY <2>1, <2>4 DEF IsInjective
  <2> HIDE DEF f, t, new, old
  <2>8. /\ new \in Tables(T, F)
        /\ Titled(old) => Titled(new)
        /\ Filled(old) /\ <<f>> # <<>> => Filled(new)
        /\ Once(old) /\ IsInjective(<<f>>) /\ (\A x \in ToSet(<<f>>) : ~Holds(old, x)) => Once(new)
        /\ \A x : Holds(new, x) <=> Holds(old, x) \/ x \in ToSet(<<f>>)
        /\ \A j \in DOMAIN new : \A x \in ToSet(new[j].files) :
             \/ new[j].title = t /\ x \in ToSet(<<f>>)
             \/ \E i \in DOMAIN old : old[i].title = new[j].title /\ x \in ToSet(old[i].files)
    <3>1. new = AddTo(old, t, <<f>>) /\ old \in Tables(T, F) /\ t \in T /\ <<f>> \in Seq(F)
      BY <2>2
    <3> HIDE <2>2
    <3>2. new \in Tables(T, F) /\ (Titled(old) => Titled(new))
      BY <3>1, AddFacts
    <3>3. Filled(old) /\ <<f>> # <<>> => Filled(new)
      BY <3>1, AddFacts
    <3>4. Once(old) /\ IsInjective(<<f>>) /\ (\A x \in ToSet(<<f>>) : ~Holds(old, x)) => Once(new)
      BY <3>1, AddFacts
    <3>5. \A x : Holds(new, x) <=> Holds(old, x) \/ x \in ToSet(<<f>>)
      BY <3>1, AddFacts
    <3>7. AddedUnder(new, old, t, <<f>>)
      BY <3>1, AddFacts
    <3>6. \A j \in DOMAIN new : \A x \in ToSet(new[j].files) :
             \/ new[j].title = t /\ x \in ToSet(<<f>>)
             \/ \E i \in DOMAIN old : old[i].title = new[j].title /\ x \in ToSet(old[i].files)
      BY <3>7 DEF AddedUnder
    <3> QED BY <3>2, <3>3, <3>4, <3>5, <3>6
  <2>9. Titled(old) /\ Filled(old) /\ (IsInjective(fs) => Once(old))
        /\ \A j \in DOMAIN old : \A x \in ToSet(old[j].files) : key[x.title] = old[j].title
    BY <2>1 DEF old
  <2>10. \A x : Holds(new, x) <=> \E i \in 1 .. k : x = fs[i]
    <3>1. \A x : Holds(new, x) <=> Holds(old, x) \/ x = fs[k]
      BY <2>3, <2>8 DEF f
    <3> QED BY <2>5, <2>6, <2>7, <3>1
  <2>11. ASSUME NEW j \in DOMAIN new, NEW x \in ToSet(new[j].files)
         PROVE  key[x.title] = new[j].title
    <3>1. CASE new[j].title = t /\ x \in ToSet(<<f>>)
      BY <2>3, <3>1 DEF t
    <3>2. CASE \E i \in DOMAIN old : old[i].title = new[j].title /\ x \in ToSet(old[i].files)
      BY <2>9, <3>2
    <3> QED BY <2>8, <3>1, <3>2
  <2>12. IsInjective(fs) => Once(new)
    BY <2>3, <2>7, <2>8, <2>9
  <2>13. Good(k)
    BY <2>3, <2>8, <2>9, <2>10, <2>11, <2>12 DEF new
  <2> QED BY <2>13
<1> HIDE DEF Bad, Good
<1>5. \A k \in 0 .. Len(fs) : k \notin Bad
  <2>1. Bad \in SUBSET (0 .. Len(fs))
    BY DEF Bad
  <2> QED BY <1>2, <1>3, <1>4, <2>1, Keeping!NoneFails
<1>6. Good(Len(fs))
  BY <1>2, <1>5 DEF Bad
<1>7. \A x : (\E i \in 1 .. Len(fs) : x = fs[i]) <=> x \in ToSet(fs)
  BY <1>2 DEF ToSet
<1> QED BY <1>1, <1>6, <1>7 DEF Good

\* Rows of one hash key each, and of different ones.
OfOneKey(table) ==
    \A j \in DOMAIN table : \A x \in ToSet(table[j].files) : HashKey[x.title] = HashKey[table[j].title]
KeysApart(table) ==
    \A i, j \in DOMAIN table : HashKey[table[i].title] = HashKey[table[j].title] => i = j

LEMMA HashMatchFacts ==
    ASSUME NEW F, \A f \in F : f.title \in Titles, NEW fs \in Seq(F)
    PROVE  /\ HashMatch(fs) \in Tables(Titles, F)
           /\ Filled(HashMatch(fs))
           /\ IsInjective(fs) => Once(HashMatch(fs))
           /\ \A x : Holds(HashMatch(fs), x) <=> x \in ToSet(fs)
           /\ OfOneKey(HashMatch(fs)) /\ KeysApart(HashMatch(fs))
<1> DEFINE T == {HashKey[t] : t \in Titles}
           g == Grouped(HashKey, fs)
           h == HashMatch(fs)
<1>1. /\ g \in Tables(T, F) /\ Titled(g) /\ Filled(g)
      /\ IsInjective(fs) => Once(g)
      /\ \A x : Holds(g, x) <=> x \in ToSet(fs)
      /\ \A j \in DOMAIN g : \A x \in ToSet(g[j].files) : HashKey[x.title] = g[j].title
  <2>1. \A f \in F : HashKey[f.title] \in T
    OBVIOUS
  <2> HIDE DEF T
  <2> QED BY <2>1, GroupByFacts
<1>2. h = [i \in DOMAIN g |-> Row(g[i].files[1].title, g[i].files)]
  BY DEF HashMatch, Grouped
<1> HIDE DEF h, g
<1>3. /\ DOMAIN g = 1 .. Len(g) /\ Len(g) \in Nat
      /\ \A i \in DOMAIN g : g[i].files \in Seq(F) /\ g[i].files # <<>>
  <2> HIDE DEF T
  <2> QED BY <1>1, TableFacts DEF Filled
<1>4. DOMAIN h = DOMAIN g /\ \A i \in DOMAIN g : h[i].files = g[i].files /\ h[i].title = g[i].files[1].title
  BY <1>2 DEF Row
<1>5. ASSUME NEW i \in DOMAIN g
      PROVE  /\ 1 \in DOMAIN g[i].files /\ g[i].files[1] \in F
             /\ h[i].title \in Titles /\ HashKey[h[i].title] = g[i].title
  <2>1. 1 \in DOMAIN g[i].files /\ g[i].files[1] \in F
    <3> DEFINE s == g[i].files
    <3>1. s \in Seq(F) /\ s # <<>>
      BY <1>3
    <3> HIDE DEF s
    <3>2. 1 \in DOMAIN s /\ s[1] \in F
      BY <3>1
    <3> QED BY <3>2 DEF s
  <2>2. g[i].files[1] \in ToSet(g[i].files)
    BY <2>1 DEF ToSet
  <2> QED BY <1>1, <1>4, <2>1, <2>2
<1>6. h \in Tables(Titles, F)
  <2>1. \A i \in 1 .. Len(g) : Row(g[i].files[1].title, g[i].files) \in [title : Titles, files : Seq(F)]
    BY <1>3, <1>4, <1>5 DEF Row
  <2> QED BY <1>2, <1>3, <2>1 DEF Tables
<1>7. Filled(h)
  BY <1>3, <1>4 DEF Filled
<1>8. IsInjective(fs) => Once(h)
  BY <1>1, <1>4 DEF Once
<1>9. \A x : Holds(h, x) <=> x \in ToSet(fs)
  BY <1>1, <1>4 DEF Holds
<1>10. OfOneKey(h)
  BY <1>1, <1>4, <1>5 DEF OfOneKey
<1>11. KeysApart(h)
  BY <1>1, <1>4, <1>5 DEF KeysApart, Titled
<1> QED BY <1>6, <1>7, <1>8, <1>9, <1>10, <1>11 DEF h

\* SeasonMatch puts the files under the titles of their seasons.
LEMMA SeasonMatchFacts ==
    ASSUME NEW F, \A f \in F : f.title \in Titles, NEW fs \in Seq(F)
    PROVE  /\ SeasonMatch(fs) \in Tables(GroupTitles, F)
           /\ Titled(SeasonMatch(fs)) /\ Filled(SeasonMatch(fs))
           /\ IsInjective(fs) => Once(SeasonMatch(fs))
           /\ \A x : Holds(SeasonMatch(fs), x) <=> x \in ToSet(fs)
           /\ \A e, d \in F : e.title = d.title /\ e \in ToSet(fs) /\ d \in ToSet(fs)
                => Together(SeasonMatch(fs), e, d)
<1> DEFINE g == SeasonMatch(fs)
<1>1. g = Grouped(SeasonTitle, fs)
  BY DEF SeasonMatch, Grouped
<1>2. \A f \in F : SeasonTitle[f.title] \in GroupTitles
  BY DEF GroupTitles
<1>3. /\ g \in Tables(GroupTitles, F) /\ Titled(g) /\ Filled(g)
      /\ IsInjective(fs) => Once(g)
      /\ \A x : Holds(g, x) <=> x \in ToSet(fs)
      /\ \A j \in DOMAIN g : \A x \in ToSet(g[j].files) : SeasonTitle[x.title] = g[j].title
  <2> HIDE DEF g
  <2> QED BY <1>1, <1>2, GroupByFacts
<1> HIDE DEF g
<1>4. ASSUME NEW e \in F, NEW d \in F, e.title = d.title, e \in ToSet(fs), d \in ToSet(fs)
      PROVE  Together(g, e, d)
  <2>1. PICK i \in DOMAIN g : e \in ToSet(g[i].files)
    BY <1>3, <1>4 DEF Holds
  <2>2. PICK j \in DOMAIN g : d \in ToSet(g[j].files)
    BY <1>3, <1>4 DEF Holds
  <2>3. \A m \in DOMAIN g : (e \in ToSet(g[m].files) => m = i) /\ (d \in ToSet(g[m].files) => m = j)
    BY <1>3, <2>1, <2>2 DEF Titled
  <2>4. i = j
    BY <1>3, <1>4, <2>1, <2>2 DEF Titled
  <2> QED BY <2>1, <2>2, <2>3, <2>4 DEF Together
<1> QED BY <1>3, <1>4 DEF g

-----------------------------------------------------------------------------
(* The title matcher.                                                        *)

TitlesOf(fs) == {f.title : f \in ToSet(fs)}

LEMMA IndicesFacts ==
    ASSUME NEW F, NEW fs \in Seq(F), NEW S
    PROVE  /\ Indices(fs, S) \in Seq(DOMAIN fs)
           /\ \A i : i \in ToSet(Indices(fs, S)) <=> i \in DOMAIN fs /\ i \in S
           /\ IsInjective(Indices(fs, S))
<1> DEFINE ids == [i \in DOMAIN fs |-> i]
           K == {x \in ToSet(ids) : x \in S}
<1>1. DOMAIN fs = 1 .. Len(fs) /\ Len(fs) \in Nat
  OBVIOUS
<1>2. ids \in Seq(DOMAIN fs)
  BY <1>1
<1>3. IsInjective(ids)
  BY DEF IsInjective
<1>4. \A i : i \in ToSet(ids) <=> i \in DOMAIN fs
  BY DEF ToSet
<1>5. Indices(fs, S) = Kept(ids, K)
  BY DEF Indices, Selected
<1> HIDE DEF ids
<1>6. \A x : x \in K <=> x \in ToSet(ids) /\ x \in S
  OBVIOUS
<1> HIDE DEF K
<1>7. /\ Kept(ids, K) \in Seq(DOMAIN fs)
      /\ \A x : x \in ToSet(Kept(ids, K)) <=> x \in ToSet(ids) /\ x \in K
      /\ IsInjective(ids) => IsInjective(Kept(ids, K))
  BY <1>2, KeptSet
<1> QED BY <1>3, <1>4, <1>5, <1>6, <1>7

LEMMA TwinsFacts ==
    ASSUME NEW F, NEW fs \in Seq(F), NEW i \in DOMAIN fs
    PROVE  /\ Twins(fs, i) \in SUBSET DOMAIN fs
           /\ \A j \in Twins(fs, i) : Twins(fs, j) = Twins(fs, i) /\ i \in Twins(fs, i)
           /\ i \in Exact(fs) => i \in Twins(fs, i) /\ \A j \in Twins(fs, i) : j \in Exact(fs)
           /\ \A j \in Twins(fs, i) : j # i => i \in Exact(fs)
<1>1. Twins(fs, i) = {j \in DOMAIN fs : IndexKey[fs[j].title] = IndexKey[fs[i].title]
                                        /\ IndexKey[fs[i].title] # NoKey}
  BY DEF Twins
<1>2. ASSUME NEW j \in Twins(fs, i)
      PROVE  Twins(fs, j) = Twins(fs, i) /\ i \in Twins(fs, i)
  BY <1>1, <1>2 DEF Twins
<1>3. Twins(fs, i) \in SUBSET DOMAIN fs
  BY <1>1
<1>4. DOMAIN fs = 1 .. Len(fs) /\ Len(fs) \in Nat
  OBVIOUS
<1>5. IsFiniteSet(Twins(fs, i))
  <2>1. IsFiniteSet(1 .. Len(fs))
    BY <1>4, FS_Interval
  <2> QED BY <1>3, <1>4, <2>1, FS_Subset
<1>6. i \in Exact(fs) <=> Cardinality(Twins(fs, i)) > 1
  BY DEF Exact
<1>7. ASSUME i \in Exact(fs)
      PROVE  i \in Twins(fs, i) /\ \A j \in Twins(fs, i) : j \in Exact(fs)
  <2>1. Twins(fs, i) # {}
    <3> DEFINE C == Cardinality(Twins(fs, i))
    <3>1. Cardinality({}) = 0
      BY FS_EmptySet
    <3>2. Twins(fs, i) = {} => C = 0
      BY <3>1
    <3>3. C > 1
      BY <1>6, <1>7
    <3> HIDE DEF C
    <3>4. C # 0
      BY <3>3
    <3> QED BY <3>2, <3>4
  <2>2. \A j \in Twins(fs, i) : j \in Exact(fs)
    BY <1>2, <1>3, <1>6, <1>7 DEF Exact
  <2> QED BY <1>2, <2>1, <2>2
<1>8. ASSUME NEW j \in Twins(fs, i), j # i
      PROVE  i \in Exact(fs)
  <2>1. {i, j} \subseteq Twins(fs, i)
    BY <1>2, <1>8
  <2>2. Cardinality({i, j}) = 2
    <3>1. IsFiniteSet({i}) /\ Cardinality({i}) = 1 /\ j \notin {i} /\ {i} \cup {j} = {i, j}
      BY <1>8, FS_Singleton
    <3>2. Cardinality({i} \cup {j}) = Cardinality({i}) + 1
      BY <3>1, FS_AddElement
    <3> DEFINE U == {i} \cup {j}
    <3>3. Cardinality(U) = 1 + 1
      BY <3>1, <3>2
    <3>4. U = {i, j}
      OBVIOUS
    <3> HIDE DEF U
    <3>5. Cardinality(U) = 2
      BY <3>3
    <3> QED BY <3>4, <3>5
  <2>3. Cardinality({i, j}) <= Cardinality(Twins(fs, i)) /\ Cardinality(Twins(fs, i)) \in Nat
    BY <1>5, <2>1, FS_Subset, FS_CardinalityType
  <2> QED BY <1>6, <2>2, <2>3
<1> QED BY <1>2, <1>3, <1>7, <1>8

LEMMA BetterIs == \A t, u : Better(t, u) \in {t, u}
BY DEF Better

\* The name of a group of twins: the best of their titles.
NameNext(p, t, j) == Better(t, p.files[j].title)
NameBase(p) == p.files[p.first].title
TitleNaming == INSTANCE FoldProofs WITH Op <- NameNext, Base <- NameBase

TwinFiles(fs, i) ==
    LET twins == Indices(fs, Twins(fs, i))
    IN  [k \in DOMAIN twins |-> fs[twins[k]]]
TwinName(fs, i) ==
    LET Name(t, j) == Better(t, fs[j].title)
    IN  FoldLeft(Name, fs[i].title, Indices(fs, Twins(fs, i)))

LEMMA TwinNameFacts ==
    ASSUME NEW F, NEW fs \in Seq(F), NEW i \in DOMAIN fs
    PROVE  TwinName(fs, i) \in TitlesOf(fs)
<1> DEFINE p == [files |-> fs, first |-> i]
           ids == Indices(fs, Twins(fs, i))
<1>1. ids \in Seq(DOMAIN fs)
  BY IndicesFacts
<1>2. TwinName(fs, i) = TitleNaming!Fold(p, ids)
  BY DEF TwinName, TitleNaming!Fold, FoldLeft,
         MapThenFoldSet, TitleNaming!Greatest, Max, NameNext, NameBase
<1> HIDE DEF ids
<1>3. PICK acc : /\ acc[0] = NameBase(p)
                 /\ \A k \in 1 .. Len(ids) : acc[k] = NameNext(p, acc[k - 1], ids[k])
                 /\ TitleNaming!Fold(p, ids) = acc[Len(ids)]
  BY <1>1, TitleNaming!FoldUnfolds
<1>4. \A j \in DOMAIN fs : fs[j].title \in TitlesOf(fs)
  BY DEF TitlesOf, ToSet
<1>5. acc[0] \in TitlesOf(fs)
  BY <1>3, <1>4 DEF NameBase
<1>6. \A k \in 1 .. Len(ids) : acc[k - 1] \in TitlesOf(fs) => acc[k] \in TitlesOf(fs)
  <2> SUFFICES ASSUME NEW k \in 1 .. Len(ids), acc[k - 1] \in TitlesOf(fs)
               PROVE  acc[k] \in TitlesOf(fs)
    OBVIOUS
  <2>1. ids[k] \in DOMAIN fs
    BY <1>1
  <2>2. acc[k] = Better(acc[k - 1], fs[ids[k]].title)
    BY <1>3 DEF NameNext
  <2> QED BY <1>4, <2>1, <2>2, BetterIs
<1> DEFINE Bad == {k \in 0 .. Len(ids) : acc[k] \notin TitlesOf(fs)}
<1>7. \A k \in 0 .. Len(ids) : k \notin Bad
  <2>1. Len(ids) \in Nat
    BY <1>1
  <2>2. Bad \in SUBSET (0 .. Len(ids)) /\ 0 \notin Bad
    BY <1>5, <2>1
  <2>3. \A k \in 1 .. Len(ids) : k - 1 \notin Bad => k \notin Bad
    BY <1>6, <2>1
  <2> HIDE DEF Bad
  <2> QED BY <2>1, <2>2, <2>3, Keeping!NoneFails
<1>8. Len(ids) \in 0 .. Len(ids)
  BY <1>1
<1> QED BY <1>2, <1>3, <1>7, <1>8

LEMMA TwinFilesFacts ==
    ASSUME NEW F, NEW fs \in Seq(F), NEW i \in DOMAIN fs
    PROVE  /\ TwinFiles(fs, i) \in Seq(F)
           /\ \A x : x \in ToSet(TwinFiles(fs, i)) <=> \E j \in Twins(fs, i) : x = fs[j]
           /\ IsInjective(fs) => IsInjective(TwinFiles(fs, i))
           /\ i \in Exact(fs) => TwinFiles(fs, i) # <<>>
<1> DEFINE ids == Indices(fs, Twins(fs, i))
           tf == TwinFiles(fs, i)
<1>1. /\ ids \in Seq(DOMAIN fs) /\ IsInjective(ids)
      /\ \A j : j \in ToSet(ids) <=> j \in DOMAIN fs /\ j \in Twins(fs, i)
  BY IndicesFacts
<1>2. tf = [k \in DOMAIN ids |-> fs[ids[k]]]
  BY DEF TwinFiles
<1> HIDE DEF ids, tf
<1>3. DOMAIN ids = 1 .. Len(ids) /\ Len(ids) \in Nat /\ \A k \in DOMAIN ids : ids[k] \in DOMAIN fs
  BY <1>1
<1>4. \A k \in DOMAIN ids : fs[ids[k]] \in F
  BY <1>3
<1>5. tf \in Seq(F) /\ DOMAIN tf = DOMAIN ids /\ \A k \in DOMAIN ids : tf[k] = fs[ids[k]]
  BY <1>2, <1>3, <1>4
<1>6. Twins(fs, i) \in SUBSET DOMAIN fs
  BY TwinsFacts
<1>7. \A x : x \in ToSet(tf) <=> \E j \in Twins(fs, i) : x = fs[j]
  <2>1. \A x \in ToSet(tf) : \E k \in DOMAIN ids : x = fs[ids[k]]
    BY <1>5 DEF ToSet
  <2>2. \A k \in DOMAIN ids : ids[k] \in Twins(fs, i)
    BY <1>1 DEF ToSet
  <2>3. \A j \in Twins(fs, i) : \E k \in DOMAIN ids : ids[k] = j
    BY <1>1, <1>6 DEF ToSet
  <2>4. \A k \in DOMAIN ids : fs[ids[k]] \in ToSet(tf)
    BY <1>5 DEF ToSet
  <2> QED BY <2>1, <2>2, <2>3, <2>4
<1>8. IsInjective(fs) => IsInjective(tf)
  <2> SUFFICES ASSUME IsInjective(fs), NEW a \in DOMAIN tf, NEW b \in DOMAIN tf, tf[a] = tf[b]
               PROVE  a = b
    BY DEF IsInjective
  <2>1. ids[a] = ids[b]
    BY <1>3, <1>5 DEF IsInjective
  <2> QED BY <1>1, <1>5, <2>1 DEF IsInjective
<1>9. i \in Exact(fs) => tf # <<>>
  <2> SUFFICES ASSUME i \in Exact(fs) PROVE tf # <<>>
    OBVIOUS
  <2>1. i \in Twins(fs, i)
    BY TwinsFacts
  <2>2. fs[i] \in ToSet(tf)
    BY <1>7, <2>1
  <2> QED BY <2>2 DEF ToSet
<1> QED BY <1>5, <1>7, <1>8, <1>9 DEF tf

\* The groups of twins, one for the first of each.
TwinsNext(fs, table, i) == AddTo(table, TwinName(fs, i), TwinFiles(fs, i))
Exacting == INSTANCE FoldProofs WITH Op <- TwinsNext, Base <- NoRows

Firsts(fs) == Indices(fs, {i \in Exact(fs) : \A j \in Twins(fs, i) : i <= j})

LEMMA ExactUnfolds ==
    ASSUME NEW F, NEW fs \in Seq(F)
    PROVE  \E acc :
             /\ acc[0] = <<>>
             /\ \A k \in 1 .. Len(Firsts(fs)) :
                  acc[k] = AddTo(acc[k - 1], TwinName(fs, Firsts(fs)[k]), TwinFiles(fs, Firsts(fs)[k]))
             /\ ExactGroups(fs) = acc[Len(Firsts(fs))]
<1> DEFINE ids == Firsts(fs)
<1>1. ids \in Seq(DOMAIN fs)
  BY IndicesFacts DEF Firsts
<1>2. ExactGroups(fs) = Exacting!Fold(fs, ids)
  BY DEF ExactGroups, Firsts, Exacting!Fold, FoldLeft,
         MapThenFoldSet, Exacting!Greatest, Max, TwinsNext, NoRows, TwinName, TwinFiles
<1> HIDE DEF ids
<1>3. PICK acc : /\ acc[0] = NoRows(fs)
                 /\ \A k \in 1 .. Len(ids) : acc[k] = TwinsNext(fs, acc[k - 1], ids[k])
                 /\ Exacting!Fold(fs, ids) = acc[Len(ids)]
  BY <1>1, Exacting!FoldUnfolds
<1>4. \A k \in 1 .. Len(ids) : acc[k] = AddTo(acc[k - 1], TwinName(fs, ids[k]), TwinFiles(fs, ids[k]))
  BY <1>3 DEF TwinsNext
<1> QED BY <1>2, <1>3, <1>4 DEF NoRows, ids

LEMMA FirstsFacts ==
    ASSUME NEW F, NEW fs \in Seq(F)
    PROVE  /\ Firsts(fs) \in Seq(DOMAIN fs)
           /\ \A k \in DOMAIN Firsts(fs) : Firsts(fs)[k] \in Exact(fs)
           /\ \A k, l \in DOMAIN Firsts(fs) : \A i \in DOMAIN fs :
                i \in Twins(fs, Firsts(fs)[k]) /\ i \in Twins(fs, Firsts(fs)[l]) => k = l
           /\ \A i \in Exact(fs) : \E k \in DOMAIN Firsts(fs) : i \in Twins(fs, Firsts(fs)[k])
<1> DEFINE ids == Firsts(fs)
           S == {i \in Exact(fs) : \A j \in Twins(fs, i) : i <= j}
<1>1. /\ ids \in Seq(DOMAIN fs) /\ IsInjective(ids)
      /\ \A i : i \in ToSet(ids) <=> i \in DOMAIN fs /\ i \in S
  BY IndicesFacts DEF Firsts
<1>2. \A i : i \in S <=> i \in Exact(fs) /\ \A j \in Twins(fs, i) : i <= j
  OBVIOUS
<1> HIDE DEF ids, S
<1>3. /\ DOMAIN ids = 1 .. Len(ids) /\ Len(ids) \in Nat
      /\ DOMAIN fs = 1 .. Len(fs) /\ Len(fs) \in Nat
      /\ \A k \in DOMAIN ids : ids[k] \in DOMAIN fs /\ ids[k] \in S
  BY <1>1 DEF ToSet
<1>4. ASSUME NEW k \in DOMAIN ids, NEW l \in DOMAIN ids, NEW i \in DOMAIN fs,
             i \in Twins(fs, ids[k]), i \in Twins(fs, ids[l])
      PROVE  k = l
  <2>1. Twins(fs, ids[k]) = Twins(fs, i) /\ Twins(fs, ids[l]) = Twins(fs, i)
    BY <1>3, <1>4, TwinsFacts
  <2>2. ids[k] \in Twins(fs, ids[k]) /\ ids[l] \in Twins(fs, ids[l])
    BY <1>3, <1>4, TwinsFacts
  <2>3. ids[k] <= ids[l] /\ ids[l] <= ids[k]
    BY <1>2, <1>3, <2>1, <2>2
  <2>4. ids[k] = ids[l]
    <3>1. ids[k] \in Nat /\ ids[l] \in Nat
      BY <1>3
    <3> QED BY <2>3, <3>1
  <2> QED BY <1>1, <2>4 DEF IsInjective
<1>5. ASSUME NEW i \in Exact(fs)
      PROVE  \E k \in DOMAIN ids : i \in Twins(fs, ids[k])
  <2> DEFINE tw == Twins(fs, i)
             m == Min(tw)
  <2>1. i \in DOMAIN fs
    BY <1>5 DEF Exact
  <2>2. tw \in SUBSET DOMAIN fs /\ i \in tw /\ \A j \in tw : j \in Exact(fs) /\ Twins(fs, j) = tw
    BY <1>5, <2>1, TwinsFacts
  <2> HIDE DEF tw
  <2>3. tw \in SUBSET Nat /\ tw # {}
    BY <1>3, <2>2
  <2>4. m \in tw /\ \A j \in tw : m <= j
    BY <2>3, LeastIn
  <2> HIDE DEF m
  <2>5. m \in S
    BY <1>2, <2>2, <2>4
  <2>6. m \in ToSet(ids)
    BY <1>1, <2>2, <2>4, <2>5
  <2>7. PICK k \in DOMAIN ids : ids[k] = m
    BY <2>6 DEF ToSet
  <2> QED BY <2>2, <2>4, <2>7
<1> QED BY <1>1, <1>2, <1>3, <1>4, <1>5 DEF ids

LEMMA ExactGroupsFacts ==
    ASSUME NEW F, \A f \in F : f.title \in Titles, NEW fs \in Seq(F), IsInjective(fs)
    PROVE  /\ ExactGroups(fs) \in Tables(TitlesOf(fs), F)
           /\ Titled(ExactGroups(fs)) /\ Filled(ExactGroups(fs)) /\ Once(ExactGroups(fs))
           /\ \A x : Holds(ExactGroups(fs), x) <=> \E i \in Exact(fs) : x = fs[i]
           /\ \A i \in DOMAIN fs : \A j \in Twins(fs, i) : Together(ExactGroups(fs), fs[i], fs[j])
<1> DEFINE ids == Firsts(fs)
           n == Len(ids)
           T == TitlesOf(fs)
<1>1. PICK acc : /\ acc[0] = <<>>
                 /\ \A k \in 1 .. n : acc[k] = AddTo(acc[k - 1], TwinName(fs, ids[k]), TwinFiles(fs, ids[k]))
                 /\ ExactGroups(fs) = acc[n]
  BY ExactUnfolds
<1>2. /\ ids \in Seq(DOMAIN fs)
      /\ \A k \in DOMAIN ids : ids[k] \in Exact(fs)
      /\ \A k, l \in DOMAIN ids : \A i \in DOMAIN fs :
           i \in Twins(fs, ids[k]) /\ i \in Twins(fs, ids[l]) => k = l
      /\ \A i \in Exact(fs) : \E k \in DOMAIN ids : i \in Twins(fs, ids[k])
  BY FirstsFacts
<1> HIDE DEF ids, T
<1>3. DOMAIN ids = 1 .. n /\ n \in Nat /\ \A k \in DOMAIN ids : ids[k] \in DOMAIN fs
  BY <1>2
<1> DEFINE Good(k) ==
             /\ acc[k] \in Tables(T, F) /\ Titled(acc[k]) /\ Filled(acc[k]) /\ Once(acc[k])
             /\ \A x : Holds(acc[k], x) <=> \E l \in 1 .. k : \E i \in Twins(fs, ids[l]) : x = fs[i]
             /\ \A i \in DOMAIN fs : \A j \in Twins(fs, i) : Together(acc[k], fs[i], fs[j])
           Bad == {k \in 0 .. n : ~Good(k)}
<1>4. 0 \notin Bad
  <2>1. <<>> \in Tables(T, F) /\ DOMAIN <<>> = {}
    BY DEF Tables
  <2>2. Good(0)
    BY <1>1, <2>1 DEF Titled, Filled, Once, Holds, Together
  <2> QED BY <2>2
<1>5. ASSUME NEW k \in 1 .. n, k - 1 \notin Bad PROVE k \notin Bad
  <2> DEFINE old == acc[k - 1]
             new == acc[k]
             t == TwinName(fs, ids[k])
             tf == TwinFiles(fs, ids[k])
  <2>1. Good(k - 1)
    BY <1>3, <1>5
  <2>2. ids[k] \in DOMAIN fs /\ ids[k] \in Exact(fs) /\ k \in DOMAIN ids
    BY <1>2, <1>3
  <2>3. t \in T /\ tf \in Seq(F) /\ IsInjective(tf) /\ tf # <<>>
    BY <2>2, TwinNameFacts, TwinFilesFacts DEF T
  <2>4. \A x : x \in ToSet(tf) <=> \E i \in Twins(fs, ids[k]) : x = fs[i]
    BY <2>2, TwinFilesFacts
  <2>5. new = AddTo(old, t, tf) /\ old \in Tables(T, F)
    BY <1>1, <2>1
  <2>6. \A l \in DOMAIN ids : Twins(fs, ids[l]) \in SUBSET DOMAIN fs
    BY <1>3, TwinsFacts
  <2>7. \A x \in ToSet(tf) : ~Holds(old, x)
    <3> SUFFICES ASSUME NEW x \in ToSet(tf), Holds(old, x) PROVE FALSE
      OBVIOUS
    <3>1. PICK i \in Twins(fs, ids[k]) : x = fs[i]
      BY <2>4
    <3>2. PICK l \in 1 .. k - 1 : \E j \in Twins(fs, ids[l]) : x = fs[j]
      BY <2>1
    <3>3. PICK j \in Twins(fs, ids[l]) : x = fs[j]
      BY <3>2
    <3>4. l \in DOMAIN ids /\ l # k
      BY <1>3, <3>2
    <3>5. i \in DOMAIN fs /\ j \in DOMAIN fs
      BY <2>2, <2>6, <3>1, <3>3, <3>4
    <3>6. i = j
      BY <3>1, <3>3, <3>5 DEF IsInjective
    <3> QED BY <1>2, <2>2, <3>1, <3>3, <3>4, <3>5, <3>6
  <2>8. ASSUME NEW i \in DOMAIN fs, NEW j \in Twins(fs, i)
        PROVE  fs[i] \in ToSet(tf) <=> fs[j] \in ToSet(tf)
    <3>1. \A m \in DOMAIN fs : fs[m] \in ToSet(tf) <=> m \in Twins(fs, ids[k])
      <4> SUFFICES ASSUME NEW m \in DOMAIN fs PROVE fs[m] \in ToSet(tf) <=> m \in Twins(fs, ids[k])
        OBVIOUS
      <4>1. \A l \in Twins(fs, ids[k]) : l \in DOMAIN fs /\ (fs[m] = fs[l] => m = l)
        BY <2>2, <2>6 DEF IsInjective
      <4> QED BY <2>4, <4>1
    <3>2. j \in DOMAIN fs /\ Twins(fs, j) = Twins(fs, i) /\ i \in Twins(fs, i)
      BY <2>8, TwinsFacts
    <3>3. i \in Twins(fs, ids[k]) => Twins(fs, i) = Twins(fs, ids[k])
      BY <2>2, TwinsFacts
    <3>4. j \in Twins(fs, ids[k]) => Twins(fs, j) = Twins(fs, ids[k])
      BY <2>2, TwinsFacts
    <3> QED BY <2>8, <3>1, <3>2, <3>3, <3>4
  <2> HIDE DEF old, new, t, tf
  <2>9. new \in Tables(T, F) /\ (Titled(old) => Titled(new))
    BY <2>3, <2>5, AddFacts
  <2>10. Filled(old) => Filled(new)
    BY <2>3, <2>5, AddFacts
  <2>11. Once(old) => Once(new)
    BY <2>3, <2>5, <2>7, AddFacts
  <2>12. \A x : Holds(new, x) <=> Holds(old, x) \/ x \in ToSet(tf)
    BY <2>3, <2>5, AddFacts
  <2>13. \A e, d : Together(old, e, d) /\ (e \in ToSet(tf) <=> d \in ToSet(tf)) => Together(new, e, d)
    BY <2>3, <2>5, AddFacts
  <2>14. \A x : Holds(new, x) <=> \E l \in 1 .. k : \E i \in Twins(fs, ids[l]) : x = fs[i]
    <3>1. \A l : l \in 1 .. k <=> l \in 1 .. k - 1 \/ l = k
      BY <1>3
    <3>2. \A x : Holds(old, x) <=> \E l \in 1 .. k - 1 : \E i \in Twins(fs, ids[l]) : x = fs[i]
      BY <2>1 DEF old
    <3> QED BY <2>4, <2>12, <3>1, <3>2
  <2>15. \A i \in DOMAIN fs : \A j \in Twins(fs, i) : Together(new, fs[i], fs[j])
    BY <2>1, <2>8, <2>13 DEF old
  <2>16. Titled(old) /\ Filled(old) /\ Once(old)
    BY <2>1 DEF old
  <2>17. Good(k)
    BY <2>9, <2>10, <2>11, <2>14, <2>15, <2>16 DEF new
  <2> QED BY <2>17
<1> HIDE DEF Bad, Good
<1>6. \A k \in 0 .. n : k \notin Bad
  <2>1. Bad \in SUBSET (0 .. n)
    BY DEF Bad
  <2> HIDE DEF n
  <2> QED BY <1>3, <1>4, <1>5, <2>1, Keeping!NoneFails
<1>7. Good(n)
  BY <1>3, <1>6 DEF Bad
<1>8. \A x : (\E l \in 1 .. n : \E i \in Twins(fs, ids[l]) : x = fs[i]) <=> \E i \in Exact(fs) : x = fs[i]
  <2>1. \A l \in 1 .. n : \A i \in Twins(fs, ids[l]) : i \in Exact(fs)
    BY <1>2, <1>3, TwinsFacts
  <2>2. \A i \in Exact(fs) : \E l \in 1 .. n : i \in Twins(fs, ids[l])
    BY <1>2, <1>3
  <2> QED BY <2>1, <2>2
<1> QED BY <1>1, <1>7, <1>8 DEF Good, T

LEMMA AppendIs ==
    ASSUME NEW X, NEW s \in Seq(X), NEW x \in X
    PROVE  Append(s, x) = s \o <<x>> /\ Append(s, x) \in Seq(X)
OBVIOUS

\* The group of a title, and the table without it.
LEMMA WithoutFacts ==
    ASSUME NEW T, NEW F, NEW table \in Tables(T, F), NEW t, Titled(table), Filled(table), Once(table)
    PROVE  /\ Without(table, t) \in Tables(T, F)
           /\ Titled(Without(table, t)) /\ Filled(Without(table, t)) /\ Once(Without(table, t))
           /\ \A e, d : Together(table, e, d) => Together(Without(table, t), e, d)
           /\ \A x : Holds(Without(table, t), x) => Holds(table, x) /\ x \notin ToSet(Get(table, t))
           /\ Get(table, t) \in Seq(F) /\ IsInjective(Get(table, t))
           /\ \A x \in ToSet(Get(table, t)) : Holds(table, x)
           /\ \A e, d : Together(table, e, d) => (e \in ToSet(Get(table, t)) <=> d \in ToSet(Get(table, t)))
<1> DEFINE K == {row \in ToSet(table) : row.title # t}
           w == Kept(table, K)
           g == Get(table, t)
           R == [title : T, files : Seq(F)]
<1>1. Without(table, t) = w
  BY DEF Without, Selected
<1>2. \A row : row \in K <=> row \in ToSet(table) /\ row.title # t
  OBVIOUS
<1>3. table \in Seq(R)
  BY DEF Tables
<1> HIDE DEF K, R
<1>4. /\ w \in Seq(R)
      /\ Titled(w) /\ Filled(w) /\ Once(w)
      /\ \A e, d : Together(table, e, d) => Together(w, e, d)
      /\ \A j \in DOMAIN w : w[j] \in K /\ \E i \in DOMAIN table : w[j] = table[i]
  <2>1. w \in Seq(R)
    BY <1>3, KeptSet
  <2>2. Titled(w) /\ Filled(w) /\ Once(w)
    BY <1>3, KeptRows
  <2>3. \A e, d : Together(table, e, d) => Together(w, e, d)
    BY <1>3, KeptRows
  <2>4. \A j \in DOMAIN w : w[j] \in K /\ \E i \in DOMAIN table : w[j] = table[i]
    BY <1>3, KeptRows
  <2> QED BY <2>1, <2>2, <2>3, <2>4
<1> HIDE DEF w
<1>5. \/ g = <<>> /\ \A i \in DOMAIN table : table[i].title # t
      \/ \E i \in DOMAIN table : g = table[i].files /\ table[i].title = t
  <2>1. g = IF Place(table, t) = 0 THEN <<>> ELSE table[Place(table, t)].files
    BY DEF Get, Place
  <2>2. DOMAIN table = 1 .. Len(table) /\ Len(table) \in Nat
    BY <1>3
  <2>3. \/ Place(table, t) = 0 /\ \A i \in DOMAIN table : table[i].title # t
        \/ Place(table, t) \in DOMAIN table /\ table[Place(table, t)].title = t
    BY <1>3, PlaceFacts
  <2> HIDE DEF g
  <2> QED BY <2>1, <2>2, <2>3
<1> HIDE DEF g
<1>6. \A i \in DOMAIN table : table[i].files \in Seq(F)
  BY TableFacts
<1>7. g \in Seq(F) /\ \A x \in ToSet(g) : Holds(table, x)
  <2>1. <<>> \in Seq(F) /\ ToSet(<<>>) = {}
    BY DEF ToSet
  <2> QED BY <1>5, <1>6, <2>1 DEF Holds
<1>8. IsInjective(g)
  BY <1>5 DEF IsInjective, Once
<1>9. ASSUME NEW x, Holds(w, x)
      PROVE  Holds(table, x) /\ x \notin ToSet(g)
  <2>1. PICK j \in DOMAIN w : x \in ToSet(w[j].files)
    BY <1>9 DEF Holds
  <2>2. PICK i \in DOMAIN table : w[j] = table[i]
    BY <1>4, <2>1
  <2>3. table[i].title # t /\ x \in ToSet(table[i].files)
    BY <1>2, <1>4, <2>1, <2>2
  <2>4. ASSUME x \in ToSet(g) PROVE FALSE
    <3>1. g # <<>>
      BY <2>4 DEF ToSet
    <3>2. PICK m \in DOMAIN table : g = table[m].files /\ table[m].title = t
      BY <1>5, <3>1
    <3>3. PICK a \in DOMAIN table[i].files : x = table[i].files[a]
      BY <2>3 DEF ToSet
    <3>4. PICK b \in DOMAIN table[m].files : x = table[m].files[b]
      BY <2>4, <3>2 DEF ToSet
    <3>5. table[i].files[a] = table[m].files[b]
      BY <3>3, <3>4
    <3>6. i = m
      BY <3>5 DEF Once
    <3> QED BY <2>3, <3>2, <3>6
  <2> QED BY <2>3, <2>4 DEF Holds
<1>10. \A e, d : Together(table, e, d) => (e \in ToSet(g) <=> d \in ToSet(g))
  <2>1. ToSet(<<>>) = {}
    BY DEF ToSet
  <2> QED BY <1>5, <2>1 DEF Together
<1>11. w \in Tables(T, F)
  BY <1>4 DEF Tables, R
<1> QED BY <1>1, <1>4, <1>7, <1>8, <1>9, <1>10, <1>11 DEF g

HoldsOnly(table, fs, S) == \A x : Holds(table, x) => \E j \in S : x = fs[j]
TwinsTogether(table, fs) ==
    \A i \in DOMAIN fs : \A j \in Twins(fs, i) : Together(table, fs[i], fs[j])
Represents(rep, fs) ==
    DOMAIN rep \in SUBSET DOMAIN fs /\ \A r \in DOMAIN rep : rep[r] \in TitlesOf(fs)

JoinGood(F, fs, acc, S) ==
    /\ acc = [table |-> acc.table, rep |-> acc.rep]
    /\ acc.table \in Tables(TitlesOf(fs), F)
    /\ Titled(acc.table) /\ Filled(acc.table) /\ Once(acc.table)
    /\ HoldsOnly(acc.table, fs, S) /\ TwinsTogether(acc.table, fs) /\ Represents(acc.rep, fs)

LEMMA RepresentsMore ==
    ASSUME NEW fs, NEW rep, Represents(rep, fs), NEW m \in DOMAIN fs, NEW u \in TitlesOf(fs)
    PROVE  Represents(Standing(rep, m, u), fs)
<1> DEFINE r == Standing(rep, m, u)
<1>3. DOMAIN r = {m} \cup DOMAIN rep /\ r[m] = u /\ \A l \in DOMAIN rep : l # m => r[l] = rep[l]
  BY DEF Standing
<1> HIDE DEF r
<1> QED BY <1>3 DEF Represents, r

LEMMA JoinStep ==
    ASSUME NEW F, NEW fs \in Seq(F), IsInjective(fs), NEW S \in SUBSET DOMAIN fs,
           NEW i \in DOMAIN fs, i \notin S, i \notin Exact(fs), NEW acc, JoinGood(F, fs, acc, S)
    PROVE  JoinGood(F, fs, Join(fs, acc, i), S \cup {i})
<1> DEFINE T == TitlesOf(fs)
           f == fs[i]
           t == f.title
           table == acc.table
           rep == acc.rep
           near == {r \in DOMAIN rep : <<fs[r].title, t>> \in Alike}
           group == rep[Min(near)]
           members == Append(Get(table, group), f)
           better == Better(group, t)
           top1 == CHOOSE j \in DOMAIN fs : fs[j] = members[1]
           new == Join(fs, acc, i)
<1>1. new = IF near = {}
            THEN [table |-> Put(table, t, <<f>>), rep |-> Standing(rep, i, t)]
            ELSE IF better = group
            THEN [acc EXCEPT !.table = Put(@, group, members)]
            ELSE [table |-> Put(Without(table, group), better, members),
                  rep |-> Standing(rep, top1, better)]
  BY DEF Join
<1>2. /\ acc = [table |-> table, rep |-> rep]
      /\ table \in Tables(T, F) /\ Titled(table) /\ Filled(table) /\ Once(table)
      /\ \A x : Holds(table, x) => \E j \in S : x = fs[j]
      /\ \A a \in DOMAIN fs : \A b \in Twins(fs, a) : Together(table, fs[a], fs[b])
      /\ DOMAIN rep \in SUBSET DOMAIN fs /\ \A r \in DOMAIN rep : rep[r] \in T
  BY DEF JoinGood, HoldsOnly, TwinsTogether, Represents
<1>r. Represents(rep, fs)
  BY DEF JoinGood
<1>3. f \in F /\ t \in T /\ <<f>> \in Seq(F) /\ DOMAIN fs = 1 .. Len(fs) /\ Len(fs) \in Nat
  BY DEF TitlesOf, ToSet
<1>4. ToSet(<<f>>) = {f} /\ IsInjective(<<f>>) /\ <<f>> # <<>>
  BY DEF ToSet, IsInjective
<1>5. ~Holds(table, f)
  BY <1>2 DEF IsInjective
<1>6. ASSUME NEW a \in DOMAIN fs, NEW b \in Twins(fs, a)
      PROVE  b \in DOMAIN fs /\ (fs[a] = f <=> fs[b] = f)
  <2>1. b \in DOMAIN fs /\ a \in Twins(fs, b)
    BY <1>6, TwinsFacts
  <2>2. (fs[a] = f <=> a = i) /\ (fs[b] = f <=> b = i)
    BY <2>1 DEF IsInjective
  <2>3. a = i => b = i
    BY <1>6, TwinsFacts
  <2>4. b = i => a = i
    BY <2>1, TwinsFacts
  <2> QED BY <2>1, <2>2, <2>3, <2>4
<1> HIDE DEF f, t, T
<1>7. ASSUME NEW q, \A x : Holds(q, x) => Holds(table, x) \/ x = f
      PROVE  HoldsOnly(q, fs, S \cup {i})
  BY <1>2, <1>7 DEF f, HoldsOnly
<1> HIDE DEF new, table, rep, near, group, members, better, top1
<1>9. CASE near = {}
  <2> DEFINE q == Put(table, t, <<f>>)
  <2>1. new = [table |-> q, rep |-> Standing(rep, i, t)]
    BY <1>1, <1>9
  <2>2. q \in Tables(T, F) /\ \E m : PutAt(q, table, m, t, <<f>>)
    BY <1>2, <1>3, PutFacts
  <2>3. PICK m : PutAt(q, table, m, t, <<f>>)
    BY <2>2
  <2> HIDE DEF q
  <2>4. Titled(q) /\ Filled(q)
    BY <1>2, <1>4, <2>3, PutKeeps
  <2>5. \A x : Holds(q, x) => Holds(table, x) \/ x = f
    BY <1>4, <2>3, PutKeeps DEF Holds
  <2>6. \A e, d : Together(table, e, d) /\ (e \in ToSet(<<f>>) <=> d \in ToSet(<<f>>)) => Together(q, e, d)
    BY <2>3, PutKeeps
  <2>7. \A a \in DOMAIN fs : \A b \in Twins(fs, a) : Together(q, fs[a], fs[b])
    BY <1>2, <1>4, <1>6, <2>6
  <2>8. Once(q)
    <3>1. \A j \in DOMAIN table : j # m => \A x \in ToSet(<<f>>) : x \notin ToSet(table[j].files)
      BY <1>4, <1>5 DEF Holds
    <3> QED BY <1>2, <1>4, <2>3, <3>1, PutOnce
  <2> DEFINE r == Standing(rep, i, t)
  <2>9. Represents(r, fs)
    BY <1>r, <1>3, RepresentsMore DEF T
  <2>10. HoldsOnly(q, fs, S \cup {i}) /\ TwinsTogether(q, fs)
    BY <1>7, <2>5, <2>7 DEF TwinsTogether
  <2>11. new = [table |-> q, rep |-> r]
    BY <2>1
  <2> HIDE DEF r
  <2> QED BY <2>2, <2>4, <2>8, <2>9, <2>10, <2>11 DEF JoinGood, T, new
<1>10. CASE near # {}
  <2>1. group \in T
    <3>1. near \in SUBSET DOMAIN rep
      BY DEF near
    <3>2. near \in SUBSET Nat
      BY <1>2, <1>3, <3>1
    <3>3. Min(near) \in DOMAIN rep
      BY <1>10, <3>1, <3>2, LeastIn
    <3> QED BY <1>2, <3>3 DEF group
  <2>2. better \in T
    BY <1>3, <2>1, BetterIs DEF better
  <2> DEFINE g == Get(table, group)
             w == Without(table, group)
  <2>3. /\ w \in Tables(T, F) /\ Titled(w) /\ Filled(w) /\ Once(w)
        /\ \A e, d : Together(table, e, d) => Together(w, e, d)
        /\ \A x : Holds(w, x) => Holds(table, x) /\ x \notin ToSet(g)
        /\ g \in Seq(F) /\ IsInjective(g)
        /\ \A x \in ToSet(g) : Holds(table, x)
        /\ \A e, d : Together(table, e, d) => (e \in ToSet(g) <=> d \in ToSet(g))
    BY <1>2, WithoutFacts
  <2>4. members = Append(g, f)
    BY DEF members
  <2>a. AddTo(table, group, <<f>>) = Put(table, group, g \o <<f>>)
    BY DEF AddTo
  <2> HIDE DEF g, w
  <2>5. members = g \o <<f>> /\ members \in Seq(F)
    BY <1>3, <2>3, <2>4, AppendIs
  <2>6. /\ ToSet(members) = ToSet(g) \cup {f} /\ IsInjective(members) /\ members # <<>>
    <3>1. \A x \in ToSet(<<f>>) : x \notin ToSet(g)
      BY <1>4, <1>5, <2>3
    <3>2. ToSet(members) = ToSet(g) \cup ToSet(<<f>>)
      BY <1>3, <2>3, <2>5, ConcatFacts, Zenon
    <3>3. IsInjective(members)
      BY <1>3, <1>4, <2>3, <2>5, <3>1, ConcatFacts
    <3>4. members # <<>>
      BY <1>3, <1>4, <2>3, <2>5, ConcatFacts
    <3> QED BY <1>4, <3>2, <3>3, <3>4
  <2>7. CASE better = group
    <3> DEFINE q == Put(table, group, members)
    <3>1. new = [acc EXCEPT !.table = Put(@, group, members)]
      BY <1>1, <1>10, <2>7
    <3>b. new = [table |-> q, rep |-> rep]
      BY <1>2, <3>1 DEF table
    <3>2. q = AddTo(table, group, <<f>>)
      BY <2>5, <2>a
    <3> HIDE DEF q
    <3>3. q \in Tables(T, F) /\ Titled(q) /\ Filled(q)
      BY <1>2, <1>3, <1>4, <2>1, <3>2, AddFacts
    <3>4. Once(q)
      <4>1. \A x \in ToSet(<<f>>) : ~Holds(table, x)
        BY <1>4, <1>5
      <4> QED BY <1>2, <1>3, <1>4, <2>1, <3>2, <4>1, AddFacts
    <3>5. \A x : Holds(q, x) => Holds(table, x) \/ x = f
      BY <1>2, <1>3, <1>4, <2>1, <3>2, AddFacts
    <3>6. \A e, d : Together(table, e, d) /\ (e \in ToSet(<<f>>) <=> d \in ToSet(<<f>>)) => Together(q, e, d)
      BY <1>2, <1>3, <2>1, <3>2, AddFacts
    <3>7. \A a \in DOMAIN fs : \A b \in Twins(fs, a) : Together(q, fs[a], fs[b])
      BY <1>2, <1>4, <1>6, <3>6
    <3>8. HoldsOnly(q, fs, S \cup {i}) /\ TwinsTogether(q, fs)
      BY <1>7, <3>5, <3>7 DEF TwinsTogether
    <3> QED BY <1>r, <3>b, <3>3, <3>4, <3>8 DEF JoinGood, T, new
  <2>8. CASE better # group
    <3> DEFINE q == Put(w, better, members)
               r == Standing(rep, top1, better)
    <3>1. new = [table |-> q, rep |-> r]
      BY <1>1, <1>10, <2>8 DEF w
    <3>2. q \in Tables(T, F) /\ \E m : PutAt(q, w, m, better, members)
      BY <2>2, <2>3, <2>5, PutFacts
    <3>3. PICK m : PutAt(q, w, m, better, members)
      BY <3>2
    <3>4. Represents(r, fs)
      <4>0. 1 \in DOMAIN members
        BY <2>5, <2>6
      <4>1. members[1] \in ToSet(members)
        BY <4>0 DEF ToSet
      <4>2. \E j \in DOMAIN fs : fs[j] = members[1]
        BY <1>2, <2>3, <2>6, <4>1 DEF f
      <4>3. top1 \in DOMAIN fs
        BY <4>2 DEF top1
      <4> QED BY <1>r, <2>2, <4>3, RepresentsMore DEF T
    <3> HIDE DEF q, r
    <3>5. Titled(q) /\ Filled(q)
      BY <2>3, <2>6, <3>3, PutKeeps
    <3>6. \A x : Holds(q, x) => Holds(table, x) \/ x = f
      <4>1. \A x : Holds(q, x) <=> x \in ToSet(members)
                     \/ \E j \in DOMAIN w : j # m /\ x \in ToSet(w[j].files)
        BY <3>3, PutKeeps
      <4>2. \A x : Holds(q, x) => x \in ToSet(members) \/ Holds(w, x)
        BY <4>1 DEF Holds
      <4> QED BY <2>3, <2>6, <4>2
    <3>7. \A e, d : Together(w, e, d) /\ (e \in ToSet(members) <=> d \in ToSet(members)) => Together(q, e, d)
      BY <3>3, PutKeeps
    <3>8. \A a \in DOMAIN fs : \A b \in Twins(fs, a) : Together(q, fs[a], fs[b])
      <4> SUFFICES ASSUME NEW a \in DOMAIN fs, NEW b \in Twins(fs, a)
                   PROVE  Together(q, fs[a], fs[b])
        OBVIOUS
      <4>1. Together(table, fs[a], fs[b]) /\ (fs[a] = f <=> fs[b] = f)
        BY <1>2, <1>6
      <4>2. fs[a] \in ToSet(g) <=> fs[b] \in ToSet(g)
        BY <2>3, <4>1
      <4>3. fs[a] \in ToSet(members) <=> fs[b] \in ToSet(members)
        BY <2>6, <4>1, <4>2
      <4>4. Together(w, fs[a], fs[b])
        BY <2>3, <4>1
      <4> QED BY <3>7, <4>3, <4>4
    <3>9. Once(q)
      <4>1. \A x \in ToSet(members) : ~Holds(w, x)
        BY <1>5, <2>3, <2>6
      <4>2. \A j \in DOMAIN w : j # m => \A x \in ToSet(members) : x \notin ToSet(w[j].files)
        BY <4>1 DEF Holds
      <4> QED BY <2>3, <2>6, <3>3, <4>2, PutOnce
    <3>10. HoldsOnly(q, fs, S \cup {i}) /\ TwinsTogether(q, fs)
      BY <1>7, <3>6, <3>8 DEF TwinsTogether
    <3> QED BY <3>1, <3>2, <3>4, <3>5, <3>9, <3>10 DEF JoinGood, T, new
  <2> QED BY <2>7, <2>8
<1> QED BY <1>9, <1>10 DEF new

JoinBase(fs) == [table |-> ExactGroups(fs), rep |-> <<>>]
TitleJoining == INSTANCE FoldProofs WITH Op <- Join, Base <- JoinBase

LEMMA TitleMatchFacts ==
    ASSUME NEW F, \A f \in F : f.title \in Titles, NEW fs \in Seq(F), IsInjective(fs)
    PROVE  /\ TitleMatch(fs) \in Tables(TitlesOf(fs), F)
           /\ Titled(TitleMatch(fs)) /\ Filled(TitleMatch(fs)) /\ Once(TitleMatch(fs))
           /\ HoldsOnly(TitleMatch(fs), fs, DOMAIN fs) /\ TwinsTogether(TitleMatch(fs), fs)
<1> DEFINE rest == Indices(fs, DOMAIN fs \ Exact(fs))
           n == Len(rest)
<1>1. /\ rest \in Seq(DOMAIN fs) /\ IsInjective(rest)
      /\ \A i : i \in ToSet(rest) <=> i \in DOMAIN fs /\ i \in DOMAIN fs \ Exact(fs)
  BY IndicesFacts
<1>2. TitleMatch(fs) = TitleJoining!Fold(fs, rest).table
  BY DEF TitleMatch, TitleJoining!Fold, FoldLeft,
         MapThenFoldSet, TitleJoining!Greatest, Max, JoinBase
<1> HIDE DEF rest
<1>3. PICK acc : /\ acc[0] = JoinBase(fs)
                 /\ \A k \in 1 .. Len(rest) : acc[k] = Join(fs, acc[k - 1], rest[k])
                 /\ TitleJoining!Fold(fs, rest) = acc[Len(rest)]
  BY <1>1, TitleJoining!FoldUnfolds
<1>4. DOMAIN rest = 1 .. n /\ n \in Nat /\ \A k \in DOMAIN rest : rest[k] \in DOMAIN fs
  BY <1>1
<1>5. \A k \in DOMAIN rest : rest[k] \notin Exact(fs)
  BY <1>1 DEF ToSet
<1> DEFINE Done(k) == {j \in DOMAIN fs : j \in Exact(fs) \/ \E l \in 1 .. k : rest[l] = j}
           Good(k) == JoinGood(F, fs, acc[k], Done(k))
           Bad == {k \in 0 .. n : ~Good(k)}
<1>6. 0 \notin Bad
  <2> DEFINE a == acc[0]
  <2>1. a = [table |-> ExactGroups(fs), rep |-> <<>>]
    BY <1>3 DEF JoinBase
  <2> HIDE DEF a
  <2>2. a.table = ExactGroups(fs) /\ a.rep = <<>> /\ a = [table |-> a.table, rep |-> a.rep]
    BY <2>1
  <2>3. DOMAIN <<>> = {}
    OBVIOUS
  <2>4. Represents(a.rep, fs)
    BY <2>2, <2>3 DEF Represents
  <2>5. \A x : Holds(ExactGroups(fs), x) <=> \E i \in Exact(fs) : x = fs[i]
    BY ExactGroupsFacts
  <2>6. HoldsOnly(a.table, fs, Done(0))
    <3>1. \A i \in Exact(fs) : i \in Done(0)
      BY DEF Exact
    <3> QED BY <2>2, <2>5, <3>1 DEF HoldsOnly
  <2>7. TwinsTogether(a.table, fs)
    <3>1. \A i \in DOMAIN fs : \A j \in Twins(fs, i) : Together(ExactGroups(fs), fs[i], fs[j])
      BY ExactGroupsFacts
    <3> QED BY <2>2, <3>1 DEF TwinsTogether
  <2>8. /\ a.table \in Tables(TitlesOf(fs), F)
        /\ Titled(a.table) /\ Filled(a.table) /\ Once(a.table)
    BY <2>2, ExactGroupsFacts
  <2>9. JoinGood(F, fs, a, Done(0))
    BY <2>2, <2>4, <2>6, <2>7, <2>8 DEF JoinGood
  <2> QED BY <2>9 DEF a
<1>7. ASSUME NEW k \in 1 .. n, k - 1 \notin Bad PROVE k \notin Bad
  <2>1. JoinGood(F, fs, acc[k - 1], Done(k - 1))
    BY <1>4, <1>7
  <2>2. acc[k] = Join(fs, acc[k - 1], rest[k])
    BY <1>3
  <2>3. rest[k] \in DOMAIN fs /\ rest[k] \notin Exact(fs) /\ k \in DOMAIN rest
    BY <1>4, <1>5
  <2>4. \A l \in 1 .. k - 1 : l \in DOMAIN rest /\ l # k
    BY <1>4
  <2>5. rest[k] \notin Done(k - 1)
    <3>1. \A l \in 1 .. k - 1 : rest[l] # rest[k]
      BY <1>1, <2>3, <2>4 DEF IsInjective
    <3> QED BY <2>3, <3>1
  <2>6. Done(k) = Done(k - 1) \cup {rest[k]}
    <3>1. \A l : l \in 1 .. k <=> l \in 1 .. k - 1 \/ l = k
      BY <1>4
    <3> QED BY <2>3, <3>1
  <2>7. Done(k - 1) \in SUBSET DOMAIN fs
    OBVIOUS
  <2> HIDE DEF Done
  <2>8. JoinGood(F, fs, acc[k], Done(k))
    BY <2>1, <2>2, <2>3, <2>5, <2>6, <2>7, JoinStep
  <2> QED BY <2>8
<1>8. Done(n) \in SUBSET DOMAIN fs
  OBVIOUS
<1> HIDE DEF Bad, Good, Done
<1>9. \A k \in 0 .. n : k \notin Bad
  <2>1. Bad \in SUBSET (0 .. n)
    BY DEF Bad
  <2> HIDE DEF n
  <2> QED BY <1>4, <1>6, <1>7, <2>1, Keeping!NoneFails
<1>10. Good(n)
  BY <1>4, <1>9 DEF Bad
<1>11. HoldsOnly(acc[n].table, fs, DOMAIN fs)
  BY <1>8, <1>10 DEF Good, JoinGood, HoldsOnly
<1> QED BY <1>2, <1>3, <1>10, <1>11 DEF Good, JoinGood

-----------------------------------------------------------------------------
(* Refinement.                                                               *)

\* The files of one title are in the same rows.
TitlesWhole(table) ==
    \A e, d : /\ Holds(table, e) /\ Holds(table, d)
              /\ e.title = d.title /\ IndexKey[e.title] # NoKey
              => Together(table, e, d)

\* What the parts of a group are.
PartsOf(parts, group, F) ==
    /\ parts \in Tables(Titles, F)
    /\ Titled(parts) /\ Filled(parts) /\ Once(parts) /\ TitlesWhole(parts)
    /\ \A x : Holds(parts, x) <=> x \in ToSet(group.files)
    /\ \A i \in DOMAIN parts : HashKey[parts[i].title] = HashKey[group.title]

LEMMA OneWhole ==
    ASSUME NEW F, NEW group, group = Row(group.title, group.files), group.title \in Titles,
           group.files \in Seq(F), group.files # <<>>, IsInjective(group.files)
    PROVE  PartsOf(<<group>>, group, F)
<1> DEFINE q == <<group>>
<1>1. q \in Tables(Titles, F)
  <2>1. group \in [title : Titles, files : Seq(F)]
    BY DEF Row
  <2> QED BY <2>1 DEF Tables
<1>2. DOMAIN q = {1} /\ q[1] = group
  OBVIOUS
<1> HIDE DEF q
<1>3. Titled(q) /\ Filled(q)
  BY <1>2 DEF Titled, Filled
<1>4. Once(q)
  BY <1>2 DEF Once, IsInjective
<1>5. \A x : Holds(q, x) <=> x \in ToSet(group.files)
  BY <1>2 DEF Holds
<1>6. TitlesWhole(q)
  BY <1>2, <1>5 DEF TitlesWhole, Together
<1> QED BY <1>1, <1>2, <1>3, <1>4, <1>5, <1>6 DEF PartsOf, q

Refiled(r, s) == [r EXCEPT !.files = s]

LEMMA FilesChanged == \A t, a, s : Refiled(Row(t, a), s) = Row(t, s)
BY DEF Refiled, Row

LEMMA RefineGroupFacts ==
    ASSUME NEW F, \A f \in F : f.title \in Titles,
           NEW group, group = Row(group.title, group.files), group.title \in Titles,
           group.files \in Seq(F), group.files # <<>>, IsInjective(group.files),
           \A x \in ToSet(group.files) : HashKey[x.title] = HashKey[group.title]
    PROVE  PartsOf(RefineGroup(group), group, F)
<1> DEFINE fs == group.files
           parts == TitleMatch(fs)
           K == {f \in ToSet(fs) : f \notin ToSet(FilesIn(parts))}
           orphans == Kept(fs, K)
           q == [parts EXCEPT ![1].files = @ \o orphans]
           whole == Len(fs) = 1 \/ Twins(fs, 1) = DOMAIN fs \/ Len(parts) < 2
<1>1. RefineGroup(group) = IF whole THEN <<group>> ELSE q
  BY DEF RefineGroup, Selected
<1>2. CASE whole
  BY <1>1, <1>2, OneWhole
<1>3. CASE ~whole
  <2>1. /\ parts \in Tables(TitlesOf(fs), F)
        /\ Titled(parts) /\ Filled(parts) /\ Once(parts)
        /\ HoldsOnly(parts, fs, DOMAIN fs) /\ TwinsTogether(parts, fs)
    BY TitleMatchFacts
  <2>2. \A x : Holds(parts, x) => x \in ToSet(fs)
    BY <2>1 DEF HoldsOnly, ToSet
  <2>3. Len(parts) \in Nat /\ DOMAIN parts = 1 .. Len(parts) /\ 1 \in DOMAIN parts
    BY <1>3, <2>1, TableFacts
  <2>4. \A t \in TitlesOf(fs) : t \in Titles /\ HashKey[t] = HashKey[group.title]
    <3>1. \A x \in ToSet(fs) : x \in F
      BY DEF ToSet
    <3> QED BY <3>1 DEF TitlesOf
  <2>5. \A x : x \in ToSet(FilesIn(parts)) <=> Holds(parts, x)
    <3> DEFINE R == [title : TitlesOf(fs), files : Seq(F)]
    <3>1. parts \in Seq(R)
      BY <2>1 DEF Tables
    <3>2. \A r \in R : r.files \in Seq(F)
      OBVIOUS
    <3> HIDE DEF R, parts
    <3> QED BY <3>1, <3>2, FilesInFacts
  <2> HIDE DEF parts
  <2>6. \A x : x \in K <=> x \in ToSet(fs) /\ ~Holds(parts, x)
    BY <2>5
  <2> HIDE DEF K
  <2>7. /\ orphans \in Seq(F) /\ IsInjective(orphans)
        /\ \A x : x \in ToSet(orphans) <=> x \in ToSet(fs) /\ ~Holds(parts, x)
    <3>1. /\ orphans \in Seq(F)
          /\ \A x : x \in ToSet(orphans) <=> x \in ToSet(fs) /\ x \in K
          /\ IsInjective(fs) => IsInjective(orphans)
      BY KeptSet
    <3> HIDE DEF orphans
    <3> QED BY <2>6, <3>1
  <2> HIDE DEF orphans
  <2> DEFINE t == parts[1].title
             new == parts[1].files \o orphans
  <2>8. t \in TitlesOf(fs) /\ parts[1].files \in Seq(F) /\ parts[1] = Row(t, parts[1].files)
    BY <2>1, <2>3, TableFacts
  <2>9. parts[1].files # <<>>
    BY <2>1, <2>3 DEF Filled
  <2>10. IsInjective(parts[1].files)
    BY <2>1, <2>3 DEF Once, IsInjective
  <2>11. \A x \in ToSet(parts[1].files) : Holds(parts, x)
    BY <2>3 DEF Holds
  <2>12. /\ new \in Seq(F) /\ ToSet(new) = ToSet(parts[1].files) \cup ToSet(orphans)
         /\ new # <<>>
    BY <2>7, <2>8, <2>9, ConcatFacts
  <2>13. IsInjective(new)
    <3>1. \A x \in ToSet(orphans) : x \notin ToSet(parts[1].files)
      BY <2>7, <2>11
    <3> QED BY <2>7, <2>8, <2>10, <3>1, ConcatFacts
  <2>14. /\ DOMAIN q = DOMAIN parts /\ q[1] = Row(t, new)
         /\ \A j \in DOMAIN parts : j # 1 => q[j] = parts[j]
    <3>1. q = [parts EXCEPT ![1] = [parts[1] EXCEPT !.files = @ \o orphans]]
      OBVIOUS
    <3>2. [parts[1] EXCEPT !.files = @ \o orphans] = Row(t, new)
      <4>1. [parts[1] EXCEPT !.files = @ \o orphans] = Refiled(parts[1], new)
        BY DEF Refiled
      <4>2. parts[1] = Row(t, parts[1].files)
        BY <2>8
      <4> HIDE DEF t, new
      <4>3. Refiled(parts[1], new) = Row(t, new)
        BY <4>2, FilesChanged
      <4> QED BY <4>1, <4>3
    <3> QED BY <2>3, <3>1, <3>2
  <2>15. Get(parts, t) = parts[1].files
    <3>1. Get(parts, t) = IF Place(parts, t) = 0 THEN <<>> ELSE parts[Place(parts, t)].files
      BY DEF Get, Place
    <3>2. \/ Place(parts, t) = 0 /\ \A i \in DOMAIN parts : parts[i].title # t
          \/ Place(parts, t) \in DOMAIN parts /\ parts[Place(parts, t)].title = t
      BY <2>1, PlaceFacts DEF Tables
    <3>3. Place(parts, t) = 1
      BY <2>1, <2>3, <3>2 DEF Titled
    <3> QED BY <3>1, <3>3
  <2>16. PutAt(q, parts, 1, t, new)
    <3> HIDE DEF q, new
    <3>1. 1 \in DOMAIN q /\ q[1] = Row(t, new) /\ DOMAIN q = DOMAIN parts \cup {1}
      BY <2>3, <2>14
    <3>2. \A j \in DOMAIN parts : j # 1 => q[j] = parts[j]
      BY <2>14
    <3>3. parts[1].title = t /\ Get(parts, t) = parts[1].files
      BY <2>15
    <3> HIDE DEF t
    <3> QED BY <2>3, <3>1, <3>2, <3>3 DEF PutAt
  <2> HIDE DEF q, t, new
  <2>17. q \in Tables(Titles, F)
    <3>1. \A j \in DOMAIN parts : q[j] \in [title : Titles, files : Seq(F)]
      <4>1. \A j \in DOMAIN parts : parts[j] \in [title : Titles, files : Seq(F)]
        <5>1. \A j \in DOMAIN parts : /\ parts[j].title \in Titles /\ parts[j].files \in Seq(F)
                                      /\ parts[j] = Row(parts[j].title, parts[j].files)
          BY <2>1, <2>4, TableFacts
        <5> QED BY <5>1 DEF Row
      <4>2. Row(t, new) \in [title : Titles, files : Seq(F)]
        BY <2>4, <2>8, <2>12 DEF Row
      <4> QED BY <2>14, <4>1, <4>2
    <3>2. q = [j \in 1 .. Len(parts) |-> q[j]]
      <4>1. q = [parts EXCEPT ![1].files = @ \o orphans]
        BY DEF q
      <4> QED BY <2>3, <4>1
    <3> QED BY <2>3, <3>1, <3>2 DEF Tables
  <2>18. Titled(q) /\ Filled(q)
    BY <2>1, <2>12, <2>16, PutKeeps
  <2>19. Once(q)
    <3>1. \A j \in DOMAIN parts : j # 1 => \A x \in ToSet(new) : x \notin ToSet(parts[j].files)
      <4> SUFFICES ASSUME NEW j \in DOMAIN parts, j # 1, NEW x \in ToSet(new), x \in ToSet(parts[j].files)
                   PROVE  FALSE
        OBVIOUS
      <4>1. Holds(parts, x)
        BY DEF Holds
      <4>2. x \in ToSet(parts[1].files)
        BY <2>7, <2>12, <4>1
      <4>3. PICK a \in DOMAIN parts[1].files : x = parts[1].files[a]
        BY <4>2 DEF ToSet
      <4>4. PICK b \in DOMAIN parts[j].files : x = parts[j].files[b]
        BY DEF ToSet
      <4>5. parts[1].files[a] = parts[j].files[b]
        BY <4>3, <4>4
      <4> QED BY <2>1, <2>3, <4>5 DEF Once
    <3> QED BY <2>1, <2>13, <2>16, <3>1, PutOnce
  <2>20. \A x : Holds(q, x) <=> x \in ToSet(fs)
    <3>1. \A x : Holds(q, x) <=>
             x \in ToSet(new) \/ \E j \in DOMAIN parts : j # 1 /\ x \in ToSet(parts[j].files)
      BY <2>16, PutKeeps
    <3>2. \A x : Holds(parts, x) <=>
             x \in ToSet(parts[1].files) \/ \E j \in DOMAIN parts : j # 1 /\ x \in ToSet(parts[j].files)
      BY <2>3 DEF Holds
    <3> QED BY <2>2, <2>7, <2>12, <3>1, <3>2
  <2>21. \A i \in DOMAIN q : HashKey[q[i].title] = HashKey[group.title]
    <3>1. \A i \in DOMAIN parts : parts[i].title \in TitlesOf(fs)
      BY <2>1, TableFacts
    <3>2. \A i \in DOMAIN q : q[i].title \in TitlesOf(fs)
      BY <2>8, <2>14, <3>1 DEF Row
    <3> QED BY <2>4, <3>2
  <2>22. TitlesWhole(q)
    <3> SUFFICES ASSUME NEW e, NEW d, Holds(q, e), Holds(q, d), e.title = d.title,
                        IndexKey[e.title] # NoKey
                 PROVE  Together(q, e, d)
      BY DEF TitlesWhole
    <3>1. PICK i \in DOMAIN fs : e = fs[i]
      BY <2>20 DEF ToSet
    <3>2. PICK j \in DOMAIN fs : d = fs[j]
      BY <2>20 DEF ToSet
    <3>3. j \in Twins(fs, i)
      BY <3>1, <3>2 DEF Twins
    <3>4. Together(parts, e, d)
      BY <2>1, <3>1, <3>2, <3>3 DEF TwinsTogether
    <3>5. Holds(parts, e) <=> Holds(parts, d)
      BY <3>4 DEF Holds, Together
    <3>6. e \in ToSet(new) <=> d \in ToSet(new)
      <4>1. e \in ToSet(parts[1].files) <=> d \in ToSet(parts[1].files)
        BY <2>3, <3>4 DEF Together
      <4>2. e \in ToSet(fs) /\ d \in ToSet(fs)
        BY <3>1, <3>2 DEF ToSet
      <4> QED BY <2>7, <2>12, <3>5, <4>1, <4>2
    <3> QED BY <2>16, <3>4, <3>6, PutKeeps
  <2>23. PartsOf(q, group, F)
    BY <2>17, <2>18, <2>19, <2>20, <2>21, <2>22 DEF PartsOf
  <2> QED BY <1>1, <1>3, <2>23
<1> QED BY <1>2, <1>3

RefinedOf(group, raises) ==
    IF Len(group.files) > MaxRefine \/ group.title \in raises THEN <<group>> ELSE RefineGroup(group)

LEMMA RefineAllFacts ==
    ASSUME NEW F, \A f \in F : f.title \in Titles, NEW groups1 \in Tables(Titles, F),
           Filled(groups1), Once(groups1), OfOneKey(groups1), KeysApart(groups1), NEW raises
    PROVE  /\ RefineAll(groups1, raises) \in Tables(Titles, F)
           /\ Titled(RefineAll(groups1, raises)) /\ Filled(RefineAll(groups1, raises))
           /\ Once(RefineAll(groups1, raises)) /\ TitlesWhole(RefineAll(groups1, raises))
           /\ \A x : Holds(RefineAll(groups1, raises), x) <=> Holds(groups1, x)
<1> DEFINE gs == groups1
           ss == [i \in DOMAIN gs |-> RefinedOf(gs[i], raises)]
           R == RefineAll(gs, raises)
           X == [title : Titles, files : Seq(F)]
<1>1. R = FlattenSeq(ss)
  BY DEF RefineAll, RefinedOf
<1>2. DOMAIN gs = 1 .. Len(gs) /\ Len(gs) \in Nat
  BY TableFacts
<1>3. ASSUME NEW i \in DOMAIN gs PROVE PartsOf(ss[i], gs[i], F)
  <2> DEFINE group == gs[i]
  <2>1. /\ group = Row(group.title, group.files) /\ group.title \in Titles
        /\ group.files \in Seq(F) /\ group.files # <<>> /\ IsInjective(group.files)
        /\ \A x \in ToSet(group.files) : HashKey[x.title] = HashKey[group.title]
    <3>1. group.title \in Titles /\ group.files \in Seq(F) /\ group = Row(group.title, group.files)
      BY TableFacts
    <3>2. IsInjective(group.files)
      BY DEF Once, IsInjective
    <3>3. group.files # <<>> /\ \A x \in ToSet(group.files) : HashKey[x.title] = HashKey[group.title]
      BY DEF Filled, OfOneKey
    <3> QED BY <3>1, <3>2, <3>3
  <2>2. ss[i] = RefinedOf(group, raises)
    OBVIOUS
  <2> HIDE DEF group, ss
  <2>3. PartsOf(<<group>>, group, F)
    BY <2>1, OneWhole
  <2>4. PartsOf(RefineGroup(group), group, F)
    BY <2>1, RefineGroupFacts
  <2>5. PartsOf(ss[i], group, F)
    BY <2>2, <2>3, <2>4 DEF RefinedOf
  <2> QED BY <2>5 DEF group
<1> HIDE DEF R, X
<1>4. DOMAIN ss = DOMAIN gs /\ \A i \in DOMAIN gs : ss[i] \in Seq(X)
  BY <1>3 DEF PartsOf, Tables, X
<1>5. ss \in Seq(Seq(X)) /\ Len(ss) = Len(gs)
  BY <1>2, <1>4
<1> HIDE DEF ss
<1>6. R \in Seq(X) /\ \E row, col : Joining!Spreads(R, ss, Len(ss), row, col)
  BY <1>1, <1>5, FlattenFacts
<1>7. PICK row, col : Joining!Spreads(R, ss, Len(ss), row, col)
  BY <1>6
<1>8. Joining!Placed(R, ss, row, col)
  BY <1>5, <1>6, <1>7, Joining!PlacesSpread
<1>9. /\ \A m \in DOMAIN R : /\ row[m] \in DOMAIN gs /\ col[m] \in Nat
                             /\ col[m] \in DOMAIN ss[row[m]] /\ R[m] = ss[row[m]][col[m]]
      /\ \A i \in DOMAIN gs : \A k \in DOMAIN ss[i] : \E m \in DOMAIN R : row[m] = i /\ col[m] = k
  BY <1>4, <1>8 DEF Joining!Placed
<1>10. \A l, m \in DOMAIN R : row[l] = row[m] /\ col[l] = col[m] => l = m
  BY <1>8 DEF Joining!Placed
<1>11. \A m \in DOMAIN R : /\ HashKey[R[m].title] = HashKey[gs[row[m]].title]
                           /\ \A x \in ToSet(R[m].files) : x \in ToSet(gs[row[m]].files)
  BY <1>3, <1>9 DEF PartsOf, Holds
<1>12. Titled(R)
  <2> SUFFICES ASSUME NEW l \in DOMAIN R, NEW m \in DOMAIN R, R[l].title = R[m].title
               PROVE  l = m
    BY DEF Titled
  <2>1. row[l] = row[m]
    BY <1>9, <1>11 DEF KeysApart
  <2>2. Titled(ss[row[l]])
    BY <1>3, <1>9 DEF PartsOf
  <2>3. col[l] = col[m]
    BY <1>9, <2>1, <2>2 DEF Titled
  <2> QED BY <1>10, <2>1, <2>3
<1>13. Filled(R)
  BY <1>3, <1>9 DEF PartsOf, Filled
<1>14. \A i, j \in DOMAIN gs : \A x : x \in ToSet(gs[i].files) /\ x \in ToSet(gs[j].files) => i = j
  BY DEF Once, ToSet
<1>15. Once(R)
  <2> SUFFICES ASSUME NEW l \in DOMAIN R, NEW m \in DOMAIN R, NEW a \in DOMAIN R[l].files,
                      NEW b \in DOMAIN R[m].files, R[l].files[a] = R[m].files[b]
               PROVE  l = m /\ a = b
    BY DEF Once
  <2> DEFINE x == R[l].files[a]
  <2>1. x \in ToSet(R[l].files) /\ x \in ToSet(R[m].files)
    BY DEF ToSet
  <2> HIDE DEF x
  <2>2. x \in ToSet(gs[row[l]].files) /\ x \in ToSet(gs[row[m]].files)
    BY <1>11, <2>1
  <2>3. row[l] = row[m]
    BY <1>9, <1>14, <2>2
  <2>4. Once(ss[row[l]])
    BY <1>3, <1>9 DEF PartsOf
  <2>5. col[l] = col[m] /\ a = b
    BY <1>9, <2>3, <2>4 DEF Once
  <2> QED BY <1>10, <2>3, <2>5
<1>16. \A x : Holds(R, x) <=> Holds(gs, x)
  <2>1. ASSUME NEW x, Holds(R, x) PROVE Holds(gs, x)
    BY <1>9, <1>11, <2>1 DEF Holds
  <2>2. ASSUME NEW x, Holds(gs, x) PROVE Holds(R, x)
    <3>1. PICK i \in DOMAIN gs : x \in ToSet(gs[i].files)
      BY <2>2 DEF Holds
    <3>2. Holds(ss[i], x)
      BY <1>3, <3>1 DEF PartsOf
    <3>3. PICK k \in DOMAIN ss[i] : x \in ToSet(ss[i][k].files)
      BY <3>2 DEF Holds
    <3>4. PICK m \in DOMAIN R : row[m] = i /\ col[m] = k
      BY <1>9
    <3> QED BY <1>9, <3>3, <3>4 DEF Holds
  <2> QED BY <2>1, <2>2
<1>17. TitlesWhole(R)
  <2> SUFFICES ASSUME NEW e, NEW d, Holds(R, e), Holds(R, d), e.title = d.title,
                      IndexKey[e.title] # NoKey, NEW m \in DOMAIN R
               PROVE  e \in ToSet(R[m].files) <=> d \in ToSet(R[m].files)
    BY DEF TitlesWhole, Together
  <2>1. PICK i \in DOMAIN gs : e \in ToSet(gs[i].files)
    BY <1>16 DEF Holds
  <2>2. PICK j \in DOMAIN gs : d \in ToSet(gs[j].files)
    BY <1>16 DEF Holds
  <2>3. i = j
    BY <2>1, <2>2 DEF OfOneKey, KeysApart
  <2>4. CASE row[m] = i
    <3>1. TitlesWhole(ss[i]) /\ \A x : Holds(ss[i], x) <=> x \in ToSet(gs[i].files)
      BY <1>3 DEF PartsOf
    <3>2. Together(ss[i], e, d)
      BY <2>1, <2>2, <2>3, <3>1 DEF TitlesWhole
    <3> QED BY <1>9, <2>4, <3>2 DEF Together
  <2>5. CASE row[m] # i
    BY <1>9, <1>11, <1>14, <2>1, <2>2, <2>3, <2>5
  <2> QED BY <2>4, <2>5
<1>18. R \in Tables(Titles, F)
  BY <1>6 DEF Tables, X
<1> QED BY <1>12, <1>13, <1>15, <1>16, <1>17, <1>18 DEF R

-----------------------------------------------------------------------------
(* The engine.                                                               *)

\* Of finitely many numbers one is the greatest, and first of its like.
IsFirstGreatest(v, n, i) ==
    /\ i \in 1 .. n
    /\ \A j \in 1 .. n : v[j] <= v[i]
    /\ \A j \in 1 .. (i - 1) : v[j] < v[i]

LEMMA FirstGreatest ==
    ASSUME NEW n \in Nat, n # 0, NEW v \in [1 .. n -> Nat]
    PROVE  \E i : IsFirstGreatest(v, n, i)
<1> DEFINE Bad == {k \in 0 .. n : k # 0 /\ \A i \in 1 .. k : ~IsFirstGreatest(v, k, i)}
<1>1. 0 \notin Bad
  OBVIOUS
<1>2. ASSUME NEW k \in 1 .. n, k - 1 \notin Bad PROVE k \notin Bad
  <2>0. k \in Nat /\ n \in Nat /\ 1 <= k /\ k <= n
    OBVIOUS
  <2>1. CASE k = 1
    <3>1. IsFirstGreatest(v, k, k)
      BY <2>0, <2>1 DEF IsFirstGreatest
    <3> QED BY <2>0, <3>1
  <2>2. CASE k # 1
    <3>1. k - 1 \in 0 .. n /\ k - 1 # 0
      BY <2>0, <2>2
    <3>2. PICK i \in 1 .. k - 1 : IsFirstGreatest(v, k - 1, i)
      BY <1>2, <3>1
    <3>3. /\ i \in 1 .. n /\ v[i] \in Nat /\ v[k] \in Nat /\ \A j \in 1 .. n : v[j] \in Nat
          /\ \A j \in 1 .. k : j \in 1 .. k - 1 \/ j = k
      BY <2>0, <3>1
    <3>4. CASE v[k] <= v[i]
      <4>1. IsFirstGreatest(v, k, i)
        BY <2>0, <3>2, <3>3, <3>4 DEF IsFirstGreatest
      <4> QED BY <2>0, <3>2, <4>1
    <3>5. CASE v[i] < v[k]
      <4>1. \A j \in 1 .. k - 1 : j \in 1 .. n /\ v[j] <= v[i]
        BY <2>0, <3>2 DEF IsFirstGreatest
      <4>2. \A j \in 1 .. k - 1 : v[j] < v[k]
        BY <3>3, <3>5, <4>1
      <4>3. \A j \in 1 .. k : v[j] <= v[k]
        BY <3>3, <4>2
      <4>4. IsFirstGreatest(v, k, k)
        BY <2>0, <4>2, <4>3 DEF IsFirstGreatest
      <4> QED BY <2>0, <4>4
    <3> QED BY <3>3, <3>4, <3>5
  <2> QED BY <2>1, <2>2
<1>3. Bad \in SUBSET (0 .. n)
  OBVIOUS
<1> HIDE DEF Bad
<1>4. \A k \in 0 .. n : k \notin Bad
  BY <1>1, <1>2, <1>3, Keeping!NoneFails
<1>5. n \in 0 .. n /\ n \notin Bad
  BY <1>4
<1> QED BY <1>5 DEF Bad

\* What the engine makes of a list: groups that hold each of its files once.
Partition(table, fs, T, F) ==
    /\ table \in Tables(T, F)
    /\ Titled(table) /\ Filled(table) /\ Once(table) /\ TitlesWhole(table)
    /\ \A x : Holds(table, x) <=> x \in ToSet(fs)

LEMMA NoGroups == ASSUME NEW T, NEW F PROVE Partition(<<>>, <<>>, T, F)
<1>1. <<>> \in Tables(T, F) /\ DOMAIN <<>> = {} /\ ToSet(<<>>) = {}
  BY DEF Tables, ToSet
<1> QED BY <1>1 DEF Partition, Titled, Filled, Once, TitlesWhole, Holds

LEMMA TablesGrow ==
    ASSUME NEW T, NEW F, NEW U, T \subseteq U, NEW table \in Tables(T, F)
    PROVE  table \in Tables(U, F)
<1>1. [title : T, files : Seq(F)] \subseteq [title : U, files : Seq(F)]
  OBVIOUS
<1> DEFINE A == [title : T, files : Seq(F)]
           B == [title : U, files : Seq(F)]
<1>2. table \in Seq(A) /\ A \subseteq B
  BY <1>1 DEF Tables
<1> HIDE DEF A, B
<1>3. table \in Seq(B)
  BY <1>2
<1> QED BY <1>3 DEF Tables, B

LEMMA HeaviestRuns ==
    ASSUME NEW failed, "hash" \notin failed, NEW w \in [Matchers -> Nat]
    PROVE  Heaviest(Succeeded(failed), w) \in Matchers
<1> DEFINE all == <<"hash", "title", "season">>
           K == {m \in ToSet(all) : m \notin failed}
           ran == Kept(all, K)
           v == [i \in 1 .. Len(ran) |-> w[ran[i]]]
<1>1. all \in Seq(Matchers) /\ "hash" \in ToSet(all)
  <2>1. all \in Seq(Matchers) /\ 1 \in DOMAIN all /\ all[1] = "hash"
    BY DEF Matchers
  <2> HIDE DEF all
  <2> QED BY <2>1 DEF ToSet
<1>2. Succeeded(failed) = ran
  BY DEF Succeeded, Selected
<1> HIDE DEF all
<1>3. "hash" \in K
  BY <1>1
<1> HIDE DEF K
<1>4. ran \in Seq(Matchers) /\ "hash" \in ToSet(ran)
  BY <1>1, <1>3, KeptSet
<1> HIDE DEF ran
<1>5. DOMAIN ran = 1 .. Len(ran) /\ Len(ran) \in Nat /\ Len(ran) # 0
  BY <1>4 DEF ToSet
<1>6. v \in [1 .. Len(ran) -> Nat]
  BY <1>4, <1>5
<1>7. PICK i : IsFirstGreatest(v, Len(ran), i)
  BY <1>5, <1>6, FirstGreatest
<1> DEFINE P(b) == /\ \A j \in DOMAIN ran : w[ran[j]] <= w[ran[b]]
                   /\ \A j \in 1 .. (b - 1) : w[ran[j]] < w[ran[b]]
           best == CHOOSE b \in DOMAIN ran : P(b)
<1>8. i \in DOMAIN ran /\ P(i)
  <2>1. i \in 1 .. Len(ran) /\ \A j \in 1 .. Len(ran) : v[j] = w[ran[j]]
    BY <1>7 DEF IsFirstGreatest
  <2>2. \A j \in 1 .. (i - 1) : j \in 1 .. Len(ran)
    BY <1>5, <2>1
  <2> QED BY <1>5, <1>7, <2>1, <2>2 DEF IsFirstGreatest
<1>9. best \in DOMAIN ran
  BY <1>8
<1>10. Heaviest(ran, w) = ran[best]
  BY DEF Heaviest
<1> HIDE DEF best
<1> QED BY <1>2, <1>4, <1>9, <1>10

LEMMA EngineFacts ==
    ASSUME NEW F, \A f \in F : f.title \in Titles, NEW fs \in Seq(F), IsInjective(fs),
           NEW w \in [Matchers -> Nat], NEW failed, NEW raises
    PROVE  /\ "hash" \in failed => Partition(Engine(fs, w, failed, raises), <<>>, GroupTitles, F)
           /\ "hash" \notin failed => Partition(Engine(fs, w, failed, raises), fs, GroupTitles, F)
<1> DEFINE hash == HashMatch(fs)
           best == Heaviest(Succeeded(failed), w)
           R == Engine(fs, w, failed, raises)
<1>1. R = IF fs = <<>> \/ "hash" \in failed THEN <<>>
          ELSE CASE best = "hash"   -> hash
                 [] best = "title"  -> RefineAll(hash, raises)
                 [] best = "season" -> SeasonMatch(fs)
  BY DEF Engine
<1> HIDE DEF R
<1>2. CASE fs = <<>> \/ "hash" \in failed
  <2>1. R = <<>>
    BY <1>1, <1>2
  <2>2. Partition(R, <<>>, GroupTitles, F)
    BY <2>1, NoGroups
  <2>3. fs = <<>> => Partition(R, fs, GroupTitles, F)
    BY <2>2
  <2> QED BY <1>2, <2>2, <2>3 DEF R
<1>3. CASE fs # <<>> /\ "hash" \notin failed
  <2>1. best \in Matchers
    BY <1>3, HeaviestRuns
  <2>2. /\ hash \in Tables(Titles, F) /\ Filled(hash) /\ Once(hash)
        /\ \A x : Holds(hash, x) <=> x \in ToSet(fs)
        /\ OfOneKey(hash) /\ KeysApart(hash)
    BY HashMatchFacts
  <2> HIDE DEF hash, best
  <2>3. Titles \subseteq GroupTitles
    BY DEF GroupTitles
  <2>4. Partition(hash, fs, GroupTitles, F)
    <3>1. Titled(hash)
      BY <2>2 DEF KeysApart, Titled
    <3>2. TitlesWhole(hash)
      <4> SUFFICES ASSUME NEW e, NEW d, Holds(hash, e), Holds(hash, d), e.title = d.title,
                          NEW m \in DOMAIN hash
                   PROVE  e \in ToSet(hash[m].files) <=> d \in ToSet(hash[m].files)
        BY DEF TitlesWhole, Together
      <4>1. PICK i \in DOMAIN hash : e \in ToSet(hash[i].files)
        BY DEF Holds
      <4>2. PICK j \in DOMAIN hash : d \in ToSet(hash[j].files)
        BY DEF Holds
      <4>3. /\ e \in ToSet(hash[m].files) => m = i
            /\ d \in ToSet(hash[m].files) => m = j
            /\ i = j
        BY <2>2, <4>1, <4>2 DEF OfOneKey, KeysApart
      <4> QED BY <4>1, <4>2, <4>3
    <3>3. hash \in Tables(GroupTitles, F)
      BY <2>2, <2>3, TablesGrow
    <3> QED BY <2>2, <3>1, <3>2, <3>3 DEF Partition
  <2>5. Partition(RefineAll(hash, raises), fs, GroupTitles, F)
    <3> DEFINE r == RefineAll(hash, raises)
    <3>1. r \in Tables(Titles, F) /\ Titled(r) /\ Filled(r) /\ Once(r) /\ TitlesWhole(r)
      BY <2>2, RefineAllFacts
    <3>2. \A x : Holds(r, x) <=> Holds(hash, x)
      BY <2>2, RefineAllFacts
    <3> HIDE DEF r
    <3>3. r \in Tables(GroupTitles, F)
      BY <2>3, <3>1, TablesGrow
    <3>4. Partition(r, fs, GroupTitles, F)
      BY <2>2, <3>1, <3>2, <3>3 DEF Partition
    <3> QED BY <3>4 DEF r
  <2>6. Partition(SeasonMatch(fs), fs, GroupTitles, F)
    <3> DEFINE r == SeasonMatch(fs)
    <3>1. r \in Tables(GroupTitles, F) /\ Titled(r) /\ Filled(r) /\ Once(r)
      BY SeasonMatchFacts
    <3>2. \A x : Holds(r, x) <=> x \in ToSet(fs)
      BY SeasonMatchFacts
    <3>3. TitlesWhole(r)
      <4>1. \A e, d \in F : e.title = d.title /\ e \in ToSet(fs) /\ d \in ToSet(fs) => Together(r, e, d)
        BY SeasonMatchFacts
      <4>2. \A x \in ToSet(fs) : x \in F
        BY DEF ToSet
      <4> HIDE DEF r
      <4> QED BY <3>2, <4>1, <4>2 DEF TitlesWhole
    <3> QED BY <3>1, <3>2, <3>3 DEF Partition
  <2>7. R \in {hash, RefineAll(hash, raises), SeasonMatch(fs)}
    BY <1>1, <1>3, <2>1 DEF Matchers
  <2>8. Partition(R, fs, GroupTitles, F)
    <3>1. CASE R = hash
      BY <2>4, <3>1
    <3>2. CASE R = RefineAll(hash, raises)
      BY <2>5, <3>2
    <3>3. CASE R = SeasonMatch(fs)
      BY <2>6, <3>3
    <3> QED BY <2>7, <3>1, <3>2, <3>3
  <2> QED BY <1>3, <2>8 DEF R
<1> QED BY <1>2, <1>3

-----------------------------------------------------------------------------
(* The facade.                                                               *)

PutGroup(p, table, g) == Put(table, g.title, g.files)
Titling == INSTANCE FoldProofs WITH Op <- PutGroup, Base <- NoRows

\* A dictionary by titles is what it is made of, if no two groups have one title.
LEMMA ByTitleFacts ==
    ASSUME NEW T, NEW F, NEW gs \in Tables(T, F), Titled(gs)
    PROVE  ByTitle(gs) = gs
<1> DEFINE n == Len(gs)
           R == [title : T, files : Seq(F)]
<1>1. gs \in Seq(R) /\ DOMAIN gs = 1 .. n /\ n \in Nat
  BY TableFacts DEF Tables
<1>2. \A i \in DOMAIN gs : /\ gs[i].title \in T /\ gs[i].files \in Seq(F)
                           /\ gs[i] = Row(gs[i].title, gs[i].files)
  BY TableFacts
<1>3. ByTitle(gs) = Titling!Fold(gs, gs)
  BY DEF ByTitle, Titling!Fold, FoldLeft,
         MapThenFoldSet, Titling!Greatest, Max, PutGroup, NoRows
<1> HIDE DEF R
<1>4. PICK acc : /\ acc[0] = NoRows(gs)
                 /\ \A k \in 1 .. Len(gs) : acc[k] = PutGroup(gs, acc[k - 1], gs[k])
                 /\ Titling!Fold(gs, gs) = acc[Len(gs)]
  BY <1>1, Titling!FoldUnfolds
<1> DEFINE Good(k) == acc[k] \in Tables(T, F) /\ Len(acc[k]) = k /\ \A i \in 1 .. k : acc[k][i] = gs[i]
           Bad == {k \in 0 .. n : ~Good(k)}
<1>5. 0 \notin Bad
  <2>1. <<>> \in Tables(T, F) /\ Len(<<>>) = 0
    BY DEF Tables
  <2> QED BY <1>4, <2>1 DEF NoRows
<1>6. ASSUME NEW k \in 1 .. n, k - 1 \notin Bad PROVE k \notin Bad
  <2> DEFINE old == acc[k - 1]
             new == acc[k]
             t == gs[k].title
             fs == gs[k].files
  <2>1. old \in Tables(T, F) /\ Len(old) = k - 1 /\ \A i \in 1 .. k - 1 : old[i] = gs[i]
    BY <1>1, <1>6
  <2>2. new = Put(old, t, fs) /\ t \in T /\ fs \in Seq(F) /\ gs[k] = Row(t, fs) /\ k \in DOMAIN gs
    BY <1>1, <1>2, <1>4 DEF PutGroup
  <2> HIDE DEF old, new, t, fs
  <2>3. DOMAIN old = 1 .. k - 1
    BY <2>1, TableFacts
  <2>4. \A i \in 1 .. k - 1 : i \in DOMAIN gs /\ i # k
    BY <1>1
  <2>5. \A i \in DOMAIN old : old[i].title # t
    <3>1. gs[k].title = t
      BY DEF t
    <3> QED BY <2>1, <2>2, <2>3, <2>4, <3>1 DEF Titled
  <2>6. new \in Tables(T, F) /\ \E i : PutAt(new, old, i, t, fs)
    BY <2>1, <2>2, PutFacts
  <2>7. PICK i : PutAt(new, old, i, t, fs)
    BY <2>6
  <2>8. i \notin DOMAIN old
    BY <2>5, <2>7 DEF PutAt
  <2>9. new = Append(old, Row(t, fs))
    BY <2>7, <2>8 DEF PutAt
  <2>10. old \in Seq([title : T, files : Seq(F)]) /\ k \in Nat
    BY <2>1 DEF Tables
  <2>11. Len(new) = k /\ \A j \in 1 .. k - 1 : new[j] = old[j]
    <3> DEFINE R2 == [title : T, files : Seq(F)]
    <3>1. old \in Seq(R2)
      BY <2>10
    <3> HIDE DEF R2
    <3> QED BY <2>1, <2>9, <2>10, <3>1
  <2>12. new[k] = Row(t, fs)
    <3> DEFINE R2 == [title : T, files : Seq(F)]
    <3>1. old \in Seq(R2)
      BY <2>10
    <3> HIDE DEF R2
    <3> QED BY <2>1, <2>9, <2>10, <3>1
  <2>13. \A j \in 1 .. k : j \in 1 .. k - 1 \/ j = k
    OBVIOUS
  <2>14. \A j \in 1 .. k : new[j] = gs[j]
    BY <2>1, <2>2, <2>11, <2>12, <2>13
  <2> QED BY <2>6, <2>11, <2>14 DEF new
<1> HIDE DEF Bad, Good
<1>7. \A k \in 0 .. n : k \notin Bad
  <2>1. Bad \in SUBSET (0 .. n)
    BY DEF Bad
  <2> HIDE DEF n
  <2> QED BY <1>1, <1>5, <1>6, <2>1, Keeping!NoneFails
<1>8. Good(n)
  BY <1>1, <1>7 DEF Bad
<1>9. acc[n] = gs
  <2> DEFINE a == acc[n]
  <2>1. a \in Tables(T, F) /\ Len(a) = n /\ \A i \in 1 .. n : a[i] = gs[i]
    BY <1>8 DEF Good
  <2> HIDE DEF a
  <2>2. a \in Seq(R)
    BY <2>1 DEF Tables, R
  <2>3. a = gs
    BY <1>1, <2>1, <2>2
  <2> QED BY <2>3 DEF a
<1> QED BY <1>3, <1>4, <1>9

LEMMA AppendFacts ==
    ASSUME NEW X, NEW s \in Seq(X), NEW x \in X
    PROVE  /\ Append(s, x) \in Seq(X)
           /\ \A y : y \in ToSet(Append(s, x)) <=> y \in ToSet(s) \/ y = x
           /\ IsInjective(s) /\ x \notin ToSet(s) => IsInjective(Append(s, x))
<1> DEFINE t == <<x>>
           c == Append(s, x)
<1>1. c = s \o t /\ c \in Seq(X) /\ t \in Seq(X)
  BY AppendIs
<1>2. ToSet(t) = {x} /\ IsInjective(t)
  BY DEF ToSet, IsInjective
<1> HIDE DEF c, t
<1>3. ToSet(s \o t) = ToSet(s) \cup ToSet(t)
  BY <1>1, ConcatFacts
<1>4. IsInjective(s) /\ IsInjective(t) /\ (\A y \in ToSet(t) : y \notin ToSet(s)) => IsInjective(s \o t)
  BY <1>1, ConcatFacts
<1> QED BY <1>1, <1>2, <1>3, <1>4 DEF c

\* What has been seen, in the order it was met first.
Collects(acc, v, n) ==
    /\ acc[0] = <<>>
    /\ \A k \in 1 .. n : acc[k] = IF v[k] \in ToSet(acc[k - 1]) THEN acc[k - 1]
                                  ELSE Append(acc[k - 1], v[k])

LEMMA DistinctFacts ==
    ASSUME NEW n \in Nat, NEW X, NEW v \in [1 .. n -> X], NEW acc, Collects(acc, v, n)
    PROVE  /\ acc[n] \in Seq(X) /\ IsInjective(acc[n])
           /\ ToSet(acc[n]) = {v[k] : k \in 1 .. n}
<1> DEFINE Good(k) == /\ acc[k] \in Seq(X) /\ IsInjective(acc[k])
                      /\ \A x : x \in ToSet(acc[k]) <=> \E i \in 1 .. k : v[i] = x
           Bad == {k \in 0 .. n : ~Good(k)}
<1>1. 0 \notin Bad
  <2>1. DOMAIN <<>> = {} /\ ToSet(<<>>) = {} /\ IsInjective(<<>>) /\ <<>> \in Seq(X)
    BY DEF ToSet, IsInjective
  <2>2. Good(0)
    BY <2>1 DEF Collects
  <2> QED BY <2>2
<1>2. ASSUME NEW k \in 1 .. n, k - 1 \notin Bad PROVE k \notin Bad
  <2> DEFINE old == acc[k - 1]
             new == acc[k]
             x == v[k]
  <2>1. /\ old \in Seq(X) /\ IsInjective(old)
        /\ \A y : y \in ToSet(old) <=> \E i \in 1 .. k - 1 : v[i] = y
    BY <1>2
  <2>2. x \in X /\ \A i : i \in 1 .. k <=> i \in 1 .. k - 1 \/ i = k
    OBVIOUS
  <2>3. new = IF x \in ToSet(old) THEN old ELSE Append(old, x)
    BY DEF Collects
  <2> HIDE DEF new, old
  <2>4. CASE x \in ToSet(old)
    BY <2>1, <2>2, <2>3, <2>4 DEF new
  <2>5. CASE x \notin ToSet(old)
    <3>1. new = Append(old, x)
      BY <2>3, <2>5
    <3> HIDE DEF x
    <3>3. new \in Seq(X) /\ \A y : y \in ToSet(new) <=> y \in ToSet(old) \/ y = x
      BY <2>1, <2>2, <3>1, AppendFacts
    <3>4. IsInjective(new)
      BY <2>1, <2>2, <2>5, <3>1, AppendFacts
    <3>5. \A y : y \in ToSet(new) <=> \E i \in 1 .. k : v[i] = y
      BY <2>1, <2>2, <3>3 DEF x
    <3> QED BY <3>3, <3>4, <3>5 DEF new
  <2> QED BY <2>4, <2>5
<1> HIDE DEF Bad, Good
<1>3. \A k \in 0 .. n : k \notin Bad
  <2>1. Bad \in SUBSET (0 .. n)
    BY DEF Bad
  <2> QED BY <1>1, <1>2, <2>1, Keeping!NoneFails
<1>4. Good(n)
  BY <1>3 DEF Bad
<1> QED BY <1>4 DEF Good

BaseNext(p, seen, row) ==
    IF Base[row.title] \in ToSet(seen) THEN seen ELSE Append(seen, Base[row.title])
Basing == INSTANCE FoldProofs WITH Op <- BaseNext, Base <- NoRows

BasesOf(table) ==
    FoldLeft(LAMBDA seen, row :
               IF Base[row.title] \in ToSet(seen) THEN seen ELSE Append(seen, Base[row.title]),
             <<>>, table)

LEMMA BasesFacts ==
    ASSUME NEW R, NEW table \in Seq(R)
    PROVE  /\ BasesOf(table) \in Seq({Base[table[i].title] : i \in DOMAIN table})
           /\ IsInjective(BasesOf(table))
           /\ \A b : b \in ToSet(BasesOf(table)) <=> \E i \in DOMAIN table : Base[table[i].title] = b
<1> DEFINE n == Len(table)
           v == [i \in 1 .. n |-> Base[table[i].title]]
           X == {Base[table[i].title] : i \in DOMAIN table}
<1>1. DOMAIN table = 1 .. n /\ n \in Nat
  OBVIOUS
<1>2. BasesOf(table) = Basing!Fold(table, table)
  BY DEF BasesOf, Basing!Fold, FoldLeft,
         MapThenFoldSet, Basing!Greatest, Max, BaseNext, NoRows
<1>3. PICK acc : /\ acc[0] = NoRows(table)
                 /\ \A k \in 1 .. Len(table) : acc[k] = BaseNext(table, acc[k - 1], table[k])
                 /\ Basing!Fold(table, table) = acc[Len(table)]
  BY Basing!FoldUnfolds
<1>4. v \in [1 .. n -> X]
  BY <1>1
<1>5. Collects(acc, v, n)
  BY <1>3 DEF NoRows, BaseNext, Collects
<1>6. \A k \in 1 .. n : v[k] = Base[table[k].title]
  OBVIOUS
<1> HIDE DEF v, X, n
<1>7. /\ acc[n] \in Seq(X) /\ IsInjective(acc[n])
      /\ \A x : x \in ToSet(acc[n]) <=> \E k \in 1 .. n : v[k] = x
  <2>1. n \in Nat
    BY <1>1
  <2>2. acc[n] \in Seq(X)
    BY <1>4, <1>5, <2>1, DistinctFacts
  <2>3. IsInjective(acc[n])
    BY <1>4, <1>5, <2>1, DistinctFacts
  <2>4. ToSet(acc[n]) = {v[k] : k \in 1 .. n}
    BY <1>4, <1>5, <2>1, DistinctFacts
  <2> QED BY <2>2, <2>3, <2>4
<1>8. BasesOf(table) = acc[n]
  BY <1>2, <1>3 DEF n
<1>9. \A x : x \in ToSet(acc[n]) <=> \E i \in DOMAIN table : Base[table[i].title] = x
  BY <1>1, <1>6, <1>7
<1> QED BY <1>7, <1>8, <1>9 DEF X

MergedTitles == GroupTitles \cup {Base[t] : t \in GroupTitles}
RowsOf(table, b) == Kept(table, {row \in ToSet(table) : Base[row.title] = b})
MergeNext(table, merged, b) ==
    IF Len(RowsOf(table, b)) > 1
    THEN Put(merged, b, FilesIn(RowsOf(table, b)))
    ELSE Put(merged, RowsOf(table, b)[1].title, RowsOf(table, b)[1].files)
Merging == INSTANCE FoldProofs WITH Op <- MergeNext, Base <- NoRows

\* The group that the groups of one base become.
IsMerger(table, F, b, t, fs) ==
    /\ t \in MergedTitles /\ Base[t] = b
    /\ fs \in Seq(F) /\ IsInjective(fs) /\ fs # <<>>
    /\ \A x : x \in ToSet(fs) <=>
         \E i \in DOMAIN table : Base[table[i].title] = b /\ x \in ToSet(table[i].files)

LEMMA MergeIsPut ==
    ASSUME NEW F, NEW table \in Tables(GroupTitles, F), Filled(table), Once(table),
           NEW m \in DOMAIN table, NEW merged
    PROVE  \E t, fs : /\ MergeNext(table, merged, Base[table[m].title]) = Put(merged, t, fs)
                      /\ IsMerger(table, F, Base[table[m].title], t, fs)
<1> DEFINE b == Base[table[m].title]
           K == {row \in ToSet(table) : Base[row.title] = b}
           of == Kept(table, K)
           R == [title : GroupTitles, files : Seq(F)]
<1>1. table \in Seq(R)
  BY DEF Tables
<1>2. \A row : row \in K <=> row \in ToSet(table) /\ Base[row.title] = b
  OBVIOUS
<1>3. RowsOf(table, b) = of
  BY DEF RowsOf
<1>4. table[m].title \in GroupTitles /\ b \in MergedTitles /\ Base[b] = b
  BY TableFacts, BaseAssumption DEF MergedTitles
<1>5. table[m] \in K
  BY DEF ToSet
<1> HIDE DEF K, R
<1>6. /\ of \in Seq(R) /\ Once(of) /\ Filled(of)
      /\ \A j \in DOMAIN of : of[j] \in K /\ \E i \in DOMAIN table : of[j] = table[i]
      /\ \A i \in DOMAIN table : table[i] \in K => \E j \in DOMAIN of : of[j] = table[i]
  <2>1. of \in Seq(R)
    BY <1>1, KeptSet
  <2>2. Once(of) /\ Filled(of)
    BY <1>1, KeptRows
  <2>3. \A j \in DOMAIN of : of[j] \in K /\ \E i \in DOMAIN table : of[j] = table[i]
    BY <1>1, KeptRows
  <2>4. \A i \in DOMAIN table : table[i] \in K => \E j \in DOMAIN of : of[j] = table[i]
    BY <1>1, KeptRows
  <2> QED BY <2>1, <2>2, <2>3, <2>4
<1> HIDE DEF of
<1>7. DOMAIN of = 1 .. Len(of) /\ Len(of) \in Nat /\ Len(of) # 0
  BY <1>5, <1>6
<1>8. \A x : Holds(of, x) <=> \E i \in DOMAIN table : Base[table[i].title] = b /\ x \in ToSet(table[i].files)
  <2>1. \A i \in DOMAIN table : table[i] \in K <=> Base[table[i].title] = b
    BY <1>2 DEF ToSet
  <2> HIDE DEF b
  <2>2. ASSUME NEW x, Holds(of, x)
        PROVE  \E i \in DOMAIN table : Base[table[i].title] = b /\ x \in ToSet(table[i].files)
    <3>1. PICK j \in DOMAIN of : x \in ToSet(of[j].files)
      BY <2>2 DEF Holds
    <3>2. PICK i \in DOMAIN table : of[j] = table[i]
      BY <1>6
    <3> QED BY <1>6, <2>1, <3>1, <3>2
  <2>3. ASSUME NEW x, NEW i \in DOMAIN table, Base[table[i].title] = b, x \in ToSet(table[i].files)
        PROVE  Holds(of, x)
    BY <1>6, <2>1, <2>3 DEF Holds
  <2> QED BY <2>2, <2>3
<1>9. of \in Tables(GroupTitles, F)
  BY <1>6 DEF Tables, R
<1>10. CASE Len(of) > 1
  <2> DEFINE fs == FilesIn(of)
  <2>1. \A r \in R : r.files \in Seq(F)
    BY DEF R
  <2>2. /\ fs \in Seq(F)
        /\ \A x : x \in ToSet(fs) <=> Holds(of, x)
        /\ IsInjective(fs) <=> Once(of)
    BY <1>6, <2>1, FilesInFacts
  <2>3. MergeNext(table, merged, b) = Put(merged, b, fs)
    BY <1>3, <1>10 DEF MergeNext
  <2>4. fs # <<>>
    <3>1. of[1].files # <<>> /\ of[1].files \in Seq(F) /\ 1 \in DOMAIN of
      BY <1>6, <1>7, <1>9, TableFacts DEF Filled
    <3>2. 1 \in DOMAIN of[1].files
      <4> DEFINE s == of[1].files
      <4>1. s \in Seq(F) /\ s # <<>>
        BY <3>1
      <4> HIDE DEF s
      <4>2. 1 \in DOMAIN s
        BY <4>1
      <4> QED BY <4>2 DEF s
    <3>3. Holds(of, of[1].files[1])
      BY <3>1, <3>2 DEF Holds, ToSet
    <3> HIDE DEF fs
    <3> QED BY <2>2, <3>3 DEF ToSet
  <2> HIDE DEF fs, b
  <2>5. IsMerger(table, F, b, b, fs)
    BY <1>4, <1>6, <1>8, <2>2, <2>4 DEF IsMerger
  <2> QED BY <2>3, <2>5 DEF b
<1>11. CASE ~(Len(of) > 1)
  <2>1. Len(of) = 1 /\ 1 \in DOMAIN of /\ \A j \in DOMAIN of : j = 1
    BY <1>7, <1>11
  <2> DEFINE t == of[1].title
             fs == of[1].files
  <2>2. MergeNext(table, merged, b) = Put(merged, t, fs)
    BY <1>3, <1>11 DEF MergeNext
  <2>3. t \in GroupTitles /\ fs \in Seq(F) /\ fs # <<>> /\ IsInjective(fs)
    BY <1>6, <1>9, <2>1, TableFacts DEF Filled, Once, IsInjective
  <2>4. Base[t] = b
    BY <1>2, <1>6, <2>1
  <2>5. \A x : Holds(of, x) <=> x \in ToSet(fs)
    BY <2>1 DEF Holds
  <2>6. t \in MergedTitles
    BY <2>3 DEF MergedTitles
  <2> HIDE DEF fs, b, t
  <2>7. IsMerger(table, F, b, t, fs)
    BY <1>8, <2>3, <2>4, <2>5, <2>6 DEF IsMerger
  <2> QED BY <2>2, <2>7 DEF b
<1> QED BY <1>10, <1>11

LEMMA MergeSimilarIs ==
    ASSUME NEW table
    PROVE  MergeSimilarNames(table) = IF Len(table) <= 1 THEN table
                                      ELSE Merging!Fold(table, BasesOf(table))
BY DEF MergeSimilarNames, Merging!Fold, FoldLeft,
       MapThenFoldSet, Merging!Greatest, Max, MergeNext, NoRows, BasesOf, RowsOf, Selected

\* Groups of one base become one, and no file is lost or doubled.
LEMMA MergeSimilarFacts ==
    ASSUME NEW F, NEW fs, NEW table, Partition(table, fs, GroupTitles, F)
    PROVE  Partition(MergeSimilarNames(table), fs, MergedTitles, F)
<1> DEFINE bases == BasesOf(table)
           n == Len(bases)
           R == [title : GroupTitles, files : Seq(F)]
           S(k) == {x \in UNION {ToSet(table[i].files) : i \in DOMAIN table} :
                      \E i \in DOMAIN table : /\ x \in ToSet(table[i].files)
                                              /\ \E j \in 1 .. k : Base[table[i].title] = bases[j]}
<1>1. /\ table \in Tables(GroupTitles, F) /\ table \in Seq(R)
      /\ Titled(table) /\ Filled(table) /\ Once(table) /\ TitlesWhole(table)
      /\ \A x : Holds(table, x) <=> x \in ToSet(fs)
  BY DEF Partition, Tables
<1> HIDE DEF R
<1>2. CASE Len(table) <= 1
  <2>1. MergeSimilarNames(table) = table
    BY <1>2, MergeSimilarIs
  <2>2. GroupTitles \subseteq MergedTitles
    BY DEF MergedTitles
  <2>3. table \in Tables(MergedTitles, F)
    BY <1>1, <2>2, TablesGrow
  <2> QED BY <1>1, <2>1, <2>3 DEF Partition
<1>3. CASE ~(Len(table) <= 1)
  <2>1. MergeSimilarNames(table) = Merging!Fold(table, bases)
    BY <1>3, MergeSimilarIs
  <2>2. /\ bases \in Seq({Base[table[i].title] : i \in DOMAIN table})
        /\ IsInjective(bases)
        /\ \A b : b \in ToSet(bases) <=> \E i \in DOMAIN table : Base[table[i].title] = b
    BY <1>1, BasesFacts
  <2> HIDE DEF bases
  <2>3. PICK acc : /\ acc[0] = NoRows(table)
                   /\ \A k \in 1 .. Len(bases) : acc[k] = MergeNext(table, acc[k - 1], bases[k])
                   /\ Merging!Fold(table, bases) = acc[Len(bases)]
    BY <2>2, Merging!FoldUnfolds
  <2>4. DOMAIN bases = 1 .. n /\ n \in Nat
    BY <2>2
  <2>5. \A k \in 1 .. n : \E m \in DOMAIN table : bases[k] = Base[table[m].title]
    BY <2>2, <2>4 DEF ToSet
  <2>6. \A i \in DOMAIN table : \E k \in 1 .. n : bases[k] = Base[table[i].title]
    BY <2>2, <2>4 DEF ToSet
  <2> DEFINE Good(k) ==
               /\ acc[k] \in Tables(MergedTitles, F)
               /\ Titled(acc[k]) /\ Filled(acc[k]) /\ Once(acc[k])
               /\ \A x : Holds(acc[k], x) <=> x \in S(k)
               /\ \A i \in DOMAIN acc[k] : \E j \in 1 .. k : Base[acc[k][i].title] = bases[j]
               /\ \A e, d : Together(table, e, d) => Together(acc[k], e, d)
             Bad == {k \in 0 .. n : ~Good(k)}
  <2>s. \A k : \A x : x \in S(k) <=> \E i \in DOMAIN table : /\ x \in ToSet(table[i].files)
                                              /\ \E j \in 1 .. k : Base[table[i].title] = bases[j]
    OBVIOUS
  <2> HIDE DEF S
  <2>7. 0 \notin Bad
    <3>1. acc[0] \in Tables(MergedTitles, F) /\ DOMAIN acc[0] = {}
      BY <2>3 DEF Tables, NoRows
    <3>2. \A x : x \notin S(0)
      BY <2>s
    <3>3. Good(0)
      BY <3>1, <3>2 DEF Titled, Filled, Once, Holds, Together
    <3> QED BY <3>3
  <2>8. ASSUME NEW k \in 1 .. n, k - 1 \notin Bad PROVE k \notin Bad
    <3> DEFINE old == acc[k - 1]
               new == acc[k]
               b == bases[k]
    <3>1. /\ old \in Tables(MergedTitles, F)
          /\ Titled(old) /\ Filled(old) /\ Once(old)
          /\ \A x : Holds(old, x) <=> x \in S(k - 1)
          /\ \A i \in DOMAIN old : \E j \in 1 .. k - 1 : Base[old[i].title] = bases[j]
          /\ \A e, d : Together(table, e, d) => Together(old, e, d)
      BY <2>4, <2>8
    <3>2. PICK m \in DOMAIN table : b = Base[table[m].title]
      BY <2>5
    <3>3. new = MergeNext(table, old, b)
      BY <2>3, <2>4
    <3> HIDE DEF old, new, b
    <3>4. PICK t, gfs : new = Put(old, t, gfs) /\ IsMerger(table, F, b, t, gfs)
      BY <1>1, <3>2, <3>3, MergeIsPut
    <3>5. /\ t \in MergedTitles /\ Base[t] = b
          /\ gfs \in Seq(F) /\ IsInjective(gfs) /\ gfs # <<>>
          /\ \A x : x \in ToSet(gfs) <=>
               \E i \in DOMAIN table : Base[table[i].title] = b /\ x \in ToSet(table[i].files)
      BY <3>4 DEF IsMerger
    <3>6. new \in Tables(MergedTitles, F) /\ \E i : PutAt(new, old, i, t, gfs)
      BY <3>1, <3>4, <3>5, PutFacts
    <3>7. PICK at : PutAt(new, old, at, t, gfs)
      BY <3>6
    <3>8. \A j \in 1 .. k - 1 : bases[j] # b
      <4>1. \A j \in 1 .. k - 1 : j \in DOMAIN bases /\ k \in DOMAIN bases /\ j # k
        BY <2>4
      <4> QED BY <2>2, <4>1 DEF IsInjective, b
    <3>9. at \notin DOMAIN old
      BY <3>1, <3>5, <3>7, <3>8 DEF PutAt
    <3>10. Titled(new) /\ Filled(new)
      BY <3>1, <3>5, <3>7, PutKeeps
    <3>11. \A x : Holds(new, x) <=> x \in ToSet(gfs) \/ Holds(old, x)
      <4>1. \A x : Holds(new, x) <=>
               x \in ToSet(gfs) \/ \E j \in DOMAIN old : j # at /\ x \in ToSet(old[j].files)
        BY <3>7, PutKeeps
      <4> QED BY <3>9, <4>1 DEF Holds
    <3>12. \A j : j \in 1 .. k <=> j \in 1 .. k - 1 \/ j = k
      BY <2>4
    <3>13. \A x : Holds(new, x) <=> x \in S(k)
      <4> SUFFICES ASSUME NEW x PROVE Holds(new, x) <=> x \in S(k)
        OBVIOUS
      <4>1. x \in S(k) <=> \E i \in DOMAIN table : /\ x \in ToSet(table[i].files)
                               /\ \E j \in 1 .. k : Base[table[i].title] = bases[j]
        BY <2>s
      <4>2. x \in S(k - 1) <=> \E i \in DOMAIN table : /\ x \in ToSet(table[i].files)
                               /\ \E j \in 1 .. k - 1 : Base[table[i].title] = bases[j]
        BY <2>s
      <4>3. Holds(new, x) <=> x \in ToSet(gfs) \/ x \in S(k - 1)
        BY <3>1, <3>11
      <4>4. \A i \in DOMAIN table : (\E j \in 1 .. k : Base[table[i].title] = bases[j]) <=>
               Base[table[i].title] = b \/ \E j \in 1 .. k - 1 : Base[table[i].title] = bases[j]
        BY <3>12 DEF b
      <4> QED BY <3>5, <4>1, <4>2, <4>3, <4>4
    <3>14. \A i \in DOMAIN new : \E j \in 1 .. k : Base[new[i].title] = bases[j]
      <4>1. \A i \in DOMAIN new : new[i] = Row(t, gfs) \/ (i \in DOMAIN old /\ new[i] = old[i])
        BY <3>7, PutKeeps
      <4>2. Row(t, gfs).title = t
        BY DEF Row
      <4> QED BY <3>1, <3>5, <3>12, <4>1, <4>2 DEF b
    <3>15. \A e, d : Together(table, e, d) => Together(new, e, d)
      <4>1. \A e, d : Together(table, e, d) => (e \in ToSet(gfs) <=> d \in ToSet(gfs))
        BY <3>5 DEF Together
      <4>2. \A e, d : Together(old, e, d) /\ (e \in ToSet(gfs) <=> d \in ToSet(gfs)) => Together(new, e, d)
        BY <3>7, PutKeeps
      <4> QED BY <3>1, <4>1, <4>2
    <3>16. Once(new)
      <4>1. \A x \in ToSet(gfs) : ~Holds(old, x)
        <5> SUFFICES ASSUME NEW x \in ToSet(gfs), Holds(old, x) PROVE FALSE
          OBVIOUS
        <5>1. PICK i \in DOMAIN table : Base[table[i].title] = b /\ x \in ToSet(table[i].files)
          BY <3>5
        <5>2. PICK l \in DOMAIN table : /\ x \in ToSet(table[l].files)
                                        /\ \E j \in 1 .. k - 1 : Base[table[l].title] = bases[j]
          BY <2>s, <3>1
        <5>3. PICK p \in DOMAIN table[i].files : x = table[i].files[p]
          BY <5>1 DEF ToSet
        <5>4. PICK q \in DOMAIN table[l].files : x = table[l].files[q]
          BY <5>2 DEF ToSet
        <5>5. table[i].files[p] = table[l].files[q]
          BY <5>3, <5>4
        <5>6. i = l
          BY <1>1, <5>5 DEF Once
        <5> QED BY <3>8, <5>1, <5>2, <5>6
      <4>2. \A j \in DOMAIN old : j # at => \A x \in ToSet(gfs) : x \notin ToSet(old[j].files)
        BY <4>1 DEF Holds
      <4> QED BY <3>1, <3>5, <3>7, <4>2, PutOnce
    <3>17. Good(k)
      BY <3>6, <3>10, <3>13, <3>14, <3>15, <3>16 DEF new
    <3> QED BY <3>17
  <2> HIDE DEF Bad, Good
  <2>9. \A k \in 0 .. n : k \notin Bad
    <3>1. Bad \in SUBSET (0 .. n)
      BY DEF Bad
    <3> HIDE DEF n
    <3> QED BY <2>4, <2>7, <2>8, <3>1, Keeping!NoneFails
  <2>10. Good(n)
    BY <2>4, <2>9 DEF Bad
  <2> DEFINE q == acc[n]
  <2>11. MergeSimilarNames(table) = q
    BY <2>1, <2>3
  <2>12. /\ q \in Tables(MergedTitles, F)
         /\ Titled(q) /\ Filled(q) /\ Once(q)
         /\ \A x : Holds(q, x) <=> x \in S(n)
         /\ \A e, d : Together(table, e, d) => Together(q, e, d)
    BY <2>10 DEF Good
  <2> HIDE DEF q
  <2>13. \A x : x \in S(n) <=> Holds(table, x)
    BY <2>s, <2>6 DEF Holds
  <2>14. TitlesWhole(q)
    BY <1>1, <2>12, <2>13 DEF TitlesWhole
  <2>15. \A x : Holds(q, x) <=> x \in ToSet(fs)
    BY <1>1, <2>12, <2>13
  <2> QED BY <2>11, <2>12, <2>14, <2>15 DEF Partition
<1> QED BY <1>2, <1>3

\* group_files: each file in one group, those of one title in the same.
LEMMA GroupFilesFacts ==
    ASSUME NEW F, \A f \in F : f.title \in Titles, NEW fs \in Seq(F), IsInjective(fs),
           NEW w \in [Matchers -> Nat], NEW failed, NEW raises
    PROVE  /\ "hash" \in failed => Partition(GroupFiles(fs, w, failed, raises), <<>>, MergedTitles, F)
           /\ "hash" \notin failed => Partition(GroupFiles(fs, w, failed, raises), fs, MergedTitles, F)
<1> DEFINE e == Engine(fs, w, failed, raises)
<1>1. ASSUME NEW list, Partition(e, list, GroupTitles, F)
      PROVE  Partition(GroupFiles(fs, w, failed, raises), list, MergedTitles, F)
  <2> HIDE DEF e
  <2>1. ByTitle(e) = e
    BY <1>1, ByTitleFacts DEF Partition
  <2>2. GroupFiles(fs, w, failed, raises) = MergeSimilarNames(e)
    BY <2>1 DEF GroupFiles, e
  <2> QED BY <1>1, <2>2, MergeSimilarFacts
<1> QED BY <1>1, EngineFacts

-----------------------------------------------------------------------------
(* The list of files and what its names yield.                               *)

\* Two sequences that have the same elements, each once, are as long.
LEMMA LenOfInjective ==
    ASSUME NEW X, NEW s \in Seq(X), IsInjective(s)
    PROVE  IsFiniteSet(ToSet(s)) /\ Cardinality(ToSet(s)) = Len(s)
<1>1. s \in Bijection(1 .. Len(s), ToSet(s))
  <2>1. DOMAIN s = 1 .. Len(s) /\ s \in [1 .. Len(s) -> ToSet(s)]
    BY DEF ToSet
  <2>2. \A x \in ToSet(s) : \E i \in 1 .. Len(s) : s[i] = x
    BY <2>1 DEF ToSet
  <2> QED BY <2>1, <2>2 DEF IsInjective, Bijection, Injection, Surjection
<1>2. ExistsBijection(1 .. Len(s), ToSet(s))
  BY <1>1 DEF ExistsBijection
<1>3. Len(s) \in Nat
  OBVIOUS
<1> QED BY <1>2, <1>3, FS_NatBijection, FS_CountingElements

ListOK(list) ==
    /\ list \in Seq(Entries)
    /\ \A i, j \in DOMAIN list : list[i].path = list[j].path => i = j

Scans == [path : ToSet(Paths), title : Titles]

LEMMA ScannedFacts ==
    ASSUME NEW list, ListOK(list), parsed \in Namings
    PROVE  /\ Scanned(list) \in Seq(Scans) /\ IsInjective(Scanned(list))
           /\ Len(Scanned(list)) = Len(list) /\ DOMAIN Scanned(list) = DOMAIN list
           /\ \A i, j \in DOMAIN list : Scanned(list)[i].path = Scanned(list)[j].path => i = j
           /\ \A i \in DOMAIN list :
                Scanned(list)[i] = [path |-> list[i].path, title |-> ScannedTitle(list[i])]
<1> DEFINE sc == Scanned(list)
<1>1. DOMAIN list = 1 .. Len(list) /\ Len(list) \in Nat /\ \A i \in DOMAIN list : list[i] \in Entries
  BY DEF ListOK
<1>2. sc = [i \in DOMAIN list |-> [path |-> list[i].path, title |-> ScannedTitle(list[i])]]
  BY DEF Scanned
<1>3. ASSUME NEW e \in Entries
      PROVE  e.path \in ToSet(Paths) /\ ScannedTitle(e) \in Titles
  <2>1. e.path \in ToSet(Paths) /\ e.tmdb \in Ids \cup {NoId}
    BY DEF Entries
  <2>2. parsed[e.path] \in Titles
    BY <2>1, BuildingAssumption
  <2>3. e.tmdb # NoId => MatchTitle[e.tmdb] \in Titles
    BY <2>1, BuildingAssumption
  <2> QED BY <2>1, <2>2, <2>3 DEF ScannedTitle, Matched
<1> HIDE DEF sc
<1>4. \A i \in DOMAIN list : [path |-> list[i].path, title |-> ScannedTitle(list[i])] \in Scans
  BY <1>1, <1>3 DEF Scans
<1>5. sc \in Seq(Scans) /\ DOMAIN sc = DOMAIN list /\ Len(sc) = Len(list)
  BY <1>1, <1>2, <1>4
<1>6. \A i, j \in DOMAIN list : sc[i].path = sc[j].path => i = j
  BY <1>2 DEF ListOK
<1>7. IsInjective(sc)
  BY <1>5, <1>6 DEF IsInjective
<1> QED BY <1>2, <1>5, <1>6, <1>7 DEF sc

LEMMA GrouperKeepsFacts ==
    ASSUME ListOK(files), parsed \in Namings, weight \in Weights
    PROVE  GrouperKeepsFiles
<1> DEFINE sc == Scanned(files)
<1>1. sc \in Seq(Scans) /\ IsInjective(sc)
  BY ScannedFacts
<1>2. weight \in [Matchers -> Nat] /\ \A f \in Scans : f.title \in Titles
  BY TitlesAssumption DEF Scans
<1> HIDE DEF sc
<1>3. ASSUME NEW failed, NEW raises, "hash" \notin failed
      PROVE  IsPermutation(FilesIn(GroupFiles(sc, weight, failed, raises)), sc)
  <2> DEFINE gs == GroupFiles(sc, weight, failed, raises)
             flat == FilesIn(gs)
             R == [title : MergedTitles, files : Seq(Scans)]
  <2>1. Partition(gs, sc, MergedTitles, Scans)
    BY <1>1, <1>2, <1>3, GroupFilesFacts
  <2> HIDE DEF gs
  <2>2. gs \in Seq(R) /\ Once(gs) /\ \A x : Holds(gs, x) <=> x \in ToSet(sc)
    BY <2>1 DEF Partition, Tables
  <2>3. \A r \in R : r.files \in Seq(Scans)
    OBVIOUS
  <2> HIDE DEF R
  <2>4. /\ flat \in Seq(Scans)
        /\ \A x : x \in ToSet(flat) <=> Holds(gs, x)
        /\ IsInjective(flat) <=> Once(gs)
    BY <2>2, <2>3, FilesInFacts
  <2> HIDE DEF flat
  <2>5. ToSet(flat) = ToSet(sc) /\ IsInjective(flat)
    BY <2>2, <2>4
  <2>6. Len(flat) = Len(sc)
    <3>1. Cardinality(ToSet(flat)) = Len(flat)
      BY <2>4, <2>5, LenOfInjective
    <3>2. Cardinality(ToSet(sc)) = Len(sc)
      BY <1>1, LenOfInjective
    <3> QED BY <2>5, <3>1, <3>2
  <2> QED BY <2>5, <2>6 DEF IsPermutation, flat, gs
<1> QED BY <1>3 DEF GrouperKeepsFiles, sc

LEMMA ConcatAt ==
    ASSUME NEW X, NEW s \in Seq(X), NEW t \in Seq(X)
    PROVE  /\ s \o t \in Seq(X) /\ Len(s \o t) = Len(s) + Len(t)
           /\ DOMAIN (s \o t) = 1 .. (Len(s) + Len(t))
           /\ \A k \in 1 .. Len(s) : (s \o t)[k] = s[k]
           /\ \A k \in 1 .. Len(s) + Len(t) : k > Len(s) => (s \o t)[k] = t[k - Len(s)]
OBVIOUS

\* The moves of one group: of the best file, then of the others.
BestOf(fs) == CHOOSE f \in ToSet(fs) : \A g \in ToSet(fs) : Resolution[g.path] <= Resolution[f.path]
MovesTo(S, dir, t) == [k \in DOMAIN S |-> [from |-> S[k].path, dir |-> dir, title |-> t]]
RestOf(fs) == Kept(fs, {f \in ToSet(fs) : f # BestOf(fs)})
MovesOf(fs, t) == MovesTo(<<BestOf(fs)>>, "high", t) \o MovesTo(RestOf(fs), "low", t)

MoveRecs(T) == [from : ToSet(Paths), dir : {"high", "low"}, title : T]

\* ms moves what fs holds, in the order of c.
MovesLike(ms, fs, c, T) ==
    /\ ToSet(c) = ToSet(fs) /\ IsInjective(c)
    /\ ms \in Seq(MoveRecs(T)) /\ DOMAIN ms = DOMAIN c
    /\ \A k \in DOMAIN c : ms[k].from = c[k].path

MovesAll(ms, fs, T) == \E c \in Seq(Scans) : MovesLike(ms, fs, c, T)

LEMMA MovesOfFacts ==
    ASSUME NEW T, NEW t \in T, NEW fs \in Seq(Scans), IsInjective(fs), fs # <<>>
    PROVE  MovesAll(MovesOf(fs, t), fs, T)
<1> DEFINE b == BestOf(fs)
           K == {f \in ToSet(fs) : f # b}
           rest == Kept(fs, K)
           c == <<b>> \o rest
           n == Len(fs)
           v == [k \in 1 .. n |-> Resolution[fs[k].path]]
<1>1. DOMAIN fs = 1 .. n /\ n \in Nat /\ n # 0 /\ \A k \in DOMAIN fs : fs[k] \in Scans
  OBVIOUS
<1>2. v \in [1 .. n -> Nat]
  BY <1>1, BuildingAssumption DEF Scans
<1>3. PICK i : IsFirstGreatest(v, n, i)
  BY <1>1, <1>2, FirstGreatest
<1>4. fs[i] \in ToSet(fs) /\ \A g \in ToSet(fs) : Resolution[g.path] <= Resolution[fs[i].path]
  BY <1>1, <1>3 DEF IsFirstGreatest, ToSet
<1>5. b \in ToSet(fs)
  BY <1>4 DEF BestOf
<1>6. b \in Scans
  BY <1>1, <1>5 DEF ToSet
<1>7. RestOf(fs) = rest
  BY DEF RestOf
<1> HIDE DEF b
<1>8. \A x : x \in K <=> x \in ToSet(fs) /\ x # b
  OBVIOUS
<1> HIDE DEF K
<1>9. /\ rest \in Seq(Scans) /\ IsInjective(rest)
      /\ \A x : x \in ToSet(rest) <=> x \in ToSet(fs) /\ x \in K
  BY KeptSet
<1> HIDE DEF rest
<1>10. <<b>> \in Seq(Scans) /\ IsInjective(<<b>>) /\ ToSet(<<b>>) = {b}
  BY <1>6 DEF IsInjective, ToSet
<1>11. c \in Seq(Scans) /\ ToSet(c) = ToSet(<<b>>) \cup ToSet(rest)
  <2>1. <<b>> \in Seq(Scans) /\ rest \in Seq(Scans)
    BY <1>9, <1>10
  <2>2. c \in Seq(Scans)
    BY <2>1, ConcatFacts
  <2> DEFINE one == <<b>>
  <2>3. one \in Seq(Scans)
    BY <2>1
  <2> HIDE DEF one
  <2>4. ToSet(one \o rest) = ToSet(one) \cup ToSet(rest)
    BY <2>1, <2>3, ConcatFacts
  <2> QED BY <2>2, <2>4 DEF one
<1>12. ToSet(c) = ToSet(fs)
  BY <1>5, <1>8, <1>9, <1>10, <1>11
<1>13. IsInjective(c)
  <2>1. \A x \in ToSet(rest) : x \notin ToSet(<<b>>)
    BY <1>8, <1>9, <1>10
  <2> QED BY <1>9, <1>10, <2>1, ConcatFacts
<1> DEFINE m1 == MovesTo(<<b>>, "high", t)
           m2 == MovesTo(rest, "low", t)
           R == MoveRecs(T)
<1>14. MovesOf(fs, t) = m1 \o m2
  BY <1>7 DEF MovesOf, b
<1>15. ASSUME NEW s \in Seq(Scans), NEW d \in {"high", "low"}
       PROVE  /\ MovesTo(s, d, t) \in Seq(R) /\ Len(MovesTo(s, d, t)) = Len(s)
              /\ \A k \in DOMAIN s : MovesTo(s, d, t)[k].from = s[k].path
  <2>1. DOMAIN s = 1 .. Len(s) /\ Len(s) \in Nat /\ \A k \in DOMAIN s : s[k] \in Scans
    OBVIOUS
  <2>2. \A k \in DOMAIN s : [from |-> s[k].path, dir |-> d, title |-> t] \in R
    BY <2>1 DEF MoveRecs, Scans
  <2>3. MovesTo(s, d, t) = [k \in DOMAIN s |-> [from |-> s[k].path, dir |-> d, title |-> t]]
    BY DEF MovesTo
  <2> HIDE DEF R
  <2> QED BY <2>1, <2>2, <2>3
<1> HIDE DEF R, m1, m2
<1>16. /\ m1 \in Seq(R) /\ Len(m1) = 1 /\ m1[1].from = b.path
       /\ m2 \in Seq(R) /\ Len(m2) = Len(rest) /\ \A k \in DOMAIN rest : m2[k].from = rest[k].path
  <2>1. Len(<<b>>) = 1 /\ 1 \in DOMAIN <<b>> /\ <<b>>[1] = b
    OBVIOUS
  <2> QED BY <1>9, <1>10, <1>15, <2>1 DEF m1, m2
<1>a. Len(<<b>>) = 1 /\ <<b>>[1] = b
  OBVIOUS
<1>b. /\ DOMAIN c = 1 .. (1 + Len(rest)) /\ c[1] = b
      /\ \A k \in 1 .. 1 + Len(rest) : k > 1 => c[k] = rest[k - 1]
  <2>1. /\ DOMAIN c = 1 .. (Len(<<b>>) + Len(rest))
        /\ \A k \in 1 .. Len(<<b>>) : c[k] = <<b>>[k]
        /\ \A k \in 1 .. Len(<<b>>) + Len(rest) : k > Len(<<b>>) => c[k] = rest[k - Len(<<b>>)]
    BY <1>9, <1>10, ConcatAt
  <2> HIDE DEF c
  <2> QED BY <1>a, <2>1
<1>c. /\ m1 \o m2 \in Seq(R) /\ DOMAIN (m1 \o m2) = 1 .. (1 + Len(rest)) /\ (m1 \o m2)[1] = m1[1]
      /\ \A k \in 1 .. 1 + Len(rest) : k > 1 => (m1 \o m2)[k] = m2[k - 1]
  <2>1. /\ m1 \o m2 \in Seq(R) /\ DOMAIN (m1 \o m2) = 1 .. (Len(m1) + Len(m2))
        /\ \A k \in 1 .. Len(m1) : (m1 \o m2)[k] = m1[k]
        /\ \A k \in 1 .. Len(m1) + Len(m2) : k > Len(m1) => (m1 \o m2)[k] = m2[k - Len(m1)]
    <3>1. m1 \in Seq(R) /\ m2 \in Seq(R)
      BY <1>16
    <3>2. m1 \o m2 \in Seq(R) /\ DOMAIN (m1 \o m2) = 1 .. (Len(m1) + Len(m2))
      BY <3>1, ConcatAt
    <3>3. \A k \in 1 .. Len(m1) : (m1 \o m2)[k] = m1[k]
      BY <3>1, ConcatAt
    <3>4. \A k \in 1 .. Len(m1) + Len(m2) : k > Len(m1) => (m1 \o m2)[k] = m2[k - Len(m1)]
      BY <3>1, ConcatAt
    <3> QED BY <3>2, <3>3, <3>4
  <2> QED BY <1>16, <2>1
<1>17. m1 \o m2 \in Seq(R) /\ DOMAIN (m1 \o m2) = DOMAIN c
  BY <1>b, <1>c
<1>18. \A k \in DOMAIN c : (m1 \o m2)[k].from = c[k].path
  <2> SUFFICES ASSUME NEW k \in DOMAIN c PROVE (m1 \o m2)[k].from = c[k].path
    OBVIOUS
  <2> HIDE DEF c
  <2>1. k \in 1 .. 1 + Len(rest) /\ Len(rest) \in Nat /\ DOMAIN rest = 1 .. Len(rest)
    BY <1>b, <1>9
  <2>2. CASE k = 1
    BY <1>16, <1>b, <1>c, <2>2
  <2>3. CASE k # 1
    <3>1. k - 1 \in DOMAIN rest /\ k > 1
      BY <2>1, <2>3
    <3> QED BY <1>16, <1>b, <1>c, <2>1, <3>1
  <2> QED BY <2>2, <2>3
<1> HIDE DEF c
<1>19. MovesLike(MovesOf(fs, t), fs, c, T)
  BY <1>12, <1>13, <1>14, <1>17, <1>18 DEF R, MovesLike
<1> QED BY <1>11, <1>19 DEF MovesAll

LEMMA PlanIs ==
    ASSUME NEW gs
    PROVE  PlanOf(gs, Resolution) =
             FlattenSeq([i \in DOMAIN gs |-> MovesOf(gs[i].files, gs[i].title)])
BY DEF PlanOf, MovesOf, MovesTo, RestOf, BestOf, Selected

\* The froms of a plan are the paths of the files, each once.
LEMMA PlanFacts ==
    ASSUME NEW T, NEW sc \in Seq(Scans), NEW gs, Partition(gs, sc, T, Scans),
           \A i, j \in DOMAIN sc : sc[i].path = sc[j].path => i = j
    PROVE  LET moves == PlanOf(gs, Resolution)
               froms == [i \in DOMAIN moves |-> moves[i].from]
           IN  /\ froms \in Seq(ToSet(Paths)) /\ IsInjective(froms)
               /\ ToSet(froms) = {sc[i].path : i \in DOMAIN sc}
<1> DEFINE pp == [i \in DOMAIN gs |-> MovesOf(gs[i].files, gs[i].title)]
           moves == PlanOf(gs, Resolution)
           X == MoveRecs(T)
           P(i, c) == MovesLike(pp[i], gs[i].files, c, T)
           cc == [i \in DOMAIN gs |-> CHOOSE c \in Seq(Scans) : P(i, c)]
<1>1. moves = FlattenSeq(pp)
  BY PlanIs
<1>2. /\ gs \in Tables(T, Scans) /\ Once(gs) /\ Filled(gs)
      /\ \A x : Holds(gs, x) <=> x \in ToSet(sc)
  BY DEF Partition
<1>3. DOMAIN gs = 1 .. Len(gs) /\ Len(gs) \in Nat
  BY <1>2, TableFacts
<1>4. ASSUME NEW i \in DOMAIN gs
      PROVE  /\ pp[i] \in Seq(X) /\ cc[i] \in Seq(Scans)
             /\ ToSet(cc[i]) = ToSet(gs[i].files) /\ IsInjective(cc[i])
             /\ DOMAIN pp[i] = DOMAIN cc[i]
             /\ \A k \in DOMAIN cc[i] : pp[i][k].from = cc[i][k].path
  <2> DEFINE fs == gs[i].files
  <2>1. gs[i].title \in T /\ fs \in Seq(Scans)
    BY <1>2, TableFacts
  <2>2. fs # <<>> /\ IsInjective(fs)
    BY <1>2 DEF Filled, Once, IsInjective
  <2>3. pp[i] = MovesOf(fs, gs[i].title)
    OBVIOUS
  <2> HIDE DEF fs, pp
  <2>4. MovesAll(pp[i], fs, T)
    BY <2>1, <2>2, <2>3, MovesOfFacts
  <2>5. \E c \in Seq(Scans) : P(i, c)
    BY <2>4 DEF fs, MovesAll
  <2>6. cc[i] = CHOOSE c \in Seq(Scans) : P(i, c)
    OBVIOUS
  <2> HIDE DEF P, cc
  <2>7. cc[i] \in Seq(Scans) /\ P(i, cc[i])
    BY <2>5, <2>6
  <2> QED BY <2>7 DEF P, MovesLike, X
<1>5. DOMAIN pp = DOMAIN gs
  OBVIOUS
<1> HIDE DEF moves, pp, cc, X
<1>6. pp \in Seq(Seq(X)) /\ Len(pp) = Len(gs)
  <2>1. pp = [i \in 1 .. Len(gs) |-> pp[i]]
    BY <1>3, <1>5 DEF pp
  <2>2. \A i \in 1 .. Len(gs) : pp[i] \in Seq(X)
    BY <1>3, <1>4
  <2> QED BY <1>3, <2>1, <2>2
<1>7. moves \in Seq(X) /\ \E row, col : Joining!Spreads(moves, pp, Len(pp), row, col)
  BY <1>1, <1>6, FlattenFacts
<1>8. PICK row, col : Joining!Spreads(moves, pp, Len(pp), row, col)
  BY <1>7
<1>9. DOMAIN moves = 1 .. Len(moves) /\ Len(moves) \in Nat
  BY <1>7
<1>10. ASSUME NEW m \in DOMAIN moves
       PROVE  /\ row[m] \in DOMAIN gs /\ row[m] \in Nat /\ col[m] \in Nat /\ col[m] \in DOMAIN cc[row[m]]
              /\ moves[m].from = cc[row[m]][col[m]].path
              /\ cc[row[m]][col[m]] \in ToSet(gs[row[m]].files)
  <2>1. m \in 1 .. Len(moves)
    BY <1>9
  <2>2. row[m] \in 1 .. Len(pp) /\ col[m] \in Nat /\ col[m] \in 1 .. Len(pp[row[m]])
        /\ moves[m] = pp[row[m]][col[m]]
    BY <1>8, <2>1 DEF Joining!Spreads
  <2>3. row[m] \in DOMAIN gs /\ row[m] \in Nat
    BY <1>3, <1>6, <2>2
  <2>4. DOMAIN pp[row[m]] = 1 .. Len(pp[row[m]])
    BY <1>4, <2>3
  <2>5. col[m] \in DOMAIN cc[row[m]] /\ moves[m].from = cc[row[m]][col[m]].path
    BY <1>4, <2>2, <2>3, <2>4
  <2>6. cc[row[m]][col[m]] \in ToSet(cc[row[m]])
    BY <2>5 DEF ToSet
  <2> QED BY <1>4, <2>2, <2>3, <2>5, <2>6
<1>11. \A l, m \in DOMAIN moves : row[l] = row[m] /\ col[l] = col[m] => l = m
  <2>1. Joining!Placed(moves, pp, row, col)
    BY <1>6, <1>7, <1>8, Joining!PlacesSpread
  <2> QED BY <2>1 DEF Joining!Placed
<1>12. \A i \in DOMAIN gs : \A x \in ToSet(gs[i].files) : x \in ToSet(sc)
  BY <1>2 DEF Holds
<1>13. \A x, y \in ToSet(sc) : x.path = y.path => x = y
  BY DEF ToSet
<1>14. \A i, j \in DOMAIN gs : \A x : x \in ToSet(gs[i].files) /\ x \in ToSet(gs[j].files) => i = j
  BY <1>2 DEF Once, ToSet
<1> DEFINE froms == [i \in DOMAIN moves |-> moves[i].from]
<1>15. \A m \in DOMAIN moves : froms[m] = moves[m].from
  OBVIOUS
<1>16. DOMAIN froms = DOMAIN moves
  OBVIOUS
<1>17. froms \in Seq(ToSet(Paths))
  <2>1. \A m \in 1 .. Len(moves) : moves[m].from \in ToSet(Paths)
    <3> SUFFICES ASSUME NEW m \in 1 .. Len(moves) PROVE moves[m].from \in ToSet(Paths)
      OBVIOUS
    <3>1. moves[m] \in MoveRecs(T)
      BY <1>7 DEF X
    <3> QED BY <3>1 DEF MoveRecs
  <2> QED BY <1>9, <2>1
<1> HIDE DEF froms
<1>18. IsInjective(froms)
  <2> SUFFICES ASSUME NEW l \in DOMAIN moves, NEW m \in DOMAIN moves, froms[l] = froms[m]
               PROVE  l = m
    BY <1>16 DEF IsInjective
  <2> DEFINE x == cc[row[l]][col[l]]
             y == cc[row[m]][col[m]]
  <2>1. x.path = y.path /\ x \in ToSet(gs[row[l]].files) /\ y \in ToSet(gs[row[m]].files)
    BY <1>10, <1>15
  <2>2. x = y
    BY <1>10, <1>12, <1>13, <2>1
  <2>3. row[l] = row[m]
    BY <1>10, <1>14, <2>1, <2>2
  <2>4. col[l] = col[m]
    BY <1>4, <1>10, <2>2, <2>3 DEF IsInjective
  <2> QED BY <1>11, <2>3, <2>4
<1>19. ToSet(froms) = {sc[i].path : i \in DOMAIN sc}
  <2>1. ASSUME NEW m \in DOMAIN moves PROVE froms[m] \in {sc[i].path : i \in DOMAIN sc}
    <3>1. cc[row[m]][col[m]] \in ToSet(sc)
      BY <1>10, <1>12
    <3>2. PICK i \in DOMAIN sc : sc[i] = cc[row[m]][col[m]]
      BY <3>1 DEF ToSet
    <3> QED BY <1>10, <1>15, <3>2
  <2>2. ASSUME NEW j \in DOMAIN sc PROVE \E m \in DOMAIN moves : froms[m] = sc[j].path
    <3>1. Holds(gs, sc[j])
      BY <1>2 DEF ToSet
    <3>2. PICK i \in DOMAIN gs : sc[j] \in ToSet(gs[i].files)
      BY <3>1 DEF Holds
    <3>3. sc[j] \in ToSet(cc[i])
      BY <1>4, <3>2
    <3>4. PICK k \in DOMAIN cc[i] : cc[i][k] = sc[j]
      BY <3>3 DEF ToSet
    <3>5. i \in 1 .. Len(pp) /\ k \in 1 .. Len(pp[i])
      <4>1. DOMAIN pp[i] = 1 .. Len(pp[i]) /\ DOMAIN pp[i] = DOMAIN cc[i]
        BY <1>4
      <4> QED BY <1>3, <1>6, <4>1
    <3>6. PICK m \in 1 .. Len(moves) : row[m] = i /\ col[m] = k
      BY <1>8, <3>5 DEF Joining!Spreads
    <3>7. m \in DOMAIN moves
      BY <1>9
    <3> QED BY <1>10, <1>15, <3>4, <3>6, <3>7
  <2> QED BY <1>16, <2>1, <2>2 DEF ToSet
<1> QED BY <1>17, <1>18, <1>19 DEF froms, moves

LEMMA PlanMovesFacts ==
    ASSUME ListOK(files), parsed \in Namings, weight \in Weights
    PROVE  PlanMovesEachFile
<1> DEFINE sc == Scanned(files)
           gs == GroupFiles(sc, weight, {}, {})
           moves == PlanOf(gs, Resolution)
           froms == [i \in DOMAIN moves |-> moves[i].from]
           paths == [i \in DOMAIN files |-> files[i].path]
<1>1. sc \in Seq(Scans) /\ IsInjective(sc)
  BY ScannedFacts
<1>2. weight \in [Matchers -> Nat] /\ \A f \in Scans : f.title \in Titles
  BY TitlesAssumption DEF Scans
<1>3. /\ DOMAIN sc = DOMAIN files
      /\ \A i, j \in DOMAIN sc : sc[i].path = sc[j].path => i = j
      /\ \A i \in DOMAIN files : sc[i].path = files[i].path
  <2>1. DOMAIN sc = DOMAIN files
    BY ScannedFacts
  <2>2. \A i, j \in DOMAIN files : sc[i].path = sc[j].path => i = j
    BY ScannedFacts
  <2>3. \A i \in DOMAIN files : sc[i] = [path |-> files[i].path, title |-> ScannedTitle(files[i])]
    BY ScannedFacts
  <2> HIDE DEF sc
  <2> QED BY <2>1, <2>2, <2>3
<1> HIDE DEF sc
<1>4. Partition(gs, sc, MergedTitles, Scans)
  <2>1. "hash" \notin {}
    OBVIOUS
  <2> QED BY <1>1, <1>2, <2>1, GroupFilesFacts
<1> HIDE DEF gs
<1>5. /\ froms \in Seq(ToSet(Paths)) /\ IsInjective(froms)
      /\ ToSet(froms) = {sc[i].path : i \in DOMAIN sc}
  BY <1>1, <1>3, <1>4, PlanFacts
<1>6. DOMAIN files = 1 .. Len(files) /\ Len(files) \in Nat /\ \A i \in DOMAIN files : files[i] \in Entries
  BY DEF ListOK
<1>7. \A i \in DOMAIN files : files[i].path \in ToSet(Paths)
  BY <1>6 DEF Entries
<1>8. paths \in Seq(ToSet(Paths)) /\ DOMAIN paths = DOMAIN files /\ \A i \in DOMAIN files : paths[i] = files[i].path
  BY <1>6, <1>7
<1> HIDE DEF paths, froms
<1>9. IsInjective(paths)
  BY <1>8 DEF ListOK, IsInjective
<1>10. ToSet(paths) = {sc[i].path : i \in DOMAIN sc}
  BY <1>3, <1>8 DEF ToSet
<1>11. Len(froms) = Len(paths)
  <2>1. Cardinality(ToSet(froms)) = Len(froms)
    BY <1>5, LenOfInjective
  <2>2. Cardinality(ToSet(paths)) = Len(paths)
    BY <1>8, <1>9, LenOfInjective
  <2> QED BY <1>5, <1>10, <2>1, <2>2
<1> QED BY <1>5, <1>10, <1>11 DEF PlanMovesEachFile, IsPermutation, froms, paths, gs, sc

-----------------------------------------------------------------------------
(* The id that leads a list.                                                 *)
\* How many of a list are matched to an id, and which id leads: it has the most
\* and, of those that have as many, comes first.
OfId(fs, x) == {i \in DOMAIN fs : fs[i].tmdb = x}
Cnt(fs, x) == Cardinality(OfId(fs, x))
Before(fs, x, y) == \E i \in DOMAIN fs : fs[i].tmdb = x /\ \A j \in 1 .. i : fs[j].tmdb # y
LeadsOver(fs, x, y) == Cnt(fs, y) < Cnt(fs, x) \/ (Cnt(fs, y) = Cnt(fs, x) /\ Before(fs, x, y))
Leads(fs, x) ==
    /\ Cnt(fs, x) > 0
    /\ \A y \in Ids : y # x => LeadsOver(fs, x, y)

LEMMA CntFacts ==
    ASSUME NEW E, NEW fs \in Seq(E), NEW x
    PROVE  /\ IsFiniteSet(OfId(fs, x)) /\ Cnt(fs, x) \in Nat
           /\ Cnt(fs, x) > 0 <=> \E i \in DOMAIN fs : fs[i].tmdb = x
<1>1. DOMAIN fs = 1 .. Len(fs) /\ Len(fs) \in Nat
  OBVIOUS
<1>2. IsFiniteSet(1 .. Len(fs)) /\ OfId(fs, x) \in SUBSET (1 .. Len(fs))
  BY <1>1, FS_Interval DEF OfId
<1>3. IsFiniteSet(OfId(fs, x))
  BY <1>2, FS_Subset
<1>4. Cnt(fs, x) \in Nat
  BY <1>3, FS_CardinalityType DEF Cnt
<1>5. Cnt(fs, x) = 0 <=> OfId(fs, x) = {}
  BY <1>3, FS_EmptySet DEF Cnt
<1> QED BY <1>3, <1>4, <1>5 DEF OfId

LEMMA CntConcat ==
    ASSUME NEW E, NEW s \in Seq(E), NEW t \in Seq(E), NEW x
    PROVE  Cnt(s \o t, x) = Cnt(s, x) + Cnt(t, x)
<1> DEFINE n == Len(s)
           A == OfId(s, x)
           B == OfId(t, x)
           C == {i \in DOMAIN (s \o t) : i > n /\ (s \o t)[i].tmdb = x}
           f == [i \in B |-> i + n]
<1>1. /\ DOMAIN s = 1 .. n /\ n \in Nat /\ DOMAIN t = 1 .. Len(t) /\ Len(t) \in Nat
      /\ DOMAIN (s \o t) = 1 .. (n + Len(t))
  OBVIOUS
<1>2. \A i \in 1 .. n : (s \o t)[i] = s[i]
  BY ConcatAt
<1>3. \A i \in 1 .. n + Len(t) : i > n => (s \o t)[i] = t[i - n]
  BY ConcatAt
<1>4. OfId(s \o t, x) = A \cup C
  BY <1>1, <1>2 DEF OfId
<1>5. A \cap C = {}
  BY <1>1 DEF OfId
<1>6. \A i : i \in B <=> i \in 1 .. Len(t) /\ t[i].tmdb = x
  BY <1>1 DEF OfId
<1>7. \A i : i \in C <=> i \in 1 .. n + Len(t) /\ i > n /\ t[i - n].tmdb = x
  BY <1>1, <1>3
<1> HIDE DEF A, B, C, n
<1>8. f \in Bijection(B, C)
  <2>1. f \in [B -> C]
    <3>1. \A i \in B : i + n \in C
      <4> SUFFICES ASSUME NEW i \in B PROVE i + n \in C
        OBVIOUS
      <4>1. i \in 1 .. Len(t) /\ t[i].tmdb = x /\ (i + n) - n = i
        BY <1>1, <1>6
      <4> QED BY <1>1, <1>7, <4>1
    <3> QED BY <3>1
  <2>2. \A i, j \in B : f[i] = f[j] => i = j
    BY <1>1, <1>6
  <2>3. \A k \in C : \E i \in B : f[i] = k
    <3> SUFFICES ASSUME NEW k \in C PROVE \E i \in B : f[i] = k
      OBVIOUS
    <3>1. k - n \in B /\ (k - n) + n = k
      BY <1>1, <1>6, <1>7
    <3> QED BY <3>1
  <2> HIDE DEF f
  <2> QED BY <2>1, <2>2, <2>3 DEF Bijection, Injection, Surjection, IsInjective
<1>9. IsFiniteSet(A) /\ IsFiniteSet(B) /\ Cardinality(A) \in Nat /\ Cardinality(B) \in Nat
  BY CntFacts DEF A, B, Cnt
<1>10. IsFiniteSet(C) /\ Cardinality(C) = Cardinality(B)
  <2>1. ExistsBijection(B, C)
    BY <1>8 DEF ExistsBijection
  <2> QED BY <1>9, <2>1, FS_Bijection
<1>11. Cardinality(A \cup C) = Cardinality(A) + Cardinality(C) - Cardinality(A \cap C)
  BY <1>9, <1>10, FS_Union
<1>12. Cardinality({}) = 0
  BY FS_EmptySet
<1>13. Cardinality(A \cup C) = Cardinality(A) + Cardinality(B)
  <2>1. Cardinality(A \cap C) = 0 /\ Cardinality(C) = Cardinality(B)
    BY <1>5, <1>10, <1>12
  <2> DEFINE a == Cardinality(A)
             b == Cardinality(B)
             ac == Cardinality(A \cup C)
  <2>2. a \in Nat /\ b \in Nat /\ ac = a + b - 0
    BY <1>9, <1>11, <2>1
  <2> HIDE DEF a, b, ac
  <2>3. ac = a + b
    BY <2>2
  <2> QED BY <2>3 DEF a, b, ac
<1> QED BY <1>4, <1>13 DEF Cnt, A, B

\* What leads two lists leads both together.
LEMMA LeadsConcat ==
    ASSUME NEW E, NEW s \in Seq(E), NEW t \in Seq(E), NEW x, Leads(s, x), Leads(t, x)
    PROVE  Leads(s \o t, x)
<1>1. Cnt(s \o t, x) > 0
  BY CntConcat, CntFacts DEF Leads
<1>2. ASSUME NEW y \in Ids, y # x PROVE LeadsOver(s \o t, x, y)
  <2>1. LeadsOver(s, x, y) /\ LeadsOver(t, x, y)
    BY <1>2 DEF Leads
  <2>2. /\ Cnt(s \o t, x) = Cnt(s, x) + Cnt(t, x) /\ Cnt(s \o t, y) = Cnt(s, y) + Cnt(t, y)
    BY CntConcat
  <2>3. /\ Cnt(s, x) \in Nat /\ Cnt(s, y) \in Nat /\ Cnt(t, x) \in Nat /\ Cnt(t, y) \in Nat
    BY CntFacts
  <2>4. CASE Cnt(s \o t, y) < Cnt(s \o t, x)
    BY <2>4 DEF LeadsOver
  <2>5. CASE ~(Cnt(s \o t, y) < Cnt(s \o t, x))
    <3>1. Cnt(s \o t, y) = Cnt(s \o t, x) /\ Before(s, x, y)
      BY <2>1, <2>2, <2>3, <2>5 DEF LeadsOver
    <3>2. PICK i \in DOMAIN s : s[i].tmdb = x /\ \A j \in 1 .. i : s[j].tmdb # y
      BY <3>1 DEF Before
    <3>3. /\ DOMAIN s = 1 .. Len(s) /\ Len(s) \in Nat /\ Len(t) \in Nat
          /\ DOMAIN (s \o t) = 1 .. (Len(s) + Len(t))
      OBVIOUS
    <3>4. \A j \in 1 .. Len(s) : (s \o t)[j] = s[j]
      BY ConcatAt
    <3>5. i \in DOMAIN (s \o t) /\ (s \o t)[i].tmdb = x /\ \A j \in 1 .. i : (s \o t)[j].tmdb # y
      BY <3>2, <3>3, <3>4
    <3> QED BY <3>1, <3>5 DEF LeadsOver, Before
  <2> QED BY <2>4, <2>5
<1> QED BY <1>1, <1>2 DEF Leads

LEMMA LeadsUnique ==
    ASSUME NEW E, NEW fs \in Seq(E), NEW x \in Ids, NEW y \in Ids, Leads(fs, x), Leads(fs, y)
    PROVE  x = y
<1> SUFFICES ASSUME x # y PROVE FALSE
  OBVIOUS
<1>1. LeadsOver(fs, x, y) /\ LeadsOver(fs, y, x)
  BY DEF Leads
<1>2. Cnt(fs, x) \in Nat /\ Cnt(fs, y) \in Nat
  BY CntFacts
<1>3. Before(fs, x, y) /\ Before(fs, y, x)
  BY <1>1, <1>2 DEF LeadsOver
<1>4. PICK i \in DOMAIN fs : fs[i].tmdb = x /\ \A j \in 1 .. i : fs[j].tmdb # y
  BY <1>3 DEF Before
<1>5. PICK k \in DOMAIN fs : fs[k].tmdb = y /\ \A j \in 1 .. k : fs[j].tmdb # x
  BY <1>3 DEF Before
<1>6. i \in 1 .. k \/ k \in 1 .. i
  <2>1. DOMAIN fs = 1 .. Len(fs) /\ Len(fs) \in Nat
    OBVIOUS
  <2> QED BY <2>1
<1> QED BY <1>4, <1>5, <1>6

\* Canonical takes the id that leads.
LEMMA CanonicalLeads ==
    ASSUME NEW fs \in Seq(Entries)
    PROVE  /\ Canonical(fs) = NoId => \A i \in DOMAIN fs : fs[i].tmdb = NoId
           /\ Canonical(fs) # NoId => Canonical(fs) \in Ids /\ Leads(fs, Canonical(fs))
<1> DEFINE K == {e \in ToSet(fs) : Matched(e)}
           ms == MatchedIn(fs)
           n == Len(ms)
           v == [i \in 1 .. n |-> Cnt(ms, ms[i].tmdb)]
           P(i) == /\ \A j \in 1 .. n : Cnt(ms, ms[j].tmdb) <= Cnt(ms, ms[i].tmdb)
                   /\ \A j \in 1 .. (i - 1) : Cnt(ms, ms[j].tmdb) < Cnt(ms, ms[i].tmdb)
           first == CHOOSE i \in 1 .. n : P(i)
           x == ms[first].tmdb
<1>1. DOMAIN fs = 1 .. Len(fs) /\ Len(fs) \in Nat /\ \A i \in DOMAIN fs : fs[i] \in Entries
  OBVIOUS
<1>2. ms = Kept(fs, K)
  BY DEF MatchedIn, Selected
<1>3. \A e : e \in K <=> e \in ToSet(fs) /\ e.tmdb # NoId
  BY DEF Matched
<1> HIDE DEF K
<1>4. ms \in Seq(Entries) /\ \E at : Keeping!Keeps(ms, fs, K, Len(fs), at)
  BY <1>2, KeptFacts
<1>5. PICK at : Keeping!Keeps(ms, fs, K, Len(fs), at)
  BY <1>4
<1>6. DOMAIN ms = 1 .. n /\ n \in Nat
  BY <1>4
<1>7. Canonical(fs) = IF ms = <<>> THEN NoId ELSE x
  <2>1. Canonical(fs) = IF ms = <<>> THEN NoId ELSE
           ms[CHOOSE i \in DOMAIN ms :
                 /\ \A j \in DOMAIN ms : Cnt(ms, ms[j].tmdb) <= Cnt(ms, ms[i].tmdb)
                 /\ \A j \in 1..(i - 1) : Cnt(ms, ms[j].tmdb) < Cnt(ms, ms[i].tmdb)].tmdb
    BY DEF Canonical, Cnt, OfId
  <2> QED BY <1>6, <2>1
<1> HIDE DEF ms
<1>8. \A i \in 1 .. n : ms[i].tmdb \in Ids
  <2>1. \A i \in 1 .. n : ms[i] \in K
    BY <1>5 DEF Keeping!Keeps
  <2>2. \A e \in Entries : e.tmdb \in Ids \cup {NoId}
    BY DEF Entries
  <2> QED BY <1>3, <1>4, <1>6, <2>1, <2>2
<1>9. ASSUME NEW y \in Ids PROVE Cnt(ms, y) = Cnt(fs, y)
  <2> DEFINE A == OfId(ms, y)
             B == OfId(fs, y)
             f == [i \in A |-> at[i]]
  <2>0. y # NoId
    BY BuildingAssumption
  <2>1. \A i \in 1 .. n : at[i] \in 1 .. Len(fs) /\ ms[i] = fs[at[i]]
    BY <1>5 DEF Keeping!Keeps
  <2>2. \A i : i \in A <=> i \in 1 .. n /\ ms[i].tmdb = y
    BY <1>6 DEF OfId
  <2>3. \A i : i \in B <=> i \in 1 .. Len(fs) /\ fs[i].tmdb = y
    BY <1>1 DEF OfId
  <2> HIDE DEF A, B
  <2>4. f \in [A -> B]
    <3>1. \A i \in A : at[i] \in B
      BY <2>1, <2>2, <2>3
    <3> QED BY <3>1
  <2>5. \A i, j \in A : f[i] = f[j] => i = j
    <3> SUFFICES ASSUME NEW i \in A, NEW j \in A, at[i] = at[j] PROVE i = j
      OBVIOUS
    <3>1. i \in 1 .. n /\ j \in 1 .. n
      BY <2>2
    <3>2. ~(i < j) /\ ~(j < i)
      <4>1. at[i] \in Nat /\ at[j] \in Nat
        BY <2>1, <3>1
      <4>2. i < j => at[i] < at[j]
        BY <1>5, <3>1 DEF Keeping!Keeps
      <4>3. j < i => at[j] < at[i]
        BY <1>5, <3>1 DEF Keeping!Keeps
      <4> QED BY <4>1, <4>2, <4>3
    <3> QED BY <1>6, <3>1, <3>2
  <2>6. \A m \in B : \E i \in A : f[i] = m
    <3> SUFFICES ASSUME NEW m \in B PROVE \E i \in A : f[i] = m
      OBVIOUS
    <3>1. m \in 1 .. Len(fs) /\ fs[m].tmdb = y
      BY <2>3
    <3>2. fs[m] \in K
      BY <1>1, <1>3, <2>0, <3>1 DEF ToSet
    <3>3. PICK i \in 1 .. n : at[i] = m
      BY <1>5, <3>1, <3>2 DEF Keeping!Keeps
    <3> QED BY <2>1, <2>2, <3>1, <3>3
  <2> HIDE DEF f
  <2>7. ExistsBijection(A, B)
    <3>1. f \in Bijection(A, B)
      BY <2>4, <2>5, <2>6 DEF Bijection, Injection, Surjection, IsInjective
    <3> QED BY <3>1 DEF ExistsBijection
  <2>8. IsFiniteSet(A)
    BY <1>4, CntFacts DEF A
  <2> QED BY <2>7, <2>8, FS_Bijection DEF Cnt, A, B
<1>10. CASE ms = <<>>
  <2>1. \A m \in DOMAIN fs : fs[m].tmdb = NoId
    <3> SUFFICES ASSUME NEW m \in DOMAIN fs, fs[m].tmdb # NoId PROVE FALSE
      OBVIOUS
    <3>1. fs[m] \in K
      BY <1>3 DEF ToSet
    <3>2. \E i \in 1 .. n : at[i] = m
      BY <1>1, <1>5, <3>1 DEF Keeping!Keeps
    <3>3. n = 0
      BY <1>10
    <3> QED BY <3>2, <3>3
  <2> QED BY <1>7, <1>10, <2>1
<1>11. CASE ms # <<>>
  <2>1. n # 0
    BY <1>4, <1>11
  <2>2. v \in [1 .. n -> Nat]
    BY <1>4, CntFacts
  <2>3. \A i \in 1 .. n : v[i] = Cnt(ms, ms[i].tmdb)
    OBVIOUS
  <2> HIDE DEF v
  <2>4. PICK m : IsFirstGreatest(v, n, m)
    BY <1>6, <2>1, <2>2, FirstGreatest
  <2>5. m \in 1 .. n /\ P(m)
    <3>1. m \in 1 .. n /\ \A j \in 1 .. (m - 1) : j \in 1 .. n
      BY <1>6, <2>4 DEF IsFirstGreatest
    <3> QED BY <2>3, <2>4, <3>1 DEF IsFirstGreatest
  <2>6. first \in 1 .. n /\ P(first)
    <3> HIDE DEF P
    <3> QED BY <2>5
  <2> HIDE DEF first
  <2>7. x \in Ids /\ x # NoId
    BY <1>8, <2>6, BuildingAssumption
  <2>8. Cnt(fs, x) = Cnt(ms, x) /\ Cnt(ms, x) > 0
    <3>1. first \in DOMAIN ms
      BY <1>6, <2>6
    <3>2. Cnt(ms, x) > 0
      BY <1>4, <3>1, CntFacts
    <3> QED BY <1>9, <2>7, <3>2
  <2>9. ASSUME NEW y \in Ids, y # x PROVE LeadsOver(fs, x, y)
    <3>1. Cnt(fs, y) = Cnt(ms, y) /\ Cnt(ms, y) \in Nat /\ Cnt(ms, x) \in Nat
      BY <1>4, <1>9, CntFacts
    <3>2. CASE Cnt(ms, y) = 0
      BY <2>8, <3>1, <3>2 DEF LeadsOver
    <3>3. CASE Cnt(ms, y) # 0
      <4>1. PICK j \in 1 .. n : ms[j].tmdb = y
        <5>1. Cnt(ms, y) > 0
          BY <3>1, <3>3
        <5> QED BY <1>4, <1>6, <5>1, CntFacts
      <4>2. Cnt(ms, y) <= Cnt(ms, x)
        BY <2>6, <4>1
      <4>3. CASE Cnt(ms, y) = Cnt(ms, x)
        <5>1. at[first] \in DOMAIN fs /\ fs[at[first]].tmdb = x
          BY <1>1, <1>5, <2>6 DEF Keeping!Keeps
        <5>2. ASSUME NEW k \in 1 .. at[first], fs[k].tmdb = y PROVE FALSE
          <6>1. k \in DOMAIN fs
            BY <1>1, <5>1
          <6>2. fs[k] \in K
            BY <1>3, <5>2, <6>1, BuildingAssumption DEF ToSet
          <6>3. PICK i \in 1 .. n : at[i] = k
            BY <1>1, <1>5, <6>1, <6>2 DEF Keeping!Keeps
          <6>4. ms[i].tmdb = y
            BY <1>5, <5>2, <6>3 DEF Keeping!Keeps
          <6>5. i # first
            BY <2>9, <6>4
          <6>6. ~(first < i)
            <7>1. first < i => at[first] < at[i]
              BY <1>5, <2>6 DEF Keeping!Keeps
            <7> QED BY <1>1, <5>1, <6>1, <6>3, <7>1
          <6>7. i \in 1 .. (first - 1)
            BY <1>6, <2>6, <6>5, <6>6
          <6>8. Cnt(ms, y) < Cnt(ms, x)
            BY <2>6, <6>4, <6>7
          <6> QED BY <3>1, <4>3, <6>8
        <5>3. Before(fs, x, y)
          BY <5>1, <5>2 DEF Before
        <5> QED BY <2>8, <3>1, <4>3, <5>3 DEF LeadsOver
      <4>4. CASE Cnt(ms, y) # Cnt(ms, x)
        BY <2>8, <3>1, <4>2, <4>4 DEF LeadsOver
      <4> QED BY <4>3, <4>4
    <3> QED BY <3>2, <3>3
  <2>10. Canonical(fs) = x
    BY <1>7, <1>11
  <2>11. Leads(fs, x)
    BY <2>8, <2>9 DEF Leads
  <2> QED BY <2>7, <2>10, <2>11
<1> QED BY <1>10, <1>11

LEMMA CanonicalIs ==
    ASSUME NEW fs \in Seq(Entries), NEW x \in Ids, Leads(fs, x)
    PROVE  Canonical(fs) = x
<1>1. \E i \in DOMAIN fs : fs[i].tmdb = x
  BY CntFacts DEF Leads
<1>2. Canonical(fs) # NoId
  BY <1>1, CanonicalLeads, BuildingAssumption
<1>3. Canonical(fs) \in Ids /\ Leads(fs, Canonical(fs))
  BY <1>2, CanonicalLeads
<1> QED BY <1>3, LeadsUnique

\* Lists of one id make a list of that id.
LEMMA CanonicalOfAll ==
    ASSUME NEW ss \in Seq(Seq(Entries)), ss # <<>>, NEW x \in Ids,
           \A i \in DOMAIN ss : Canonical(ss[i]) = x
    PROVE  Canonical(FlattenSeq(ss)) = x
<1> DEFINE n == Len(ss)
<1>1. n \in Nat /\ n # 0 /\ DOMAIN ss = 1 .. n /\ \A i \in 1 .. n : ss[i] \in Seq(Entries)
  OBVIOUS
<1>2. PICK f : /\ f[0] = <<>>
               /\ \A k \in 1 .. Len(ss) : f[k] = f[k - 1] \o ss[k]
               /\ FlattenSeq(ss) = f[Len(ss)]
  BY FlattenUnfolds
<1>3. \A i \in 1 .. n : Leads(ss[i], x)
  <2> SUFFICES ASSUME NEW i \in 1 .. n PROVE Leads(ss[i], x)
    OBVIOUS
  <2>1. ss[i] \in Seq(Entries) /\ Canonical(ss[i]) = x /\ x # NoId
    BY <1>1, BuildingAssumption
  <2> QED BY <2>1, CanonicalLeads
<1> DEFINE Good(k) == f[k] \in Seq(Entries) /\ (k # 0 => Leads(f[k], x))
           Bad == {k \in 0 .. n : ~Good(k)}
<1> HIDE DEF n
<1>4. 0 \notin Bad
  <2>1. Good(0)
    BY <1>2
  <2> QED BY <2>1
<1>5. ASSUME NEW k \in 1 .. n, k - 1 \notin Bad PROVE k \notin Bad
  <2>1. k - 1 \in 0 .. n
    BY <1>1
  <2>2. f[k - 1] \in Seq(Entries) /\ (k - 1 # 0 => Leads(f[k - 1], x))
    BY <1>5, <2>1
  <2>3. f[k] = f[k - 1] \o ss[k] /\ ss[k] \in Seq(Entries) /\ Leads(ss[k], x)
    BY <1>1, <1>2, <1>3 DEF n
  <2>4. f[k] \in Seq(Entries)
    BY <2>2, <2>3
  <2>5. CASE k = 1
    <3>1. f[k - 1] = <<>>
      BY <1>2, <2>5
    <3>2. f[k] = ss[k]
      BY <2>3, <3>1
    <3> QED BY <2>3, <2>4, <3>2
  <2>6. CASE k # 1
    <3>1. Leads(f[k - 1], x)
      BY <1>1, <2>2, <2>6
    <3>2. Leads(f[k], x)
      BY <2>2, <2>3, <3>1, LeadsConcat
    <3> QED BY <2>4, <3>2
  <2> QED BY <2>5, <2>6
<1>6. Bad \subseteq 0 .. n
  OBVIOUS
<1> HIDE DEF Bad
<1>7. Bad = {}
  BY <1>1, <1>4, <1>5, <1>6, Keeping!NoneFails
<1>8. f[n] \in Seq(Entries) /\ Leads(f[n], x)
  <2>1. n \in 0 .. n /\ n \notin Bad
    BY <1>1, <1>7
  <2>2. Good(n)
    BY <2>1 DEF Bad
  <2> QED BY <1>1, <2>2
<1> QED BY <1>2, <1>8, CanonicalIs DEF n

-----------------------------------------------------------------------------
(* From the files to the series.                                             *)
\* The entry of a path.
PathPlace(list, p) == SelectInSeq(list, LAMBDA e : e.path = p)
EntryAt(list, p) == list[PathPlace(list, p)]
LookUp(list, fs) == [k \in DOMAIN fs |-> EntryAt(list, fs[k].path)]

LEMMA EntryAtFacts ==
    ASSUME NEW list, ListOK(list)
    PROVE  /\ \A e \in ToSet(list) : EntryAt(list, e.path) = e /\ e.path \in PathsOf(list)
           /\ \A p \in PathsOf(list) : EntryAt(list, p) \in ToSet(list) /\ EntryAt(list, p).path = p
<1>1. DOMAIN list = 1 .. Len(list) /\ Len(list) \in Nat
  BY DEF ListOK
<1>2. ASSUME NEW p \in PathsOf(list)
      PROVE  PathPlace(list, p) \in DOMAIN list /\ list[PathPlace(list, p)].path = p
  <2> DEFINE I == {i \in 1 .. Len(list) : list[i].path = p}
  <2>1. I \in SUBSET Nat /\ I # {}
    BY <1>1 DEF PathsOf
  <2>2. PathPlace(list, p) = IF I # {} THEN Min(I) ELSE 0
    BY DEF PathPlace, SelectInSeq
  <2>3. Min(I) \in I
    BY <2>1, LeastIn
  <2> QED BY <1>1, <2>1, <2>2, <2>3
<1>3. \A p \in PathsOf(list) : EntryAt(list, p) \in ToSet(list) /\ EntryAt(list, p).path = p
  BY <1>2 DEF EntryAt, ToSet
<1>4. \A d, e \in ToSet(list) : d.path = e.path => d = e
  BY DEF ListOK, ToSet
<1>5. \A e \in ToSet(list) : e.path \in PathsOf(list)
  BY DEF PathsOf, ToSet
<1> QED BY <1>3, <1>4, <1>5

LEMMA LookUpFacts ==
    ASSUME NEW list, ListOK(list), NEW R, NEW fs \in Seq(R), PathsOf(fs) \subseteq PathsOf(list)
    PROVE  /\ LookUp(list, fs) \in Seq(Entries)
           /\ fs # <<>> => LookUp(list, fs) # <<>>
           /\ \A e : e \in ToSet(LookUp(list, fs)) <=> e \in ToSet(list) /\ e.path \in PathsOf(fs)
           /\ (\A k, l \in DOMAIN fs : fs[k].path = fs[l].path => k = l) => IsInjective(LookUp(list, fs))
<1> DEFINE new == LookUp(list, fs)
<1>1. DOMAIN fs = 1 .. Len(fs) /\ Len(fs) \in Nat
  OBVIOUS
<1>2. DOMAIN new = 1 .. Len(fs) /\ \A k \in DOMAIN fs : new[k] = EntryAt(list, fs[k].path)
  BY <1>1 DEF LookUp
<1>3. \A k \in DOMAIN fs : fs[k].path \in PathsOf(list)
  BY DEF PathsOf
<1>4. \A k \in DOMAIN fs : new[k] \in ToSet(list) /\ new[k].path = fs[k].path
  BY <1>2, <1>3, EntryAtFacts
<1>5. ToSet(list) \subseteq Entries
  BY DEF ListOK, ToSet
<1>6. new \in Seq(Entries)
  <2>1. new = [k \in 1 .. Len(fs) |-> EntryAt(list, fs[k].path)]
    BY <1>1 DEF LookUp
  <2>2. \A k \in 1 .. Len(fs) : EntryAt(list, fs[k].path) \in Entries
    BY <1>1, <1>2, <1>4, <1>5
  <2> HIDE DEF new
  <2> QED BY <1>1, <2>1, <2>2
<1> HIDE DEF new
<1>7. fs # <<>> => new # <<>>
  BY <1>1, <1>2, <1>6
<1>8. \A e \in ToSet(new) : e \in ToSet(list) /\ e.path \in PathsOf(fs)
  BY <1>1, <1>2, <1>4 DEF ToSet, PathsOf
<1>9. ASSUME NEW e \in ToSet(list), e.path \in PathsOf(fs) PROVE e \in ToSet(new)
  <2>1. PICK k \in DOMAIN fs : fs[k].path = e.path
    BY <1>9 DEF PathsOf
  <2>2. new[k] = e
    BY <1>2, <2>1, EntryAtFacts
  <2> QED BY <1>1, <1>2, <2>2 DEF ToSet
<1>10. (\A k, l \in DOMAIN fs : fs[k].path = fs[l].path => k = l) => IsInjective(new)
  BY <1>1, <1>2, <1>4 DEF IsInjective
<1> QED BY <1>6, <1>7, <1>8, <1>9, <1>10 DEF new

\* The files whose names yield one title are in the same rows.
SameTitle(e, d) ==
    /\ parsed[e.path] = parsed[d.path]
    /\ parsed[e.path] # Unknown /\ IndexKey[parsed[e.path]] # NoKey
TitlesKept(table, list) == \A e, d \in ToSet(list) : SameTitle(e, d) => Together(table, e, d)

\* A table of files of the list, each in one row, once.
Placed(table, list, T) ==
    /\ table \in Tables(T, Entries)
    /\ Titled(table) /\ Filled(table) /\ Once(table)
    /\ \A x : Holds(table, x) => x \in ToSet(list)
    /\ TitlesKept(table, list)

SeriesTitles == {Series[t] : t \in MergedTitles}
SeriesNext(list, table, g) == AddTo(table, Series[g.title], LookUp(list, g.files))
Serial == INSTANCE FoldProofs WITH Op <- SeriesNext, Base <- NoRows

LEMMA SeriesIs ==
    ASSUME NEW gs, NEW list
    PROVE  SeriesGroups(gs, list) = Serial!Fold(list, gs)
BY DEF SeriesGroups, Serial!Fold, FoldLeft,
       MapThenFoldSet, Serial!Greatest, Max, SeriesNext, NoRows, LookUp, EntryAt, PathPlace

LEMMA SeriesFacts ==
    ASSUME NEW list, ListOK(list), parsed \in Namings,
           NEW some, some \in {<<>>, Scanned(list)},
           NEW gs, Partition(gs, some, MergedTitles, Scans)
    PROVE  Placed(SeriesGroups(gs, list), list, SeriesTitles)
<1> DEFINE sc == Scanned(list)
           L(i) == LookUp(list, gs[i].files)
           n == Len(gs)
<1>1. DOMAIN list = 1 .. Len(list) /\ Len(list) \in Nat /\ DOMAIN sc = DOMAIN list
  BY ScannedFacts DEF ListOK
<1>2. \A k \in DOMAIN list : sc[k].path = list[k].path /\ sc[k].title = ScannedTitle(list[k])
  <2>1. \A k \in DOMAIN list : sc[k] = [path |-> list[k].path, title |-> ScannedTitle(list[k])]
    BY ScannedFacts
  <2> HIDE DEF sc
  <2> SUFFICES ASSUME NEW k \in DOMAIN list
               PROVE  sc[k].path = list[k].path /\ sc[k].title = ScannedTitle(list[k])
    OBVIOUS
  <2> DEFINE t == ScannedTitle(list[k])
  <2>2. sc[k] = [path |-> list[k].path, title |-> t]
    BY <2>1
  <2> HIDE DEF t
  <2>3. sc[k].path = list[k].path /\ sc[k].title = t
    BY <2>2
  <2> QED BY <2>3 DEF t
<1>3. some = <<>> \/ some = sc
  OBVIOUS
<1> HIDE DEF sc
<1>4. \A x, y \in ToSet(sc) : x.path = y.path => x = y
  BY <1>1, <1>2 DEF ToSet, ListOK
<1>5. \A x \in ToSet(sc) : x.path \in PathsOf(list)
  BY <1>1, <1>2 DEF ToSet, PathsOf
<1>6. /\ gs \in Tables(MergedTitles, Scans) /\ Titled(gs) /\ Filled(gs) /\ Once(gs) /\ TitlesWhole(gs)
      /\ \A x : Holds(gs, x) <=> x \in ToSet(some)
  BY DEF Partition
<1>7. /\ DOMAIN gs = 1 .. n /\ n \in Nat
      /\ \A i \in DOMAIN gs : gs[i].title \in MergedTitles /\ gs[i].files \in Seq(Scans)
  BY <1>6, TableFacts
<1>8. ToSet(some) \subseteq ToSet(sc)
  BY <1>3 DEF ToSet
<1>9. \A i \in DOMAIN gs : \A x \in ToSet(gs[i].files) : x \in ToSet(sc) /\ Holds(gs, x)
  BY <1>6, <1>8 DEF Holds
<1>10. ASSUME NEW i \in DOMAIN gs
       PROVE  /\ L(i) \in Seq(Entries) /\ L(i) # <<>> /\ IsInjective(L(i))
              /\ \A e : e \in ToSet(L(i)) <=> e \in ToSet(list) /\ e.path \in PathsOf(gs[i].files)
  <2> DEFINE fs == gs[i].files
  <2>1. fs \in Seq(Scans) /\ fs # <<>>
    BY <1>6, <1>7 DEF Filled
  <2>2. \A k \in DOMAIN fs : fs[k] \in ToSet(sc)
    BY <1>9 DEF ToSet
  <2>3. \A k, l \in DOMAIN fs : fs[k].path = fs[l].path => k = l
    <3>1. \A k, l \in DOMAIN fs : fs[k] = fs[l] => k = l
      BY <1>6 DEF Once
    <3> QED BY <1>4, <2>2, <3>1
  <2>4. PathsOf(fs) \subseteq PathsOf(list)
    BY <1>5, <2>2 DEF PathsOf
  <2> HIDE DEF fs
  <2>5. LookUp(list, fs) \in Seq(Entries) /\ LookUp(list, fs) # <<>>
    BY <2>1, <2>4, LookUpFacts
  <2>6. \A e : e \in ToSet(LookUp(list, fs)) <=> e \in ToSet(list) /\ e.path \in PathsOf(fs)
    BY <2>1, <2>4, LookUpFacts
  <2>7. IsInjective(LookUp(list, fs))
    BY <2>1, <2>3, <2>4, LookUpFacts
  <2> QED BY <2>5, <2>6, <2>7 DEF fs
<1>11. ASSUME NEW i \in DOMAIN gs, NEW x \in ToSet(sc)
       PROVE  x.path \in PathsOf(gs[i].files) <=> x \in ToSet(gs[i].files)
  <2>1. \A k \in DOMAIN gs[i].files : gs[i].files[k] \in ToSet(sc)
    BY <1>9 DEF ToSet
  <2> QED BY <1>4, <2>1 DEF PathsOf, ToSet
<1>12. ASSUME NEW e \in ToSet(list)
       PROVE  \E x \in ToSet(sc) : x.path = e.path /\ x.title = ScannedTitle(e)
  BY <1>1, <1>2 DEF ToSet
<1> HIDE DEF L
<1>13. ASSUME NEW i \in DOMAIN gs, NEW j \in DOMAIN gs, NEW e, e \in ToSet(L(i)), e \in ToSet(L(j))
       PROVE  i = j
  <2>1. /\ e \in ToSet(list) /\ e.path \in PathsOf(gs[i].files) /\ e.path \in PathsOf(gs[j].files)
    BY <1>10, <1>13
  <2>2. PICK x \in ToSet(sc) : x.path = e.path
    BY <1>12, <2>1
  <2>3. x \in ToSet(gs[i].files) /\ x \in ToSet(gs[j].files)
    BY <1>11, <2>1, <2>2
  <2> QED BY <1>6, <2>3 DEF Once, ToSet
<1>14. ASSUME NEW i \in DOMAIN gs, NEW e \in ToSet(list), NEW d \in ToSet(list), SameTitle(e, d),
              e \in ToSet(L(i))
       PROVE  d \in ToSet(L(i))
  <2>1. PICK x \in ToSet(sc) : x.path = e.path /\ x.title = ScannedTitle(e)
    BY <1>12
  <2>2. PICK y \in ToSet(sc) : y.path = d.path /\ y.title = ScannedTitle(d)
    BY <1>12
  <2>3. x.title = y.title /\ IndexKey[x.title] # NoKey
    BY <1>14, <2>1, <2>2 DEF SameTitle, ScannedTitle
  <2>4. x \in ToSet(gs[i].files)
    BY <1>10, <1>11, <1>14, <2>1
  <2>5. Holds(gs, x)
    BY <2>4 DEF Holds
  <2>6. some = sc
    BY <1>3, <1>6, <2>5 DEF ToSet
  <2>7. Holds(gs, y)
    BY <1>6, <2>6
  <2>8. Together(gs, x, y)
    BY <1>6, <2>3, <2>5, <2>7 DEF TitlesWhole
  <2>9. y \in ToSet(gs[i].files)
    BY <2>4, <2>8 DEF Together
  <2> QED BY <1>10, <1>11, <2>2, <2>9
<1>15. SeriesGroups(gs, list) = Serial!Fold(list, gs)
  BY SeriesIs
<1>16. gs \in Seq([title : MergedTitles, files : Seq(Scans)])
  BY <1>6 DEF Tables
<1>17. PICK acc : /\ acc[0] = NoRows(list)
                  /\ \A k \in 1 .. Len(gs) : acc[k] = SeriesNext(list, acc[k - 1], gs[k])
                  /\ Serial!Fold(list, gs) = acc[Len(gs)]
  BY <1>16, Serial!FoldUnfolds
<1> DEFINE Good(k) == /\ acc[k] \in Tables(SeriesTitles, Entries)
                      /\ Titled(acc[k]) /\ Filled(acc[k]) /\ Once(acc[k])
                      /\ \A x : Holds(acc[k], x) => x \in ToSet(list) /\ \E i \in 1 .. k : x \in ToSet(L(i))
                      /\ TitlesKept(acc[k], list)
           Bad == {k \in 0 .. n : ~Good(k)}
<1>18. 0 \notin Bad
  <2>1. acc[0] \in Tables(SeriesTitles, Entries) /\ DOMAIN acc[0] = {}
    BY <1>17 DEF Tables, NoRows
  <2>2. Good(0)
    BY <2>1 DEF Titled, Filled, Once, Holds, Together, TitlesKept
  <2> QED BY <2>2
<1>19. ASSUME NEW k \in 1 .. n, k - 1 \notin Bad PROVE k \notin Bad
  <2> DEFINE old == acc[k - 1]
             new == acc[k]
             t == Series[gs[k].title]
             fs == L(k)
  <2>1. Good(k - 1)
    BY <1>7, <1>19
  <2>2. /\ old \in Tables(SeriesTitles, Entries) /\ Titled(old) /\ Filled(old) /\ Once(old)
        /\ \A x : Holds(old, x) => x \in ToSet(list) /\ \E i \in 1 .. k - 1 : x \in ToSet(L(i))
        /\ TitlesKept(old, list)
    BY <2>1
  <2>3. new = AddTo(old, t, fs)
    BY <1>7, <1>17 DEF SeriesNext, L
  <2>4. k \in DOMAIN gs /\ t \in SeriesTitles
    BY <1>7 DEF SeriesTitles
  <2>5. /\ fs \in Seq(Entries) /\ fs # <<>> /\ IsInjective(fs)
        /\ \A e : e \in ToSet(fs) => e \in ToSet(list)
    BY <1>10, <2>4
  <2>6. \A i \in 1 .. k - 1 : i \in DOMAIN gs /\ i # k
    BY <1>7
  <2>7. \A x \in ToSet(fs) : ~Holds(old, x)
    <3> SUFFICES ASSUME NEW x \in ToSet(fs), Holds(old, x) PROVE FALSE
      OBVIOUS
    <3>1. PICK i \in 1 .. k - 1 : x \in ToSet(L(i))
      BY <2>2
    <3> QED BY <1>13, <2>4, <2>6, <3>1
  <2>8. \A e, d \in ToSet(list) : SameTitle(e, d) => (e \in ToSet(fs) <=> d \in ToSet(fs))
    <3>1. \A e, d : SameTitle(e, d) => SameTitle(d, e)
      BY DEF SameTitle
    <3> QED BY <1>14, <2>4, <3>1
  <2>9. \A i : i \in 1 .. k <=> i \in 1 .. k - 1 \/ i = k
    BY <1>7
  <2> HIDE DEF old, new, fs, Good, Bad, t
  <2>10. new \in Tables(SeriesTitles, Entries) /\ Titled(new) /\ Filled(new)
    BY <2>2, <2>3, <2>4, <2>5, AddFacts
  <2>11. Once(new)
    BY <2>2, <2>3, <2>4, <2>5, <2>7, AddFacts
  <2>12. \A x : Holds(new, x) <=> Holds(old, x) \/ x \in ToSet(fs)
    BY <2>2, <2>3, <2>4, <2>5, AddFacts
  <2>13. \A e, d : Together(old, e, d) /\ (e \in ToSet(fs) <=> d \in ToSet(fs)) => Together(new, e, d)
    BY <2>2, <2>3, <2>4, <2>5, AddFacts
  <2>14. TitlesKept(new, list)
    BY <2>2, <2>8, <2>13 DEF TitlesKept
  <2>15. \A x : Holds(new, x) => x \in ToSet(list) /\ \E i \in 1 .. k : x \in ToSet(L(i))
    BY <2>2, <2>5, <2>9, <2>12 DEF fs
  <2>16. Good(k)
    BY <2>10, <2>11, <2>14, <2>15 DEF Good, new
  <2> QED BY <2>16 DEF Bad
<1>20. Bad \in SUBSET (0 .. n)
  OBVIOUS
<1> HIDE DEF Bad
<1>21. \A k \in 0 .. n : k \notin Bad
  BY <1>7, <1>18, <1>19, <1>20, Keeping!NoneFails
<1>22. Good(n)
  <2>1. n \in 0 .. n
    BY <1>7
  <2> QED BY <1>21, <2>1 DEF Bad
<1> QED BY <1>15, <1>17, <1>22 DEF Placed

-----------------------------------------------------------------------------
(* Groups of one id.                                                         *)
\* MergeByTmdb: the rows of an id, and the ids in the order they are met.
TmdbRows(table, id) == Kept(table, {row \in ToSet(table) : Canonical(row.files) = id})
SeenNext(p, seen, row) ==
    IF Canonical(row.files) \in ToSet(seen) THEN seen ELSE Append(seen, Canonical(row.files))
Seeing == INSTANCE FoldProofs WITH Op <- SeenNext, Base <- NoRows
SeenIds(table) ==
    FoldLeft(LAMBDA seen, row :
               IF Canonical(row.files) \in ToSet(seen) THEN seen
               ELSE Append(seen, Canonical(row.files)), <<>>, table)
MatchedIds(table) == Kept(SeenIds(table), {id \in ToSet(SeenIds(table)) : id # NoId})

LEMMA MatchedIdsFacts ==
    ASSUME NEW R, NEW table \in Seq(R)
    PROVE  /\ \E X : MatchedIds(table) \in Seq(X)
           /\ IsInjective(MatchedIds(table))
           /\ \A x : x \in ToSet(MatchedIds(table)) <=>
                x # NoId /\ \E i \in DOMAIN table : Canonical(table[i].files) = x
<1> DEFINE n == Len(table)
           v == [i \in 1 .. n |-> Canonical(table[i].files)]
           X == {Canonical(table[i].files) : i \in DOMAIN table}
           seen == SeenIds(table)
<1>1. DOMAIN table = 1 .. n /\ n \in Nat
  OBVIOUS
<1>2. seen = Seeing!Fold(table, table)
  BY DEF SeenIds, Seeing!Fold, FoldLeft,
         MapThenFoldSet, Seeing!Greatest, Max, SeenNext, NoRows
<1>3. PICK acc : /\ acc[0] = NoRows(table)
                 /\ \A k \in 1 .. Len(table) : acc[k] = SeenNext(table, acc[k - 1], table[k])
                 /\ Seeing!Fold(table, table) = acc[Len(table)]
  BY Seeing!FoldUnfolds
<1>4. v \in [1 .. n -> X]
  BY <1>1
<1>5. Collects(acc, v, n)
  BY <1>3 DEF NoRows, SeenNext, Collects
<1>6. \A k \in 1 .. n : v[k] = Canonical(table[k].files)
  OBVIOUS
<1>7. seen = acc[n]
  BY <1>2, <1>3
<1>8. MatchedIds(table) = Kept(seen, {id \in ToSet(seen) : id # NoId})
  BY DEF MatchedIds
<1> HIDE DEF v, X, n, seen
<1>9. seen \in Seq(X) /\ IsInjective(seen) /\ ToSet(seen) = {v[k] : k \in 1 .. n}
  <2>2. acc[n] \in Seq(X)
    BY <1>1, <1>4, <1>5, DistinctFacts
  <2>3. IsInjective(acc[n])
    BY <1>1, <1>4, <1>5, DistinctFacts
  <2>4. ToSet(acc[n]) = {v[k] : k \in 1 .. n}
    BY <1>1, <1>4, <1>5, DistinctFacts
  <2> QED BY <1>7, <2>2, <2>3, <2>4
<1>10. \A x : x \in ToSet(seen) <=> \E i \in DOMAIN table : Canonical(table[i].files) = x
  BY <1>1, <1>6, <1>9
<1> DEFINE K == {id \in ToSet(seen) : id # NoId}
<1>11. \A x : x \in K <=> x \in ToSet(seen) /\ x # NoId
  OBVIOUS
<1> HIDE DEF K
<1>12. Kept(seen, K) \in Seq(X)
  BY <1>9, KeptSet
<1>13. IsInjective(Kept(seen, K))
  BY <1>9, KeptSet
<1>14. \A x : x \in ToSet(Kept(seen, K)) <=> x \in ToSet(seen) /\ x \in K
  BY <1>9, KeptSet
<1>15. MatchedIds(table) = Kept(seen, K)
  BY <1>8 DEF K
<1> QED BY <1>10, <1>11, <1>12, <1>13, <1>14, <1>15

TmdbNext(table, merged, id) ==
    IF Len(TmdbRows(table, id)) = 1
    THEN Put(merged, TmdbRows(table, id)[1].title, TmdbRows(table, id)[1].files)
    ELSE Put(merged, MergeKey(TmdbRows(table, id), id), FilesIn(TmdbRows(table, id)))
Unmatched(table) == TmdbRows(table, NoId)
ByTmdb == INSTANCE FoldProofs WITH Op <- TmdbNext, Base <- Unmatched

LEMMA MergeByTmdbIs ==
    ASSUME NEW table
    PROVE  MergeByTmdb(table) = ByTmdb!Fold(table, MatchedIds(table))
BY DEF MergeByTmdb, ByTmdb!Fold, FoldLeft,
       MapThenFoldSet, ByTmdb!Greatest, Max, TmdbNext, Unmatched, MatchedIds, SeenIds, TmdbRows, Selected

\* The group that the groups of one id become.
InGroup(table, x, id) ==
    \E i \in DOMAIN table : Canonical(table[i].files) = id /\ x \in ToSet(table[i].files)
TmdbTitles(table, T) == T \cup {MergeKey(TmdbRows(table, id), id) : id \in Ids}
IsTmdbGroup(table, T, id, t, fs) ==
    /\ t \in TmdbTitles(table, T)
    /\ fs \in Seq(Entries) /\ IsInjective(fs) /\ fs # <<>> /\ Canonical(fs) = id
    /\ \A x : x \in ToSet(fs) <=> InGroup(table, x, id)

LEMMA TmdbRowsFacts ==
    ASSUME NEW T, NEW table \in Tables(T, Entries), NEW id
    PROVE  LET of == TmdbRows(table, id)
           IN  /\ of \in Tables(T, Entries)
               /\ Titled(table) => Titled(of)
               /\ Once(table) => Once(of)
               /\ Filled(table) => Filled(of)
               /\ \A e, d : Together(table, e, d) => Together(of, e, d)
               /\ \A j \in DOMAIN of : Canonical(of[j].files) = id
               /\ \A x : Holds(of, x) <=> InGroup(table, x, id)
               /\ (\E i \in DOMAIN table : Canonical(table[i].files) = id) => of # <<>>
<1> DEFINE K == {row \in ToSet(table) : Canonical(row.files) = id}
           of == Kept(table, K)
           R == [title : T, files : Seq(Entries)]
<1>1. table \in Seq(R)
  BY DEF Tables
<1>2. \A row : row \in K <=> row \in ToSet(table) /\ Canonical(row.files) = id
  OBVIOUS
<1>3. TmdbRows(table, id) = of
  BY DEF TmdbRows
<1> HIDE DEF K, R
<1>4. of \in Seq(R)
  BY <1>1, KeptSet
<1>5. /\ Titled(table) => Titled(of)
      /\ Once(table) => Once(of)
      /\ Filled(table) => Filled(of)
  BY <1>1, KeptRows
<1>6. \A e, d : Together(table, e, d) => Together(of, e, d)
  BY <1>1, KeptRows
<1>7. \A j \in DOMAIN of : of[j] \in K /\ \E i \in DOMAIN table : of[j] = table[i]
  BY <1>1, KeptRows
<1>8. \A i \in DOMAIN table : table[i] \in K => \E j \in DOMAIN of : of[j] = table[i]
  BY <1>1, KeptRows
<1> HIDE DEF of
<1>9. \A i \in DOMAIN table : table[i] \in K <=> Canonical(table[i].files) = id
  BY <1>2 DEF ToSet
<1>10. ASSUME NEW x, Holds(of, x) PROVE InGroup(table, x, id)
  <2>1. PICK j \in DOMAIN of : x \in ToSet(of[j].files)
    BY <1>10 DEF Holds
  <2>2. PICK i \in DOMAIN table : of[j] = table[i]
    BY <1>7
  <2> QED BY <1>7, <1>9, <2>1, <2>2 DEF InGroup
<1>11. ASSUME NEW x, InGroup(table, x, id) PROVE Holds(of, x)
  <2>1. PICK i \in DOMAIN table : Canonical(table[i].files) = id /\ x \in ToSet(table[i].files)
    BY <1>11 DEF InGroup
  <2> QED BY <1>8, <1>9, <2>1 DEF Holds
<1>12. \A j \in DOMAIN of : Canonical(of[j].files) = id
  BY <1>2, <1>7
<1>13. (\E i \in DOMAIN table : Canonical(table[i].files) = id) => of # <<>>
  BY <1>8, <1>9
<1>14. of \in Tables(T, Entries)
  BY <1>4 DEF R, Tables
<1> QED BY <1>3, <1>5, <1>6, <1>10, <1>11, <1>12, <1>13, <1>14

LEMMA TmdbIsPut ==
    ASSUME NEW T, NEW table \in Tables(T, Entries), Filled(table), Once(table),
           NEW id \in Ids, \E i \in DOMAIN table : Canonical(table[i].files) = id, NEW merged
    PROVE  \E t, fs : /\ TmdbNext(table, merged, id) = Put(merged, t, fs)
                      /\ IsTmdbGroup(table, T, id, t, fs)
<1> DEFINE of == TmdbRows(table, id)
           R == [title : T, files : Seq(Entries)]
<1>1. of \in Tables(T, Entries) /\ Once(of) /\ Filled(of) /\ of # <<>>
  BY TmdbRowsFacts
<1>2. \A j \in DOMAIN of : Canonical(of[j].files) = id
  BY TmdbRowsFacts
<1>3. \A x : Holds(of, x) <=> InGroup(table, x, id)
  BY TmdbRowsFacts
<1>4. MergeKey(of, id) \in TmdbTitles(table, T) /\ T \subseteq TmdbTitles(table, T)
  BY DEF TmdbTitles
<1>5. TmdbNext(table, merged, id) =
        IF Len(of) = 1 THEN Put(merged, of[1].title, of[1].files)
        ELSE Put(merged, MergeKey(of, id), FilesIn(of))
  BY DEF TmdbNext
<1> HIDE DEF of
<1>6. /\ DOMAIN of = 1 .. Len(of) /\ Len(of) \in Nat /\ Len(of) # 0
      /\ \A j \in DOMAIN of : of[j].title \in T /\ of[j].files \in Seq(Entries)
  <2>1. DOMAIN of = 1 .. Len(of) /\ Len(of) \in Nat
    BY <1>1, TableFacts
  <2>2. \A j \in DOMAIN of : of[j].title \in T /\ of[j].files \in Seq(Entries)
    BY <1>1, TableFacts
  <2>3. Len(of) # 0
    BY <1>1 DEF Tables
  <2> QED BY <2>1, <2>2, <2>3
<1>7. CASE Len(of) # 1
  <2> DEFINE fs == FilesIn(of)
             ss == [i \in DOMAIN of |-> of[i].files]
             t == MergeKey(of, id)
  <2>1. \A r \in R : r.files \in Seq(Entries)
    OBVIOUS
  <2>2. of \in Seq(R)
    BY <1>1 DEF Tables
  <2> HIDE DEF R
  <2>3. fs \in Seq(Entries)
    BY <2>1, <2>2, FilesInFacts
  <2>4. \A x : x \in ToSet(fs) <=> Holds(of, x)
    BY <2>1, <2>2, FilesInFacts
  <2>5. IsInjective(fs)
    BY <1>1, <2>1, <2>2, FilesInFacts
  <2>6. fs = FlattenSeq(ss)
    BY DEF FilesIn
  <2>7. ss \in Seq(Seq(Entries)) /\ ss # <<>> /\ \A i \in DOMAIN ss : Canonical(ss[i]) = id
    <3>1. ss = [i \in 1 .. Len(of) |-> of[i].files]
      BY <1>6
    <3>2. \A i \in 1 .. Len(of) : of[i].files \in Seq(Entries)
      BY <1>6
    <3>3. ss \in Seq(Seq(Entries))
      BY <1>6, <3>1, <3>2
    <3>4. DOMAIN ss = 1 .. Len(of) /\ 1 \in 1 .. Len(of)
      BY <1>6
    <3>5. \A i \in DOMAIN ss : Canonical(ss[i]) = id
      BY <1>2
    <3> HIDE DEF ss
    <3>6. ss # <<>>
      BY <3>4
    <3> QED BY <3>3, <3>5, <3>6
  <2> HIDE DEF fs, ss
  <2>8. Canonical(fs) = id
    BY <2>6, <2>7, CanonicalOfAll
  <2>9. fs # <<>>
    <3>1. 1 \in DOMAIN of
      BY <1>6
    <3>2. of[1].files # <<>> /\ of[1].files \in Seq(Entries)
      BY <1>1, <1>6, <3>1 DEF Filled
    <3> DEFINE s == of[1].files
    <3>3. s # <<>> /\ s \in Seq(Entries)
      BY <3>2
    <3> HIDE DEF s
    <3>4. 1 \in DOMAIN s
      BY <3>3
    <3>5. Holds(of, s[1])
      BY <3>1, <3>4 DEF Holds, ToSet, s
    <3> QED BY <2>4, <3>5 DEF ToSet
  <2>10. TmdbNext(table, merged, id) = Put(merged, t, fs)
    BY <1>5, <1>7 DEF fs
  <2> HIDE DEF t
  <2>11. t \in TmdbTitles(table, T)
    BY <1>4 DEF t
  <2>12. IsTmdbGroup(table, T, id, t, fs)
    BY <1>3, <2>3, <2>4, <2>5, <2>8, <2>9, <2>11 DEF IsTmdbGroup
  <2> QED BY <2>10, <2>12
<1>8. CASE Len(of) = 1
  <2>1. 1 \in DOMAIN of /\ \A j \in DOMAIN of : j = 1
    BY <1>6, <1>8
  <2> DEFINE t == of[1].title
             fs == of[1].files
  <2>2. TmdbNext(table, merged, id) = Put(merged, t, fs)
    BY <1>5, <1>8
  <2>3. t \in T /\ fs \in Seq(Entries)
    BY <1>6, <2>1
  <2>4. fs # <<>> /\ IsInjective(fs)
    BY <1>1, <2>1 DEF Filled, Once, IsInjective
  <2>5. \A x : Holds(of, x) <=> x \in ToSet(fs)
    BY <2>1 DEF Holds
  <2>6. Canonical(fs) = id
    BY <1>2, <2>1
  <2> HIDE DEF t, fs
  <2>7. IsTmdbGroup(table, T, id, t, fs)
    BY <1>3, <1>4, <2>3, <2>4, <2>5, <2>6 DEF IsTmdbGroup
  <2> QED BY <2>2, <2>7
<1> QED BY <1>7, <1>8

-----------------------------------------------------------------------------
(* Merging by id.                                                            *)
\* No two rows of one id.
OnePerSeries(table) ==
    \A i, j \in DOMAIN table :
      i # j /\ Canonical(table[i].files) # NoId => Canonical(table[i].files) # Canonical(table[j].files)

\* The files of the row are of groups of its own id, which is one of I.
From(row, table, I) ==
    /\ Canonical(row.files) \in I
    /\ \A x \in ToSet(row.files) : InGroup(table, x, Canonical(row.files))

LEMMA GroupsApart ==
    ASSUME NEW table, Once(table), NEW x, NEW a, NEW b, InGroup(table, x, a), InGroup(table, x, b)
    PROVE  a = b
<1>1. PICK i \in DOMAIN table : Canonical(table[i].files) = a /\ x \in ToSet(table[i].files)
  BY DEF InGroup
<1>2. PICK l \in DOMAIN table : Canonical(table[l].files) = b /\ x \in ToSet(table[l].files)
  BY DEF InGroup
<1>3. PICK p \in DOMAIN table[i].files : x = table[i].files[p]
  BY <1>1 DEF ToSet
<1>4. PICK q \in DOMAIN table[l].files : x = table[l].files[q]
  BY <1>2 DEF ToSet
<1>5. table[i].files[p] = table[l].files[q]
  BY <1>3, <1>4
<1>6. i = l
  BY <1>5 DEF Once
<1> QED BY <1>1, <1>2, <1>6

\* A group more: of an id that no row has.
LEMMA TmdbStep ==
    ASSUME NEW list, NEW T, NEW table, Placed(table, list, T), NEW U, NEW old \in Tables(U, Entries),
           Titled(old), Filled(old), Once(old), TitlesKept(old, list), OnePerSeries(old),
           NEW I, \A j \in DOMAIN old : From(old[j], table, I),
           NEW id \in Ids, id \notin I,
           NEW t \in U, NEW fs, IsTmdbGroup(table, T, id, t, fs)
    PROVE  LET new == Put(old, t, fs)
           IN  /\ new \in Tables(U, Entries)
               /\ Titled(new) /\ Filled(new) /\ Once(new) /\ TitlesKept(new, list) /\ OnePerSeries(new)
               /\ \A j \in DOMAIN new : From(new[j], table, I \cup {id})
<1> DEFINE new == Put(old, t, fs)
<1>1. /\ fs \in Seq(Entries) /\ IsInjective(fs) /\ fs # <<>> /\ Canonical(fs) = id
      /\ \A x : x \in ToSet(fs) <=> InGroup(table, x, id)
  BY DEF IsTmdbGroup
<1>2. Once(table) /\ TitlesKept(table, list)
  BY DEF Placed
<1>3. new \in Tables(U, Entries) /\ \E i : PutAt(new, old, i, t, fs)
  BY <1>1, PutFacts
<1>4. PICK at : PutAt(new, old, at, t, fs)
  BY <1>3
<1>5. at \in DOMAIN new /\ new[at] = Row(t, fs)
  BY <1>4 DEF PutAt
<1> HIDE DEF new
<1>6. Titled(new) /\ Filled(new)
  BY <1>1, <1>4, PutKeeps
<1>7. \A x \in ToSet(fs) : ~Holds(old, x)
  <2> SUFFICES ASSUME NEW x \in ToSet(fs), Holds(old, x) PROVE FALSE
    OBVIOUS
  <2>1. PICK j \in DOMAIN old : x \in ToSet(old[j].files)
    BY DEF Holds
  <2>2. InGroup(table, x, Canonical(old[j].files)) /\ Canonical(old[j].files) \in I
    BY <2>1 DEF From
  <2>3. InGroup(table, x, id)
    BY <1>1
  <2> QED BY <1>2, <2>2, <2>3, GroupsApart
<1>8. Once(new)
  <2>1. \A j \in DOMAIN old : j # at => \A x \in ToSet(fs) : x \notin ToSet(old[j].files)
    BY <1>7 DEF Holds
  <2> QED BY <1>1, <1>4, <2>1, PutOnce
<1>9. TitlesKept(new, list)
  <2> SUFFICES ASSUME NEW e \in ToSet(list), NEW d \in ToSet(list), SameTitle(e, d)
               PROVE  Together(new, e, d)
    BY DEF TitlesKept
  <2>1. Together(table, e, d) /\ Together(old, e, d)
    BY <1>2 DEF TitlesKept
  <2>2. e \in ToSet(fs) <=> d \in ToSet(fs)
    BY <1>1, <2>1 DEF Together, InGroup
  <2> QED BY <1>4, <2>1, <2>2, PutKeeps
<1>10. \A j \in DOMAIN new : new[j] = Row(t, fs) \/ (j # at /\ j \in DOMAIN old /\ new[j] = old[j])
  BY <1>4, PutKeeps
<1>11. Row(t, fs).files = fs
  BY DEF Row
<1>12. ASSUME NEW j \in DOMAIN new PROVE From(new[j], table, I \cup {id})
  <2>1. CASE new[j] = Row(t, fs)
    BY <1>1, <1>11, <2>1 DEF From
  <2>2. CASE j # at /\ j \in DOMAIN old /\ new[j] = old[j]
    BY <2>2 DEF From
  <2> QED BY <1>10, <2>1, <2>2
<1>13. \A j \in DOMAIN new : j # at => j \in DOMAIN old /\ new[j] = old[j] /\ Canonical(new[j].files) # id
  <2> SUFFICES ASSUME NEW j \in DOMAIN new, j # at
               PROVE  j \in DOMAIN old /\ new[j] = old[j] /\ Canonical(new[j].files) # id
    OBVIOUS
  <2>1. j \in DOMAIN old /\ new[j] = old[j]
    BY <1>4 DEF PutAt
  <2> QED BY <2>1 DEF From
<1>14. Canonical(new[at].files) = id
  BY <1>1, <1>5, <1>11
<1>15. OnePerSeries(new)
  <2> SUFFICES ASSUME NEW i \in DOMAIN new, NEW j \in DOMAIN new, i # j,
                      Canonical(new[i].files) # NoId, Canonical(new[i].files) = Canonical(new[j].files)
               PROVE  FALSE
    BY DEF OnePerSeries
  <2>1. i # at /\ j # at
    BY <1>13, <1>14
  <2> QED BY <1>13, <2>1 DEF OnePerSeries
<1> QED BY <1>3, <1>6, <1>8, <1>9, <1>12, <1>15 DEF new

LEMMA MergeByTmdbFacts ==
    ASSUME NEW list, NEW T, NEW table, Placed(table, list, T)
    PROVE  /\ Placed(MergeByTmdb(table), list, TmdbTitles(table, T))
           /\ OnePerSeries(MergeByTmdb(table))
<1> DEFINE ids == MatchedIds(table)
           n == Len(ids)
           U == TmdbTitles(table, T)
           I(k) == {NoId} \cup {ids[j] : j \in 1 .. k}
<1>1. /\ table \in Tables(T, Entries) /\ Titled(table) /\ Filled(table) /\ Once(table)
      /\ \A x : Holds(table, x) => x \in ToSet(list)
      /\ TitlesKept(table, list)
  BY DEF Placed
<1>2. table \in Seq([title : T, files : Seq(Entries)])
  BY <1>1 DEF Tables
<1>3. (\E X : ids \in Seq(X)) /\ IsInjective(ids)
  BY <1>2, MatchedIdsFacts
<1>4. \A x : x \in ToSet(ids) <=> x # NoId /\ \E i \in DOMAIN table : Canonical(table[i].files) = x
  BY <1>2, MatchedIdsFacts
<1>5. PICK X : ids \in Seq(X)
  BY <1>3
<1>6. MergeByTmdb(table) = ByTmdb!Fold(table, ids)
  BY MergeByTmdbIs
<1> HIDE DEF ids
<1>7. PICK acc : /\ acc[0] = Unmatched(table)
                 /\ \A k \in 1 .. Len(ids) : acc[k] = TmdbNext(table, acc[k - 1], ids[k])
                 /\ ByTmdb!Fold(table, ids) = acc[Len(ids)]
  BY <1>5, ByTmdb!FoldUnfolds
<1>8. DOMAIN ids = 1 .. n /\ n \in Nat
  BY <1>5
<1>9. ASSUME NEW k \in 1 .. n
      PROVE  ids[k] \in Ids /\ \E i \in DOMAIN table : Canonical(table[i].files) = ids[k]
  <2>1. ids[k] # NoId /\ \E i \in DOMAIN table : Canonical(table[i].files) = ids[k]
    BY <1>4, <1>8 DEF ToSet
  <2>2. PICK i \in DOMAIN table : Canonical(table[i].files) = ids[k]
    BY <2>1
  <2>3. table[i].files \in Seq(Entries)
    BY <1>1, TableFacts
  <2>4. ids[k] \in Ids
    <3> DEFINE fs == table[i].files
    <3>1. fs \in Seq(Entries) /\ Canonical(fs) # NoId /\ Canonical(fs) = ids[k]
      BY <2>1, <2>2, <2>3
    <3> HIDE DEF fs
    <3> QED BY <3>1, CanonicalLeads
  <2> QED BY <2>1, <2>4
<1>10. T \subseteq U
  BY DEF TmdbTitles
<1>11. U = TmdbTitles(table, T)
  OBVIOUS
<1> HIDE DEF U
<1>12. \A k : \A x : x \in I(k) <=> x = NoId \/ \E j \in 1 .. k : ids[j] = x
  OBVIOUS
<1> HIDE DEF I
<1> DEFINE Good(k) == /\ acc[k] \in Tables(U, Entries)
                      /\ Titled(acc[k]) /\ Filled(acc[k]) /\ Once(acc[k])
                      /\ TitlesKept(acc[k], list) /\ OnePerSeries(acc[k])
                      /\ \A j \in DOMAIN acc[k] : From(acc[k][j], table, I(k))
           Bad == {k \in 0 .. n : ~Good(k)}
<1>13. 0 \notin Bad
  <2> DEFINE of == acc[0]
  <2>1. of = TmdbRows(table, NoId)
    BY <1>7 DEF Unmatched
  <2>2. of \in Tables(T, Entries) /\ Titled(of) /\ Filled(of) /\ Once(of)
    BY <1>1, <2>1, TmdbRowsFacts
  <2>3. \A j \in DOMAIN of : Canonical(of[j].files) = NoId
    BY <1>1, <2>1, TmdbRowsFacts
  <2>4. \A x : Holds(of, x) <=> InGroup(table, x, NoId)
    BY <1>1, <2>1, TmdbRowsFacts
  <2>5. \A e, d : Together(table, e, d) => Together(of, e, d)
    BY <1>1, <2>1, TmdbRowsFacts
  <2> HIDE DEF of, Good
  <2>6. of \in Tables(U, Entries)
    BY <1>10, <2>2, TablesGrow
  <2>7. TitlesKept(of, list)
    BY <1>1, <2>5 DEF TitlesKept
  <2>8. OnePerSeries(of)
    BY <2>3 DEF OnePerSeries
  <2>9. \A j \in DOMAIN of : From(of[j], table, I(0))
    <3>1. NoId \in I(0)
      BY <1>12
    <3> QED BY <2>3, <2>4, <3>1 DEF From, Holds
  <2>10. Good(0)
    BY <2>2, <2>6, <2>7, <2>8, <2>9 DEF of, Good
  <2> QED BY <2>10
<1>14. ASSUME NEW k \in 1 .. n, k - 1 \notin Bad PROVE k \notin Bad
  <2> DEFINE old == acc[k - 1]
             new == acc[k]
             id == ids[k]
             J == I(k - 1)
  <2>1. Good(k - 1)
    BY <1>8, <1>14
  <2>2. /\ old \in Tables(U, Entries) /\ Titled(old) /\ Filled(old) /\ Once(old)
        /\ TitlesKept(old, list) /\ OnePerSeries(old)
        /\ \A j \in DOMAIN old : From(old[j], table, J)
    BY <2>1
  <2>3. new = TmdbNext(table, old, id)
    BY <1>7
  <2>4. id \in Ids /\ id # NoId /\ \E i \in DOMAIN table : Canonical(table[i].files) = id
    BY <1>9, BuildingAssumption
  <2>5. id \notin J
    <3>1. \A j \in 1 .. k - 1 : j \in DOMAIN ids /\ k \in DOMAIN ids /\ j # k
      BY <1>8
    <3> QED BY <1>3, <1>12, <2>4, <3>1 DEF IsInjective
  <2>6. I(k) = J \cup {id}
    <3>1. \A j : j \in 1 .. k <=> j \in 1 .. k - 1 \/ j = k
      BY <1>8
    <3>2. \A x : x \in I(k) <=> x \in J \/ x = id
      BY <1>12, <3>1
    <3> QED BY <3>2
  <2> HIDE DEF old, new, id, J, Good, Bad
  <2>7. PICK t, fs : new = Put(old, t, fs) /\ IsTmdbGroup(table, T, id, t, fs)
    BY <1>1, <2>3, <2>4, TmdbIsPut
  <2>8. t \in U
    BY <1>11, <2>7 DEF IsTmdbGroup
  <2>9. LET next == Put(old, t, fs)
        IN  /\ next \in Tables(U, Entries)
            /\ Titled(next) /\ Filled(next) /\ Once(next) /\ TitlesKept(next, list) /\ OnePerSeries(next)
            /\ \A j \in DOMAIN next : From(next[j], table, J \cup {id})
    BY <2>2, <2>4, <2>5, <2>7, <2>8, TmdbStep
  <2>10. Good(k)
    BY <2>6, <2>7, <2>9 DEF Good, new
  <2> QED BY <2>10 DEF Bad
<1>15. Bad \in SUBSET (0 .. n)
  OBVIOUS
<1> HIDE DEF Bad
<1>16. \A k \in 0 .. n : k \notin Bad
  BY <1>8, <1>13, <1>14, <1>15, Keeping!NoneFails
<1>17. Good(n)
  <2>1. n \in 0 .. n
    BY <1>8
  <2> QED BY <1>16, <2>1 DEF Bad
<1> DEFINE q == acc[n]
<1>18. MergeByTmdb(table) = q
  BY <1>6, <1>7
<1>19. /\ q \in Tables(U, Entries) /\ Titled(q) /\ Filled(q) /\ Once(q)
       /\ TitlesKept(q, list) /\ OnePerSeries(q)
       /\ \A j \in DOMAIN q : From(q[j], table, I(n))
  BY <1>17
<1> HIDE DEF q
<1>20. ASSUME NEW x, Holds(q, x) PROVE x \in ToSet(list)
  <2>1. PICK j \in DOMAIN q : x \in ToSet(q[j].files)
    BY <1>20 DEF Holds
  <2>2. InGroup(table, x, Canonical(q[j].files))
    BY <1>19, <2>1 DEF From
  <2> QED BY <1>1, <2>2 DEF InGroup, Holds
<1> QED BY <1>11, <1>18, <1>19, <1>20 DEF Placed

\* What is left over goes to the end, so that every file is shown.
LEMMA AddUngroupedFacts ==
    ASSUME NEW list, ListOK(list), NEW T, NEW table, Placed(table, list, T)
    PROVE  LET new == AddUngrouped(table, list)
           IN  /\ Placed(new, list, T \cup {Unclassified})
               /\ \A x \in ToSet(list) : Holds(new, x)
               /\ \A j \in DOMAIN new : new[j].title # Unclassified => j \in DOMAIN table /\ new[j] = table[j]
<1> DEFINE flat == FilesIn(table)
           K == {e \in ToSet(list) : e \notin ToSet(flat)}
           rest == Kept(list, K)
           new == AddUngrouped(table, list)
           U == T \cup {Unclassified}
           R == [title : T, files : Seq(Entries)]
<1>1. /\ table \in Tables(T, Entries) /\ Titled(table) /\ Filled(table) /\ Once(table)
      /\ \A x : Holds(table, x) => x \in ToSet(list)
      /\ TitlesKept(table, list)
  BY DEF Placed
<1>2. table \in Tables(U, Entries) /\ Unclassified \in U
  BY <1>1, TablesGrow
<1>3. new = IF rest = <<>> THEN table ELSE AddTo(table, Unclassified, rest)
  BY DEF AddUngrouped, Selected
<1>4. \A x : x \in ToSet(flat) <=> Holds(table, x)
  <2>1. table \in Seq(R) /\ \A r \in R : r.files \in Seq(Entries)
    BY <1>1 DEF Tables
  <2> HIDE DEF R
  <2> QED BY <2>1, FilesInFacts
<1>5. \A x : x \in K <=> x \in ToSet(list) /\ ~Holds(table, x)
  BY <1>4
<1> HIDE DEF K, flat, new, U
<1>6. list \in Seq(Entries) /\ IsInjective(list)
  BY DEF ListOK, IsInjective
<1>7. rest \in Seq(Entries) /\ IsInjective(rest)
  BY <1>6, KeptSet
<1>8. \A x : x \in ToSet(rest) <=> x \in ToSet(list) /\ ~Holds(table, x)
  <2>1. \A x : x \in ToSet(rest) <=> x \in ToSet(list) /\ x \in K
    BY <1>6, KeptSet
  <2> QED BY <1>5, <2>1
<1> HIDE DEF rest
<1>9. CASE rest = <<>>
  <2>1. new = table
    BY <1>3, <1>9
  <2>2. \A x \in ToSet(list) : Holds(table, x)
    BY <1>8, <1>9 DEF ToSet
  <2> QED BY <1>1, <1>2, <2>1, <2>2 DEF Placed, U, new
<1>10. CASE rest # <<>>
  <2>1. new = AddTo(table, Unclassified, rest)
    BY <1>3, <1>10
  <2>2. new \in Tables(U, Entries) /\ Titled(new) /\ Filled(new)
    BY <1>1, <1>2, <1>7, <1>10, <2>1, AddFacts
  <2>3. \A x \in ToSet(rest) : ~Holds(table, x)
    BY <1>8
  <2>4. Once(new)
    BY <1>1, <1>2, <1>7, <2>1, <2>3, AddFacts
  <2>5. \A x : Holds(new, x) <=> Holds(table, x) \/ x \in ToSet(rest)
    BY <1>2, <1>7, <2>1, AddFacts
  <2>6. \A e, d : Together(table, e, d) /\ (e \in ToSet(rest) <=> d \in ToSet(rest)) => Together(new, e, d)
    BY <1>2, <1>7, <2>1, AddFacts
  <2>7. TitlesKept(new, list)
    <3> SUFFICES ASSUME NEW e \in ToSet(list), NEW d \in ToSet(list), SameTitle(e, d)
                 PROVE  Together(new, e, d)
      BY DEF TitlesKept
    <3>1. Together(table, e, d)
      BY <1>1 DEF TitlesKept
    <3>2. Holds(table, e) <=> Holds(table, d)
      BY <3>1 DEF Holds, Together
    <3> QED BY <1>8, <2>6, <3>1, <3>2
  <2>8. ASSUME NEW j \in DOMAIN new, new[j].title # Unclassified
        PROVE  j \in DOMAIN table /\ new[j] = table[j]
    <3> DEFINE all == Get(table, Unclassified) \o rest
    <3>1. Get(table, Unclassified) \in Seq(Entries)
      BY <1>2, <1>7, PutFacts
    <3>2. all \in Seq(Entries)
      BY <1>7, <3>1
    <3>3. new = Put(table, Unclassified, all)
      BY <2>1 DEF AddTo
    <3> HIDE DEF all
    <3>4. \E i : PutAt(new, table, i, Unclassified, all)
      BY <1>2, <3>2, <3>3, PutFacts
    <3>5. PICK i : PutAt(new, table, i, Unclassified, all)
      BY <3>4
    <3>6. new[j] = Row(Unclassified, all) \/ (j \in DOMAIN table /\ new[j] = table[j])
      BY <3>5, PutKeeps
    <3> QED BY <2>8, <3>6 DEF Row
  <2>9. \A x : Holds(new, x) => x \in ToSet(list)
    BY <1>1, <1>8, <2>5
  <2>10. \A x \in ToSet(list) : Holds(new, x)
    BY <1>8, <2>5
  <2>11. Placed(new, list, U)
    BY <2>2, <2>4, <2>7, <2>9 DEF Placed
  <2> QED BY <2>8, <2>10, <2>11 DEF new, U
<1> QED BY <1>9, <1>10

-----------------------------------------------------------------------------
(* A build and an update.                                                    *)
\* What the view shows for a list: groups by number, that hold the files of the
\* list, each once, those of one title together, no two groups of one series.
IsGroup(g, i) ==
    /\ g = [id |-> i, title |-> g.title, files |-> g.files, rest |-> g.rest]
    /\ g.files \in Seq(Entries) /\ g.files # <<>>
SeriesApart(gs) ==
    \A i, j \in DOMAIN gs :
      i # j /\ ~gs[i].rest /\ ~gs[j].rest =>
        \/ Canonical(gs[i].files) = NoId
        \/ Canonical(gs[i].files) # Canonical(gs[j].files)
Shown(gs, list) ==
    /\ gs \in Seq(ToSet(gs))
    /\ \A i \in DOMAIN gs : IsGroup(gs[i], i)
    /\ Once(gs)
    /\ \A x : Holds(gs, x) <=> x \in ToSet(list)
    /\ TitlesKept(gs, list) /\ SeriesApart(gs)

LEMMA GroupDictsFacts ==
    ASSUME NEW list, NEW T, NEW last, NEW table, Placed(last, list, T), OnePerSeries(table),
           \A x \in ToSet(list) : Holds(last, x),
           \A j \in DOMAIN last : last[j].title # Unclassified => j \in DOMAIN table /\ last[j] = table[j]
    PROVE  Shown(GroupDicts(last), list)
<1> DEFINE gs == GroupDicts(last)
<1>1. /\ last \in Tables(T, Entries) /\ Filled(last) /\ Once(last)
      /\ \A x : Holds(last, x) => x \in ToSet(list)
      /\ TitlesKept(last, list)
  BY DEF Placed
<1>2. /\ DOMAIN last = 1 .. Len(last) /\ Len(last) \in Nat
      /\ \A i \in DOMAIN last : last[i].files \in Seq(Entries) /\ last[i].files # <<>>
  BY <1>1, TableFacts DEF Filled
<1>3. gs = [i \in 1 .. Len(last) |-> GroupDict(i, last[i].title, last[i].files)]
  BY <1>2 DEF GroupDicts
<1> HIDE DEF gs
<1>4. DOMAIN gs = DOMAIN last
  BY <1>2, <1>3
<1>5. ASSUME NEW i \in DOMAIN last
      PROVE  /\ gs[i].files = last[i].files /\ gs[i].rest = (last[i].title = Unclassified)
             /\ IsGroup(gs[i], i)
  <2> DEFINE name == last[i].title
             fs == last[i].files
             t == DisplayTitle(fs, name)
             r == (name = Unclassified)
  <2>1. gs[i] = [id |-> i, title |-> t, files |-> fs, rest |-> r]
    BY <1>2, <1>3 DEF GroupDict
  <2>2. fs \in Seq(Entries) /\ fs # <<>>
    BY <1>2
  <2> HIDE DEF name, fs, t, r
  <2>3. gs[i].title = t /\ gs[i].files = fs /\ gs[i].rest = r
    BY <2>1
  <2> QED BY <2>1, <2>2, <2>3 DEF IsGroup, name, fs, r
<1>6. gs \in Seq(ToSet(gs))
  <2>1. \A i \in 1 .. Len(last) : gs[i] \in ToSet(gs)
    BY <1>2, <1>4 DEF ToSet
  <2>2. gs = [i \in 1 .. Len(last) |-> gs[i]]
    BY <1>3
  <2> QED BY <1>2, <2>1, <2>2
<1>7. Once(gs)
  BY <1>1, <1>4, <1>5 DEF Once
<1>8. \A x : Holds(gs, x) <=> x \in ToSet(list)
  BY <1>1, <1>4, <1>5 DEF Holds
<1>9. TitlesKept(gs, list)
  BY <1>1, <1>4, <1>5 DEF TitlesKept, Together
<1>10. SeriesApart(gs)
  <2> SUFFICES ASSUME NEW i \in DOMAIN gs, NEW j \in DOMAIN gs, i # j, ~gs[i].rest, ~gs[j].rest
               PROVE  \/ Canonical(gs[i].files) = NoId
                      \/ Canonical(gs[i].files) # Canonical(gs[j].files)
    BY DEF SeriesApart
  <2>1. last[i].title # Unclassified /\ last[j].title # Unclassified
    BY <1>4, <1>5
  <2>2. /\ i \in DOMAIN table /\ last[i] = table[i] /\ j \in DOMAIN table /\ last[j] = table[j]
    BY <1>4, <2>1
  <2>3. gs[i].files = table[i].files /\ gs[j].files = table[j].files
    BY <1>4, <1>5, <2>2
  <2> QED BY <2>2, <2>3 DEF OnePerSeries
<1> QED BY <1>4, <1>5, <1>6, <1>7, <1>8, <1>9, <1>10 DEF Shown, gs

\* A full build, whatever fails.
LEMMA BuildFacts ==
    ASSUME NEW list, ListOK(list), parsed \in Namings, weight \in Weights, NEW f
    PROVE  Shown(BuildGroups(list, f), list)
<1> DEFINE sc == Scanned(list)
           gs == GroupFiles(sc, weight, f.failed, f.raises)
           series == SeriesGroups(gs, list)
           one == MergeByTmdb(series)
           last == AddUngrouped(one, list)
           some == IF "hash" \in f.failed THEN <<>> ELSE sc
<1>1. BuildGroups(list, f) = GroupDicts(last)
  BY DEF BuildGroups
<1>2. sc \in Seq(Scans) /\ IsInjective(sc)
  BY ScannedFacts
<1>3. weight \in [Matchers -> Nat] /\ \A s \in Scans : s.title \in Titles
  BY TitlesAssumption DEF Scans
<1>4. some \in {<<>>, Scanned(list)} /\ ("hash" \in f.failed => some = <<>>) /\ ("hash" \notin f.failed => some = sc)
  OBVIOUS
<1> HIDE DEF sc, some
<1>5. Partition(gs, some, MergedTitles, Scans)
  BY <1>2, <1>3, <1>4, GroupFilesFacts
<1> HIDE DEF gs
<1>6. Placed(series, list, SeriesTitles)
  BY <1>4, <1>5, SeriesFacts
<1> HIDE DEF series
<1>7. Placed(one, list, TmdbTitles(series, SeriesTitles)) /\ OnePerSeries(one)
  BY <1>6, MergeByTmdbFacts
<1> DEFINE T == TmdbTitles(series, SeriesTitles)
<1> HIDE DEF one, T
<1>8. /\ Placed(last, list, T \cup {Unclassified})
      /\ \A x \in ToSet(list) : Holds(last, x)
      /\ \A j \in DOMAIN last : last[j].title # Unclassified => j \in DOMAIN one /\ last[j] = one[j]
  BY <1>7, AddUngroupedFacts DEF T
<1> HIDE DEF last
<1>9. Shown(GroupDicts(last), list)
  BY <1>7, <1>8, GroupDictsFacts
<1> QED BY <1>1, <1>9

\* The groups brought up to date, if no two of them turn out to be one.
LEMMA UpdatedFacts ==
    ASSUME NEW old, ListOK(old), NEW list, ListOK(list), NEW gs, Shown(gs, old), FastPathTaken(gs, list)
    PROVE  Shown(Updated(gs, list), list)
<1> DEFINE new == Updated(gs, list)
           L(i) == LookUp(list, gs[i].files)
<1>1. /\ gs \in Seq(ToSet(gs)) /\ \A i \in DOMAIN gs : IsGroup(gs[i], i)
      /\ Once(gs) /\ TitlesKept(gs, old)
  BY DEF Shown
<1>2. \A x : Holds(gs, x) <=> x \in ToSet(old)
  BY DEF Shown
<1>3. DOMAIN gs = 1 .. Len(gs) /\ Len(gs) \in Nat
  BY <1>1
<1>4. \A i \in DOMAIN gs : gs[i].files \in Seq(Entries) /\ gs[i].files # <<>>
  BY <1>1 DEF IsGroup
<1>5. PathsOf(list) = PathsOf(old)
  <2> DEFINE R == ToSet(gs)
             flat == FilesIn(gs)
  <2>1. gs \in Seq(R) /\ \A r \in R : r.files \in Seq(Entries)
    BY <1>1, <1>4 DEF ToSet
  <2> HIDE DEF R
  <2>2. \A x : x \in ToSet(flat) <=> Holds(gs, x)
    BY <2>1, FilesInFacts
  <2>3. PathsOf(list) = PathsOf(flat)
    BY DEF FastPathTaken
  <2> HIDE DEF flat
  <2>4. \A p : p \in PathsOf(flat) <=> \E x \in ToSet(flat) : x.path = p
    BY DEF PathsOf, ToSet
  <2>5. \A p : p \in PathsOf(old) <=> \E x \in ToSet(old) : x.path = p
    BY DEF PathsOf, ToSet
  <2>6. \A p : p \in PathsOf(flat) <=> p \in PathsOf(old)
    BY <1>2, <2>2, <2>4, <2>5
  <2>7. PathsOf(flat) \subseteq PathsOf(old) /\ PathsOf(old) \subseteq PathsOf(flat)
    BY <2>6
  <2> QED BY <2>3, <2>7
<1>6. \A x, y \in ToSet(old) : x.path = y.path => x = y
  BY DEF ListOK, ToSet
<1>7. \A i \in DOMAIN gs : \A x \in ToSet(gs[i].files) : x \in ToSet(old)
  BY <1>2 DEF Holds
<1>8. ASSUME NEW i \in DOMAIN gs
      PROVE  /\ L(i) \in Seq(Entries) /\ L(i) # <<>> /\ IsInjective(L(i))
             /\ \A e : e \in ToSet(L(i)) <=> e \in ToSet(list) /\ e.path \in PathsOf(gs[i].files)
  <2> DEFINE fs == gs[i].files
  <2>1. fs \in Seq(Entries) /\ fs # <<>>
    BY <1>4
  <2>2. \A k \in DOMAIN fs : fs[k] \in ToSet(old)
    BY <1>7 DEF ToSet
  <2>3. \A k, l \in DOMAIN fs : fs[k].path = fs[l].path => k = l
    <3>1. \A k, l \in DOMAIN fs : fs[k] = fs[l] => k = l
      BY <1>1 DEF Once
    <3> QED BY <1>6, <2>2, <3>1
  <2>4. PathsOf(fs) \subseteq PathsOf(list)
    <3>1. \A x \in ToSet(old) : x.path \in PathsOf(list)
      BY <1>5 DEF PathsOf, ToSet
    <3> QED BY <2>2, <3>1 DEF PathsOf
  <2> HIDE DEF fs
  <2>5. LookUp(list, fs) \in Seq(Entries) /\ LookUp(list, fs) # <<>>
    BY <2>1, <2>4, LookUpFacts
  <2>6. \A e : e \in ToSet(LookUp(list, fs)) <=> e \in ToSet(list) /\ e.path \in PathsOf(fs)
    BY <2>1, <2>4, LookUpFacts
  <2>7. IsInjective(LookUp(list, fs))
    BY <2>1, <2>3, <2>4, LookUpFacts
  <2> QED BY <2>5, <2>6, <2>7 DEF fs
<1>9. ASSUME NEW i \in DOMAIN gs, NEW x \in ToSet(old)
      PROVE  x.path \in PathsOf(gs[i].files) <=> x \in ToSet(gs[i].files)
  <2>1. \A k \in DOMAIN gs[i].files : gs[i].files[k] \in ToSet(old)
    BY <1>7 DEF ToSet
  <2> QED BY <1>6, <2>1 DEF PathsOf, ToSet
<1>10. \A e \in ToSet(list) : \E x \in ToSet(old) : x.path = e.path
  <2>1. \A e \in ToSet(list) : e.path \in PathsOf(old)
    BY <1>5 DEF PathsOf, ToSet
  <2> QED BY <2>1 DEF PathsOf, ToSet
<1>11. ASSUME NEW i \in DOMAIN gs PROVE Renewed(gs[i], list) = L(i)
  BY DEF Renewed, LookUp, EntryAt, PathPlace
<1>12. DOMAIN new = DOMAIN gs
  BY DEF Updated
<1>13. ASSUME NEW i \in DOMAIN gs
       PROVE  new[i].files = L(i) /\ new[i].rest = gs[i].rest /\ IsGroup(new[i], i)
  <2> DEFINE g == gs[i]
             fs == L(i)
             t == DisplayTitle(fs, g.title)
  <2>1. g = [id |-> i, title |-> g.title, files |-> g.files, rest |-> g.rest]
    BY <1>1 DEF IsGroup
  <2>2. new[i] = [g EXCEPT !.title = t, !.files = fs, !.id = i]
    BY <1>11 DEF Updated
  <2>3. fs \in Seq(Entries) /\ fs # <<>>
    BY <1>8
  <2> HIDE DEF g, fs, t, new
  <2>4. new[i] = [id |-> i, title |-> t, files |-> fs, rest |-> g.rest]
    BY <2>1, <2>2
  <2>5. new[i].title = t /\ new[i].files = fs /\ new[i].rest = g.rest
    BY <2>4
  <2> QED BY <2>3, <2>4, <2>5 DEF IsGroup, g, fs
<1>14. new \in Seq(ToSet(new))
  <2>1. new = [i \in 1 .. Len(gs) |-> new[i]]
    BY <1>3 DEF Updated
  <2> HIDE DEF new
  <2>2. \A i \in 1 .. Len(gs) : new[i] \in ToSet(new)
    BY <1>3, <1>12 DEF ToSet
  <2> QED BY <1>3, <2>1, <2>2
<1> HIDE DEF new, L
<1>15. ASSUME NEW i \in DOMAIN gs, NEW j \in DOMAIN gs, NEW e, e \in ToSet(L(i)), e \in ToSet(L(j))
       PROVE  i = j
  <2>1. /\ e \in ToSet(list) /\ e.path \in PathsOf(gs[i].files) /\ e.path \in PathsOf(gs[j].files)
    BY <1>8, <1>15
  <2>2. PICK x \in ToSet(old) : x.path = e.path
    BY <1>10, <2>1
  <2>3. x \in ToSet(gs[i].files) /\ x \in ToSet(gs[j].files)
    BY <1>9, <2>1, <2>2
  <2> QED BY <1>1, <2>3 DEF Once, ToSet
<1>16. Once(new)
  <2> SUFFICES ASSUME NEW i \in DOMAIN new, NEW j \in DOMAIN new,
                      NEW k \in DOMAIN new[i].files, NEW l \in DOMAIN new[j].files,
                      new[i].files[k] = new[j].files[l]
               PROVE  i = j /\ k = l
    BY DEF Once
  <2>1. i \in DOMAIN gs /\ j \in DOMAIN gs /\ new[i].files = L(i) /\ new[j].files = L(j)
    BY <1>12, <1>13
  <2>2. i = j
    BY <1>15, <2>1 DEF ToSet
  <2>3. k = l
    BY <1>8, <2>1, <2>2 DEF IsInjective
  <2> QED BY <2>2, <2>3
<1>17. \A x : Holds(new, x) => x \in ToSet(list)
  BY <1>8, <1>12, <1>13 DEF Holds
<1>18. ASSUME NEW e \in ToSet(list) PROVE Holds(new, e)
  <2>1. PICK x \in ToSet(old) : x.path = e.path
    BY <1>10
  <2>2. PICK i \in DOMAIN gs : x \in ToSet(gs[i].files)
    BY <1>2 DEF Holds
  <2>3. e.path \in PathsOf(gs[i].files)
    BY <1>9, <2>1, <2>2
  <2>4. e \in ToSet(L(i))
    BY <1>8, <2>3
  <2> QED BY <1>12, <1>13, <2>4 DEF Holds
<1>19. ASSUME NEW e \in ToSet(list), NEW d \in ToSet(list), SameTitle(e, d), NEW i \in DOMAIN gs,
              e \in ToSet(L(i))
       PROVE  d \in ToSet(L(i))
  <2>1. PICK x \in ToSet(old) : x.path = e.path
    BY <1>10
  <2>2. PICK y \in ToSet(old) : y.path = d.path
    BY <1>10
  <2>3. SameTitle(x, y)
    BY <1>19, <2>1, <2>2 DEF SameTitle
  <2>4. Together(gs, x, y)
    BY <1>1, <2>3 DEF TitlesKept
  <2>5. x \in ToSet(gs[i].files)
    BY <1>8, <1>9, <1>19, <2>1
  <2>6. y \in ToSet(gs[i].files)
    BY <2>4, <2>5 DEF Together
  <2> QED BY <1>8, <1>9, <2>2, <2>6
<1>20. TitlesKept(new, list)
  <2> SUFFICES ASSUME NEW e \in ToSet(list), NEW d \in ToSet(list), SameTitle(e, d), NEW i \in DOMAIN new
               PROVE  e \in ToSet(new[i].files) <=> d \in ToSet(new[i].files)
    BY DEF TitlesKept, Together
  <2>1. SameTitle(d, e)
    BY DEF SameTitle
  <2>2. i \in DOMAIN gs /\ new[i].files = L(i)
    BY <1>12, <1>13
  <2> QED BY <1>19, <2>1, <2>2
<1>21. SeriesApart(new)
  <2> SUFFICES ASSUME NEW i \in DOMAIN new, NEW j \in DOMAIN new, i # j,
                      Canonical(new[i].files) # NoId, Canonical(new[i].files) = Canonical(new[j].files)
               PROVE  FALSE
    BY DEF SeriesApart
  <2>1. i \in DOMAIN gs /\ j \in DOMAIN gs /\ new[i].files = L(i) /\ new[j].files = L(j)
    BY <1>12, <1>13
  <2> DEFINE a == L(i)
             b == L(j)
             c == Canonical(a)
  <2>2. a \in Seq(Entries) /\ b \in Seq(Entries) /\ c # NoId /\ c = Canonical(b)
    BY <1>8, <2>1
  <2>3. a = Renewed(gs[i], list) /\ b = Renewed(gs[j], list)
    BY <1>11, <2>1 DEF L
  <2> HIDE DEF a, b
  <2>4. c \in Ids /\ Leads(a, c) /\ Leads(b, c)
    BY <2>2, CanonicalLeads
  <2> HIDE DEF c
  <2>5. (\E k \in DOMAIN a : a[k].tmdb = c) /\ (\E k \in DOMAIN b : b[k].tmdb = c)
    BY <2>2, <2>4, CntFacts DEF Leads
  <2>6. \E e \in ToSet(a), d \in ToSet(b) : e.tmdb = c /\ d.tmdb = c
    BY <2>5 DEF ToSet
  <2>7. NeedsMerge(gs, list)
    BY <2>1, <2>2, <2>3, <2>6 DEF NeedsMerge, Matched
  <2> QED BY <2>7 DEF FastPathTaken
<1>22. \A i \in DOMAIN new : IsGroup(new[i], i)
  BY <1>12, <1>13
<1> QED BY <1>14, <1>16, <1>17, <1>18, <1>20, <1>21, <1>22 DEF Shown, new

-----------------------------------------------------------------------------
(* The groups on display.                                                    *)
\* The lists that are given to the view.
LEMMA ScanListOK ==
    ASSUME NEW S \in SUBSET ToSet(Paths)
    PROVE  ListOK([i \in 1..Cardinality(S) |-> Plain(Selected(Paths, LAMBDA p : p \in S)[i])])
<1> DEFINE K == {p \in ToSet(Paths) : p \in S}
           kept == Kept(Paths, K)
           list == [i \in 1..Cardinality(S) |-> Plain(Selected(Paths, LAMBDA p : p \in S)[i])]
           n == Cardinality(S)
           P == ToSet(Paths)
<1>1. Paths \in Seq(P) /\ IsInjective(Paths)
  BY BuildingAssumption
<1>2. Selected(Paths, LAMBDA p : p \in S) = kept
  BY DEF Selected
<1>3. K = S
  BY DEF ToSet
<1>4. list = [i \in 1 .. n |-> Plain(kept[i])]
  BY <1>2
<1>5. S \subseteq P
  OBVIOUS
<1>6. \A p \in P : p \in ToSet(Paths)
  OBVIOUS
<1> HIDE DEF K, list, n, P
<1>7. kept \in Seq(P)
  BY <1>1, KeptSet
<1>8. \A x : x \in ToSet(kept) <=> x \in ToSet(Paths) /\ x \in K
  BY <1>1, KeptSet
<1>9. IsInjective(kept)
  BY <1>1, KeptSet
<1> HIDE DEF kept
<1>10. ToSet(kept) = S
  BY <1>3, <1>5, <1>6, <1>8
<1>11. n = Len(kept)
  BY <1>7, <1>9, <1>10, LenOfInjective DEF n
<1>12. \A p \in P : Plain(p) \in Entries /\ Plain(p).path = p
  <2>1. \A p : Plain(p) = [path |-> p, tmdb |-> NoId, conf |-> 0]
    BY DEF Plain
  <2> QED BY <1>6, <2>1 DEF Entries
<1>13. /\ DOMAIN kept = 1 .. n /\ n \in Nat /\ \A i \in 1 .. n : kept[i] \in P
  BY <1>7, <1>11
<1>14. list \in Seq(Entries)
  <2>1. \A i \in 1 .. n : Plain(kept[i]) \in Entries
    BY <1>12, <1>13
  <2> QED BY <1>4, <1>13, <2>1
<1>15. DOMAIN list = 1 .. n /\ \A i \in 1 .. n : list[i].path = kept[i]
  BY <1>4, <1>12, <1>13
<1>16. \A i, j \in DOMAIN list : list[i].path = list[j].path => i = j
  BY <1>9, <1>13, <1>15 DEF IsInjective
<1>17. ListOK(list)
  BY <1>14, <1>16 DEF ListOK
<1> QED BY <1>17 DEF list

\* A list of other entries for the same paths.
LEMMA ListChanged ==
    ASSUME NEW old, ListOK(old), NEW list, list = [i \in DOMAIN old |-> list[i]],
           \A i \in DOMAIN old : list[i] \in Entries /\ list[i].path = old[i].path
    PROVE  ListOK(list)
<1>1. DOMAIN old = 1 .. Len(old) /\ Len(old) \in Nat
  BY DEF ListOK
<1>2. DOMAIN list = DOMAIN old
  OBVIOUS
<1>3. list \in Seq(Entries)
  BY <1>1
<1> QED BY <1>2, <1>3 DEF ListOK

\* A file that is taken for something else, in a list, and all that a match found.
Rematched(e, id, c) == [e EXCEPT !.tmdb = id, !.conf = c]
Chosen(list, m, id, c) == [list EXCEPT ![m].tmdb = id, ![m].conf = c]
Found(list, found, c) ==
    [i \in DOMAIN list |->
       IF found[parsed[list[i].path]] = NoId THEN list[i]
       ELSE Rematched(list[i], found[parsed[list[i].path]], c)]

LEMMA EntryChanged ==
    ASSUME NEW e \in Entries, NEW id \in Ids \cup {NoId}, NEW c \in Confidences
    PROVE  Rematched(e, id, c) \in Entries /\ Rematched(e, id, c).path = e.path
BY DEF Entries, Rematched

LEMMA ChoiceListOK ==
    ASSUME NEW old, ListOK(old), NEW m \in DOMAIN old, NEW id \in Ids, NEW c \in Confidences
    PROVE  ListOK(Chosen(old, m, id, c))
<1> DEFINE e == old[m]
           d == Rematched(e, id, c)
           list == Chosen(old, m, id, c)
<1>1. /\ DOMAIN old = 1 .. Len(old) /\ \A i \in DOMAIN old : old[i] \in Entries
      /\ old = [i \in DOMAIN old |-> old[i]]
  BY DEF ListOK
<1>2. list = [old EXCEPT ![m] = d]
  BY <1>1 DEF Chosen, Rematched
<1>3. d \in Entries /\ d.path = e.path
  BY <1>1, EntryChanged
<1> HIDE DEF d, list
<1>4. list = [i \in DOMAIN old |-> list[i]]
  BY <1>1, <1>2
<1>5. \A i \in DOMAIN old : list[i] = IF i = m THEN d ELSE old[i]
  BY <1>1, <1>2
<1>6. ListOK(list)
  BY <1>1, <1>3, <1>4, <1>5, ListChanged
<1> QED BY <1>6 DEF list

LEMMA MatchListOK ==
    ASSUME NEW old, ListOK(old), NEW found, NEW c \in Confidences,
           \A i \in DOMAIN old : found[parsed[old[i].path]] \in Ids \cup {NoId}
    PROVE  ListOK(Found(old, found, c))
<1> DEFINE list == Found(old, found, c)
<1>1. \A i \in DOMAIN old : old[i] \in Entries
  BY DEF ListOK
<1>2. ASSUME NEW i \in DOMAIN old PROVE list[i] \in Entries /\ list[i].path = old[i].path
  <2> DEFINE e == old[i]
             id == found[parsed[old[i].path]]
  <2>1. list[i] = IF id = NoId THEN e ELSE Rematched(e, id, c)
    BY DEF Found
  <2>2. e \in Entries /\ id \in Ids \cup {NoId}
    BY <1>1
  <2> HIDE DEF e, id, list
  <2>3. list[i] \in Entries /\ list[i].path = e.path
    BY <2>1, <2>2, EntryChanged
  <2> QED BY <2>3 DEF e
<1>3. list = [i \in DOMAIN old |-> list[i]]
  BY DEF Found
<1> HIDE DEF list
<1>4. ListOK(list)
  BY <1>2, <1>3, ListChanged
<1> QED BY <1>4 DEF list

\* The invariant: what is shown is what the list says.
GroupsInv ==
    /\ part = "groups" => parsed \in Namings /\ weight \in Weights
    /\ part # "groups" => files = <<>> /\ groups = <<>>
    /\ ListOK(files) /\ Shown(groups, files)

LEMMA NothingShown == ListOK(<<>>) /\ Shown(<<>>, <<>>)
<1>1. DOMAIN <<>> = {}
  OBVIOUS
<1>2. <<>> \in Seq(Entries) /\ <<>> \in Seq(ToSet(<<>>))
  OBVIOUS
<1> QED BY <1>1, <1>2 DEF ListOK, Shown, Once, Holds, TitlesKept, SeriesApart, ToSet

LEMMA GroupsInitial == LibraryInit => GroupsInv
BY NothingShown DEF LibraryInit, GroupsInit, GroupsInv

LEMMA ListGiven ==
    ASSUME GroupsInv, part = "groups", part' = part, NEW list, ListOK(list), SetFileMetadata(list)
    PROVE  GroupsInv'
<1>1. files' = list /\ parsed' = parsed /\ weight' = weight
  BY DEF SetFileMetadata
<1>2. parsed \in Namings /\ weight \in Weights /\ ListOK(files) /\ Shown(groups, files)
  BY DEF GroupsInv
<1>3. Shown(groups', list)
  <2>1. CASE list = <<>> /\ groups' = <<>>
    BY <2>1, NothingShown
  <2>2. CASE FastPathTaken(groups, list) /\ groups' = Updated(groups, list)
    BY <1>2, <2>2, UpdatedFacts
  <2>3. CASE \E f \in Failures(list) : groups' = BuildGroups(list, f)
    BY <1>2, <2>3, BuildFacts
  <2> QED BY <2>1, <2>2, <2>3 DEF SetFileMetadata
<1>4. Shown(groups, files)'
  BY <1>1, <1>3 DEF Shown, TitlesKept, SameTitle
<1>5. ListOK(files)'
  BY <1>1 DEF ListOK
<1> QED BY <1>1, <1>2, <1>4, <1>5 DEF GroupsInv

LEMMA GroupsKept == GroupsInv /\ [LibraryNext]_libraryVars => GroupsInv'
<1> SUFFICES ASSUME GroupsInv, [LibraryNext]_libraryVars PROVE GroupsInv'
  OBVIOUS
<1>1. CASE part' = part /\ UNCHANGED groupVars
  BY <1>1 DEF GroupsInv, groupVars, Shown, TitlesKept, SameTitle, ListOK
<1>2. CASE part = "groups" /\ GroupsNext /\ part' = part
  <2>1. /\ parsed \in Namings /\ ListOK(files)
    BY <1>2 DEF GroupsInv
  <2>2. CASE ScanFinished
    <3>1. PICK S \in SUBSET ToSet(Paths) :
            SetFileMetadata([i \in 1..Cardinality(S) |-> Plain(Selected(Paths, LAMBDA p : p \in S)[i])])
      BY <2>2 DEF ScanFinished
    <3> QED BY <1>2, <3>1, ScanListOK, ListGiven
  <2>3. CASE ChoiceApplied
    <3>1. PICK i \in DOMAIN files, id \in Ids, c \in Confidences :
            SetFileMetadata(Chosen(files, i, id, c))
      BY <2>3, Zenon DEF ChoiceApplied, Chosen
    <3> QED BY <1>2, <2>1, <3>1, ChoiceListOK, ListGiven
  <2>4. CASE MatchFinished
    <3>1. PICK found \in [{parsed[e.path] : e \in ToSet(files)} -> Ids \cup {NoId}], c \in Confidences :
            SetFileMetadata(Found(files, found, c))
      BY <2>4, Zenon DEF MatchFinished, Found, Rematched
    <3>2. \A i \in DOMAIN files : found[parsed[files[i].path]] \in Ids \cup {NoId}
      BY DEF ToSet
    <3> QED BY <1>2, <2>1, <3>1, <3>2, MatchListOK, ListGiven
  <2> QED BY <1>2, <2>2, <2>3, <2>4 DEF GroupsNext
<1> QED BY <1>1, <1>2 DEF LibraryNext, libraryVars

LEMMA ShownIsTrue ==
    ASSUME ListOK(files), Shown(groups, files)
    PROVE  GroupsTrue
<1>1. /\ groups \in Seq(ToSet(groups)) /\ \A i \in DOMAIN groups : IsGroup(groups[i], i)
      /\ Once(groups) /\ TitlesKept(groups, files) /\ SeriesApart(groups)
  BY DEF Shown
<1>2. \A x : Holds(groups, x) <=> x \in ToSet(files)
  BY DEF Shown
<1>3. files \in Seq(Entries) /\ IsInjective(files)
  BY DEF ListOK, IsInjective
<1>4. GroupsTypeOK
  <2>1. ToSet(files) \subseteq Entries
    BY <1>3 DEF ToSet
  <2>2. \A i \in DOMAIN groups : groups[i].id = i /\ groups[i].files # <<>>
    BY <1>1 DEF IsGroup
  <2> QED BY <2>1, <2>2 DEF GroupsTypeOK
<1>5. EachFileShownOnce
  <2> DEFINE R == ToSet(groups)
             flat == FilesIn(groups)
  <2>1. groups \in Seq(R) /\ \A r \in R : r.files \in Seq(Entries)
    BY <1>1 DEF ToSet, IsGroup
  <2> HIDE DEF R
  <2>2. flat \in Seq(Entries)
    BY <2>1, FilesInFacts
  <2>3. \A x : x \in ToSet(flat) <=> Holds(groups, x)
    BY <2>1, FilesInFacts
  <2>4. IsInjective(flat)
    BY <1>1, <2>1, FilesInFacts
  <2>5. ToSet(flat) = ToSet(files)
    BY <1>2, <2>3
  <2>6. Len(flat) = Len(files)
    <3>1. Cardinality(ToSet(flat)) = Len(flat)
      BY <2>2, <2>4, LenOfInjective
    <3>2. Cardinality(ToSet(files)) = Len(files)
      BY <1>3, LenOfInjective
    <3> QED BY <2>5, <3>1, <3>2
  <2> QED BY <1>4, <2>4, <2>5, <2>6 DEF EachFileShownOnce, IsPermutation
<1>6. OneGroupPerSeries
  BY <1>1 DEF SeriesApart, OneGroupPerSeries
<1>7. OneTitleOneGroup
  <2> SUFFICES ASSUME NEW e \in ToSet(files), NEW d \in ToSet(files),
                      parsed[e.path] = parsed[d.path], parsed[e.path] # Unknown,
                      IndexKey[parsed[e.path]] # NoKey
               PROVE  \E i \in DOMAIN groups : {e, d} \subseteq ToSet(groups[i].files)
    BY DEF OneTitleOneGroup
  <2>1. Together(groups, e, d)
    BY <1>1 DEF TitlesKept, SameTitle
  <2>2. PICK i \in DOMAIN groups : e \in ToSet(groups[i].files)
    BY <1>2 DEF Holds
  <2> QED BY <2>1, <2>2 DEF Together
<1> QED BY <1>5, <1>6, <1>7 DEF GroupsTrue

\* What the view shows is a partition of the files it was given last: each in
\* one group, once, as the list has it now, the files of one title together and
\* no two groups of one series, whatever fails in a build and however builds
\* and updates follow each other (build_groups_use_case.py:144-373).
THEOREM GroupsAreTrue == LibrarySpec => []GroupsTrue
<1>1. GroupsInv => GroupsTrue
  BY ShownIsTrue DEF GroupsInv
<1> QED BY <1>1, GroupsInitial, GroupsKept, PTL DEF LibrarySpec

\* FileGrouper, whatever its matchers and refinements do as long as the hash
\* matcher works, has each file in one group, and the enhanced plan made of its
\* groups moves each file, once (title_matcher.py:631-646,
\* organize_service.py:82-131).
THEOREM EachFileKeptOnce == LibrarySpec => [](part = "groups" => GrouperSound)
<1>1. GroupsInv => (part = "groups" => GrouperSound)
  <2> SUFFICES ASSUME GroupsInv, part = "groups" PROVE GrouperSound
    OBVIOUS
  <2>1. ListOK(files) /\ parsed \in Namings /\ weight \in Weights
    BY DEF GroupsInv
  <2> QED BY <2>1, GrouperKeepsFacts, PlanMovesFacts DEF GrouperSound
<1> QED BY <1>1, GroupsInitial, GroupsKept, PTL DEF LibrarySpec

\* The table is model-checked beside other components: it takes no part in
\* their steps.
LEMMA LibraryHasTable == LibrarySpec => TableSpec
<1>1. LibraryInit => TableInit
  BY DEF LibraryInit
<1>2. [LibraryNext]_libraryVars => [TableNext]_tableVars
  <2> SUFFICES ASSUME [LibraryNext]_libraryVars PROVE TableNext \/ UNCHANGED tableVars
    OBVIOUS
  <2> QED BY Zenon DEF LibraryNext, libraryVars
<1> QED BY <1>1, <1>2, PTL DEF LibrarySpec, TableSpec

\* However keys collide and whenever the table grows, the linked nodes behave
\* as an ordered map, and an empty place is left for the next key
\* (linked_hash_table.py:85-286).
THEOREM TableIsOrderedMap == LibrarySpec => TableIsMap
<1>1. TableSpec => TableIsMap
  BY LinkedTableIsMap
<1> QED BY <1>1, LibraryHasTable
=============================================================================

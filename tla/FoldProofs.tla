------------------------------ MODULE FoldProofs ------------------------------
(* What a fold over a sequence comes to, for an operation that depends on a  *)
(* parameter: the models fold over what TMDB answers.  The library states    *)
(* induction with an operator for a parameter; here it is done with the set  *)
(* of the numbers that fail, which would have a least element.  Then what a  *)
(* sequence keeps of another, and what sequences joined to one come to.      *)
EXTENDS Integers, Sequences, WellFoundedInduction, TLAPS

CONSTANTS Op(_, _, _), Base(_)

\* FoldLeft(LAMBDA a, x : Op(p, a, x), Base(p), seq), with its definition expanded.
Greatest(s) == CHOOSE x \in s : \A y \in s : x >= y
Fold(p, seq) ==
    LET iter[s \in SUBSET DOMAIN seq] ==
          IF s = {} THEN Base(p) ELSE Op(p, iter[s \ {Greatest(s)}], seq[Greatest(s)])
    IN  iter[DOMAIN seq]

Less == {ss \in Nat \X Nat : ss[1] < ss[2]}

\* A set of numbers that is not empty has a least one.
LEMMA LeastNumber ==
    ASSUME NEW T \in SUBSET Nat, T # {}
    PROVE  \E m \in T : \A k \in T : m <= k
<1>1. IsWellFoundedOn(Less, Nat)
    BY NatLessThanWellFounded DEF OpToRel, Less
<1>2. \E m \in T : \A k \in T : ~(<<k, m>> \in Less)
    BY <1>1, WFMin
<1>3. \A m, k \in Nat : <<k, m>> \notin Less => m <= k
    BY DEF Less
<1> QED BY <1>2, <1>3

\* Where the first number passes, and each after one that passes, none fails.
THEOREM NoneFails ==
    ASSUME NEW n \in Nat, NEW Bad \in SUBSET (0 .. n), 0 \notin Bad,
           \A k \in 1 .. n : k - 1 \notin Bad => k \notin Bad
    PROVE  \A k \in 0 .. n : k \notin Bad
<1> SUFFICES ASSUME Bad # {} PROVE FALSE
    OBVIOUS
<1>1. PICK m \in Bad : \A k \in Bad : m <= k
    BY LeastNumber
<1> QED BY <1>1

\* The recursive function that FoldLeft is defined by.
IsIter(g, p, seq) ==
    g = [s \in SUBSET DOMAIN seq |->
          IF s = {} THEN Base(p) ELSE Op(p, g[s \ {Greatest(s)}], seq[Greatest(s)])]

LEMMA FoldIsIter == \A p, seq : Fold(p, seq) = (CHOOSE g : IsIter(g, p, seq))[DOMAIN seq]
BY DEF Fold, IsIter

\* The same on the sets of the first k numbers.
IsIterUpTo(g, p, seq, k) ==
    g = [s \in SUBSET (1 .. k) |->
          IF s = {} THEN Base(p) ELSE Op(p, g[s \ {Greatest(s)}], seq[Greatest(s)])]

LEMMA MaxIsLast ==
    ASSUME NEW k \in Nat, NEW s \in SUBSET (1 .. k), k \in s
    PROVE  Greatest(s) = k
<1>1. \A y \in s : k >= y
    OBVIOUS
<1>2. \A x \in s : (\A y \in s : x >= y) => x = k
    OBVIOUS
<1> QED BY <1>1, <1>2 DEF Greatest

\* One number more.
LEMMA IterGrows ==
    ASSUME NEW p, NEW seq, NEW k \in Nat, NEW g, IsIterUpTo(g, p, seq, k)
    PROVE  \E h : IsIterUpTo(h, p, seq, k + 1)
<1> DEFINE m == k + 1
           h == [s \in SUBSET (1 .. m) |->
                   IF m \in s THEN Op(p, g[s \ {m}], seq[m]) ELSE g[s]]
<1>1. \A s \in SUBSET (1 .. m) : m \notin s => s \in SUBSET (1 .. k) /\ h[s] = g[s]
    OBVIOUS
<1>2. \A s \in SUBSET (1 .. k) :
        g[s] = IF s = {} THEN Base(p) ELSE Op(p, g[s \ {Greatest(s)}], seq[Greatest(s)])
    BY DEF IsIterUpTo
<1>3. ASSUME NEW s \in SUBSET (1 .. m)
      PROVE  h[s] = IF s = {} THEN Base(p) ELSE Op(p, h[s \ {Greatest(s)}], seq[Greatest(s)])
  <2>1. CASE m \in s
    <3>1. Greatest(s) = m
        BY <2>1, MaxIsLast
    <3>2. s \ {m} \in SUBSET (1 .. m) /\ m \notin s \ {m}
        OBVIOUS
    <3>3. h[s \ {m}] = g[s \ {m}]
        BY <1>1, <3>2
    <3>4. h[s] = Op(p, g[s \ {m}], seq[m])
        BY <2>1
    <3> HIDE DEF h, m
    <3> QED BY <2>1, <3>1, <3>3, <3>4
  <2>2. CASE m \notin s
    <3>1. h[s] = g[s] /\ s \in SUBSET (1 .. k)
        BY <1>1, <2>2
    <3>2. s \ {Greatest(s)} \in SUBSET (1 .. m) /\ m \notin s \ {Greatest(s)}
        BY <2>2
    <3>3. h[s \ {Greatest(s)}] = g[s \ {Greatest(s)}]
        BY <1>1, <3>2
    <3> HIDE DEF h, m
    <3> QED BY <1>2, <3>1, <3>3
  <2> QED BY <2>1, <2>2
<1>4. h = [s \in SUBSET (1 .. m) |-> h[s]]
    OBVIOUS
<1>5. IsIterUpTo(h, p, seq, m)
  <2> HIDE DEF h, m
  <2> QED BY <1>3, <1>4 DEF IsIterUpTo
<1> QED BY <1>5

LEMMA IterExists ==
    ASSUME NEW p, NEW X, NEW seq \in Seq(X)
    PROVE  \E g : IsIter(g, p, seq)
<1> DEFINE Missing == {k \in Nat : ~ \E g : IsIterUpTo(g, p, seq, k)}
<1>1. 0 \notin Missing
  <2> DEFINE g == [s \in SUBSET (1 .. 0) |-> Base(p)]
  <2>1. \A s \in SUBSET (1 .. 0) : s = {}
      OBVIOUS
  <2>2. IsIterUpTo(g, p, seq, 0)
      BY <2>1 DEF IsIterUpTo
  <2> QED BY <2>2
<1>2. \A k \in Nat : k \notin Missing => k + 1 \notin Missing
    BY IterGrows
<1>3. Missing = {}
  <2> SUFFICES ASSUME Missing # {} PROVE FALSE
      OBVIOUS
  <2>1. PICK m \in Missing : \A k \in Missing : m <= k
      BY LeastNumber
  <2>2. m \in Nat /\ m # 0
      BY <1>1
  <2>3. m - 1 \in Nat /\ m - 1 \notin Missing /\ (m - 1) + 1 = m
    <3> HIDE DEF Missing
    <3> QED BY <2>1, <2>2
  <2> HIDE DEF Missing
  <2> QED BY <1>2, <2>3, <2>1
<1>4. Len(seq) \in Nat /\ DOMAIN seq = 1 .. Len(seq)
    OBVIOUS
<1>5. \E g : IsIterUpTo(g, p, seq, Len(seq))
    BY <1>3, <1>4
<1> QED BY <1>4, <1>5 DEF IsIter, IsIterUpTo

\* A fold goes through the sequence from the first element to the last.
THEOREM FoldUnfolds ==
    ASSUME NEW p, NEW X, NEW seq \in Seq(X)
    PROVE  \E acc :
             /\ acc[0] = Base(p)
             /\ \A k \in 1 .. Len(seq) : acc[k] = Op(p, acc[k - 1], seq[k])
             /\ Fold(p, seq) = acc[Len(seq)]
<1> DEFINE g == CHOOSE g : IsIter(g, p, seq)
           n == Len(seq)
           acc == [k \in 0 .. n |-> g[1 .. k]]
<1>1. n \in Nat /\ DOMAIN seq = 1 .. n
    OBVIOUS
<1>2. IsIter(g, p, seq)
    BY IterExists
<1>3. \A s \in SUBSET (1 .. n) :
        g[s] = IF s = {} THEN Base(p) ELSE Op(p, g[s \ {Greatest(s)}], seq[Greatest(s)])
  <2> HIDE DEF g, n
  <2> QED BY <1>1, <1>2 DEF IsIter
<1>4. acc[0] = Base(p)
  <2>1. 1 .. 0 = {} /\ {} \in SUBSET (1 .. n) /\ 0 \in 0 .. n
      BY <1>1
  <2>2. g[{}] = Base(p)
    <3> HIDE DEF g, n
    <3> QED BY <1>3, <2>1
  <2>3. acc[0] = g[1 .. 0]
    <3> HIDE DEF g, n
    <3> QED BY <2>1
  <2> HIDE DEF g, acc
  <2> QED BY <2>1, <2>2, <2>3
<1>5. ASSUME NEW k \in 1 .. n PROVE acc[k] = Op(p, acc[k - 1], seq[k])
  <2>1. /\ 1 .. k \in SUBSET (1 .. n) /\ k \in 1 .. k /\ k \in Nat
        /\ (1 .. k) \ {k} = 1 .. (k - 1) /\ k - 1 \in 0 .. n /\ k \in 0 .. n
      BY <1>1
  <2>2. Greatest(1 .. k) = k
      BY <2>1, MaxIsLast
  <2>3. g[1 .. k] = Op(p, g[1 .. (k - 1)], seq[k])
    <3> HIDE DEF g, n
    <3> QED BY <1>3, <2>1, <2>2
  <2> HIDE DEF g, n
  <2> QED BY <2>1, <2>3
<1>6. Fold(p, seq) = acc[n]
  <2>1. Fold(p, seq) = g[1 .. n]
      BY <1>1, FoldIsIter
  <2> HIDE DEF g, n
  <2> QED BY <1>1, <2>1
<1> HIDE DEF acc
<1> QED BY <1>4, <1>5, <1>6

-----------------------------------------------------------------------------
(* The same for a function that is defined from 0 up to n.                   *)
IsRecursion(f, p, n) ==
    f = [k \in 0 .. n |-> IF k = 0 THEN Base(p) ELSE Op(p, f[k - 1], k)]

Recursion(p, n) == CHOOSE f : IsRecursion(f, p, n)

LEMMA RecursionExists ==
    ASSUME NEW p, NEW n \in Nat
    PROVE  \E f : IsRecursion(f, p, n)
<1> DEFINE Missing == {k \in 0 .. n : ~ \E f : IsRecursion(f, p, k)}
<1>1. 0 \notin Missing
  <2> DEFINE f == [k \in 0 .. 0 |-> Base(p)]
  <2>1. f[0] = Base(p)
      OBVIOUS
  <2>2. f = [k \in 0 .. 0 |-> IF k = 0 THEN Base(p) ELSE Op(p, f[k - 1], k)]
      OBVIOUS
  <2> QED BY <2>2 DEF IsRecursion
<1>2. ASSUME NEW k \in 1 .. n, k - 1 \notin Missing PROVE k \notin Missing
  <2>1. PICK g : IsRecursion(g, p, k - 1)
      BY <1>2
  <2>2. /\ k - 1 \in Nat /\ k \in Nat /\ k # 0 /\ k \notin 0 .. (k - 1)
        /\ \A i \in 0 .. k : i # k => i \in 0 .. (k - 1)
        /\ \A i \in 0 .. (k - 1) : i \in 0 .. k /\ i # k /\ (i # 0 => i - 1 \in 0 .. (k - 1))
      OBVIOUS
  <2> DEFINE h == [i \in 0 .. k |-> IF i = k THEN Op(p, g[k - 1], k) ELSE g[i]]
  <2>3. \A i \in 0 .. (k - 1) : h[i] = g[i]
      BY <2>2
  <2>4. h[k] = Op(p, g[k - 1], k)
      BY <2>2
  <2>5. \A i \in 0 .. (k - 1) : g[i] = IF i = 0 THEN Base(p) ELSE Op(p, g[i - 1], i)
      BY <2>1 DEF IsRecursion
  <2>6. h = [i \in 0 .. k |-> h[i]]
      OBVIOUS
  <2> HIDE DEF h
  <2>7. ASSUME NEW i \in 0 .. k
        PROVE  h[i] = IF i = 0 THEN Base(p) ELSE Op(p, h[i - 1], i)
    <3>1. CASE i = k
        BY <2>2, <2>3, <2>4, <3>1
    <3>2. CASE i # k
        BY <2>2, <2>3, <2>5, <3>2
    <3> QED BY <3>1, <3>2
  <2>8. IsRecursion(h, p, k)
      BY <2>6, <2>7 DEF IsRecursion
  <2> QED BY <2>8
<1> HIDE DEF Missing
<1>3. \A k \in 0 .. n : k \notin Missing
  <2>1. Missing \in SUBSET (0 .. n)
      BY DEF Missing
  <2> QED BY <1>1, <1>2, <2>1, NoneFails
<1> QED BY <1>3 DEF Missing

\* It starts from the base and takes one step after the other.
THEOREM RecursionUnfolds ==
    ASSUME NEW p, NEW n \in Nat
    PROVE  /\ Recursion(p, n)[0] = Base(p)
           /\ \A k \in 1 .. n : Recursion(p, n)[k] = Op(p, Recursion(p, n)[k - 1], k)
<1> DEFINE f == Recursion(p, n)
<1>1. IsRecursion(f, p, n)
    BY RecursionExists DEF Recursion
<1>2. \A k \in 0 .. n : f[k] = IF k = 0 THEN Base(p) ELSE Op(p, f[k - 1], k)
  <2> HIDE DEF f
  <2> QED BY <1>1 DEF IsRecursion
<1>3. 0 \in 0 .. n /\ \A k \in 1 .. n : k \in 0 .. n /\ k # 0
    OBVIOUS
<1>4. f[0] = Base(p) /\ \A k \in 1 .. n : f[k] = Op(p, f[k - 1], k)
  <2> HIDE DEF f
  <2> QED BY <1>2, <1>3
<1> QED BY <1>4

-----------------------------------------------------------------------------
(* Those of a sequence that are kept, and sequences joined to one.           *)
\* What is kept keeps its order, and nothing else is left out.
Keeps(k, s, S, n, place) ==
    /\ place \in [1 .. Len(k) -> 1 .. n]
    /\ \A i, j \in 1 .. Len(k) : i < j => place[i] < place[j]
    /\ \A i \in 1 .. Len(k) : k[i] = s[place[i]] /\ s[place[i]] \in S
    /\ \A m \in 1 .. n : s[m] \in S => \E i \in 1 .. Len(k) : place[i] = m

\* What is kept of the first numbers, one number after the other.
KeptUpTo(upto, s, S) ==
    /\ upto[0] = <<>>
    /\ \A n \in 1 .. Len(s) :
         upto[n] = IF s[n] \in S THEN Append(upto[n - 1], s[n]) ELSE upto[n - 1]

\* What a sequence keeps of another, where one step was taken for each element.
THEOREM KeptFrom ==
    ASSUME NEW X, NEW s \in Seq(X), NEW S, NEW upto, KeptUpTo(upto, s, S)
    PROVE  upto[Len(s)] \in Seq(X) /\ \E place : Keeps(upto[Len(s)], s, S, Len(s), place)
<1>1. /\ upto[0] = <<>>
      /\ \A n \in 1 .. Len(s) :
           upto[n] = IF s[n] \in S THEN Append(upto[n - 1], s[n]) ELSE upto[n - 1]
    BY DEF KeptUpTo
<1>2. Len(s) \in Nat /\ s \in [1 .. Len(s) -> X]
    OBVIOUS
<1> DEFINE Bad == {n \in 0 .. Len(s) :
                     ~(upto[n] \in Seq(X) /\ \E place : Keeps(upto[n], s, S, n, place))}
<1>3. 0 \notin Bad
  <2>1. Keeps(<<>>, s, S, 0, <<>>)
      BY DEF Keeps
  <2>2. <<>> \in Seq(X)
      OBVIOUS
  <2>3. upto[0] \in Seq(X) /\ \E place : Keeps(upto[0], s, S, 0, place)
    <3> HIDE DEF Keeps
    <3> QED BY <1>1, <2>1, <2>2, Zenon
  <2> QED BY <2>3
<1>4. ASSUME NEW n \in 1 .. Len(s), n - 1 \notin Bad PROVE n \notin Bad
  <2>1. upto[n - 1] \in Seq(X) /\ \E place : Keeps(upto[n - 1], s, S, n - 1, place)
      BY <1>4, <1>2
  <2>2. PICK place : Keeps(upto[n - 1], s, S, n - 1, place)
      BY <2>1
  <2>3. s[n] \in X /\ n \in Nat
      BY <1>2
  <2>4. CASE s[n] \in S
    <3> DEFINE k == upto[n - 1]
               to == [i \in 1 .. Len(k) + 1 |-> IF i = Len(k) + 1 THEN n ELSE place[i]]
    <3>1. upto[n] = Append(k, s[n])
        BY <1>1, <2>4
    <3>2. /\ Len(k) \in Nat /\ Len(upto[n]) = Len(k) + 1
          /\ \A i \in 1 .. Len(k) : upto[n][i] = k[i]
          /\ upto[n][Len(k) + 1] = s[n]
          /\ upto[n] \in Seq(X)
        BY <2>1, <2>3, <3>1
    <3>3. Keeps(k, s, S, n - 1, place)
        BY <2>2
    <3> HIDE DEF k
    <3>4. /\ \A i \in 1 .. Len(k) : to[i] = place[i] /\ place[i] \in 1 .. n - 1
          /\ to[Len(k) + 1] = n
      <4>1. \A i \in 1 .. Len(k) : i \in 1 .. Len(k) + 1 /\ i # Len(k) + 1
          BY <3>2
      <4>2. Len(k) + 1 \in 1 .. Len(k) + 1
          BY <3>2
      <4>3. \A i \in 1 .. Len(k) : place[i] \in 1 .. n - 1
          BY <3>3 DEF Keeps
      <4> QED BY <4>1, <4>2, <4>3
    <3>5. to \in [1 .. Len(k) + 1 -> 1 .. n]
      <4>1. \A i \in 1 .. Len(k) + 1 : i = Len(k) + 1 \/ i \in 1 .. Len(k)
          BY <3>2
      <4>2. n \in 1 .. n /\ \A m \in 1 .. n - 1 : m \in 1 .. n
          BY <2>3
      <4>3. \A i \in 1 .. Len(k) : place[i] \in 1 .. n
          BY <3>4, <4>2
      <4>4. ASSUME NEW i \in 1 .. Len(k) + 1
            PROVE  (IF i = Len(k) + 1 THEN n ELSE place[i]) \in 1 .. n
          BY <4>1, <4>2, <4>3
      <4> QED BY <4>4
    <3> HIDE DEF to
    <3>6. Keeps(upto[n], s, S, n, to)
      <4>1. \A i, j \in 1 .. Len(k) + 1 : i < j => to[i] < to[j]
          BY <2>3, <3>2, <3>3, <3>4 DEF Keeps
      <4>2. \A i \in 1 .. Len(k) + 1 : upto[n][i] = s[to[i]] /\ s[to[i]] \in S
          BY <2>3, <2>4, <3>2, <3>3, <3>4 DEF Keeps
      <4>3. ASSUME NEW m \in 1 .. n, s[m] \in S PROVE \E i \in 1 .. Len(k) + 1 : to[i] = m
        <5>1. CASE m = n
            BY <5>1, <3>2, <3>4
        <5>2. CASE m # n
          <6>1. m \in 1 .. n - 1
              BY <2>3, <5>2
          <6>2. PICK i \in 1 .. Len(k) : place[i] = m
              BY <3>3, <4>3, <6>1 DEF Keeps
          <6> QED BY <3>2, <3>4, <6>2
        <5> QED BY <5>1, <5>2
      <4> QED BY <3>2, <3>5, <4>1, <4>2, <4>3 DEF Keeps
    <3> QED BY <3>2, <3>6
  <2>5. CASE s[n] \notin S
    <3>1. upto[n] = upto[n - 1]
        BY <1>1, <2>5
    <3>2. Keeps(upto[n], s, S, n, place)
      <4> DEFINE k == upto[n - 1]
      <4>1. /\ place \in [1 .. Len(k) -> 1 .. n - 1]
            /\ \A i, j \in 1 .. Len(k) : i < j => place[i] < place[j]
            /\ \A i \in 1 .. Len(k) : k[i] = s[place[i]] /\ s[place[i]] \in S
            /\ \A m \in 1 .. n - 1 : s[m] \in S => \E i \in 1 .. Len(k) : place[i] = m
          BY <2>2 DEF Keeps
      <4> HIDE DEF k
      <4>2. place \in [1 .. Len(k) -> 1 .. n]
          BY <2>3, <4>1
      <4>3. \A m \in 1 .. n : s[m] \in S => m \in 1 .. n - 1
          BY <2>3, <2>5
      <4>4. Keeps(k, s, S, n, place)
          BY <4>1, <4>2, <4>3 DEF Keeps
      <4> QED BY <3>1, <4>4 DEF k
    <3> QED BY <2>1, <3>1, <3>2
  <2> QED BY <2>4, <2>5
<1> HIDE DEF Bad
<1>5. \A n \in 0 .. Len(s) : n \notin Bad
  <2>1. Bad \in SUBSET (0 .. Len(s))
      BY DEF Bad
  <2> QED BY <1>2, <1>3, <1>4, <2>1, NoneFails
<1> QED BY <1>2, <1>5 DEF Bad

\* Each place of the flat sequence is one of one of the parts, in their order.
Spreads(flat, ss, n, row, col) ==
    /\ row \in [1 .. Len(flat) -> 1 .. n] /\ col \in [1 .. Len(flat) -> Nat]
    /\ \A m \in 1 .. Len(flat) :
         col[m] \in 1 .. Len(ss[row[m]]) /\ flat[m] = ss[row[m]][col[m]]
    /\ \A i \in 1 .. n : \A k \in 1 .. Len(ss[i]) :
         \E m \in 1 .. Len(flat) : row[m] = i /\ col[m] = k
    /\ \A l, m \in 1 .. Len(flat) :
         l < m => row[l] < row[m] \/ (row[l] = row[m] /\ col[l] < col[m])

LEMMA SpreadsOn ==
    ASSUME NEW X, NEW ss \in Seq(Seq(X)), NEW n \in 1 .. Len(ss), NEW flat \in Seq(X),
           NEW row, NEW col, Spreads(flat, ss, n - 1, row, col)
    PROVE  /\ flat \o ss[n] \in Seq(X)
           /\ \E r, c : Spreads(flat \o ss[n], ss, n, r, c)
<1> DEFINE a == Len(flat)
           b == Len(ss[n])
           long == flat \o ss[n]
           r == [m \in 1 .. (a + b) |-> IF m <= a THEN row[m] ELSE n]
           c == [m \in 1 .. (a + b) |-> IF m <= a THEN col[m] ELSE m - a]
<1>1. a \in Nat /\ b \in Nat /\ n \in Nat /\ ss[n] \in Seq(X)
  OBVIOUS
<1>2. /\ long \in Seq(X) /\ Len(long) = a + b
      /\ \A m \in 1 .. (a + b) : long[m] = IF m <= a THEN flat[m] ELSE ss[n][m - a]
  BY <1>1
<1>3. \A m \in 1 .. (a + b) : (m <= a => m \in 1 .. a) /\ (~(m <= a) => m - a \in 1 .. b)
  <2> HIDE DEF a, b
  <2> QED BY <1>1
<1>4. \A m \in 1 .. a : /\ row[m] \in 1 .. n - 1 /\ col[m] \in Nat
                        /\ col[m] \in 1 .. Len(ss[row[m]]) /\ flat[m] = ss[row[m]][col[m]]
  BY DEF Spreads
<1>5. \A i \in 1 .. n - 1 : i \in 1 .. n /\ i < n /\ n \in 1 .. n
  BY <1>1
<1>6. \A m \in 1 .. (a + b) : /\ r[m] = IF m <= a THEN row[m] ELSE n
                              /\ c[m] = IF m <= a THEN col[m] ELSE m - a
  OBVIOUS
<1>7. \A m \in 1 .. a : m \in 1 .. (a + b) /\ m <= a
  BY <1>1
<1>8. \A k \in 1 .. b : a + k \in 1 .. (a + b) /\ ~(a + k <= a) /\ (a + k) - a = k
  BY <1>1
<1>9. r \in [1 .. (a + b) -> 1 .. n] /\ c \in [1 .. (a + b) -> Nat]
  <2>1. ASSUME NEW m \in 1 .. (a + b)
        PROVE  /\ (IF m <= a THEN row[m] ELSE n) \in 1 .. n
               /\ (IF m <= a THEN col[m] ELSE m - a) \in Nat
    <3>1. CASE m <= a
      BY <1>3, <1>4, <1>5, <3>1
    <3>2. CASE ~(m <= a)
      BY <1>1, <1>3, <3>2
    <3> QED BY <3>1, <3>2
  <2> QED BY <2>1
<1> HIDE DEF a, b, long, r, c
<1>10. \A m \in 1 .. (a + b) : c[m] \in 1 .. Len(ss[r[m]]) /\ long[m] = ss[r[m]][c[m]]
  BY <1>2, <1>3, <1>4, <1>6 DEF b
<1>11. ASSUME NEW i \in 1 .. n, NEW k \in 1 .. Len(ss[i])
       PROVE  \E m \in 1 .. (a + b) : r[m] = i /\ c[m] = k
  <2>1. CASE i = n
    BY <1>6, <1>8, <2>1 DEF b
  <2>2. CASE i # n
    <3>1. i \in 1 .. n - 1
      BY <1>1, <2>2
    <3>2. PICK m \in 1 .. a : row[m] = i /\ col[m] = k
      BY <3>1 DEF Spreads, a
    <3> QED BY <1>6, <1>7, <3>2
  <2> QED BY <2>1, <2>2
<1>12. ASSUME NEW l \in 1 .. (a + b), NEW m \in 1 .. (a + b), l < m
       PROVE  r[l] < r[m] \/ (r[l] = r[m] /\ c[l] < c[m])
  <2>1. CASE m <= a
    <3>1. l \in 1 .. a /\ m \in 1 .. a
      BY <1>1, <1>12, <2>1
    <3>2. row[l] < row[m] \/ (row[l] = row[m] /\ col[l] < col[m])
      BY <1>12, <3>1 DEF Spreads, a
    <3> QED BY <1>6, <1>7, <3>1, <3>2
  <2>2. CASE ~(m <= a) /\ l <= a
    BY <1>3, <1>4, <1>5, <1>6, <2>2
  <2>3. CASE ~(m <= a) /\ ~(l <= a)
    <3>1. l - a < m - a
      BY <1>1, <1>12
    <3> QED BY <1>6, <2>3, <3>1
  <2> QED BY <2>1, <2>2, <2>3
<1>13. Spreads(long, ss, n, r, c)
  BY <1>2, <1>9, <1>10, <1>11, <1>12 DEF Spreads
<1>14. long = flat \o ss[n]
  BY DEF long
<1> QED BY <1>2, <1>13, <1>14

\* What a sequence of sequences joined one after the other comes to.
THEOREM SpreadsFrom ==
    ASSUME NEW X, NEW ss \in Seq(Seq(X)), NEW f, f[0] = <<>>,
           \A k \in 1 .. Len(ss) : f[k] = f[k - 1] \o ss[k]
    PROVE  /\ f[Len(ss)] \in Seq(X)
           /\ \E row, col : Spreads(f[Len(ss)], ss, Len(ss), row, col)
<1>1. Len(ss) \in Nat
  OBVIOUS
<1> DEFINE Good(n) == f[n] \in Seq(X) /\ \E row, col : Spreads(f[n], ss, n, row, col)
           Bad == {n \in 0 .. Len(ss) : ~Good(n)}
<1>2. 0 \notin Bad
  <2>1. Spreads(<<>>, ss, 0, <<>>, <<>>) /\ <<>> \in Seq(X)
    BY DEF Spreads
  <2>2. Good(0)
    <3> HIDE DEF Spreads
    <3> QED BY <2>1, Zenon
  <2> QED BY <2>2
<1>3. ASSUME NEW n \in 1 .. Len(ss), n - 1 \notin Bad PROVE n \notin Bad
  <2>1. Good(n - 1)
    BY <1>1, <1>3
  <2>2. f[n] = f[n - 1] \o ss[n]
    OBVIOUS
  <2>3. PICK row, col : Spreads(f[n - 1], ss, n - 1, row, col)
    BY <2>1
  <2>4. Good(n)
    BY <2>1, <2>2, <2>3, SpreadsOn
  <2> QED BY <2>4
<1> HIDE DEF Bad, Good
<1>4. \A n \in 0 .. Len(ss) : n \notin Bad
  <2>1. Bad \in SUBSET (0 .. Len(ss))
    BY DEF Bad
  <2> QED BY <1>1, <1>2, <1>3, <2>1, NoneFails
<1> QED BY <1>1, <1>4 DEF Bad, Good

\* Each place of the flat sequence is at one place of the parts, and each is met once.
Placed(flat, ss, row, col) ==
    /\ \A m \in DOMAIN flat : /\ row[m] \in DOMAIN ss /\ col[m] \in DOMAIN ss[row[m]]
                              /\ flat[m] = ss[row[m]][col[m]]
                              /\ row[m] \in Nat /\ col[m] \in Nat
    /\ \A i \in DOMAIN ss : \A k \in DOMAIN ss[i] :
         \E m \in DOMAIN flat : row[m] = i /\ col[m] = k
    /\ \A l, m \in DOMAIN flat : row[l] = row[m] /\ col[l] = col[m] => l = m

\* The places of sequences joined to one.
THEOREM PlacesSpread ==
    ASSUME NEW X, NEW ss \in Seq(Seq(X)), NEW flat \in Seq(X), NEW row, NEW col,
           Spreads(flat, ss, Len(ss), row, col)
    PROVE  Placed(flat, ss, row, col)
<1>1. /\ DOMAIN flat = 1 .. Len(flat) /\ DOMAIN ss = 1 .. Len(ss) /\ Len(flat) \in Nat
      /\ Len(ss) \in Nat /\ \A i \in DOMAIN ss : DOMAIN ss[i] = 1 .. Len(ss[i])
  OBVIOUS
<1>2. /\ \A m \in DOMAIN flat : /\ row[m] \in DOMAIN ss /\ col[m] \in DOMAIN ss[row[m]]
                                /\ flat[m] = ss[row[m]][col[m]]
                                /\ row[m] \in Nat /\ col[m] \in Nat
      /\ \A i \in DOMAIN ss : \A k \in DOMAIN ss[i] :
           \E m \in DOMAIN flat : row[m] = i /\ col[m] = k
  <2>1. ASSUME NEW m \in DOMAIN flat
        PROVE  /\ row[m] \in DOMAIN ss /\ col[m] \in DOMAIN ss[row[m]]
               /\ flat[m] = ss[row[m]][col[m]]
               /\ row[m] \in Nat /\ col[m] \in Nat
    <3>1. row[m] \in 1 .. Len(ss) /\ col[m] \in Nat
      BY <1>1 DEF Spreads
    <3>2. col[m] \in 1 .. Len(ss[row[m]]) /\ flat[m] = ss[row[m]][col[m]]
      BY <1>1 DEF Spreads
    <3> QED BY <1>1, <3>1, <3>2
  <2>2. ASSUME NEW i \in DOMAIN ss, NEW k \in DOMAIN ss[i]
        PROVE  \E m \in DOMAIN flat : row[m] = i /\ col[m] = k
    <3>1. i \in 1 .. Len(ss) /\ k \in 1 .. Len(ss[i])
      BY <1>1
    <3>2. \E m \in 1 .. Len(flat) : row[m] = i /\ col[m] = k
      BY <3>1 DEF Spreads
    <3> QED BY <1>1, <3>2
  <2> QED BY <2>1, <2>2
<1>3. ASSUME NEW l \in DOMAIN flat, NEW m \in DOMAIN flat, row[l] = row[m], col[l] = col[m]
      PROVE  l = m
  <2>1. row[l] \in Nat /\ col[l] \in Nat /\ row[m] \in Nat /\ col[m] \in Nat
    BY <1>1, <1>2
  <2>2. \A x, y \in 1 .. Len(flat) :
          x < y => row[x] < row[y] \/ (row[x] = row[y] /\ col[x] < col[y])
    BY DEF Spreads
  <2>3. ~(l < m) /\ ~(m < l)
    BY <1>1, <1>3, <2>1, <2>2
  <2> QED BY <1>1, <2>3
<1> QED BY <1>2, <1>3 DEF Placed
=============================================================================

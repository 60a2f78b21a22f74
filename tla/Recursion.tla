------------------------------ MODULE Recursion ------------------------------
(***************************************************************************)
(* Induction over the natural numbers, and what it gives: the values of a  *)
(* fold.  The library states induction for an operator P(_); here it is    *)
(* stated for a set P, and rests on the pigeonhole principle for finite    *)
(* sets.                                                                   *)
(***************************************************************************)
EXTENDS Integers, FiniteSets, SequencesExt, FiniteSetTheorems, SequenceTheorems, TLAPS

\* Some number is the least: were there always a lesser one, n + 1 would put
\* the numbers below all of T into themselves without 0, and one to one.
LEMMA LeastNat ==
  ASSUME NEW T, T \subseteq Nat, T # {}
  PROVE  \E m \in T : \A n \in T : m <= n
<1> SUFFICES ASSUME \A m \in T : \E n \in T : n < m
             PROVE  FALSE
  BY SMT
<1>1. PICK k \in T : TRUE
  OBVIOUS
<1> DEFINE Below == {n \in 0 .. k : \A m \in T : n < m}
           succ == [n \in Below |-> n + 1]
<1>2. 0 \in Below
  <2>1. 0 \notin T
    OBVIOUS
  <2> QED
    BY <1>1, <2>1
<1>3. IsFiniteSet(Below) /\ IsFiniteSet(Below \ {0}) /\ Cardinality(Below \ {0}) = Cardinality(Below) - 1
      /\ Cardinality(Below) \in Nat
  <2>1. IsFiniteSet(0 .. k)
    BY <1>1, FS_Interval
  <2>2. IsFiniteSet(Below)
    BY <2>1, FS_Subset
  <2> QED
    BY <1>2, <2>2, FS_RemoveElement, FS_CardinalityType
<1>4. succ \in [Below -> Below \ {0}]
  <2> SUFFICES ASSUME NEW n \in Below PROVE n + 1 \in Below \ {0}
    OBVIOUS
  <2>1. n \in Nat /\ n < k /\ \A m \in T : n < m
    BY <1>1
  <2>2. ASSUME NEW m \in T PROVE n + 1 < m
    <3>1. PICK j \in T : j < m
      OBVIOUS
    <3> QED
      BY <3>1, <2>1
  <2> QED
    BY <1>1, <2>1, <2>2
<1>5. \E x, y \in Below : x # y /\ succ[x] = succ[y]
  <2> HIDE DEF Below, succ
  <2>1. Cardinality(Below \ {0}) < Cardinality(Below)
    BY <1>3
  <2> QED
    BY <1>3, <1>4, <2>1, FS_PigeonHole, Zenon
<1> QED
  BY <1>5

\* Induction over the natural numbers.
LEMMA Induction ==
  ASSUME NEW P, 0 \in P, \A n \in Nat : n \in P => n + 1 \in P
  PROVE  Nat \subseteq P
<1> DEFINE T == Nat \ P
<1> SUFFICES ASSUME T # {} PROVE FALSE
  OBVIOUS
<1>1. PICK m \in T : \A n \in T : m <= n
  <2> HIDE DEF T
  <2>1. T \subseteq Nat
    BY DEF T
  <2> QED
    BY <2>1, LeastNat
<1>2. m # 0 /\ m - 1 \in Nat /\ m - 1 \notin T
  BY <1>1
<1> QED
  BY <1>1, <1>2

\* The same, from all smaller numbers.
LEMMA StrongInduction ==
  ASSUME NEW P, \A n \in Nat : (\A m \in Nat : m < n => m \in P) => n \in P
  PROVE  Nat \subseteq P
<1> DEFINE T == Nat \ P
<1> SUFFICES ASSUME T # {} PROVE FALSE
  OBVIOUS
<1>1. PICK m \in T : \A n \in T : m <= n
  <2> HIDE DEF T
  <2>1. T \subseteq Nat
    BY DEF T
  <2> QED
    BY <2>1, LeastNat
<1> QED
  BY <1>1

-----------------------------------------------------------------------------
\* The greatest of some of the first numbers, when it is the last.
LEMMA MaxOfFirst ==
  ASSUME NEW n \in Nat, NEW s \in SUBSET (1 .. n), n \in s
  PROVE  Max(s) = n
<1>1. \A x \in s : x <= n
  OBVIOUS
<1>2. \E x \in s : \A y \in s : x >= y
  BY <1>1
<1>3. Max(s) \in s /\ \A y \in s : Max(s) >= y
  BY <1>2, Zenon DEF Max
<1>4. Max(s) >= n /\ Max(s) <= n /\ Max(s) \in 1 .. n
  BY <1>1, <1>3
<1> QED
  BY <1>4

\* Of some of the first numbers one is the greatest.
LEMMA MaxOfSome ==
  ASSUME NEW n \in Nat, NEW s \in SUBSET (1 .. n), s # {}
  PROVE  Max(s) \in s /\ \A x \in s : x <= Max(s)
<1> DEFINE Over == {n - x : x \in s}
<1>1. PICK m \in Over : \A k \in Over : m <= k
  <2>1. \A x \in s : n - x \in Nat
    OBVIOUS
  <2>2. Over \subseteq Nat
    BY <2>1
  <2>3. Over # {}
    OBVIOUS
  <2> HIDE DEF Over
  <2> QED
    BY <2>2, <2>3, LeastNat
<1>2. \E x \in s : \A y \in s : x >= y
  <2>1. PICK x \in s : m = n - x
    BY <1>1
  <2>2. ASSUME NEW y \in s PROVE x >= y
    <3>1. m <= n - y
      BY <1>1
    <3> QED
      BY <2>1, <3>1
  <2> QED
    BY <2>2
<1>3. Max(s) \in s /\ \A y \in s : Max(s) >= y
  BY <1>2, Zenon DEF Max
<1> QED
  BY <1>3

\* What a fold takes last of the first n numbers, and what it leaves.
LEMMA FirstNumbers ==
  ASSUME NEW n \in Nat, n > 0
  PROVE  Max(1 .. n) = n /\ (1 .. n) \ {n} = 1 .. n - 1
<1>1. Max(1 .. n) = n
  <2>1. n \in 1 .. n
    OBVIOUS
  <2> QED
    BY <2>1, MaxOfFirst
<1> QED
  BY <1>1

\* f has the values of the fold of step from b, as MapThenFoldSet defines them.
IsFold(f, A, b, N, step) ==
  /\ f \in [SUBSET (1 .. N) -> A]
  /\ \A s \in SUBSET (1 .. N) :
       f[s] = IF s = {} THEN b ELSE step[<<f[s \ {Max(s)}], Max(s)>>]

\* Such a fold has a value on every set of the first N numbers.
LEMMA FoldExists ==
  ASSUME NEW A, NEW b \in A, NEW N \in Nat, NEW step \in [A \X (1 .. N) -> A]
  PROVE  \E f : IsFold(f, A, b, N, step)
<1> DEFINE Folds(n) ==
             {f \in [SUBSET (1 .. n) -> A] :
                \A s \in SUBSET (1 .. n) :
                  f[s] = IF s = {} THEN b ELSE step[<<f[s \ {Max(s)}], Max(s)>>]}
           P == {n \in Nat : n <= N => Folds(n) # {}}
<1>1. 0 \in P
  <2> DEFINE f == [s \in SUBSET (1 .. 0) |-> b]
  <2>1. 1 .. 0 = {}
    OBVIOUS
  <2>2. f \in Folds(0)
    BY <2>1
  <2> QED
    BY <2>2
<1>2. ASSUME NEW n \in Nat, n \in P
      PROVE  n + 1 \in P
  <2> SUFFICES ASSUME n + 1 <= N PROVE Folds(n + 1) # {}
    <3> HIDE DEF Folds
    <3> QED
      OBVIOUS
  <2>1. PICK f \in Folds(n) : TRUE
    <3> HIDE DEF Folds
    <3>1. n <= N
      OBVIOUS
    <3> QED
      BY <1>2, <3>1
  <2> DEFINE g == [s \in SUBSET (1 .. n + 1) |->
                     IF n + 1 \in s THEN step[<<f[s \ {n + 1}], n + 1>>] ELSE f[s]]
  <2>2. \A s \in SUBSET (1 .. n + 1) : (n + 1 \notin s => s \in SUBSET (1 .. n)) /\ s \ {n + 1} \in SUBSET (1 .. n)
    OBVIOUS
  <2>3. \A s \in SUBSET (1 .. n) : f[s] \in A /\ n + 1 \notin s /\ s \in SUBSET (1 .. n + 1)
    OBVIOUS
  <2>4. g \in [SUBSET (1 .. n + 1) -> A]
    BY <2>2, <2>3
  <2>5. ASSUME NEW s \in SUBSET (1 .. n + 1)
        PROVE  g[s] = IF s = {} THEN b ELSE step[<<g[s \ {Max(s)}], Max(s)>>]
    <3>1. CASE n + 1 \in s
      <4>1. Max(s) = n + 1
        BY <3>1, MaxOfFirst
      <4>2. g[s \ {n + 1}] = f[s \ {n + 1}]
        BY <2>2, <2>3
      <4> QED
        BY <3>1, <4>1, <4>2
    <3>2. CASE n + 1 \notin s
      <4>1. s \in SUBSET (1 .. n) /\ g[s] = f[s]
        BY <2>2, <3>2
      <4>2. g[s \ {Max(s)}] = f[s \ {Max(s)}]
        BY <2>3, <4>1
      <4> QED
        BY <4>1, <4>2
    <3> QED
      BY <3>1, <3>2
  <2>6. g \in Folds(n + 1)
    BY <2>4, <2>5
  <2> QED
    BY <2>6
<1>3. N \in P
  <2> HIDE DEF P
  <2> QED
    BY <1>1, <1>2, Induction
<1>4. PICK f \in Folds(N) : TRUE
  <2> HIDE DEF Folds
  <2> QED
    BY <1>3
<1>5. IsFold(f, A, b, N, step)
  BY <1>4 DEF IsFold
<1> QED
  BY <1>5

\* The values of a fold on the prefixes 1 .. k.
IsRun(acc, A, b, N, step) ==
  /\ acc \in [0 .. N -> A]
  /\ acc[0] = b
  /\ \A k \in 1 .. N : acc[k] = step[<<acc[k - 1], k>>]

\* Whatever is defined by such steps takes the values of a fold.
LEMMA StepsAreRun ==
  ASSUME NEW A, NEW b \in A, NEW N \in Nat, NEW step \in [A \X (1 .. N) -> A],
         NEW val, val = [k \in 0 .. N |-> val[k]], val[0] = b,
         \A k \in 1 .. N : val[k - 1] \in A => val[k] = step[<<val[k - 1], k>>]
  PROVE  IsRun(val, A, b, N, step)
<1> DEFINE P == {k \in Nat : k <= N => val[k] \in A}
<1>1. 0 \in P
  OBVIOUS
<1>2. ASSUME NEW k \in Nat, k \in P PROVE k + 1 \in P
  <2> SUFFICES ASSUME k + 1 <= N PROVE val[k + 1] \in A
    OBVIOUS
  <2>1. k + 1 \in 1 .. N /\ (k + 1) - 1 = k /\ k <= N
    OBVIOUS
  <2>3. val[k] \in A
    BY <1>2, <2>1
  <2>2. val[k + 1] = step[<<val[k], k + 1>>]
    BY <2>1, <2>3
  <2> QED
    BY <2>1, <2>2, <2>3
<1>3. \A k \in 0 .. N : k \in P
  <2> HIDE DEF P
  <2> QED
    BY <1>1, <1>2, Induction
<1>4. \A k \in 0 .. N : val[k] \in A
  BY <1>3
<1>5. val \in [0 .. N -> A]
  BY <1>4
<1>6. \A k \in 1 .. N : k - 1 \in 0 .. N
  OBVIOUS
<1> QED
  BY <1>4, <1>5, <1>6 DEF IsRun

\* A fold has a value after each of its steps.
LEMMA RunExists ==
  ASSUME NEW A, NEW b \in A, NEW N \in Nat, NEW step \in [A \X (1 .. N) -> A]
  PROVE  \E acc : IsRun(acc, A, b, N, step)
<1>1. PICK f : IsFold(f, A, b, N, step)
  BY FoldExists, Zenon
<1> DEFINE acc == [k \in 0 .. N |-> f[1 .. k]]
<1>2. 1 .. 0 = {} /\ 0 \in 0 .. N /\ \A k \in 0 .. N : 1 .. k \in SUBSET (1 .. N)
  OBVIOUS
<1>3. acc \in [0 .. N -> A] /\ acc[0] = b
  BY <1>1, <1>2 DEF IsFold
<1>4. ASSUME NEW k \in 1 .. N PROVE acc[k] = step[<<acc[k - 1], k>>]
  <2>1. Max(1 .. k) = k /\ (1 .. k) \ {k} = 1 .. k - 1
    BY FirstNumbers
  <2>2. k \in 0 .. N /\ k - 1 \in 0 .. N /\ k \in 1 .. k
    OBVIOUS
  <2>3. f[1 .. k] = step[<<f[(1 .. k) \ {Max(1 .. k)}], Max(1 .. k)>>]
    BY <1>1, <1>2, <2>2 DEF IsFold
  <2> QED
    BY <2>1, <2>2, <2>3
<1> QED
  BY <1>3, <1>4 DEF IsRun

\* f is defined at x from what it is at x's predecessor, or at x alone.
IsRecursion(f, D, R, stop, prev, base, step) ==
  /\ f \in [D -> R]
  /\ \A x \in D : f[x] = IF x \in stop THEN base[x] ELSE step[<<x, f[prev[x]]>>]

\* A function may be defined so when the predecessors get smaller.
LEMMA RecursionExists ==
  ASSUME NEW D, NEW R, NEW size \in [D -> Nat], NEW stop, NEW prev \in [D -> D],
         NEW base \in [D -> R], NEW step \in [D \X R -> R],
         \A x \in D : x \notin stop => size[prev[x]] < size[x]
  PROVE  \E f : IsRecursion(f, D, R, stop, prev, base, step)
<1> DEFINE Up(g) == [x \in D |-> IF x \in stop THEN base[x] ELSE step[<<x, g[prev[x]]>>]]
           Upto(n) == {g \in [D -> R] : \A x \in D : size[x] < n => g[x] = Up(g)[x]}
           P == {n \in Nat : Upto(n) # {}}
<1>1. 0 \in P
  <2>1. base \in Upto(0)
    OBVIOUS
  <2> QED
    BY <2>1
<1>2. ASSUME NEW n \in Nat, n \in P PROVE n + 1 \in P
  <2>1. PICK g \in Upto(n) : TRUE
    BY <1>2
  <2>2. Up(g) \in [D -> R]
    OBVIOUS
  <2>3. ASSUME NEW x \in D, size[x] < n + 1, x \notin stop
        PROVE  Up(g)[prev[x]] = g[prev[x]]
    <3>1. prev[x] \in D /\ size[prev[x]] < size[x] /\ size[prev[x]] \in Nat /\ size[x] \in Nat
      BY <2>3
    <3>2. size[prev[x]] < n
      BY <2>3, <3>1
    <3> HIDE DEF Up
    <3> QED
      BY <3>1, <3>2
  <2>4. ASSUME NEW x \in D, size[x] < n + 1
        PROVE  Up(g)[x] = Up(Up(g))[x]
    BY <2>3, <2>4
  <2> HIDE DEF Up
  <2> QED
    BY <2>2, <2>4
<1>3. \A n \in Nat : n \in P
  <2> HIDE DEF P
  <2> QED
    BY <1>1, <1>2, Induction
<1>4. ASSUME NEW m \in Nat, NEW n \in Nat, NEW g \in Upto(m), NEW h \in Upto(n)
      PROVE  \A x \in D : size[x] < m /\ size[x] < n => g[x] = h[x]
  <2> DEFINE Q == {k \in Nat : \A x \in D : size[x] = k /\ k < m /\ k < n => g[x] = h[x]}
  <2>1. ASSUME NEW k \in Nat, \A j \in Nat : j < k => j \in Q
        PROVE  k \in Q
    <3> SUFFICES ASSUME NEW x \in D, size[x] = k, k < m, k < n
                 PROVE  g[x] = h[x]
      OBVIOUS
    <3>1. g[x] = Up(g)[x] /\ h[x] = Up(h)[x]
      <4> HIDE DEF Up
      <4> QED
        OBVIOUS
    <3>2. CASE x \in stop
      BY <3>1, <3>2
    <3>3. CASE x \notin stop
      <4>1. prev[x] \in D /\ size[prev[x]] \in Nat /\ size[prev[x]] < k
        BY <3>3
      <4>2. g[prev[x]] = h[prev[x]]
        BY <2>1, <4>1
      <4> QED
        BY <3>1, <3>3, <4>2
    <3> QED
      BY <3>2, <3>3
  <2>2. Nat \subseteq Q
    <3> HIDE DEF Q
    <3> QED
      BY <2>1, StrongInduction
  <2> QED
    BY <2>2
<1> DEFINE g(n) == CHOOSE h \in Upto(n) : TRUE
           f == [x \in D |-> g(size[x] + 1)[x]]
<1>5. \A n \in Nat : g(n) \in Upto(n)
  <2> HIDE DEF Upto
  <2> QED
    BY <1>3
<1> HIDE DEF g
<1>6. ASSUME NEW x \in D
      PROVE  f[x] \in R /\ f[x] = IF x \in stop THEN base[x] ELSE step[<<x, f[prev[x]]>>]
  <2> DEFINE h == g(size[x] + 1)
  <2>1. size[x] \in Nat /\ h \in Upto(size[x] + 1) /\ f[x] = h[x]
    <3> HIDE DEF Upto
    <3> QED
      BY <1>5
  <2> HIDE DEF h, f
  <2>2. h[x] \in R /\ h[x] = IF x \in stop THEN base[x] ELSE step[<<x, h[prev[x]]>>]
    BY <2>1
  <2>3. CASE x \notin stop
    <3>1. prev[x] \in D /\ size[prev[x]] \in Nat /\ size[prev[x]] < size[x]
      BY <2>3
    <3>2. g(size[prev[x]] + 1) \in Upto(size[prev[x]] + 1) /\ f[prev[x]] = g(size[prev[x]] + 1)[prev[x]]
      <4> HIDE DEF Upto
      <4> QED
        BY <1>5, <3>1 DEF f
    <3>3. f[prev[x]] = h[prev[x]]
      <4> HIDE DEF Upto
      <4>1. size[prev[x]] < size[prev[x]] + 1 /\ size[prev[x]] < size[x] + 1 /\ size[prev[x]] + 1 \in Nat /\ size[x] + 1 \in Nat
        BY <2>1, <3>1
      <4> QED
        BY <1>4, <2>1, <3>1, <3>2, <4>1
    <3> QED
      BY <2>1, <2>2, <2>3, <3>3
  <2> QED
    BY <2>1, <2>2, <2>3
<1> HIDE DEF f
<1>7. f \in [D -> R]
  BY <1>6 DEF f
<1> QED
  BY <1>6, <1>7 DEF IsRecursion

-----------------------------------------------------------------------------
\* The values on the way to FlattenSeq, which appends one sequence after the other.
IsFlattening(acc, seqs, R, N) ==
  /\ acc \in [0 .. N -> Seq(R)]
  /\ acc[0] = <<>> /\ acc[N] = FlattenSeq(seqs)
  /\ \A k \in 1 .. N : acc[k] = acc[k - 1] \o seqs[k]

\* There are such values.
LEMMA FlattenIsFold ==
  ASSUME NEW R, NEW N \in Nat, NEW seqs \in [1 .. N -> Seq(R)]
  PROVE  \E acc : IsFlattening(acc, seqs, R, N)
<1> DEFINE step == [x \in Seq(R) \X (1 .. N) |-> x[1] \o seqs[x[2]]]
<1>0. Len(seqs) = N
  OBVIOUS
<1>1. step \in [Seq(R) \X (1 .. N) -> Seq(R)] /\ <<>> \in Seq(R)
  OBVIOUS
<1>2. PICK a : IsRun(a, Seq(R), <<>>, N, step)
  <2> HIDE DEF step
  <2> QED
    BY <1>1, RunExists, Zenon
<1>3. /\ a \in [0 .. N -> Seq(R)] /\ a[0] = <<>>
      /\ \A k \in 1 .. N : a[k] = step[<<a[k - 1], k>>]
  <2> HIDE DEF step
  <2> QED
    BY <1>2, Zenon DEF IsRun
<1>4. ASSUME NEW k \in 1 .. N PROVE a[k] = a[k - 1] \o seqs[k]
  <2>1. k - 1 \in 0 .. N
    OBVIOUS
  <2>2. a[k - 1] \in Seq(R)
    BY <1>3, <2>1
  <2>3. step[<<a[k - 1], k>>] = a[k - 1] \o seqs[k]
    BY <2>2
  <2> QED
    BY <1>3, <2>3
<1>5. CASE N = 0
  <2>1. seqs = <<>>
    BY <1>0, <1>5
  <2>2. FlattenSeq(seqs) = <<>>
    BY <2>1 DEF FlattenSeq
  <2> QED
    BY <1>3, <1>4, <1>5, <2>2 DEF IsFlattening
<1>6. CASE N > 0
  <2> DEFINE f == [i \in 1 .. N |-> a[i]]
             flatten == CHOOSE g : g = [i \in 1 .. Len(seqs) |-> IF i = 1 THEN seqs[i] ELSE g[i - 1] \o seqs[i]]
  <2>1. ASSUME NEW i \in 1 .. N
        PROVE  f[i] = IF i = 1 THEN seqs[i] ELSE f[i - 1] \o seqs[i]
    <3>1. CASE i = 1
      <4>1. a[1] = a[0] \o seqs[1] /\ seqs[1] \in Seq(R)
        BY <1>4, <3>1
      <4>2. <<>> \o seqs[1] = seqs[1]
        BY <4>1
      <4> QED
        BY <1>3, <3>1, <4>1, <4>2
    <3>2. CASE i # 1
      <4>1. i - 1 \in 1 .. N
        BY <3>2
      <4> QED
        BY <1>4, <3>2, <4>1
    <3> QED
      BY <3>1, <3>2
  <2>2. f = [i \in 1 .. Len(seqs) |-> IF i = 1 THEN seqs[i] ELSE f[i - 1] \o seqs[i]]
    <3>1. f = [i \in 1 .. N |-> f[i]]
      OBVIOUS
    <3> HIDE DEF f
    <3> QED
      BY <1>0, <2>1, <3>1
  <2>3. flatten = [i \in 1 .. N |-> IF i = 1 THEN seqs[i] ELSE flatten[i - 1] \o seqs[i]]
    <3> HIDE DEF f
    <3> QED
      BY <1>0, <2>2
  <2>4. \A i \in 1 .. N : flatten[i] = IF i = 1 THEN seqs[i] ELSE flatten[i - 1] \o seqs[i]
    <3> HIDE DEF flatten
    <3> QED
      BY <2>3, Zenon
  <2>5. FlattenSeq(seqs) = flatten[N]
    <3>1. FlattenSeq(seqs) = flatten[Len(seqs)]
      BY <1>0, <1>6 DEF FlattenSeq
    <3> HIDE DEF flatten
    <3> QED
      BY <1>0, <3>1
  <2>6. \A i \in 1 .. N : f[i] = a[i]
    OBVIOUS
  <2> HIDE DEF flatten, f
  <2> DEFINE P == {k \in Nat : k + 1 <= N => flatten[k + 1] = a[k + 1]}
  <2>7. 0 \in P
    <3>1. 1 \in 1 .. N
      BY <1>6
    <3>2. flatten[1] = seqs[1] /\ f[1] = seqs[1]
      BY <2>1, <2>4, <3>1
    <3> QED
      BY <2>6, <3>1, <3>2
  <2>8. ASSUME NEW k \in Nat, k \in P PROVE k + 1 \in P
    <3> SUFFICES ASSUME (k + 1) + 1 <= N PROVE flatten[(k + 1) + 1] = a[(k + 1) + 1]
      OBVIOUS
    <3>1. (k + 1) + 1 \in 1 .. N /\ ((k + 1) + 1) - 1 = k + 1 /\ (k + 1) + 1 # 1 /\ k + 1 <= N
      OBVIOUS
    <3>2. flatten[k + 1] = a[k + 1]
      BY <2>8, <3>1
    <3>3. flatten[(k + 1) + 1] = flatten[k + 1] \o seqs[(k + 1) + 1]
      BY <2>4, <3>1
    <3> QED
      BY <1>4, <3>1, <3>2, <3>3
  <2>9. N - 1 \in P
    <3>1. N - 1 \in Nat
      BY <1>6
    <3> HIDE DEF P
    <3> QED
      BY <2>7, <2>8, <3>1, Induction
  <2>10. flatten[N] = a[N]
    BY <1>6, <2>9
  <2> QED
    BY <1>3, <1>4, <2>5, <2>10, Zenon DEF IsFlattening
<1> QED
  BY <1>5, <1>6

\* What is flattened is a sequence of the same elements, and of all of them.
LEMMA FlattenTyped ==
  ASSUME NEW R, NEW N \in Nat, NEW seqs \in [1 .. N -> Seq(R)]
  PROVE  /\ FlattenSeq(seqs) \in Seq(R)
         /\ ToSet(FlattenSeq(seqs)) = UNION {ToSet(seqs[i]) : i \in 1 .. N}
<1>0. PICK acc : IsFlattening(acc, seqs, R, N)
  BY FlattenIsFold, Zenon
<1>1. /\ acc \in [0 .. N -> Seq(R)]
      /\ acc[0] = <<>> /\ acc[N] = FlattenSeq(seqs)
      /\ \A k \in 1 .. N : acc[k] = acc[k - 1] \o seqs[k]
  BY <1>0, Zenon DEF IsFlattening
<1> DEFINE Sets(k) == UNION {ToSet(seqs[i]) : i \in 1 .. k}
           P == {k \in Nat : k <= N => ToSet(acc[k]) = Sets(k)}
<1>2. 0 \in P
  <2>1. 1 .. 0 = {} /\ ToSet(<<>>) = {}
    BY DEF ToSet
  <2> QED
    BY <1>1, <2>1
<1>3. ASSUME NEW k \in Nat, k \in P PROVE k + 1 \in P
  <2> SUFFICES ASSUME k + 1 <= N PROVE ToSet(acc[k + 1]) = Sets(k + 1)
    OBVIOUS
  <2>1. k + 1 \in 1 .. N /\ (k + 1) - 1 = k /\ k <= N /\ k \in 0 .. N
    OBVIOUS
  <2>2. acc[k + 1] = acc[k] \o seqs[k + 1] /\ acc[k] \in Seq(R) /\ seqs[k + 1] \in Seq(R)
    BY <1>1, <2>1
  <2>3. ToSet(acc[k] \o seqs[k + 1]) = ToSet(acc[k]) \cup ToSet(seqs[k + 1])
    <3> DEFINE s == acc[k]
               t == seqs[k + 1]
    <3>0. s \in Seq(R) /\ t \in Seq(R)
      BY <2>2
    <3> HIDE DEF s, t
    <3>1. /\ Len(s) \in Nat /\ Len(t) \in Nat /\ DOMAIN s = 1 .. Len(s) /\ DOMAIN t = 1 .. Len(t)
          /\ DOMAIN (s \o t) = 1 .. Len(s) + Len(t)
          /\ \A i \in 1 .. Len(s) + Len(t) : (s \o t)[i] = IF i <= Len(s) THEN s[i] ELSE t[i - Len(s)]
      BY <3>0, ConcatProperties
    <3>2. ASSUME NEW i \in DOMAIN (s \o t) PROVE (s \o t)[i] \in ToSet(s) \cup ToSet(t)
      <4>1. CASE i <= Len(s)
        BY <3>1, <4>1 DEF ToSet
      <4>2. CASE ~ i <= Len(s)
        <5>1. i - Len(s) \in DOMAIN t /\ (s \o t)[i] = t[i - Len(s)]
          BY <3>1, <4>2
        <5> QED
          BY <5>1 DEF ToSet
      <4> QED
        BY <4>1, <4>2
    <3>3. ASSUME NEW i \in DOMAIN s PROVE s[i] \in ToSet(s \o t)
      <4>1. i \in DOMAIN (s \o t) /\ (s \o t)[i] = s[i]
        BY <3>1
      <4> QED
        BY <4>1 DEF ToSet
    <3>4. ASSUME NEW i \in DOMAIN t PROVE t[i] \in ToSet(s \o t)
      <4>1. Len(s) + i \in DOMAIN (s \o t) /\ (s \o t)[Len(s) + i] = t[i]
        BY <3>1
      <4> QED
        BY <4>1 DEF ToSet
    <3>5. ToSet(s \o t) = ToSet(s) \cup ToSet(t)
      BY <3>2, <3>3, <3>4 DEF ToSet
    <3> QED
      BY <3>5 DEF s, t
  <2>4. ToSet(acc[k]) = Sets(k)
    BY <1>3, <2>1
  <2>5. Sets(k + 1) = Sets(k) \cup ToSet(seqs[k + 1])
    <3>1. 1 .. k + 1 = (1 .. k) \cup {k + 1}
      OBVIOUS
    <3> QED
      BY <3>1, Zenon
  <2> QED
    BY <2>2, <2>3, <2>4, <2>5
<1>4. N \in P
  <2> HIDE DEF P
  <2> QED
    BY <1>2, <1>3, Induction
<1>5. ToSet(acc[N]) = Sets(N)
  BY <1>4
<1> QED
  BY <1>1, <1>5

\* How many elements of s are in K.
Occurs(s, K) == Cardinality({j \in DOMAIN s : s[j] \in K})

\* Two sequences in a row: what occurs in either is added.
LEMMA OccursConcat ==
  ASSUME NEW R, NEW s \in Seq(R), NEW t \in Seq(R), NEW K
  PROVE  /\ Occurs(s, K) \in Nat /\ Occurs(t, K) \in Nat
         /\ Occurs(s \o t, K) = Occurs(s, K) + Occurs(t, K)
<1> DEFINE A == {j \in DOMAIN s : s[j] \in K}
           B == {j \in DOMAIN t : t[j] \in K}
           C == {j \in DOMAIN (s \o t) : (s \o t)[j] \in K}
           f == [j \in B |-> Len(s) + j]
           D == {f[j] : j \in B}
<1>1. /\ Len(s) \in Nat /\ Len(t) \in Nat /\ DOMAIN s = 1 .. Len(s) /\ DOMAIN t = 1 .. Len(t)
      /\ DOMAIN (s \o t) = 1 .. Len(s) + Len(t)
      /\ \A i \in 1 .. Len(s) + Len(t) : (s \o t)[i] = IF i <= Len(s) THEN s[i] ELSE t[i - Len(s)]
  BY ConcatProperties
<1>2. IsFiniteSet(1 .. Len(s)) /\ IsFiniteSet(1 .. Len(t))
  <2>1. \A n \in Nat : IsFiniteSet(1 .. n)
    BY FS_Interval
  <2> QED
    BY <1>1, <2>1
<1>3. A \in SUBSET (1 .. Len(s)) /\ B \in SUBSET (1 .. Len(t))
  BY <1>1
<1>4. IsFiniteSet(A) /\ IsFiniteSet(B)
  <2> HIDE DEF A, B
  <2> QED
    BY <1>2, <1>3, FS_Subset
<1>5. IsFiniteSet(D) /\ Cardinality(D) = Cardinality(B)
  <2>1. f \in [B -> D] /\ (\A i, j \in B : f[i] = f[j] => i = j) /\ (\A d \in D : \E j \in B : f[j] = d)
    BY <1>1, <1>3
  <2> HIDE DEF B, D, f
  <2>2. f \in Injection(B, D) /\ f \in Surjection(B, D)
    BY <2>1 DEF Injection, Surjection, IsInjective
  <2>3. ExistsBijection(B, D)
    BY <2>2 DEF ExistsBijection, Bijection
  <2> QED
    BY <1>4, <2>3, FS_Bijection
<1>6. A \cap D = {}
  <2>1. \A j \in A : j <= Len(s)
    BY <1>1, <1>3
  <2>2. ASSUME NEW j \in B PROVE f[j] > Len(s)
    BY <1>1, <1>3
  <2>3. \A d \in D : \E j \in B : d = f[j]
    OBVIOUS
  <2>4. \A d \in D : d > Len(s)
    <3> HIDE DEF A, B, C, D, f
    <3> QED
      BY <2>2, <2>3
  <2>5. A \subseteq Int /\ Len(s) \in Int
    BY <1>1, <1>3
  <2> HIDE DEF A, B, C, D, f
  <2> SUFFICES ASSUME NEW x \in A, x \in D PROVE FALSE
    OBVIOUS
  <2>6. x \in Int /\ x <= Len(s) /\ x > Len(s)
    BY <2>1, <2>4, <2>5
  <2> QED
    BY <2>5, <2>6
<1>7. C = A \cup D
  <2>1. ASSUME NEW j \in C PROVE j \in A \cup D
    <3>1. CASE j <= Len(s)
      BY <1>1, <3>1
    <3>2. CASE ~ j <= Len(s)
      <4>1. j - Len(s) \in B /\ f[j - Len(s)] = j
        BY <1>1, <3>2
      <4> QED
        BY <4>1
    <3> QED
      BY <3>1, <3>2
  <2>2. ASSUME NEW j \in A PROVE j \in C
    BY <1>1
  <2>3. ASSUME NEW j \in B PROVE f[j] \in C
    BY <1>1
  <2> QED
    BY <2>1, <2>2, <2>3
<1>9. Occurs(s, K) = Cardinality(A) /\ Occurs(t, K) = Cardinality(B) /\ Occurs(s \o t, K) = Cardinality(C)
  BY DEF Occurs
<1> HIDE DEF A, B, C, D
<1>8. Cardinality(A \cup D) = Cardinality(A) + Cardinality(D) - Cardinality(A \cap D)
  BY <1>4, <1>5, FS_Union
<1>10. Cardinality(A) \in Nat /\ Cardinality(B) \in Nat
  BY <1>4, FS_CardinalityType
<1>11. Cardinality(A \cap D) = 0
  BY <1>6, FS_EmptySet
<1>12. Cardinality(C) = Cardinality(A) + Cardinality(B) - 0
  BY <1>5, <1>7, <1>8, <1>11
<1> QED
  BY <1>9, <1>10, <1>12

\* Every element occurs as often as there are places.
LEMMA OccursAll ==
  ASSUME NEW R, NEW s \in Seq(R)
  PROVE  Occurs(s, R) = Len(s) /\ IsFiniteSet(1 .. Len(s)) /\ Cardinality(1 .. Len(s)) = Len(s)
<1>1. {j \in DOMAIN s : s[j] \in R} = 1 .. Len(s)
  BY ElementOfSeq
<1>2. Len(s) \in Nat
  OBVIOUS
<1>3. \A n \in Nat : IsFiniteSet(1 .. n) /\ Cardinality(1 .. n) = n
  <2> TAKE n \in Nat
  <2>1. 1 \in Int /\ n \in Int
    OBVIOUS
  <2>2. IsFiniteSet(1 .. n) /\ Cardinality(1 .. n) = IF 1 > n THEN 0 ELSE n - 1 + 1
    BY <2>1, FS_Interval
  <2> QED
    BY <2>2
<1> QED
  BY <1>1, <1>2, <1>3 DEF Occurs

\* Some elements for each of 1 .. N.
PairsOf(W, N) == UNION {{i} \X W[i] : i \in 1 .. N}

\* They are finitely many when each of the sets is finite.
LEMMA PairsFinite ==
  ASSUME NEW N \in Nat, NEW W, \A i \in 1 .. N : IsFiniteSet(W[i])
  PROVE  IsFiniteSet(PairsOf(W, N))
<1> DEFINE f == [i \in 1 .. N |-> {i} \X W[i]]
           S == {f[i] : i \in 1 .. N}
<1>1. IsFiniteSet(1 .. N)
  BY FS_Interval
<1>2. f \in Surjection(1 .. N, S)
  BY DEF Surjection
<1>3. IsFiniteSet(S)
  <2> HIDE DEF f, S
  <2> QED
    BY <1>1, <1>2, FS_Surjection
<1>4. \A T \in S : IsFiniteSet(T)
  <2> SUFFICES ASSUME NEW i \in 1 .. N PROVE IsFiniteSet({i} \X W[i])
    OBVIOUS
  <2> QED
    BY FS_Singleton, FS_Product
<1>5. PairsOf(W, N) = UNION S
  BY DEF PairsOf
<1> HIDE DEF S
<1> QED
  BY <1>3, <1>4, <1>5, FS_UNION

\* One more set of them adds its cardinality.
LEMMA PairsAdded ==
  ASSUME NEW P, IsFiniteSet(P), NEW S, IsFiniteSet(S), NEW i, \A x \in S : <<i, x>> \notin P
  PROVE  /\ Cardinality(P \cup ({i} \X S)) = Cardinality(P) + Cardinality(S)
         /\ Cardinality(P) \in Nat /\ Cardinality(S) \in Nat
<1> DEFINE p == Cardinality(P)
           c == Cardinality(S)
           X == {i} \X S
<1>1. IsFiniteSet({i}) /\ Cardinality({i}) = 1
  BY FS_Singleton
<1>2. IsFiniteSet(X) /\ Cardinality(X) = 1 * c
  BY <1>1, FS_Product
<1>3. P \cap X = {}
  OBVIOUS
<1>4. p \in Nat /\ c \in Nat
  BY FS_CardinalityType
<1> HIDE DEF X
<1>5. Cardinality(P \cup X) = p + Cardinality(X) - Cardinality(P \cap X)
  BY <1>2, FS_Union
<1>6. Cardinality(P \cap X) = 0
  BY <1>3, FS_EmptySet
<1>7. Cardinality(P \cup X) = p + (1 * c) - 0
  BY <1>2, <1>5, <1>6
<1> HIDE DEF p, c
<1>8. p + (1 * c) - 0 = p + c
  BY <1>4
<1> QED
  BY <1>4, <1>7, <1>8 DEF p, c, X

\* W[i] has as many elements as seqs[i] has in K.
Weighs(W, N, seqs, K) ==
  \A i \in 1 .. N : IsFiniteSet(W[i]) /\ Cardinality(W[i]) = Occurs(seqs[i], K)

\* How often something occurs in a flattened sequence, given how often it does
\* in each of its parts.
LEMMA FlattenOccurs ==
  ASSUME NEW R, NEW N \in Nat, NEW seqs \in [1 .. N -> Seq(R)], NEW K,
         NEW W, Weighs(W, N, seqs, K)
  PROVE  Occurs(FlattenSeq(seqs), K) = Cardinality(PairsOf(W, N))
<1> USE DEF Weighs
<1>0. PICK acc : IsFlattening(acc, seqs, R, N)
  BY FlattenIsFold, Zenon
<1>1. /\ acc \in [0 .. N -> Seq(R)]
      /\ acc[0] = <<>> /\ acc[N] = FlattenSeq(seqs)
      /\ \A k \in 1 .. N : acc[k] = acc[k - 1] \o seqs[k]
  BY <1>0, Zenon DEF IsFlattening
<1> DEFINE P == {k \in Nat : k <= N => Occurs(acc[k], K) = Cardinality(PairsOf(W, k))}
<1>2. 0 \in P
  <2>1. {j \in DOMAIN acc[0] : acc[0][j] \in K} = {}
    BY <1>1
  <2>2. PairsOf(W, 0) = {}
    <3>1. 1 .. 0 = {}
      OBVIOUS
    <3> QED
      BY <3>1, Zenon DEF PairsOf
  <2> QED
    BY <2>1, <2>2 DEF Occurs
<1>3. ASSUME NEW k \in Nat, k \in P PROVE k + 1 \in P
  <2> SUFFICES ASSUME k + 1 <= N PROVE Occurs(acc[k + 1], K) = Cardinality(PairsOf(W, k + 1))
    OBVIOUS
  <2>1. k + 1 \in 1 .. N /\ (k + 1) - 1 = k /\ k <= N /\ k \in 0 .. N /\ 1 .. k \subseteq 1 .. N
    OBVIOUS
  <2>2. acc[k + 1] = acc[k] \o seqs[k + 1] /\ acc[k] \in Seq(R) /\ seqs[k + 1] \in Seq(R)
    BY <1>1, <2>1
  <2>3. Occurs(acc[k + 1], K) = Occurs(acc[k], K) + Occurs(seqs[k + 1], K)
    BY <2>2, OccursConcat
  <2>4. Occurs(acc[k], K) = Cardinality(PairsOf(W, k))
    BY <1>3, <2>1
  <2>5. PairsOf(W, k + 1) = PairsOf(W, k) \cup ({k + 1} \X W[k + 1])
    <3>1. 1 .. k + 1 = (1 .. k) \cup {k + 1}
      OBVIOUS
    <3> QED
      BY <3>1, Zenon DEF PairsOf
  <2>6. IsFiniteSet(PairsOf(W, k))
    BY <2>1, PairsFinite
  <2>7. \A x \in W[k + 1] : <<k + 1, x>> \notin PairsOf(W, k)
    BY DEF PairsOf
  <2>8. Cardinality(PairsOf(W, k + 1)) = Cardinality(PairsOf(W, k)) + Cardinality(W[k + 1])
    <3> DEFINE Q == PairsOf(W, k)
               S == W[k + 1]
               n == k + 1
    <3>1. IsFiniteSet(Q) /\ IsFiniteSet(S) /\ \A x \in S : <<n, x>> \notin Q
      BY <2>1, <2>6, <2>7
    <3>2. PairsOf(W, k + 1) = Q \cup ({n} \X S)
      BY <2>5
    <3> HIDE DEF Q, S, n
    <3>3. Cardinality(Q \cup ({n} \X S)) = Cardinality(Q) + Cardinality(S)
      BY <3>1, PairsAdded, Zenon
    <3> QED
      BY <3>2, <3>3 DEF Q, S
  <2> QED
    BY <2>1, <2>3, <2>4, <2>8
<1>4. N \in P
  <2> HIDE DEF P
  <2> QED
    BY <1>2, <1>3, Induction
<1> QED
  BY <1>1, <1>4

\* Only i's set changes, and it was empty.
OneMore(V, W, N, i, S) == i \in 1 .. N /\ DOMAIN V = 1 .. N /\ V[i] = {} /\ W = [V EXCEPT ![i] = S]

\* Then its pairs are added to the others', and are new.
LEMMA PairsOneMore ==
  ASSUME NEW V, NEW W, NEW N, NEW i, NEW S, OneMore(V, W, N, i, S)
  PROVE  PairsOf(W, N) = PairsOf(V, N) \cup ({i} \X S) /\ \A x : <<i, x>> \notin PairsOf(V, N)
<1>1. \A j \in 1 .. N : W[j] = IF j = i THEN S ELSE V[j]
  BY DEF OneMore
<1> QED
  BY <1>1 DEF PairsOf, OneMore
=============================================================================

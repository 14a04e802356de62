---------------------------- MODULE DataInduction ----------------------------
(***************************************************************************)
(* Induction and recursion over bounded data, stated with sets and         *)
(* functions in place of operators: a set of numbers that is closed under  *)
(* the induction step is all numbers, and a function defined in terms of   *)
(* its own values at smaller arguments exists.                             *)
(***************************************************************************)
EXTENDS Integers, WellFoundedInduction, TLAPS

\* A set of numbers with an element has a least one.
LEMMA LeastNumber ==
  ASSUME NEW T \in SUBSET Nat, T # {}
  PROVE  \E n \in T : \A m \in T : n <= m
<1> DEFINE R == {p \in Nat \X Nat : p[1] < p[2]}
<1>1. IsWellFoundedOn(R, Nat)
  <2>1. R = OpToRel(<, Nat)
    BY DEF OpToRel
  <2> QED
    BY <2>1, NatLessThanWellFounded
<1>2. PICK n \in T : \A m \in T : <<m, n>> \notin R
  <2> HIDE DEF R
  <2> QED
    BY <1>1, WFMin
<1>3. \A m \in T : ~(m < n)
  BY <1>2
<1> QED
  BY <1>3

\* Induction: a set with 0 and with the successor of each of its elements.
LEMMA SetInduction ==
  ASSUME NEW S \in SUBSET Nat, 0 \in S, \A n \in S : n + 1 \in S
  PROVE  S = Nat
<1> DEFINE T == Nat \ S
<1> SUFFICES ASSUME T # {} PROVE FALSE
  OBVIOUS
<1>1. PICK n \in T : \A m \in T : n <= m
  <2>1. T \in SUBSET Nat
    OBVIOUS
  <2> HIDE DEF T
  <2> QED
    BY <2>1, LeastNumber
<1>2. n - 1 \in Nat
  OBVIOUS
<1>3. n - 1 \in S
  BY <1>1, <1>2
<1> QED
  BY <1>3

\* Induction up to n from a set of numbers up to n.
LEMMA InductionUpTo ==
  ASSUME NEW n \in Nat, NEW S, 0 \in S, \A i \in 0..(n - 1) : i \in S => i + 1 \in S
  PROVE  0..n \subseteq S
<1> DEFINE T == {i \in Nat : i <= n => i \in S}
<1>1. T \in SUBSET Nat /\ 0 \in T
  OBVIOUS
<1>2. ASSUME NEW i \in T PROVE i + 1 \in T
  <2>1. CASE i + 1 <= n
    BY <2>1
  <2>2. CASE ~(i + 1 <= n)
    BY <2>2
  <2> QED
    BY <2>1, <2>2
<1>3. T = Nat
  <2> HIDE DEF T
  <2> QED
    BY <1>1, <1>2, SetInduction
<1> QED
  BY <1>3

\* Induction over the numbers below each one.
LEMMA StrongInduction ==
  ASSUME NEW S, \A n \in Nat : (\A m \in 0..(n - 1) : m \in S) => n \in S
  PROVE  Nat \subseteq S
<1> DEFINE T == Nat \ S
<1> SUFFICES ASSUME T # {} PROVE FALSE
  OBVIOUS
<1>1. PICK n \in T : \A m \in T : n <= m
  <2>1. T \in SUBSET Nat
    OBVIOUS
  <2> HIDE DEF T
  <2> QED
    BY <2>1, LeastNumber
<1>2. \A m \in 0..(n - 1) : m \in S
  BY <1>1
<1> QED
  BY <1>2

\* Recursion: F computes the value at x from a function that may be consulted
\* at arguments of smaller rank only.  There is a function equal to what F
\* computes from it.
Recursion(F, D, V, rank, N) ==
  /\ N \in Nat /\ \A x \in D : rank[x] \in 0..N
  /\ [D -> V] # {} /\ \A x \in D : \A g \in [D -> V] : F[x][g] \in V
  /\ \A g, h \in [D -> V], x \in D :
       (\A y \in D : rank[y] < rank[x] => g[y] = h[y]) => F[x][g] = F[x][h]

LEMMA RecursiveFunction ==
  ASSUME NEW D, NEW V, NEW N, NEW rank, NEW F, Recursion(F, D, V, rank, N)
  PROVE  \E f \in [D -> V] : \A x \in D : f[x] = F[x][f]
<1> DEFINE Solves(f, n) == \A x \in D : rank[x] < n => f[x] = F[x][f]
           S == {n \in Nat : \E f \in [D -> V] : Solves(f, n)}
<1>0. N \in Nat /\ \A x \in D : rank[x] \in Nat /\ rank[x] <= N
  BY DEF Recursion
<1>1. 0 \in S
  <2>1. \A f : Solves(f, 0)
    BY <1>0
  <2>2. [D -> V] # {}
    BY DEF Recursion
  <2> HIDE DEF Solves
  <2> QED
    BY <2>1, <2>2
<1>2. ASSUME NEW n \in S PROVE n + 1 \in S
  <2>1. PICK f \in [D -> V] : Solves(f, n)
    OBVIOUS
  <2> DEFINE g == [x \in D |-> IF rank[x] < n THEN f[x] ELSE F[x][f]]
  <2>2. \A x \in D : F[x][f] \in V
    BY DEF Recursion
  <2>3. g \in [D -> V]
    BY <2>2
  <2>4. ASSUME NEW x \in D, rank[x] < n + 1 PROVE g[x] = F[x][g]
    <3>1. g[x] = F[x][f]
      BY <2>1
    <3>2. \A y \in D : rank[y] < rank[x] => f[y] = g[y]
      BY <1>0, <2>4
    <3>3. F[x][f] = F[x][g]
      <4> HIDE DEF g
      <4> QED
        BY <2>3, <3>2 DEF Recursion
    <3> QED
      BY <3>1, <3>3
  <2>5. n + 1 \in Nat
    OBVIOUS
  <2>6. Solves(g, n + 1)
    BY <2>4
  <2> HIDE DEF g, Solves
  <2> QED
    BY <2>3, <2>5, <2>6
<1>3. S = Nat
  <2>1. S \in SUBSET Nat
    OBVIOUS
  <2> HIDE DEF S
  <2> QED
    BY <1>1, <1>2, <2>1, SetInduction
<1>4. \E f \in [D -> V] : Solves(f, N + 1)
  <2> HIDE DEF Solves
  <2>1. S = {n \in Nat : \E f \in [D -> V] : Solves(f, n)}
    OBVIOUS
  <2> HIDE DEF S
  <2>2. N + 1 \in S
    BY <1>0, <1>3
  <2> QED
    BY <2>1, <2>2
<1>5. \A x \in D : rank[x] < N + 1
  BY <1>0
<1>6. PICK f \in [D -> V] : Solves(f, N + 1)
  BY <1>4
<1> QED
  BY <1>5, <1>6

-------------------------------------------------------------------------------
(* Running sums *)

\* The sums of the first 0, 1, ... n steps.
Sums(n, step, f) ==
  f = [i \in 0..n |-> IF i = 0 THEN 0 ELSE f[i - 1] + step[i]]

LEMMA SumsExist ==
  ASSUME NEW n \in Nat, NEW step, \A i \in 1..n : step[i] \in Nat
  PROVE  \E f : Sums(n, step, f)
<1> DEFINE Upto(k, f) == /\ f \in [0..k -> Nat] /\ f[0] = 0
                         /\ \A i \in 1..k : f[i] = f[i - 1] + step[i]
           S == {k \in 0..n : \E f : Upto(k, f)}
<1>1. 0 \in S
  <2>1. Upto(0, [i \in 0..0 |-> 0])
    OBVIOUS
  <2> HIDE DEF Upto
  <2> QED
    BY <2>1
<1>2. ASSUME NEW k \in 0..(n - 1), k \in S PROVE k + 1 \in S
  <2>1. PICK f : Upto(k, f)
    BY <1>2
  <2> DEFINE g == [i \in 0..(k + 1) |-> IF i = k + 1 THEN f[k] + step[k + 1] ELSE f[i]]
  <2>2. g \in [0..(k + 1) -> Nat]
    <3>1. f[k] + step[k + 1] \in Nat
      BY <2>1
    <3> QED
      BY <2>1, <3>1
  <2>3. ASSUME NEW i \in 1..(k + 1) PROVE g[i] = g[i - 1] + step[i]
    <3>1. CASE i = k + 1
      BY <3>1
    <3>2. CASE i \in 1..k
      <4>1. g[i] = f[i] /\ g[i - 1] = f[i - 1]
        BY <3>2
      <4> QED
        BY <2>1, <3>2, <4>1
    <3> QED
      BY <3>1, <3>2
  <2>4. Upto(k + 1, g) /\ k + 1 \in 0..n
    BY <2>1, <2>2, <2>3
  <2> HIDE DEF Upto, g
  <2> QED
    BY <2>4
<1>3. n \in S
  <2> HIDE DEF S
  <2>1. 0..n \subseteq S
    BY <1>1, <1>2, InductionUpTo
  <2> QED
    BY <2>1
<1>4. PICK f : Upto(n, f)
  BY <1>3
<1> WITNESS f
<1> QED
  BY <1>4 DEF Sums

\* They are numbers, they grow, and the first n make the sum of n.
LEMMA SumsType ==
  ASSUME NEW n \in Nat, NEW step, NEW f,
         \A i \in 1..n : step[i] \in Nat, Sums(n, step, f)
  PROVE  /\ f \in [0..n -> Nat] /\ f[0] = 0
         /\ \A i \in 1..n : f[i] = f[i - 1] + step[i]
<1>1. \A i \in 1..n : f[i] = f[i - 1] + step[i]
  BY DEF Sums
<1>2. f[0] = 0 /\ f = [i \in 0..n |-> f[i]]
  BY DEF Sums
<1> DEFINE S == {k \in 0..n : f[k] \in Nat}
<1>3. 0 \in S
  BY <1>2
<1>4. ASSUME NEW k \in 0..(n - 1), k \in S PROVE k + 1 \in S
  BY <1>1, <1>4
<1>5. 0..n \subseteq S
  <2> HIDE DEF S
  <2> QED
    BY <1>3, <1>4, InductionUpTo
<1>6. f \in [0..n -> Nat]
  BY <1>2, <1>5
<1> QED
  BY <1>1, <1>2, <1>6

LEMMA SumsGrow ==
  ASSUME NEW n \in Nat, NEW step, NEW f, NEW i \in 0..n, NEW j \in i..n,
         \A k \in 1..n : step[k] \in Nat, Sums(n, step, f)
  PROVE  f[i] <= f[j]
<1>1. f \in [0..n -> Nat] /\ \A k \in 1..n : f[k] = f[k - 1] + step[k]
  BY SumsType
<1> DEFINE S == {k \in 0..n : k >= i => f[i] <= f[k]}
<1>2. 0 \in S
  BY <1>1
<1>3. ASSUME NEW k \in 0..(n - 1), k \in S PROVE k + 1 \in S
  <2>1. f[k + 1] = f[k] + step[k + 1] /\ f[k] \in Nat /\ step[k + 1] \in Nat /\ f[i] \in Nat
    BY <1>1
  <2> QED
    BY <1>3, <2>1
<1>4. 0..n \subseteq S
  <2> HIDE DEF S
  <2> QED
    BY <1>2, <1>3, InductionUpTo
<1> QED
  BY <1>4

LEMMA SumsAgree ==
  ASSUME NEW n, NEW m, NEW step, NEW other, NEW f, NEW g, n \in Nat, m \in Nat,
         n <= m, \A i \in 1..n : step[i] = other[i], \A i \in 1..m : other[i] \in Nat,
         Sums(n, step, f), Sums(m, other, g)
  PROVE  f[n] = g[n]
<1>1. f[0] = 0 /\ \A i \in 1..n : f[i] = f[i - 1] + step[i]
  BY DEF Sums
<1>2. g[0] = 0 /\ \A i \in 1..m : g[i] = g[i - 1] + other[i]
  BY DEF Sums
<1> DEFINE S == {i \in 0..n : f[i] = g[i]}
<1>3. 0 \in S
  BY <1>1, <1>2
<1>4. ASSUME NEW i \in 0..(n - 1), i \in S PROVE i + 1 \in S
  BY <1>1, <1>2, <1>4
<1>5. 0..n \subseteq S
  <2> HIDE DEF S
  <2> QED
    BY <1>3, <1>4, InductionUpTo
<1> QED
  BY <1>5

===============================================================================

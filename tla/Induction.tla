----------------------------- MODULE Induction ------------------------------
(***************************************************************************)
(* Induction and recursion on the naturals, for sets and functions: what   *)
(* NaturalsInduction states of operators, in the form in which a proof can *)
(* cite it.  Counting along a sequence.  And what a fold computes: the set *)
(* function behind FoldLeft is a solution of its recursion, and such a     *)
(* solution exists and runs along the sequence.  Last, what splitting a    *)
(* text and finding one in another return.                                 *)
(***************************************************************************)
EXTENDS Integers, Text, FiniteSetTheorems, TLAPS

\* A set of naturals has a least element: the intervals below its elements are
\* ordered by inclusion, which is well founded on finite sets.
LEMMA LeastNat ==
  ASSUME NEW T, T \subseteq Nat, T # {}
  PROVE  \E x \in T : \A y \in T : x <= y
<1> DEFINE Below(x) == 0 .. x - 1
           B == {Below(x) : x \in T}
           R == StrictSubsetOrdering(Nat)
           F == FiniteSubsetsOf(Nat)
<1>1. IsWellFoundedOn(R, F)
  BY FS_StrictSubsetOrderingWellFounded
<1>2. B \subseteq F /\ B # {}
  <2>1. ASSUME NEW x \in T PROVE Below(x) \in F
    <3>1. x \in Nat /\ 0 \in Int /\ x - 1 \in Int
      OBVIOUS
    <3>2. IsFiniteSet(Below(x))
      BY <3>1, FS_Interval
    <3> QED
      BY <3>1, <3>2 DEF FiniteSubsetsOf
  <2> QED
    BY <2>1
<1>3. PICK b \in B : \A c \in B : <<c, b>> \notin R
  <2> HIDE DEF B, R, F
  <2> QED
    BY <1>1, <1>2, WFMin, Zenon
<1>4. PICK x \in T : b = Below(x)
  BY <1>3
<1>5. ASSUME NEW y \in T, y < x PROVE FALSE
  <2>1. x \in Nat /\ y \in Nat
    OBVIOUS
  <2>2. Below(y) \subseteq Below(x) /\ Below(y) # Below(x)
    <3>1. y \in Below(x) /\ y \notin Below(y)
      BY <2>1, <1>5
    <3> QED
      BY <3>1, <2>1, <1>5
  <2>3. Below(y) \in B /\ Below(y) \in F /\ Below(x) \in F
    BY <1>2
  <2>4. <<Below(y), Below(x)>> \in R
    BY <2>2, <2>3 DEF StrictSubsetOrdering, FiniteSubsetsOf
  <2> QED
    BY <1>3, <1>4, <2>3, <2>4
<1> QED
  BY <1>5

\* Induction, for a set.
LEMMA SetInduction ==
  ASSUME NEW S, 0 \in S, \A n \in Nat : n \in S => n + 1 \in S
  PROVE  Nat \subseteq S
<1> DEFINE T == Nat \ S
<1> SUFFICES ASSUME T # {} PROVE FALSE
  OBVIOUS
<1>1. PICK x \in T : \A y \in T : x <= y
  BY LeastNat
<1>2. x \in Nat /\ x # 0
  BY <1>1
<1>3. x - 1 \in Nat /\ x - 1 \notin T
  BY <1>1, <1>2
<1> QED
  BY <1>1, <1>2, <1>3

\* f starts with a, and step gives each of its values from the one before.
Recursive(f, a, step) == f[0] = a /\ \A n \in Nat : f[n + 1] = step[<<n, f[n]>>]

\* A recursive definition of a function on the naturals has a solution.
LEMMA RecursionOnNat ==
  ASSUME NEW V, NEW a \in V, NEW step \in [Nat \X V -> V]
  PROVE  \E f \in [Nat -> V] : Recursive(f, a, step)
<1> DEFINE Upto(n, f) == /\ f \in [0 .. n -> V] /\ f[0] = a
                         /\ \A k \in 0 .. n - 1 : f[k + 1] = step[<<k, f[k]>>]
\* Two that go equally far, or farther, agree.
<1>1. ASSUME NEW n \in Nat, NEW m \in Nat, NEW f, NEW g, Upto(n, f), Upto(m, g)
      PROVE  \A k \in 0 .. n : k \in 0 .. m => f[k] = g[k]
  <2> DEFINE S == {k \in Nat : k <= n /\ k <= m => f[k] = g[k]}
  <2>1. 0 \in S
    BY <1>1
  <2>2. ASSUME NEW k \in Nat, k \in S PROVE k + 1 \in S
    <3> SUFFICES ASSUME k + 1 <= n, k + 1 <= m PROVE f[k + 1] = g[k + 1]
      OBVIOUS
    <3>1. k \in 0 .. n - 1 /\ k \in 0 .. m - 1 /\ k <= n /\ k <= m
      OBVIOUS
    <3>2. f[k + 1] = step[<<k, f[k]>>]
      BY <1>1, <3>1
    <3>3. g[k + 1] = step[<<k, g[k]>>]
      BY <1>1, <3>1
    <3> QED
      BY <2>2, <3>1, <3>2, <3>3
  <2> HIDE DEF S
  <2>3. Nat \subseteq S
    BY <2>1, <2>2, SetInduction
  <2> QED
    BY <2>3 DEF S
\* There is one for every length.
<1>2. ASSUME NEW n \in Nat PROVE \E f : Upto(n, f)
  <2> DEFINE S == {k \in Nat : \E f : Upto(k, f)}
  <2>1. 0 \in S
    <3>1. Upto(0, [k \in 0 .. 0 |-> a])
      OBVIOUS
    <3> QED
      BY <3>1
  <2>2. ASSUME NEW k \in Nat, k \in S PROVE k + 1 \in S
    <3>1. PICK f : Upto(k, f)
      BY <2>2
    <3> DEFINE g == [i \in 0 .. k + 1 |-> IF i <= k THEN f[i] ELSE step[<<k, f[k]>>]]
    <3>2. f[k] \in V /\ step[<<k, f[k]>>] \in V
      BY <3>1
    <3>3. g \in [0 .. k + 1 -> V] /\ g[0] = a
      BY <3>1, <3>2
    <3>4. ASSUME NEW i \in 0 .. (k + 1) - 1 PROVE g[i + 1] = step[<<i, g[i]>>]
      <4>1. i \in 0 .. k /\ i \in 0 .. k + 1 /\ i + 1 \in 0 .. k + 1 /\ g[i] = f[i]
        OBVIOUS
      <4>2. CASE i = k
        <5>1. ~(i + 1 <= k)
          BY <4>2
        <5> QED
          BY <4>1, <4>2, <5>1
      <4>3. CASE i # k
        <5>1. i \in 0 .. k - 1 /\ i + 1 <= k
          BY <4>1, <4>3
        <5>2. f[i + 1] = step[<<i, f[i]>>]
          BY <3>1, <5>1
        <5> QED
          BY <4>1, <5>1, <5>2
      <4> QED
        BY <4>2, <4>3
    <3> HIDE DEF g
    <3>5. Upto(k + 1, g)
      BY <3>3, <3>4
    <3> QED
      BY <3>5
  <2> HIDE DEF S
  <2>3. Nat \subseteq S
    BY <2>1, <2>2, SetInduction
  <2> QED
    BY <2>3 DEF S
<1> HIDE DEF Upto
<1> DEFINE F(n) == CHOOSE f : Upto(n, f)
           h == [n \in Nat |-> F(n)[n]]
<1>3. \A n \in Nat : Upto(n, F(n))
  BY <1>2
<1> HIDE DEF F
<1>4. ASSUME NEW n \in Nat PROVE h[n] \in V
  <2>1. F(n) \in [0 .. n -> V]
    BY <1>3 DEF Upto
  <2> QED
    BY <2>1
<1>5. h[0] = a
  BY <1>3 DEF Upto
<1>6. ASSUME NEW n \in Nat PROVE h[n + 1] = step[<<n, h[n]>>]
  <2>1. Upto(n, F(n)) /\ Upto(n + 1, F(n + 1)) /\ n + 1 \in Nat
    BY <1>3
  <2>2. n \in 0 .. n /\ n \in 0 .. n + 1 /\ n \in 0 .. (n + 1) - 1
    OBVIOUS
  <2>3. F(n)[n] = F(n + 1)[n]
    BY <1>1, <2>1, <2>2
  <2>4. F(n + 1)[n + 1] = step[<<n, F(n + 1)[n]>>]
    BY <2>1, <2>2 DEF Upto
  <2> QED
    BY <2>3, <2>4
<1> HIDE DEF h
<1>7. h \in [Nat -> V]
  BY <1>4 DEF h
<1>8. Recursive(h, a, step)
  BY <1>5, <1>6 DEF Recursive
<1> QED
  BY <1>7, <1>8

\* The powers of two, as a recursive function.
Doubling(f) == f = [n \in Nat |-> IF n = 0 THEN 1 ELSE 2 * f[n - 1]]

LEMMA DoublingExists == \E f : Doubling(f)
<1> DEFINE V == Nat
           one == 1
           double == [x \in Nat \X Nat |-> 2 * x[2]]
<1>1. one \in V /\ double \in [Nat \X V -> V]
  OBVIOUS
<1>2. PICK f \in [V -> V] : Recursive(f, one, double)
  <2>1. \E f \in [Nat -> V] : Recursive(f, one, double)
    <3> HIDE DEF double, one, V
    <3> QED
      BY <1>1, RecursionOnNat
  <2> QED
    BY <2>1
<1>3. f \in [Nat -> Nat] /\ f[0] = 1 /\ \A n \in Nat : f[n + 1] = 2 * f[n]
  BY <1>2 DEF Recursive
<1>4. ASSUME NEW n \in Nat, n # 0 PROVE f[n] = 2 * f[n - 1]
  <2>1. n - 1 \in Nat /\ (n - 1) + 1 = n
    BY <1>4
  <2> QED
    BY <1>3, <2>1
<1> QED
  BY <1>3, <1>4 DEF Doubling

LEMMA DoublingValues ==
  ASSUME NEW f, Doubling(f)
  PROVE  f[0] = 1 /\ \A n \in Nat : f[n] \in Nat /\ f[n + 1] = 2 * f[n]
<1>1. f = [n \in Nat |-> IF n = 0 THEN 1 ELSE 2 * f[n - 1]]
  BY DEF Doubling
<1>2. f[0] = 1
  BY <1>1
<1>3. \A n \in Nat : f[n + 1] = 2 * f[n]
  <2> TAKE n \in Nat
  <2>1. n + 1 \in Nat /\ n + 1 # 0 /\ (n + 1) - 1 = n
    OBVIOUS
  <2> QED
    BY <1>1, <2>1
<1> DEFINE S == {n \in Nat : f[n] \in Nat}
<1>4. 0 \in S /\ \A n \in Nat : n \in S => n + 1 \in S
  BY <1>2, <1>3
<1> HIDE DEF S
<1>5. Nat \subseteq S
  BY <1>4, SetInduction
<1> QED
  BY <1>2, <1>3, <1>5 DEF S

-----------------------------------------------------------------------------
\* Counting.

\* The first k elements of e that are of names.
First(e, names, k) == {i \in 1 .. k : e[i] \in names}
Num(e, names, k) == Cardinality(First(e, names, k))

LEMMA FirstFinite ==
  ASSUME NEW e, NEW names, NEW k \in Nat
  PROVE  IsFiniteSet(First(e, names, k)) /\ Num(e, names, k) \in Nat
<1>1. IsFiniteSet(1 .. k)
  BY FS_Interval
<1>2. First(e, names, k) \in SUBSET (1 .. k)
  BY DEF First
<1> QED
  BY <1>1, <1>2, FS_Subset, FS_CardinalityType DEF Num

LEMMA NumNone == ASSUME NEW e, NEW names PROVE Num(e, names, 0) = 0
<1>1. First(e, names, 0) = {}
  BY DEF First
<1> QED
  BY <1>1, FS_EmptySet DEF Num

LEMMA NumNext ==
  ASSUME NEW e, NEW names, NEW k \in Nat
  PROVE  Num(e, names, k + 1) = Num(e, names, k) + IF e[k + 1] \in names THEN 1 ELSE 0
<1>1. k + 1 \notin First(e, names, k)
  BY DEF First
<1>2. CASE e[k + 1] \in names
  <2>1. First(e, names, k + 1) = First(e, names, k) \cup {k + 1}
    BY <1>2 DEF First
  <2> QED
    BY <1>1, <1>2, <2>1, FirstFinite, FS_AddElement DEF Num
<1>3. CASE e[k + 1] \notin names
  <2>1. First(e, names, k + 1) = First(e, names, k)
    BY <1>3 DEF First
  <2>2. Num(e, names, k) \in Nat
    BY FirstFinite
  <2> QED
    BY <1>3, <2>1, <2>2 DEF Num
<1> QED
  BY <1>2, <1>3

LEMMA NumAgrees ==
  ASSUME NEW e, NEW f, NEW names, NEW k \in Nat, \A i \in 1 .. k : e[i] = f[i]
  PROVE  Num(e, names, k) = Num(f, names, k)
<1>1. First(e, names, k) = First(f, names, k)
  BY DEF First
<1> QED
  BY <1>1 DEF Num

\* Without its first element, a sequence counts one position earlier.
LEMMA NumBehind ==
  ASSUME NEW e, NEW f, NEW names, NEW k \in Nat, \A i \in 1 .. k : f[i] = e[i + 1]
  PROVE  Num(e, names, k + 1) = Num(f, names, k) + IF e[1] \in names THEN 1 ELSE 0
<1> DEFINE A == First(f, names, k)
           B == {i \in 2 .. k + 1 : e[i] \in names}
           g == [i \in A |-> i + 1]
<1>1. g \in Bijection(A, B)
  <2>1. \A i \in A : i \in 1 .. k /\ i + 1 \in B /\ i \in Nat
    BY DEF First
  <2>2. g \in [A -> B]
    BY <2>1
  <2>3. \A i, j \in A : g[i] = g[j] => i = j
    BY <2>1
  <2>4. \A b \in B : \E i \in A : g[i] = b
    <3> SUFFICES ASSUME NEW b \in B PROVE \E i \in A : g[i] = b
      OBVIOUS
    <3>1. b - 1 \in 1 .. k /\ (b - 1) + 1 = b /\ e[b] \in names
      OBVIOUS
    <3>2. f[b - 1] = e[b]
      BY <3>1
    <3>3. b - 1 \in A
      BY <3>1, <3>2 DEF First
    <3> QED
      BY <3>1, <3>3
  <2> QED
    BY <2>2, <2>3, <2>4 DEF Bijection, Injection, Surjection, IsInjective
<1>2. IsFiniteSet(A) /\ Cardinality(A) = Num(f, names, k) /\ Num(f, names, k) \in Nat
  BY FirstFinite DEF Num
<1>3. IsFiniteSet(B) /\ Cardinality(B) = Num(f, names, k)
  BY <1>1, <1>2, FS_Bijection DEF ExistsBijection
<1>4. 1 \notin B
  OBVIOUS
<1> HIDE DEF A, g
<1>5. CASE e[1] \in names
  <2>1. First(e, names, k + 1) = B \cup {1}
    BY <1>5 DEF First
  <2> HIDE DEF B
  <2> QED
    BY <1>3, <1>4, <1>5, <2>1, FS_AddElement DEF Num
<1>6. CASE e[1] \notin names
  <2>1. First(e, names, k + 1) = B
    BY <1>6 DEF First
  <2> HIDE DEF B
  <2> QED
    BY <1>2, <1>3, <1>6, <2>1 DEF Num
<1> QED
  BY <1>5, <1>6

LEMMA NumMonotone ==
  ASSUME NEW e, NEW names, NEW k \in Nat, NEW n \in Nat, k <= n
  PROVE  Num(e, names, k) <= Num(e, names, n)
<1>1. First(e, names, k) \subseteq First(e, names, n)
  BY DEF First
<1> QED
  BY <1>1, FirstFinite, FS_Subset DEF Num

-----------------------------------------------------------------------------
\* Folds.  FoldLeft is a recursion over the sets of positions of a sequence.  That
\* it has a solution, and what each solution is along the sequence, follows from
\* the set its values are in.

\* The values of a fold are in V, its elements in B.
Folding(V, B, base, step) == base \in V /\ step \in [V \X B -> V]

\* g solves the recursion that a fold of a sequence is.
FoldsOver(g, base, step, s) ==
  g = [S \in SUBSET DOMAIN s |->
         IF S = {} THEN base ELSE step[<<g[S \ {Max(S)}], s[Max(S)]>>]]

LEMMA MaxUpTo ==
  ASSUME NEW n \in Nat, NEW S \in SUBSET (0 .. n), S # {}
  PROVE  Max(S) \in S /\ \A y \in S : y <= Max(S)
<1> DEFINE T == {n - x : x \in S}
<1>1. T \subseteq Nat /\ T # {}
  <2>1. \A x \in S : x \in 0 .. n /\ n - x \in Nat
    OBVIOUS
  <2> QED
    BY <2>1
<1>2. PICK t \in T : \A y \in T : t <= y
  BY <1>1, LeastNat
<1>3. PICK x \in S : t = n - x
  BY <1>2
<1>4. \A y \in S : x >= y
  <2> TAKE y \in S
  <2>1. n - x <= n - y
    BY <1>2, <1>3
  <2> QED
    BY <2>1
<1>5. Max(S) \in S /\ \A y \in S : Max(S) >= y
  BY <1>4 DEF Max
<1> QED
  BY <1>5

LEMMA MaxOfFinite ==
  ASSUME NEW n \in Nat, NEW S \in SUBSET (1 .. n), S # {}
  PROVE  Max(S) \in S /\ \A y \in S : y <= Max(S)
<1>1. S \in SUBSET (0 .. n)
  OBVIOUS
<1> QED
  BY <1>1, MaxUpTo

LEMMA MinOfNat ==
  ASSUME NEW S \in SUBSET Nat, S # {}
  PROVE  Min(S) \in S /\ \A y \in S : Min(S) <= y
<1>1. \E x \in S : \A y \in S : x <= y
  BY LeastNat
<1> QED
  BY <1>1 DEF Min

LEMMA MaxOfInterval == \A n \in Nat : Max(1 .. n + 1) = n + 1 /\ (1 .. n + 1) \ {n + 1} = 1 .. n
<1> TAKE n \in Nat
<1>1. 1 .. n + 1 \in SUBSET (1 .. n + 1) /\ n + 1 \in 1 .. n + 1 /\ n + 1 \in Nat
  OBVIOUS
<1>2. Max(1 .. n + 1) \in 1 .. n + 1 /\ n + 1 <= Max(1 .. n + 1)
  BY <1>1, MaxOfFinite
<1> QED
  BY <1>2

\* A set of positions, all of whose elements but the last are among the first k.
LEMMA WithoutMax ==
  ASSUME NEW n \in Nat, NEW k \in Nat, k < n, NEW S \in SUBSET (1 .. k + 1), S # {}
  PROVE  /\ Max(S) \in 1 .. n /\ S \ {Max(S)} \in SUBSET (1 .. k)
         /\ S \ {Max(S)} \in SUBSET (1 .. n) /\ S \in SUBSET (1 .. n)
<1>1. Max(S) \in S /\ \A y \in S : y <= Max(S)
  BY MaxOfFinite
<1> DEFINE m == Max(S)
<1>2. m \in S /\ \A y \in S : y \in Nat /\ y <= m
  BY <1>1
<1> HIDE DEF m
<1>3. \A y \in S : y # m => y \in 1 .. k
  <2> SUFFICES ASSUME NEW y \in S, y # m PROVE y \in 1 .. k
    OBVIOUS
  <2>1. y \in 1 .. k + 1 /\ m \in 1 .. k + 1 /\ y <= m
    BY <1>2
  <2> QED
    BY <2>1
<1>4. \A y \in S : y \in 1 .. n
  OBVIOUS
<1> QED
  BY <1>2, <1>3, <1>4 DEF m

\* Such a recursion has a solution.
LEMMA FoldExists ==
  ASSUME NEW V, NEW B, NEW base, NEW step, Folding(V, B, base, step), NEW s \in Seq(B)
  PROVE  \E g : FoldsOver(g, base, step, s) /\ \A S \in SUBSET DOMAIN s : g[S] \in V
<1> DEFINE n == Len(s)
           P == SUBSET (1 .. n)
           W == [P -> V]
           a == [S \in P |-> base]
           Next(g) == [S \in P |-> IF S = {} THEN base ELSE step[<<g[S \ {Max(S)}], s[Max(S)]>>]]
           next == [ng \in Nat \X W |-> Next(ng[2])]
<1>1. n \in Nat /\ DOMAIN s = 1 .. n /\ \A i \in 1 .. n : s[i] \in B
  OBVIOUS
<1>2. \A S \in P : S # {} => Max(S) \in 1 .. n /\ S \ {Max(S)} \in P
  BY <1>1, MaxOfFinite
<1> HIDE DEF n, P
<1> base \in V /\ step \in [V \X B -> V]
  BY DEF Folding
<1>3. a \in W
  OBVIOUS
<1>4. \A g \in W : Next(g) \in W
  <2> SUFFICES ASSUME NEW g \in W, NEW S \in P, S # {}
               PROVE  step[<<g[S \ {Max(S)}], s[Max(S)]>>] \in V
    OBVIOUS
  <2>1. g[S \ {Max(S)}] \in V /\ s[Max(S)] \in B
    BY <1>1, <1>2
  <2> QED
    BY <2>1
<1> HIDE DEF a, Next, W
<1>5. next \in [Nat \X W -> W]
  <2>1. \A ng \in Nat \X W : ng[2] \in W
    OBVIOUS
  <2> QED
    BY <1>4, <2>1
<1>6. PICK h \in [Nat -> W] : Recursive(h, a, next)
  <2> HIDE DEF next
  <2> QED
    BY <1>3, <1>5, RecursionOnNat
<1>7. h[0] = a /\ \A k \in Nat : h[k + 1] = Next(h[k]) /\ h[k] \in W
  <2>1. \A k \in Nat : <<k, h[k]>> \in Nat \X W
    BY <1>6
  <2>2. \A k \in Nat : next[<<k, h[k]>>] = Next(h[k])
    BY <2>1
  <2> HIDE DEF next
  <2> QED
    BY <1>6, <2>2 DEF Recursive
<1> HIDE DEF next
<1> DEFINE Stable == {k \in Nat : k <= n => \A S \in SUBSET (1 .. k) : h[k + 1][S] = h[k][S]}
<1>8. Nat \subseteq Stable
  <2>1. 0 \in Stable
    <3>1. SUBSET (1 .. 0) = {{}} /\ {} \in P
      BY DEF P
    <3>2. h[0][{}] = base
      BY <1>7, <3>1 DEF a
    <3>3. h[0 + 1][{}] = base
      <4>1. h[0 + 1] = Next(h[0])
        BY <1>7
      <4> QED
        BY <3>1, <4>1 DEF Next
    <3> QED
      BY <3>1, <3>2, <3>3
  <2>2. ASSUME NEW k \in Nat, k \in Stable PROVE k + 1 \in Stable
    <3>0. k + 1 \in Nat
      OBVIOUS
    <3> SUFFICES ASSUME k + 1 <= n PROVE \A S \in SUBSET (1 .. k + 1) : h[(k + 1) + 1][S] = h[k + 1][S]
      BY <3>0
    <3> TAKE S \in SUBSET (1 .. k + 1)
    <3>1. h[(k + 1) + 1] = Next(h[k + 1]) /\ h[k + 1] = Next(h[k])
      BY <1>7, <3>0
    <3>5. k < n /\ k <= n
      BY <1>1
    <3>2. S \in P
      BY <1>1 DEF P
    <3>3. CASE S = {}
      BY <3>1, <3>2, <3>3 DEF Next
    <3>4. CASE S # {}
      <4>1. S \ {Max(S)} \in SUBSET (1 .. k)
        BY <1>1, <3>4, <3>5, WithoutMax
      <4>2. h[k + 1][S \ {Max(S)}] = h[k][S \ {Max(S)}]
        BY <2>2, <3>5, <4>1
      <4> HIDE DEF Stable
      <4>3. \A g : Next(g)[S] = step[<<g[S \ {Max(S)}], s[Max(S)]>>]
        BY <3>2, <3>4 DEF Next
      <4> QED
        BY <3>1, <4>2, <4>3
    <3> QED
      BY <3>3, <3>4
  <2> HIDE DEF Stable
  <2> QED
    BY <2>1, <2>2, SetInduction
<1>9. h[n] \in W /\ h[n + 1] \in W /\ \A S \in P : h[n + 1][S] = h[n][S]
  BY <1>1, <1>7, <1>8 DEF P
<1>10. h[n] = Next(h[n])
  <2>1. h[n + 1] = h[n]
    BY <1>9 DEF W
  <2> QED
    BY <1>1, <1>7, <2>1
<1>11. FoldsOver(h[n], base, step, s)
  BY <1>1, <1>10 DEF FoldsOver, Next, P
<1>12. \A S \in SUBSET DOMAIN s : h[n][S] \in V
  BY <1>1, <1>9 DEF P, W
<1> QED
  BY <1>11, <1>12

\* Its values, if each is of the kind that the ones before it are.
LEMMA FoldTyped ==
  ASSUME NEW V, NEW n \in Nat, NEW g, g[{}] \in V,
         \A S \in SUBSET (1 .. n) : S # {} /\ g[S \ {Max(S)}] \in V => g[S] \in V
  PROVE  \A S \in SUBSET (1 .. n) : g[S] \in V
<1> DEFINE T == {k \in Nat : k <= n => \A S \in SUBSET (1 .. k) : g[S] \in V}
<1>1. 0 \in T
  <2>1. SUBSET (1 .. 0) = {{}}
    OBVIOUS
  <2> QED
    BY <2>1
<1>2. ASSUME NEW k \in Nat, k \in T PROVE k + 1 \in T
  <2>1. k + 1 \in Nat
    OBVIOUS
  <2> SUFFICES ASSUME k + 1 <= n PROVE \A S \in SUBSET (1 .. k + 1) : g[S] \in V
    BY <2>1
  <2> TAKE S \in SUBSET (1 .. k + 1)
  <2>2. k < n /\ k <= n
    OBVIOUS
  <2>3. CASE S = {}
    BY <2>3
  <2>4. CASE S # {}
    <3>1. S \ {Max(S)} \in SUBSET (1 .. k) /\ S \in SUBSET (1 .. n)
      BY <2>2, <2>4, WithoutMax
    <3> DEFINE R == S \ {Max(S)}
    <3>2. g[R] \in V
      BY <1>2, <2>2, <3>1
    <3> QED
      BY <2>4, <3>1, <3>2
  <2> QED
    BY <2>3, <2>4
<1> HIDE DEF T
<1>3. Nat \subseteq T
  BY <1>1, <1>2, SetInduction
<1>4. n \in T /\ n <= n
  BY <1>3
<1> QED
  BY <1>4 DEF T

\* What a solution goes through along the sequence.
Follows(g, V, base, step, s) ==
  /\ g[{}] = base
  /\ \A S \in SUBSET DOMAIN s : S # {} /\ g[S \ {Max(S)}] \in V =>
       g[S] = step[<<g[S \ {Max(S)}], s[Max(S)]>>]

LEMMA FoldAlong ==
  ASSUME NEW V, NEW B, NEW base, NEW step, Folding(V, B, base, step), NEW s \in Seq(B),
         NEW g, Follows(g, V, base, step, s)
  PROVE  \E f \in [0 .. Len(s) -> V] :
           /\ f[0] = base /\ f[Len(s)] = g[DOMAIN s]
           /\ \A k \in 0 .. Len(s) - 1 : f[k + 1] = step[<<f[k], s[k + 1]>>]
<1> DEFINE n == Len(s)
           f == [k \in 0 .. n |-> g[1 .. k]]
<1>1. n \in Nat /\ DOMAIN s = 1 .. n /\ \A i \in 1 .. n : s[i] \in B
  OBVIOUS
<1> base \in V /\ step \in [V \X B -> V]
  BY DEF Folding
<1>2. \A S \in SUBSET (1 .. n) : S # {} /\ g[S \ {Max(S)}] \in V =>
        g[S] = step[<<g[S \ {Max(S)}], s[Max(S)]>>]
  BY <1>1 DEF Follows
<1> g[{}] = base
  BY DEF Follows
<1> HIDE DEF n
<1>3. ASSUME NEW S \in SUBSET (1 .. n), S # {}, g[S \ {Max(S)}] \in V PROVE g[S] \in V
  <2>1. Max(S) \in 1 .. n
    BY <1>1, <1>3, MaxOfFinite
  <2>2. s[Max(S)] \in B
    BY <1>1, <2>1
  <2> QED
    BY <1>2, <1>3, <2>2
<1>4. \A S \in SUBSET (1 .. n) : g[S] \in V
  <2>1. \A S \in SUBSET (1 .. n) : S # {} /\ g[S \ {Max(S)}] \in V => g[S] \in V
    BY <1>3
  <2>2. g[{}] \in V
    OBVIOUS
  <2> QED
    BY <1>1, <2>1, <2>2, FoldTyped
<1>5. \A k \in 0 .. n : 1 .. k \in SUBSET (1 .. n)
  BY <1>1
<1>6. f \in [0 .. n -> V]
  BY <1>4, <1>5
<1>7. f[0] = base /\ f[n] = g[DOMAIN s]
  BY <1>1
<1>8. ASSUME NEW k \in 0 .. n - 1 PROVE f[k + 1] = step[<<f[k], s[k + 1]>>]
  <2>1. k \in Nat /\ k + 1 <= n
    BY <1>1
  <2>2. 1 .. k + 1 \in SUBSET (1 .. n) /\ k + 1 \in 1 .. k + 1
    BY <1>1, <2>1
  <2>3. Max(1 .. k + 1) = k + 1 /\ (1 .. k + 1) \ {k + 1} = 1 .. k
    BY <2>1, MaxOfInterval
  <2>4. 1 .. k \in SUBSET (1 .. n) /\ k \in 0 .. n /\ k + 1 \in 0 .. n
    BY <1>1, <2>1
  <2>5. g[1 .. k + 1] = step[<<g[1 .. k], s[k + 1]>>]
    BY <1>2, <1>4, <2>2, <2>3, <2>4
  <2> QED
    BY <2>4, <2>5
<1> QED
  BY <1>6, <1>7, <1>8 DEF n

-----------------------------------------------------------------------------
\* str::split and str::find.

\* str::split has at least one piece.
Pieces(B) == {p \in Seq(Seq(B)) : p # <<>>}

SplitChar(parts, c, seps) ==
  IF c \in seps THEN Append(parts, <<>>) ELSE [parts EXCEPT ![Len(parts)] = Append(@, c)]

SplitsTo(B, p, c, seps, q) ==
  /\ q \in Pieces(B)
  /\ c \in seps => Front(q) = Append(Front(p), Last(p)) /\ Last(q) = <<>>
  /\ c \notin seps => Front(q) = Front(p) /\ Last(q) = Append(Last(p), c)

LEMMA SplitCharIs ==
  ASSUME NEW B, NEW p \in Pieces(B), NEW c \in B, NEW seps
  PROVE  SplitsTo(B, p, c, seps, SplitChar(p, c, seps))
<1> DEFINE n == Len(p)
           q == SplitChar(p, c, seps)
<1>1. p \in Seq(Seq(B)) /\ n \in Nat /\ n > 0 /\ DOMAIN p = 1 .. n /\ \A i \in 1 .. n : p[i] \in Seq(B)
  BY DEF Pieces
<1>2. /\ Last(p) = p[n] /\ p[n] \in Seq(B) /\ Append(p[n], c) \in Seq(B)
      /\ Front(p) = SubSeq(p, 1, n - 1) /\ Front(p) \in Seq(Seq(B))
  BY <1>1 DEF Last, Front
<1>3. CASE c \in seps
  <2>1. q = Append(p, <<>>)
    BY <1>3 DEF SplitChar
  <2>2. <<>> \in Seq(B)
    OBVIOUS
  <2>3. q \in Seq(Seq(B)) /\ Len(q) = n + 1 /\ q[n + 1] = <<>> /\ \A i \in 1 .. n : q[i] = p[i]
    BY <1>1, <2>1, <2>2
  <2> HIDE DEF q, n
  <2>4. Front(q) = p
    <3>1. Front(q) = SubSeq(q, 1, n)
      BY <1>1, <2>3 DEF Front
    <3> QED
      BY <1>1, <2>3, <3>1 DEF n
  <2>5. Append(Front(p), Last(p)) = p
    BY <1>1, <1>2 DEF n
  <2>6. Last(q) = <<>> /\ q # <<>>
    BY <1>1, <2>3 DEF Last
  <2> QED
    BY <1>2, <1>3, <2>3, <2>4, <2>5, <2>6 DEF q, Pieces, SplitsTo
<1>4. CASE c \notin seps
  <2>1. q = [p EXCEPT ![n] = Append(p[n], c)]
    BY <1>4 DEF SplitChar
  <2>2. q \in Seq(Seq(B)) /\ Len(q) = n /\ q[n] = Append(p[n], c) /\ \A i \in 1 .. n - 1 : q[i] = p[i]
    <3> HIDE DEF n
    <3>1. q = [i \in 1 .. n |-> IF i = n THEN Append(p[n], c) ELSE p[i]]
      BY <1>1, <2>1
    <3> HIDE DEF q
    <3>2. \A i \in 1 .. n : q[i] \in Seq(B)
      BY <1>1, <1>2, <3>1
    <3>3. q \in Seq(Seq(B)) /\ Len(q) = n
      BY <1>1, <3>1, <3>2
    <3> QED
      BY <1>1, <3>1, <3>3
  <2> HIDE DEF q, n
  <2>3. Front(q) = SubSeq(q, 1, n - 1) /\ Last(q) = q[n] /\ q # <<>>
    BY <1>1, <2>2 DEF Front, Last
  <2>4. SubSeq(q, 1, n - 1) = SubSeq(p, 1, n - 1)
    <3>1. /\ SubSeq(q, 1, n - 1) = [i \in 1 .. n - 1 |-> q[i]]
          /\ SubSeq(p, 1, n - 1) = [i \in 1 .. n - 1 |-> p[i]]
      BY <1>1, <2>2
    <3> QED
      BY <2>2, <3>1
  <2> QED
    BY <1>2, <1>4, <2>2, <2>3, <2>4 DEF q, Pieces, SplitsTo
<1> QED
  BY <1>3, <1>4

\* The fold of str::split, character after character.
SplitRun(B, t, seps, f) ==
  /\ f \in [0 .. Len(t) -> Pieces(B)] /\ f[0] = <<<<>>>>
  /\ \A k \in 0 .. Len(t) - 1 : f[k + 1] = SplitChar(f[k], t[k + 1], seps)
  /\ SplitAt(t, seps) = f[Len(t)]

LEMMA SplitAlong ==
  ASSUME NEW B, NEW t \in Seq(B), NEW seps
  PROVE  \E f : SplitRun(B, t, seps, f)
<1> DEFINE V == Pieces(B)
           E == B
           step == [x \in V \X E |-> SplitChar(x[1], x[2], seps)]
           Solves(g) == g = [S \in SUBSET DOMAIN t |->
             IF S = {} THEN <<<<>>>> ELSE SplitChar(g[S \ {Max(S)}], t[Max(S)], seps)]
           c == CHOOSE g : Solves(g)
<1>1. Folding(V, E, <<<<>>>>, step)
  <2>1. <<<<>>>> \in V
    <3>1. <<>> \in Seq(B)
      OBVIOUS
    <3> QED
      BY <3>1 DEF Pieces
  <2>2. \A x \in V \X E : SplitChar(x[1], x[2], seps) \in V
    BY SplitCharIs DEF SplitsTo
  <2> QED
    BY <2>1, <2>2 DEF Folding
<1>2. /\ t \in Seq(E) /\ DOMAIN t = 1 .. Len(t)
      /\ Len(t) \in Nat /\ \A i \in 1 .. Len(t) : t[i] \in E
  OBVIOUS
<1>3. \A S \in SUBSET DOMAIN t : S # {} => Max(S) \in DOMAIN t /\ S \ {Max(S)} \in SUBSET DOMAIN t
  BY <1>2, MaxOfFinite
<1> HIDE DEF V, E
<1>4. \A x \in V, y \in E : step[<<x, y>>] = SplitChar(x, y, seps)
  OBVIOUS
<1> HIDE DEF step
<1>5. \E g : Solves(g)
  <2>1. PICK g : FoldsOver(g, <<<<>>>>, step, t) /\ \A S \in SUBSET DOMAIN t : g[S] \in V
    BY <1>1, <1>2, FoldExists
  <2>2. \A S \in SUBSET DOMAIN t : S # {} =>
          step[<<g[S \ {Max(S)}], t[Max(S)]>>] = SplitChar(g[S \ {Max(S)}], t[Max(S)], seps)
    BY <1>2, <1>3, <1>4, <2>1
  <2>3. Solves(g)
    BY <2>1, <2>2 DEF FoldsOver
  <2> QED
    BY <2>3
<1>6. Solves(c)
  BY <1>5
<1> HIDE DEF c
<1>7. Follows(c, V, <<<<>>>>, step, t)
  <2>1. c[{}] = <<<<>>>>
    BY <1>6
  <2>2. \A S \in SUBSET DOMAIN t : S # {} /\ c[S \ {Max(S)}] \in V =>
          c[S] = step[<<c[S \ {Max(S)}], t[Max(S)]>>]
    BY <1>2, <1>3, <1>4, <1>6
  <2> QED
    BY <2>1, <2>2 DEF Follows
<1>8. SplitAt(t, seps) = c[DOMAIN t]
  BY Zenon DEF SplitAt, SplitChar, FoldLeft, MapThenFoldSet, c, Solves
<1> HIDE DEF Solves
<1>9. PICK f \in [0 .. Len(t) -> V] :
        /\ f[0] = <<<<>>>> /\ f[Len(t)] = c[DOMAIN t]
        /\ \A k \in 0 .. Len(t) - 1 : f[k + 1] = step[<<f[k], t[k + 1]>>]
  BY <1>1, <1>2, <1>7, FoldAlong
<1>10. \A k \in 0 .. Len(t) - 1 : f[k + 1] = SplitChar(f[k], t[k + 1], seps)
  <2> TAKE k \in 0 .. Len(t) - 1
  <2>1. k \in 0 .. Len(t) /\ k + 1 \in 1 .. Len(t)
    BY <1>2
  <2> QED
    BY <1>2, <1>4, <1>9, <2>1
<1> QED
  BY <1>8, <1>9, <1>10 DEF V, SplitRun


\* What is cut at the characters of seps: piece q stands in t behind its first
\* o[q] characters, with a separator before it and none inside.
IsCut(B, t, k, seps, p, o) ==
  /\ p \in Pieces(B) /\ o \in [1 .. Len(p) -> Nat]
  /\ o[1] = 0 /\ o[Len(p)] + Len(p[Len(p)]) = k
  /\ \A q \in 1 .. Len(p) - 1 : o[q + 1] = o[q] + Len(p[q]) + 1 /\ t[o[q + 1]] \in seps
  /\ \A q \in 1 .. Len(p) : \A i \in 1 .. Len(p[q]) : p[q][i] = t[o[q] + i] /\ p[q][i] \notin seps

LEMMA CutGoesOn ==
  ASSUME NEW B, NEW t \in Seq(B), NEW k \in Nat, k < Len(t), NEW seps,
         NEW p, NEW o, IsCut(B, t, k, seps, p, o)
  PROVE  \E u : IsCut(B, t, k + 1, seps, SplitChar(p, t[k + 1], seps), u)
<1> DEFINE n == Len(p)
           c == t[k + 1]
           e == SplitChar(p, c, seps)
<1>1. p \in Seq(Seq(B)) /\ n \in Nat /\ n > 0 /\ DOMAIN p = 1 .. n /\ \A i \in 1 .. n : p[i] \in Seq(B)
  BY DEF IsCut, Pieces
<1>2. c \in B /\ \A i \in 1 .. n : Len(p[i]) \in Nat
  BY <1>1
<1>3. /\ o \in [1 .. n -> Nat] /\ o[1] = 0 /\ o[n] + Len(p[n]) = k
      /\ \A q \in 1 .. n - 1 : o[q + 1] = o[q] + Len(p[q]) + 1 /\ t[o[q + 1]] \in seps
      /\ \A q \in 1 .. n : \A i \in 1 .. Len(p[q]) : p[q][i] = t[o[q] + i] /\ p[q][i] \notin seps
  BY DEF IsCut
<1>4. CASE c \in seps
  <2> DEFINE u == [q \in 1 .. n + 1 |-> IF q = n + 1 THEN k + 1 ELSE o[q]]
  <2>1. e = Append(p, <<>>) /\ <<>> \in Seq(B)
    BY <1>4 DEF SplitChar
  <2>9. /\ e \in Seq(Seq(B)) /\ Len(e) = n + 1
        /\ e[n + 1] = <<>> /\ \A i \in 1 .. n : e[i] = p[i]
    BY <1>1, <2>1
  <2>2. /\ e \in Seq(Seq(B)) /\ Len(e) = n + 1 /\ e # <<>>
        /\ e[n + 1] = <<>> /\ \A i \in 1 .. n : e[i] = p[i]
    <3> HIDE DEF e, n
    <3> QED
      BY <1>1, <2>9
  <2> HIDE DEF e, n
  <2>3. /\ u \in [1 .. n + 1 -> Nat] /\ u[1] = 0 /\ u[n + 1] = k + 1
        /\ \A i \in 1 .. n : u[i] = o[i]
    BY <1>1, <1>3
  <2> HIDE DEF u
  <2>4. \A q \in 1 .. n : u[q + 1] = u[q] + Len(e[q]) + 1 /\ t[u[q + 1]] \in seps
    <3> TAKE q \in 1 .. n
    <3>1. CASE q = n
      BY <1>1, <1>2, <1>3, <1>4, <2>2, <2>3, <3>1 DEF c
    <3>2. CASE q < n
      <4>1. q \in 1 .. n - 1 /\ q + 1 \in 1 .. n
        BY <1>1, <3>2
      <4> QED
        BY <1>3, <2>2, <2>3, <4>1
    <3> QED
      BY <1>1, <3>1, <3>2
  <2>5. \A q \in 1 .. n + 1 : \A i \in 1 .. Len(e[q]) : e[q][i] = t[u[q] + i] /\ e[q][i] \notin seps
    <3> TAKE q \in 1 .. n + 1
    <3>1. CASE q = n + 1
      BY <2>2, <3>1
    <3>2. CASE q \in 1 .. n
      <4>1. e[q] = p[q] /\ u[q] = o[q]
        BY <2>2, <2>3, <3>2
      <4> QED
        BY <1>3, <3>2, <4>1
    <3> QED
      BY <1>1, <3>1, <3>2
  <2>6. u[n + 1] + Len(e[n + 1]) = k + 1
    BY <2>2, <2>3
  <2>7. 1 .. Len(e) = 1 .. n + 1 /\ 1 .. Len(e) - 1 = 1 .. n
    BY <1>1, <2>2
  <2>8. IsCut(B, t, k + 1, seps, e, u)
    BY <2>2, <2>3, <2>4, <2>5, <2>6, <2>7 DEF IsCut, Pieces
  <2> QED
    BY <2>8 DEF e
<1>5. CASE c \notin seps
  <2>1. e = [p EXCEPT ![n] = Append(p[n], c)]
    BY <1>5 DEF SplitChar
  <2>2. /\ e \in Seq(Seq(B)) /\ Len(e) = n /\ e # <<>>
        /\ e[n] = Append(p[n], c) /\ \A i \in 1 .. n - 1 : e[i] = p[i]
    <3> HIDE DEF n
    <3>1. e = [i \in 1 .. n |-> IF i = n THEN Append(p[n], c) ELSE p[i]]
      BY <1>1, <2>1
    <3>2. Append(p[n], c) \in Seq(B)
      BY <1>1, <1>2
    <3> HIDE DEF e
    <3>3. \A i \in 1 .. n : e[i] \in Seq(B)
      BY <1>1, <3>1, <3>2
    <3>4. e \in Seq(Seq(B)) /\ Len(e) = n
      BY <1>1, <3>1, <3>3
    <3>5. e # <<>>
      BY <1>1, <3>4
    <3>6. e[n] = Append(p[n], c) /\ \A i \in 1 .. n - 1 : e[i] = p[i]
      BY <1>1, <3>1
    <3> QED
      BY <3>4, <3>5, <3>6
  <2>3. /\ Len(e[n]) = Len(p[n]) + 1 /\ e[n][Len(p[n]) + 1] = c
        /\ \A i \in 1 .. Len(p[n]) : e[n][i] = p[n][i]
    BY <1>1, <2>2
  <2> HIDE DEF e, n
  <2>4. \A q \in 1 .. n - 1 : o[q + 1] = o[q] + Len(e[q]) + 1 /\ t[o[q + 1]] \in seps
    BY <1>3, <2>2
  <2>5. \A q \in 1 .. n : \A i \in 1 .. Len(e[q]) : e[q][i] = t[o[q] + i] /\ e[q][i] \notin seps
    <3> TAKE q \in 1 .. n
    <3>1. CASE q = n
      <4>1. o[n] \in Nat /\ Len(p[n]) \in Nat /\ o[n] + Len(p[n]) = k
        BY <1>1, <1>2, <1>3
      <4>2. o[n] + (Len(p[n]) + 1) = k + 1
        BY <4>1
      <4> TAKE i \in 1 .. Len(e[q])
      <4>3. CASE i \in 1 .. Len(p[n])
        <5>1. e[q][i] = p[n][i]
          BY <2>3, <3>1, <4>3
        <5>2. n \in 1 .. n
          BY <1>1
        <5> QED
          BY <1>3, <3>1, <4>3, <5>1, <5>2
      <4>4. CASE i = Len(p[n]) + 1
        <5>1. e[q][i] = c /\ o[q] + i = k + 1
          BY <2>3, <3>1, <4>2, <4>4
        <5> QED
          BY <1>5, <5>1 DEF c
      <4> QED
        BY <2>3, <3>1, <4>1, <4>3, <4>4
    <3>2. CASE q \in 1 .. n - 1
      <4>1. e[q] = p[q] /\ q \in 1 .. n
        BY <1>1, <2>2, <3>2
      <4> QED
        BY <1>3, <4>1
    <3> QED
      BY <1>1, <3>1, <3>2
  <2>6. o[n] + Len(e[n]) = k + 1
    <3>1. o[n] \in Nat /\ Len(p[n]) \in Nat /\ o[n] + Len(p[n]) = k
      BY <1>1, <1>2, <1>3
    <3> QED
      BY <2>3, <3>1
  <2>7. IsCut(B, t, k + 1, seps, e, o)
    BY <1>3, <2>2, <2>4, <2>5, <2>6 DEF IsCut, Pieces
  <2> QED
    BY <2>7 DEF e
<1> QED
  BY <1>4, <1>5

LEMMA SplitCuts ==
  ASSUME NEW B, NEW t \in Seq(B), NEW seps
  PROVE  \E o : IsCut(B, t, Len(t), seps, SplitAt(t, seps), o)
<1>1. PICK f : SplitRun(B, t, seps, f)
  BY SplitAlong, Zenon
<1>2. /\ f[0] = <<<<>>>> /\ SplitAt(t, seps) = f[Len(t)]
      /\ \A k \in 0 .. Len(t) - 1 : f[k + 1] = SplitChar(f[k], t[k + 1], seps)
  BY <1>1 DEF SplitRun
<1> DEFINE T == {k \in Nat : k <= Len(t) => \E o : IsCut(B, t, k, seps, f[k], o)}
<1>3. 0 \in T
  <2>1. IsCut(B, t, 0, seps, <<<<>>>>, [q \in 1 .. 1 |-> 0])
    <3>1. <<<<>>>> \in Pieces(B)
      <4>1. <<>> \in Seq(B)
        OBVIOUS
      <4> QED
        BY <4>1 DEF Pieces
    <3> QED
      BY <3>1 DEF IsCut
  <2> QED
    BY <1>2, <2>1
<1>4. ASSUME NEW k \in Nat, k \in T PROVE k + 1 \in T
  <2>1. k + 1 \in Nat
    OBVIOUS
  <2> SUFFICES ASSUME k + 1 <= Len(t) PROVE \E o : IsCut(B, t, k + 1, seps, f[k + 1], o)
    BY <2>1
  <2>2. k < Len(t) /\ k <= Len(t) /\ k \in 0 .. Len(t) - 1
    OBVIOUS
  <2>3. PICK o : IsCut(B, t, k, seps, f[k], o)
    BY <1>4, <2>2
  <2>4. \E u : IsCut(B, t, k + 1, seps, SplitChar(f[k], t[k + 1], seps), u)
    BY <2>2, <2>3, CutGoesOn
  <2> QED
    BY <1>2, <2>2, <2>4
<1> HIDE DEF T
<1>5. Len(t) \in T /\ Len(t) <= Len(t)
  <2>1. Nat \subseteq T
    BY <1>3, <1>4, SetInduction
  <2>2. Len(t) \in Nat
    OBVIOUS
  <2> QED
    BY <2>1, <2>2
<1> QED
  BY <1>2, <1>5 DEF T

LEMMA SubSeqIs ==
  ASSUME NEW B, NEW s \in Seq(B), NEW a \in Nat, NEW b \in Nat, 1 <= a, a <= b + 1, b <= Len(s)
  PROVE  /\ SubSeq(s, a, b) \in Seq(B) /\ Len(SubSeq(s, a, b)) = (b + 1) - a
         /\ \A i \in 1 .. (b + 1) - a : SubSeq(s, a, b)[i] = s[(a + i) - 1]
<1> DEFINE n == (b + 1) - a
<1>1. n \in Nat /\ Len(s) \in Nat /\ \A i \in 1 .. Len(s) : s[i] \in B
  OBVIOUS
<1>2. SubSeq(s, a, b) = [i \in 1 .. n |-> s[(a + i) - 1]]
  <2>1. SubSeq(s, a, b) = [i \in 1 .. (b - a) + 1 |-> s[(i + a) - 1]]
    OBVIOUS
  <2>2. (b - a) + 1 = n /\ \A i \in 1 .. n : (i + a) - 1 = (a + i) - 1
    OBVIOUS
  <2> QED
    BY <2>1, <2>2
<1>3. \A i \in 1 .. n : (a + i) - 1 \in 1 .. Len(s)
  BY <1>1
<1>4. \A i \in 1 .. n : s[(a + i) - 1] \in B
  BY <1>1, <1>3
<1> HIDE DEF n
<1> DEFINE u == [i \in 1 .. n |-> s[(a + i) - 1]]
<1>5. u \in Seq(B) /\ Len(u) = n /\ \A i \in 1 .. n : u[i] = s[(a + i) - 1]
  BY <1>1, <1>4
<1> QED
  BY <1>2, <1>5 DEF n

LEMMA PrefixIs ==
  ASSUME NEW B, NEW s \in Seq(B), NEW b \in Nat, b <= Len(s)
  PROVE  /\ SubSeq(s, 1, b) \in Seq(B) /\ Len(SubSeq(s, 1, b)) = b
         /\ \A i \in 1 .. b : SubSeq(s, 1, b)[i] = s[i]
<1>1. /\ SubSeq(s, 1, b) \in Seq(B) /\ Len(SubSeq(s, 1, b)) = (b + 1) - 1
      /\ \A i \in 1 .. (b + 1) - 1 : SubSeq(s, 1, b)[i] = s[(1 + i) - 1]
  <2>1. 1 \in Nat /\ 1 <= 1 /\ 1 <= b + 1
    OBVIOUS
  <2> QED
    BY <2>1, SubSeqIs
<1>2. (b + 1) - 1 = b /\ \A i \in 1 .. b : (1 + i) - 1 = i
  OBVIOUS
<1> QED
  BY <1>1, <1>2

\* The pieces lie within the text.
LEMMA CutWithin ==
  ASSUME NEW B, NEW t, NEW k \in Nat, NEW seps, NEW p, NEW o, IsCut(B, t, k, seps, p, o)
  PROVE  \A q \in 1 .. Len(p) : o[q] + Len(p[q]) <= k
<1> DEFINE n == Len(p)
           End(q) == o[q] + Len(p[q])
           T == {d \in Nat : d < n => End(n - d) <= k}
<1>1. /\ n \in Nat /\ n > 0 /\ \A q \in 1 .. n : End(q) \in Nat /\ Len(p[q]) \in Nat /\ o[q] \in Nat
      /\ End(n) = k /\ \A q \in 1 .. n - 1 : o[q + 1] = End(q) + 1
  <2>1. p \in Seq(Seq(B)) /\ p # <<>> /\ o \in [1 .. n -> Nat]
    BY DEF IsCut, Pieces
  <2>2. End(n) = k /\ \A q \in 1 .. n - 1 : o[q + 1] = End(q) + 1
    BY DEF IsCut
  <2>3. n \in Nat /\ n > 0 /\ \A q \in 1 .. n : p[q] \in Seq(B)
    BY <2>1
  <2> HIDE DEF n
  <2>4. \A q \in 1 .. n : o[q] \in Nat /\ Len(p[q]) \in Nat
    BY <2>1, <2>3
  <2> QED
    BY <2>2, <2>3, <2>4
<1> HIDE DEF n
<1>2. 0 \in T
  BY <1>1
<1>3. ASSUME NEW d \in Nat, d \in T PROVE d + 1 \in T
  <2>1. d + 1 \in Nat
    OBVIOUS
  <2> SUFFICES ASSUME d + 1 < n PROVE End(n - (d + 1)) <= k
    BY <2>1
  <2>2. End(n - d) <= k
    BY <1>1, <1>3
  <2> DEFINE q == n - (d + 1)
  <2>3. q \in 1 .. n - 1 /\ q + 1 = n - d /\ q \in 1 .. n /\ q + 1 \in 1 .. n
    BY <1>1
  <2> HIDE DEF q
  <2>4. o[q + 1] = End(q) + 1 /\ End(q + 1) <= k /\ Len(p[q + 1]) \in Nat /\ End(q) \in Nat
    BY <1>1, <2>2, <2>3
  <2>5. End(q) <= k
    BY <2>4
  <2> QED
    BY <2>5 DEF q
<1> HIDE DEF T
<1>4. Nat \subseteq T
  BY <1>2, <1>3, SetInduction
<1> HIDE DEF End
<1>5. ASSUME NEW q \in 1 .. n PROVE End(q) <= k
  <2>1. n - q \in Nat /\ n - q < n /\ n - (n - q) = q
    BY <1>1
  <2>2. n - q \in T
    BY <1>4, <2>1
  <2> QED
    BY <2>1, <2>2 DEF T
<1> QED
  BY <1>5 DEF n, End

\* str::find from a position on.
LEMMA FindFromIs ==
  ASSUME NEW B, NEW s \in Seq(B), NEW t \in Seq(B), NEW from \in Nat
  PROVE  /\ FindFrom(s, t, from) \in Nat
         /\ FindFrom(s, t, from) <= Len(t) =>
              from <= FindFrom(s, t, from) /\ OccursAt(s, t, FindFrom(s, t, from))
         /\ \A i \in from .. Len(t) : OccursAt(s, t, i) => FindFrom(s, t, from) <= i
<1> DEFINE at == {i \in from .. Len(t) : OccursAt(s, t, i)}
<1>1. Len(t) \in Nat /\ at \in SUBSET Nat
  OBVIOUS
<1>2. CASE at = {}
  <2>1. FindFrom(s, t, from) = Len(t) + 1
    BY <1>2 DEF FindFrom
  <2> QED
    BY <1>1, <1>2, <2>1
<1>3. CASE at # {}
  <2>1. FindFrom(s, t, from) = Min(at)
    BY <1>3 DEF FindFrom
  <2>2. Min(at) \in at /\ \A y \in at : Min(at) <= y
    BY <1>1, <1>3, MinOfNat
  <2> DEFINE x == Min(at)
  <2> HIDE DEF x
  <2>3. x \in at /\ \A y \in at : x <= y
    BY <2>2 DEF x
  <2>4. FindFrom(s, t, from) = x
    BY <2>1 DEF x
  <2> QED
    BY <1>1, <2>3, <2>4
<1> QED
  BY <1>2, <1>3

LEMMA AppendIs ==
  ASSUME NEW B, NEW a \in Seq(B), NEW d \in B
  PROVE  Append(a, d) \in Seq(B) /\ <<d>> \in Seq(B) /\ a \o <<d>> = Append(a, d)
<1>1. Append(a, d) \in Seq(B) /\ <<d>> \in Seq(B)
  OBVIOUS
<1>2. a \o <<d>> = Append(a, d)
  OBVIOUS
<1> QED
  BY <1>1, <1>2

\* A prefix grows by the next character.
LEMMA PrefixGrows ==
  ASSUME NEW B, NEW s \in Seq(B), NEW k \in Nat, k < Len(s)
  PROVE  /\ SubSeq(s, 1, k) \in Seq(B) /\ s[k + 1] \in B
         /\ SubSeq(s, 1, k + 1) = Append(SubSeq(s, 1, k), s[k + 1])
<1> DEFINE p == SubSeq(s, 1, k)
           q == SubSeq(s, 1, k + 1)
           c == s[k + 1]
           a == Append(p, c)
<1>1. k + 1 \in Nat /\ k + 1 <= Len(s) /\ k <= Len(s) /\ k + 1 \in 1 .. Len(s)
  OBVIOUS
<1>2. /\ p \in Seq(B) /\ Len(p) = k /\ \A i \in 1 .. k : p[i] = s[i]
  BY <1>1, PrefixIs
<1>3. /\ q \in Seq(B) /\ Len(q) = k + 1 /\ \A i \in 1 .. k + 1 : q[i] = s[i]
  BY <1>1, PrefixIs
<1>4. c \in B
  BY <1>1
<1> HIDE DEF p, q, c
<1>5. a \in Seq(B) /\ Len(a) = k + 1 /\ a[k + 1] = c /\ \A i \in 1 .. k : a[i] = p[i]
  BY <1>2, <1>4
<1> HIDE DEF a
<1>6. \A i \in 1 .. k + 1 : a[i] = q[i]
  <2> TAKE i \in 1 .. k + 1
  <2>1. CASE i = k + 1
    BY <1>3, <1>5, <2>1 DEF c
  <2>2. CASE i \in 1 .. k
    BY <1>2, <1>3, <1>5, <2>2
  <2> QED
    BY <2>1, <2>2
<1>7. a = q
  BY <1>3, <1>5, <1>6
<1> QED
  BY <1>2, <1>4, <1>7 DEF a, p, q, c

\* The fold of [_]::join, piece after piece.
JoinedTo(text, p, sep) == text \o sep \o p

JoinRun(B, parts, sep, f) ==
  /\ f \in [0 .. Len(parts) - 1 -> Seq(B)] /\ f[0] = parts[1]
  /\ \A k \in 0 .. Len(parts) - 2 : f[k + 1] = JoinedTo(f[k], parts[k + 2], sep)
  /\ JoinBy(parts, sep) = f[Len(parts) - 1]

LEMMA JoinAlong ==
  ASSUME NEW B, NEW parts \in Seq(Seq(B)), parts # <<>>, NEW sep \in Seq(B)
  PROVE  \E f : JoinRun(B, parts, sep, f)
<1> DEFINE V == Seq(B)
           E == Seq(B)
           first == Head(parts)
           rest == Tail(parts)
           n == Len(rest)
           step == [x \in V \X E |-> JoinedTo(x[1], x[2], sep)]
           Solves(g) == g = [S \in SUBSET DOMAIN rest |->
             IF S = {} THEN first ELSE JoinedTo(g[S \ {Max(S)}], rest[Max(S)], sep)]
           c == CHOOSE g : Solves(g)
<1>1. /\ first \in V /\ first = parts[1] /\ rest \in Seq(E) /\ n = Len(parts) - 1 /\ n \in Nat
      /\ \A k \in 1 .. n : rest[k] = parts[k + 1]
  <2> DEFINE S == Seq(B)
  <2>1. parts \in Seq(S)
    OBVIOUS
  <2> HIDE DEF S
  <2>2. /\ first \in S /\ first = parts[1] /\ rest \in Seq(S) /\ n = Len(parts) - 1 /\ n \in Nat
        /\ \A k \in 1 .. n : rest[k] = parts[k + 1]
    BY <2>1
  <2> QED
    BY <2>2 DEF S
<1>2. \A x \in V \X E : JoinedTo(x[1], x[2], sep) \in V
  BY DEF JoinedTo
<1> HIDE DEF first, rest, n
<1>3. Folding(V, E, first, step)
  BY <1>1, <1>2 DEF Folding
<1> HIDE DEF V, E
<1>4. /\ rest \in Seq(E) /\ DOMAIN rest = 1 .. n
      /\ n \in Nat /\ \A i \in 1 .. n : rest[i] \in E
  BY <1>1 DEF n
<1>5. \A S \in SUBSET DOMAIN rest : S # {} => Max(S) \in DOMAIN rest /\ S \ {Max(S)} \in SUBSET DOMAIN rest
  BY <1>4, MaxOfFinite
<1>6. \A x \in V, y \in E : step[<<x, y>>] = JoinedTo(x, y, sep)
  OBVIOUS
<1> HIDE DEF step
<1>7. \E g : Solves(g)
  <2>1. PICK g : FoldsOver(g, first, step, rest) /\ \A S \in SUBSET DOMAIN rest : g[S] \in V
    BY <1>3, <1>4, FoldExists
  <2>2. \A S \in SUBSET DOMAIN rest : S # {} =>
          step[<<g[S \ {Max(S)}], rest[Max(S)]>>] = JoinedTo(g[S \ {Max(S)}], rest[Max(S)], sep)
    BY <1>4, <1>5, <1>6, <2>1
  <2>3. Solves(g)
    BY <2>1, <2>2 DEF FoldsOver
  <2> QED
    BY <2>3
<1>8. Solves(c)
  BY <1>7
<1> HIDE DEF c
<1>9. Follows(c, V, first, step, rest)
  <2>1. c[{}] = first
    BY <1>8
  <2>2. \A S \in SUBSET DOMAIN rest : S # {} /\ c[S \ {Max(S)}] \in V =>
          c[S] = step[<<c[S \ {Max(S)}], rest[Max(S)]>>]
    BY <1>4, <1>5, <1>6, <1>8
  <2> QED
    BY <2>1, <2>2 DEF Follows
<1>10. JoinBy(parts, sep) = c[DOMAIN rest]
  BY Zenon DEF JoinBy, JoinedTo, FoldLeft, MapThenFoldSet, c, Solves, first, rest
<1> HIDE DEF Solves
<1>11. PICK f \in [0 .. n -> V] :
        /\ f[0] = first /\ f[n] = c[DOMAIN rest]
        /\ \A k \in 0 .. n - 1 : f[k + 1] = step[<<f[k], rest[k + 1]>>]
  <2>1. \E f \in [0 .. Len(rest) -> V] :
          /\ f[0] = first /\ f[Len(rest)] = c[DOMAIN rest]
          /\ \A k \in 0 .. Len(rest) - 1 : f[k + 1] = step[<<f[k], rest[k + 1]>>]
    BY <1>3, <1>4, <1>9, FoldAlong
  <2>2. n = Len(rest)
    BY DEF n
  <2> QED
    BY <2>1, <2>2
<1>12. \A k \in 0 .. n - 1 : f[k + 1] = JoinedTo(f[k], parts[k + 2], sep)
  <2> TAKE k \in 0 .. n - 1
  <2>1. k \in 0 .. n /\ k + 1 \in 1 .. n /\ (k + 1) + 1 = k + 2
    BY <1>4
  <2>2. rest[k + 1] = parts[k + 2]
    BY <1>1, <2>1
  <2> QED
    BY <1>4, <1>6, <1>11, <2>1, <2>2
<1>13. n = Len(parts) - 1 /\ n - 1 = Len(parts) - 2
  <2>1. Len(parts) \in Nat
    OBVIOUS
  <2> QED
    BY <1>1, <2>1
<1>14. f \in [0 .. Len(parts) - 1 -> Seq(B)] /\ JoinBy(parts, sep) = f[Len(parts) - 1] /\ f[0] = parts[1]
  BY <1>1, <1>10, <1>11, <1>13 DEF V
<1>15. \A k \in 0 .. Len(parts) - 2 : f[k + 1] = JoinedTo(f[k], parts[k + 2], sep)
  BY <1>12, <1>13
<1> QED
  BY <1>14, <1>15 DEF JoinRun

\* Where the first k pieces of a text lie in it.
CutAlong(pieces, k, t, at) ==
  /\ at \in [0 .. k -> 0 .. Len(t)] /\ at[0] = 0 /\ at[k] = Len(t)
  /\ \A j \in 0 .. k - 1 : at[j] <= at[j + 1] /\ pieces[j + 1] = SubSeq(t, at[j] + 1, at[j + 1])

LEMMA ConcatIs ==
  ASSUME NEW B, NEW s \in Seq(B), NEW c \in Seq(B)
  PROVE  /\ s \o c \in Seq(B) /\ Len(s \o c) = Len(s) + Len(c)
         /\ \A a, b \in Nat : a <= b /\ b <= Len(s) => SubSeq(s \o c, a + 1, b) = SubSeq(s, a + 1, b)
         /\ SubSeq(s \o c, Len(s) + 1, Len(s) + Len(c)) = c
<1> DEFINE u == s \o c
           n == Len(s)
           m == Len(c)
<1>1. /\ u \in Seq(B) /\ Len(u) = n + m /\ n \in Nat /\ m \in Nat
      /\ \A i \in 1 .. n : u[i] = s[i]
      /\ \A i \in 1 .. m : u[n + i] = c[i]
  OBVIOUS
<1>2. c = [i \in 1 .. m |-> c[i]]
  OBVIOUS
<1> HIDE DEF u
<1>3. ASSUME NEW a \in Nat, NEW b \in Nat, a <= b, b <= n
      PROVE  SubSeq(u, a + 1, b) = SubSeq(s, a + 1, b)
  <2>1. /\ a + 1 \in Nat /\ 1 <= a + 1 /\ a + 1 <= b + 1 /\ b <= Len(u)
        /\ (b + 1) - (a + 1) \in Nat
    BY <1>1, <1>3
  <2>2. b <= Len(s)
    BY <1>3
  <2> DEFINE x == SubSeq(u, a + 1, b)
             y == SubSeq(s, a + 1, b)
             k == (b + 1) - (a + 1)
  <2>3. /\ x \in Seq(B) /\ Len(x) = k
        /\ \A i \in 1 .. k : x[i] = u[((a + 1) + i) - 1]
    BY <1>1, <2>1, SubSeqIs
  <2>4. /\ y \in Seq(B) /\ Len(y) = k
        /\ \A i \in 1 .. k : y[i] = s[((a + 1) + i) - 1]
    BY <2>1, <2>2, SubSeqIs
  <2>5. \A i \in 1 .. k : ((a + 1) + i) - 1 \in 1 .. n
    BY <1>1, <1>3
  <2> HIDE DEF x, y, k
  <2>6. \A i \in 1 .. k : x[i] = y[i]
    BY <1>1, <2>3, <2>4, <2>5
  <2>7. x = y
    BY <2>3, <2>4, <2>6
  <2> QED
    BY <2>7 DEF x, y
<1>4. SubSeq(u, n + 1, n + m) = c
  <2>1. /\ n + 1 \in Nat /\ n + m \in Nat /\ 1 <= n + 1 /\ n + 1 <= (n + m) + 1 /\ n + m <= Len(u)
        /\ ((n + m) + 1) - (n + 1) = m
    BY <1>1
  <2> DEFINE x == SubSeq(u, n + 1, n + m)
  <2>2. /\ x \in Seq(B) /\ Len(x) = m
        /\ \A i \in 1 .. m : x[i] = u[((n + 1) + i) - 1]
    BY <1>1, <2>1, SubSeqIs
  <2>3. \A i \in 1 .. m : ((n + 1) + i) - 1 = n + i
    BY <1>1
  <2> HIDE DEF x, n, m
  <2>4. \A i \in 1 .. m : x[i] = c[i]
    BY <1>1, <2>2, <2>3
  <2>5. x = [i \in 1 .. m |-> x[i]]
    BY <2>2
  <2>6. x = c
    BY <1>2, <2>4, <2>5
  <2> QED
    BY <2>6 DEF x
<1> QED
  BY <1>1, <1>3, <1>4 DEF u

\* Pieces lie one behind the other in what they are joined to.
LEMMA JoinedAlong ==
  ASSUME NEW B, NEW pieces \in Seq(Seq(B)), pieces # <<>>
  PROVE  /\ JoinBy(pieces, <<>>) \in Seq(B)
         /\ \E at : CutAlong(pieces, Len(pieces), JoinBy(pieces, <<>>), at)
<1> DEFINE m == Len(pieces)
           S == Seq(B)
           e == <<>>
<1>1. m \in Nat /\ m > 0 /\ \A k \in 1 .. m : pieces[k] \in S
  <2>1. pieces \in Seq(S)
    OBVIOUS
  <2> HIDE DEF S
  <2> QED
    BY <2>1
<1>2. e \in Seq(B) /\ Len(e) = 0
  OBVIOUS
<1> HIDE DEF e
<1>3. PICK f : JoinRun(B, pieces, e, f)
  BY <1>2, JoinAlong, Zenon
<1>4. /\ f \in [0 .. m - 1 -> S] /\ f[0] = pieces[1] /\ JoinBy(pieces, e) = f[m - 1]
      /\ \A k \in 0 .. m - 2 : f[k + 1] = JoinedTo(f[k], pieces[k + 2], e)
  BY <1>3 DEF JoinRun
<1>5. ASSUME NEW k \in 0 .. m - 2
      PROVE  f[k + 1] = f[k] \o pieces[k + 2] /\ f[k] \in S /\ pieces[k + 2] \in S
  <2>1. k \in 0 .. m - 1 /\ k + 2 \in 1 .. m
    BY <1>1
  <2>2. f[k] \in S /\ pieces[k + 2] \in S
    BY <1>1, <1>4, <2>1
  <2>3. f[k] \o e = f[k]
    BY <2>2 DEF e
  <2> QED
    BY <1>4, <2>2, <2>3 DEF JoinedTo
<1> DEFINE T == {k \in Nat : k < m => \E at : CutAlong(pieces, k + 1, f[k], at)}
<1> HIDE DEF m
<1>6. 0 \in T
  <2> DEFINE c == pieces[1]
             at == [j \in 0 .. 1 |-> IF j = 0 THEN 0 ELSE Len(c)]
  <2>1. c \in Seq(B)
    <3>1. 1 \in 1 .. m
      BY <1>1
    <3> QED
      BY <1>1, <3>1
  <2> HIDE DEF c, S
  <2>2. Len(c) \in Nat /\ SubSeq(c, 1, Len(c)) = c
    BY <2>1
  <2>3. at \in [0 .. 1 -> 0 .. Len(c)] /\ at[0] = 0 /\ at[1] = Len(c)
    BY <2>2
  <2> HIDE DEF at
  <2>4. \A j \in 0 .. 1 - 1 : j = 0 /\ j + 1 = 1
    OBVIOUS
  <2>5. \A j \in 0 .. 1 - 1 : at[j] <= at[j + 1] /\ pieces[j + 1] = SubSeq(c, at[j] + 1, at[j + 1])
    <3>1. at[0] <= at[1] /\ at[0] + 1 = 1
      BY <2>2, <2>3
    <3>2. pieces[1] = SubSeq(c, at[0] + 1, at[1])
      BY <2>2, <2>3, <3>1 DEF c
    <3> TAKE j \in 0 .. 1 - 1
    <3>3. j = 0 /\ j + 1 = 1
      BY <2>4
    <3> QED
      BY <3>1, <3>2, <3>3
  <2>6. CutAlong(pieces, 1, c, at)
    BY <2>3, <2>5 DEF CutAlong
  <2>7. f[0] = c /\ 0 + 1 = 1
    BY <1>4 DEF c
  <2>8. \E a : CutAlong(pieces, 0 + 1, f[0], a)
    BY <2>6, <2>7
  <2> QED
    BY <2>8
<1>7. ASSUME NEW k \in Nat, k \in T PROVE k + 1 \in T
  <2>1. k + 1 \in Nat
    OBVIOUS
  <2> SUFFICES ASSUME k + 1 < m PROVE \E at : CutAlong(pieces, (k + 1) + 1, f[k + 1], at)
    BY <2>1
  <2>2. k < m /\ k \in 0 .. m - 2
    BY <1>1
  <2>3. PICK at : CutAlong(pieces, k + 1, f[k], at)
    BY <1>7, <2>2
  <2> DEFINE s == f[k]
             c == pieces[k + 2]
             u == f[k + 1]
             n == Len(s)
  <2>4. s \in Seq(B) /\ c \in Seq(B) /\ u = s \o c
    BY <1>5, <2>2
  <2>5. /\ at \in [0 .. k + 1 -> 0 .. n] /\ at[0] = 0 /\ at[k + 1] = n
        /\ \A j \in 0 .. k : at[j] <= at[j + 1] /\ pieces[j + 1] = SubSeq(s, at[j] + 1, at[j + 1])
    <3>1. (k + 1) - 1 = k
      OBVIOUS
    <3> QED
      BY <2>3, <3>1 DEF CutAlong
  <2> HIDE DEF s, c, u
  <2>6. /\ Len(u) = n + Len(c) /\ Len(c) \in Nat /\ n \in Nat
        /\ \A a, b \in Nat : a <= b /\ b <= n => SubSeq(u, a + 1, b) = SubSeq(s, a + 1, b)
        /\ SubSeq(u, n + 1, Len(u)) = c
    BY <2>4, ConcatIs
  <2> HIDE DEF n
  <2> DEFINE l == Len(u)
             g == [j \in 0 .. k + 2 |-> IF j <= k + 1 THEN at[j] ELSE l]
  <2>7. l \in Nat /\ n <= l
    BY <2>6
  <2> HIDE DEF l
  <2>8. g \in [0 .. k + 2 -> 0 .. l]
    <3>1. ASSUME NEW j \in 0 .. k + 2 PROVE (IF j <= k + 1 THEN at[j] ELSE l) \in 0 .. l
      <4>1. CASE j <= k + 1
        <5>1. j \in 0 .. k + 1
          BY <4>1
        <5>2. at[j] \in 0 .. n
          BY <2>5, <5>1
        <5> QED
          BY <2>6, <2>7, <4>1, <5>2
      <4>2. CASE ~(j <= k + 1)
        BY <2>7, <4>2
      <4> QED
        BY <4>1, <4>2
    <3> QED
      BY <3>1
  <2>9. g[0] = 0 /\ g[k + 2] = l /\ \A j \in 0 .. k + 1 : g[j] = at[j]
    BY <2>5
  <2> HIDE DEF g
  <2>10. ASSUME NEW j \in 0 .. k + 1
         PROVE  g[j] <= g[j + 1] /\ pieces[j + 1] = SubSeq(u, g[j] + 1, g[j + 1])
    <3>1. CASE j = k + 1
      <4>1. g[j] = n /\ j + 1 = k + 2 /\ g[j + 1] = l
        BY <2>5, <2>9, <3>1
      <4>2. pieces[j + 1] = c
        BY <4>1 DEF c
      <4>3. SubSeq(u, n + 1, l) = c
        BY <2>6 DEF l
      <4> QED
        BY <2>7, <4>1, <4>2, <4>3
    <3>2. CASE j \in 0 .. k
      <4>1. j + 1 \in 0 .. k + 1 /\ j \in 0 .. k + 1
        BY <3>2
      <4>2. g[j] = at[j] /\ g[j + 1] = at[j + 1]
        BY <2>9, <4>1
      <4>3. at[j] \in 0 .. n /\ at[j + 1] \in 0 .. n /\ at[j] <= at[j + 1]
        BY <2>5, <3>2, <4>1
      <4>4. at[j] \in Nat /\ at[j + 1] \in Nat /\ at[j + 1] <= n
        BY <2>6, <4>3
      <4>5. SubSeq(u, at[j] + 1, at[j + 1]) = SubSeq(s, at[j] + 1, at[j + 1])
        BY <2>6, <4>3, <4>4
      <4>6. pieces[j + 1] = SubSeq(s, at[j] + 1, at[j + 1])
        BY <2>5, <3>2
      <4> QED
        BY <4>2, <4>3, <4>5, <4>6
    <3> QED
      BY <3>1, <3>2
  <2>11. (k + 1) + 1 = k + 2 /\ (k + 2) - 1 = k + 1
    OBVIOUS
  <2>12. CutAlong(pieces, k + 2, u, g)
    BY <2>8, <2>9, <2>10, <2>11 DEF CutAlong, l
  <2> QED
    BY <2>11, <2>12 DEF u
<1> HIDE DEF T
<1> DEFINE i == m - 1
<1>8. i \in Nat /\ i < m /\ i + 1 = m /\ i \in 0 .. m - 1
  BY <1>1
<1>9. Nat \subseteq T
  BY <1>6, <1>7, SetInduction
<1>10. f[i] \in S /\ JoinBy(pieces, e) = f[i]
  BY <1>4, <1>8
<1> HIDE DEF i
<1>11. \E at : CutAlong(pieces, i + 1, f[i], at)
  BY <1>8, <1>9 DEF T
<1>12. JoinBy(pieces, e) \in Seq(B) /\ \E at : CutAlong(pieces, m, JoinBy(pieces, e), at)
  BY <1>8, <1>10, <1>11 DEF S
<1> QED
  BY <1>12 DEF m, e

=============================================================================

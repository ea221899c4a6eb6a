------------------------------ MODULE DataLemmas ------------------------------
(* Facts about numbers, sets and sequences that the proofs about the          *)
(* components rest on.                                                       *)
EXTENDS Integers, Sequences, FiniteSets, Steps, FiniteSetTheorems, SequenceTheorems, TLAPS

-----------------------------------------------------------------------------
(* Induction over the natural numbers, for a set in place of a formula.  If  *)
(* n were missing from T, adding one would map the elements of T up to n     *)
(* into themselves, one to one and missing 0: a finite set does not do that. *)

LEMMA SetInduction ==
    ASSUME NEW T, 0 \in T, \A n \in Nat : n \in T => n + 1 \in T
    PROVE  Nat \subseteq T
<1> SUFFICES ASSUME NEW n \in Nat, n \notin T PROVE FALSE
  OBVIOUS
<1> DEFINE A == {k \in 0..n : k \in T}
           next == [k \in A |-> k + 1]
<1>1. IsFiniteSet(A)
  <2>1. A \subseteq 0..n /\ IsFiniteSet(0..n)
    BY FS_Interval
  <2> QED
    BY <2>1, FS_Subset
<1>2. next \in [A -> A]
  <2>1. ASSUME NEW k \in A PROVE k + 1 \in A
    <3>1. k \in Nat /\ k # n /\ k <= n
      OBVIOUS
    <3> QED
      BY <3>1
  <2> QED
    BY <2>1
<1>3. next \in Injection(A, A)
  BY <1>2 DEF Injection, IsInjective
<1>4. next \in Surjection(A, A)
  <2> HIDE DEF A, next
  <2> QED
    BY <1>1, <1>3, FS_Injection
<1>5. 0 \in A
  OBVIOUS
<1>6. PICK k \in A : next[k] = 0
  BY <1>4, <1>5 DEF Surjection
<1> QED
  BY <1>6

\* The smaller of two numbers.
LEMMA MinOfTwo ==
    ASSUME NEW a \in Int, NEW b \in Int
    PROVE  Min({a, b}) = IF a <= b THEN a ELSE b
<1> DEFINE m == IF a <= b THEN a ELSE b
<1>1. m \in {a, b} /\ \A y \in {a, b} : m <= y
  OBVIOUS
<1>2. ASSUME NEW x \in {a, b}, \A y \in {a, b} : x <= y PROVE x = m
  BY <1>2
<1>3. Min({a, b}) = CHOOSE x \in {a, b} : \A y \in {a, b} : x <= y
  BY DEF Min
<1> HIDE DEF m
<1>4. Min({a, b}) = m
  BY <1>1, <1>2, <1>3
<1> QED
  BY <1>4 DEF m

-----------------------------------------------------------------------------
(* Steps                                                                     *)


\* The numbers from 1 to n: the places of a sequence.
Upto(n) == 1..n

LEMMA UptoFacts ==
    /\ Upto(0) = {}
    /\ \A n \in Nat : /\ n + 1 \in Upto(n + 1) /\ Upto(n) \subseteq Upto(n + 1)
                      /\ Upto(n + 1) \ {n + 1} = Upto(n)
    /\ \A n \in Nat : \A x \in Upto(n) : x \in Nat /\ 1 <= x /\ x <= n
    /\ \A n \in Nat : \A m \in Nat : m <= n => Upto(m) \subseteq Upto(n)
<1>1. Upto(0) = {}
  BY DEF Upto
<1>2. ASSUME NEW n \in Nat
      PROVE  /\ n + 1 \in Upto(n + 1) /\ Upto(n) \subseteq Upto(n + 1)
             /\ Upto(n + 1) \ {n + 1} = Upto(n)
  BY DEF Upto
<1>3. \A n \in Nat : \A x \in Upto(n) : x \in Nat /\ 1 <= x /\ x <= n
  BY DEF Upto
<1>4. \A n \in Nat : \A m \in Nat : m <= n => Upto(m) \subseteq Upto(n)
  BY DEF Upto
<1> QED
  BY <1>1, <1>2, <1>3, <1>4

\* A set of numbers up to n that is not empty has a greatest element.
Greatest(x, u) == x \in u /\ \A y \in u : x >= y

LEMMA MaxOfRange ==
    ASSUME NEW n \in Nat, NEW t, t \subseteq Upto(n), t # {}
    PROVE  Greatest(Max(t), t)
<1> DEFINE T == {k \in Nat : \A u \in SUBSET Upto(k) : u # {} => \E x : Greatest(x, u)}
<1>1. 0 \in T
  BY UptoFacts
<1>2. ASSUME NEW k \in Nat, k \in T PROVE k + 1 \in T
  <2> SUFFICES ASSUME NEW u, u \subseteq Upto(k + 1), u # {}
               PROVE  \E x : Greatest(x, u)
    OBVIOUS
  <2>1. CASE k + 1 \in u
    <3>1. k + 1 \in Nat
      OBVIOUS
    <3>2. \A y \in u : y \in Nat /\ y <= k + 1
      BY <3>1, UptoFacts
    <3> QED
      BY <2>1, <3>2 DEF Greatest
  <2>2. CASE k + 1 \notin u
    <3>1. u \subseteq Upto(k)
      BY <2>2, UptoFacts
    <3> QED
      BY <1>2, <3>1
  <2> QED
    BY <2>1, <2>2
<1>3. n \in T
  <2> HIDE DEF T
  <2> QED
    BY <1>1, <1>2, SetInduction
<1>4. \E x : Greatest(x, t)
  BY <1>3
<1>5. Max(t) = CHOOSE x \in t : \A y \in t : x >= y
  BY DEF Max
<1>6. \E x \in t : \A y \in t : x >= y
  BY <1>4 DEF Greatest
<1> QED
  BY <1>5, <1>6 DEF Greatest

LEMMA MaxIs ==
    ASSUME NEW n \in Nat
    PROVE  Max(Upto(n + 1)) = n + 1
<1>1. n + 1 \in Nat /\ n + 1 \in Upto(n + 1)
  BY DEF Upto
<1>2. Greatest(Max(Upto(n + 1)), Upto(n + 1))
  BY <1>1, MaxOfRange
<1>3. Max(Upto(n + 1)) \in Nat /\ Max(Upto(n + 1)) <= n + 1 /\ Max(Upto(n + 1)) >= n + 1
  BY <1>1, <1>2, UptoFacts DEF Greatest
<1> QED
  BY <1>3

-----------------------------------------------------------------------------
(* Steps                                                                     *)

\* The function that FoldLeft defines, on the sets of places up to n.
Rest(t) == t \ {Max(t)}
After(iter, step, base, s, t) == IF t = {} THEN base ELSE step[<<iter[Rest(t)], s[Max(t)]>>]
Folds(iter, step, base, s, n) ==
    iter = [t \in SUBSET Upto(n) |-> After(iter, step, base, s, t)]

LEMMA RestSmaller ==
    ASSUME NEW n \in Nat, NEW t, t \subseteq Upto(n + 1), t # {}
    PROVE  Rest(t) \subseteq Upto(n)
<1>1. n + 1 \in Nat
  OBVIOUS
<1>2. Greatest(Max(t), t)
  BY <1>1, MaxOfRange
<1> DEFINE m == Max(t)
<1>3. m \in t /\ \A y \in t : m >= y
  BY <1>2 DEF Greatest
<1> HIDE DEF m
<1>4. ASSUME NEW y \in t, y # m PROVE y \in Upto(n)
  <2>1. /\ m \in Nat /\ y \in Nat /\ 1 <= y /\ m <= n + 1 /\ y <= n + 1 /\ m >= y
    BY <1>1, <1>3, UptoFacts
  <2>2. y <= n
    BY <1>4, <2>1
  <2> QED
    BY <2>1, <2>2 DEF Upto
<1> QED
  BY <1>4 DEF Rest, m

LEMMA FoldsExists ==
    ASSUME NEW step, NEW base, NEW s, NEW n \in Nat
    PROVE  \E iter : Folds(iter, step, base, s, n)
<1> DEFINE T == {k \in Nat : \E iter : Folds(iter, step, base, s, k)}
<1>1. 0 \in T
  <2> DEFINE iter == [t \in SUBSET Upto(0) |-> base]
  <2>1. \A t \in SUBSET Upto(0) : After(iter, step, base, s, t) = base
    BY UptoFacts DEF After
  <2>2. Folds(iter, step, base, s, 0)
    BY <2>1 DEF Folds
  <2> QED
    BY <2>2
<1>2. ASSUME NEW k \in Nat, k \in T PROVE k + 1 \in T
  <2>1. PICK h : Folds(h, step, base, s, k)
    BY <1>2
  <2> DEFINE iter == [t \in SUBSET Upto(k + 1) |-> After(h, step, base, s, t)]
  <2>2. ASSUME NEW t \in SUBSET Upto(k)
        PROVE  iter[t] = h[t]
    <3>1. t \in SUBSET Upto(k + 1)
      BY UptoFacts
    <3>2. h[t] = After(h, step, base, s, t)
      BY <2>1 DEF Folds
    <3> QED
      BY <3>1, <3>2
  <2> HIDE DEF iter
  <2>3. ASSUME NEW t \in SUBSET Upto(k + 1)
        PROVE  After(h, step, base, s, t) = After(iter, step, base, s, t)
    <3>1. CASE t = {}
      BY <3>1 DEF After
    <3>2. CASE t # {}
      <4>1. Rest(t) \in SUBSET Upto(k)
        BY <3>2, RestSmaller
      <4> QED
        BY <2>2, <4>1 DEF After
    <3> QED
      BY <3>1, <3>2
  <2>4. Folds(iter, step, base, s, k + 1)
    BY <2>3 DEF Folds, iter
  <2>5. k + 1 \in Nat
    OBVIOUS
  <2> QED
    BY <2>4, <2>5
<1>3. n \in T
  <2> HIDE DEF T
  <2> QED
    BY <1>1, <1>2, SetInduction
<1> QED
  BY <1>3

\* Steps is such a function's value on all places.
LEMMA StepsFolds ==
    ASSUME NEW step, NEW base, NEW X, NEW s \in Seq(X)
    PROVE  \E iter : /\ Folds(iter, step, base, s, Len(s))
                    /\ Steps(step, base, s) = iter[Upto(Len(s))]
<1>1. Len(s) \in Nat /\ DOMAIN s = Upto(Len(s))
  BY DEF Upto
<1> DEFINE iter == CHOOSE iter : Folds(iter, step, base, s, Len(s))
<1>2. Folds(iter, step, base, s, Len(s))
  <2>1. \E i : Folds(i, step, base, s, Len(s))
    BY <1>1, FoldsExists
  <2> QED
    BY <2>1
<1>3. Steps(step, base, s) = iter[Upto(Len(s))]
  BY <1>1 DEF Steps, FoldLeft, MapThenFoldSet, Folds, After, Rest
<1> QED
  BY <1>2, <1>3

\* The function's values on 1..k follow each other.
Follows(iter, step, base, s, n) ==
    /\ iter[Upto(0)] = base
    /\ \A k \in Nat : k + 1 <= n => iter[Upto(k + 1)] = step[<<iter[Upto(k)], s[k + 1]>>]

LEMMA FoldsStep ==
    ASSUME NEW step, NEW base, NEW s, NEW n \in Nat, NEW iter,
           Folds(iter, step, base, s, n)
    PROVE  Follows(iter, step, base, s, n)
<1>1. \A t \in SUBSET Upto(n) : iter[t] = After(iter, step, base, s, t)
  BY DEF Folds
<1>2. iter[Upto(0)] = base
  BY <1>1, UptoFacts DEF After
<1>3. ASSUME NEW k \in Nat, k + 1 <= n
      PROVE  iter[Upto(k + 1)] = step[<<iter[Upto(k)], s[k + 1]>>]
  <2>1. Upto(k + 1) \subseteq Upto(n) /\ Upto(k + 1) # {}
    <3>1. k + 1 \in Nat
      OBVIOUS
    <3> QED
      BY <1>3, <3>1, UptoFacts
  <2>2. Max(Upto(k + 1)) = k + 1 /\ Rest(Upto(k + 1)) = Upto(k)
    BY MaxIs, UptoFacts DEF Rest
  <2> QED
    BY <1>1, <2>1, <2>2 DEF After
<1> QED
  BY <1>2, <1>3 DEF Follows

LEMMA StepsEmpty ==
    ASSUME NEW step, NEW base
    PROVE  Steps(step, base, <<>>) = base
<1>1. <<>> \in Seq({}) /\ Len(<<>>) = 0 /\ 0 \in Nat
  OBVIOUS
<1>2. PICK iter : Folds(iter, step, base, <<>>, 0) /\ Steps(step, base, <<>>) = iter[Upto(0)]
  BY <1>1, StepsFolds
<1>3. Follows(iter, step, base, <<>>, 0)
  BY <1>1, <1>2, FoldsStep
<1> QED
  BY <1>2, <1>3 DEF Follows

\* One element more is one step more.
LEMMA StepsAppend ==
    ASSUME NEW step, NEW base, NEW X, NEW s \in Seq(X), NEW x \in X
    PROVE  Steps(step, base, Append(s, x)) = step[<<Steps(step, base, s), x>>]
<1> DEFINE n == Len(s)
           r == Append(s, x)
<1>1. /\ n \in Nat /\ n + 1 \in Nat /\ r \in Seq(X) /\ Len(r) = n + 1 /\ r[n + 1] = x
      /\ \A k \in Nat : k + 1 <= n => r[k + 1] = s[k + 1]
  OBVIOUS
<1>2. PICK f : Folds(f, step, base, s, n) /\ Steps(step, base, s) = f[Upto(n)]
  BY StepsFolds
<1> HIDE DEF n, r
<1>3. PICK g : Folds(g, step, base, r, n + 1) /\ Steps(step, base, r) = g[Upto(n + 1)]
  BY <1>1, StepsFolds
<1>4. Follows(f, step, base, s, n) /\ Follows(g, step, base, r, n + 1)
  BY <1>1, <1>2, <1>3, FoldsStep
<1> DEFINE T == {k \in Nat : k <= n => g[Upto(k)] = f[Upto(k)]}
<1>5. 0 \in T
  BY <1>4 DEF Follows
<1>6. ASSUME NEW k \in Nat, k \in T PROVE k + 1 \in T
  <2> SUFFICES ASSUME k + 1 <= n PROVE g[Upto(k + 1)] = f[Upto(k + 1)]
    OBVIOUS
  <2>1. f[Upto(k + 1)] = step[<<f[Upto(k)], s[k + 1]>>]
    BY <1>4 DEF Follows
  <2>2. k + 1 <= n + 1 /\ k <= n
    BY <1>1
  <2>3. g[Upto(k + 1)] = step[<<g[Upto(k)], r[k + 1]>>]
    BY <1>4, <2>2 DEF Follows
  <2>4. g[Upto(k)] = f[Upto(k)] /\ r[k + 1] = s[k + 1]
    BY <1>1, <1>6, <2>2
  <2> QED
    BY <2>1, <2>3, <2>4
<1>7. g[Upto(n)] = f[Upto(n)]
  <2> HIDE DEF T
  <2>1. n \in T
    BY <1>1, <1>5, <1>6, SetInduction
  <2>2. n <= n
    BY <1>1
  <2> QED
    BY <2>1, <2>2 DEF T
<1>8. g[Upto(n + 1)] = step[<<g[Upto(n)], r[n + 1]>>]
  <2>1. n + 1 <= n + 1
    BY <1>1
  <2> QED
    BY <1>1, <1>4, <2>1 DEF Follows
<1> QED
  BY <1>1, <1>2, <1>3, <1>7, <1>8 DEF r

-----------------------------------------------------------------------------
(* Sequences                                                                 *)

LEMMA FrontLast ==
    ASSUME NEW X, NEW s \in Seq(X), NEW x \in X
    PROVE  Front(Append(s, x)) = s /\ Last(Append(s, x)) = x
<1> DEFINE r == Append(s, x)
           n == Len(s)
<1>1. /\ r \in Seq(X) /\ Len(r) = n + 1 /\ n \in Nat /\ r[n + 1] = x
      /\ \A k \in 1..n : r[k] = s[k] /\ r[k] \in X
  BY AppendProperties, ElementOfSeq
<1> HIDE DEF r
<1>2. n \in Int /\ 1 \in Int /\ Len(r) - 1 = n
  BY <1>1
<1>3. /\ SubSeq(r, 1, n) \in Seq(X) /\ Len(SubSeq(r, 1, n)) = n
      /\ \A k \in 1..n : SubSeq(r, 1, n)[k] = r[k]
  <2>1. \A k \in 1..n : r[k] \in X
    BY <1>1
  <2>2. n - 1 + 1 = n /\ (n < 1 => n = 0) /\ \A k \in 1..n : 1 + k - 1 = k
    BY <1>1
  <2> QED
    BY <1>2, <2>1, <2>2, SubSeqProperties
<1>4. SubSeq(r, 1, n) = s
  BY <1>1, <1>3, SeqEqual
<1> QED
  BY <1>1, <1>2, <1>4 DEF Front, Last, r

\* The end of a sequence grows with it.
LEMMA SubSeqAppend ==
    ASSUME NEW X, NEW s \in Seq(X), NEW x \in X, NEW m \in 1..Len(s) + 1
    PROVE  SubSeq(Append(s, x), m, Len(s) + 1) = Append(SubSeq(s, m, Len(s)), x)
<1> DEFINE r == Append(s, x)
           n == Len(s)
           t == SubSeq(r, m, n + 1)
           u == SubSeq(s, m, n)
<1>1. /\ Len(r) = n + 1 /\ n \in Nat /\ r[n + 1] = x /\ r \in Seq(X)
      /\ \A k \in 1..n : r[k] = s[k] /\ s[k] \in X
  BY AppendProperties, ElementOfSeq
<1>2. m \in Nat /\ 1 <= m /\ m <= n + 1
  BY <1>1
<1> HIDE DEF r, n
<1>3. /\ t \in Seq(X) /\ Len(t) = n + 2 - m
      /\ \A k \in 1..n + 2 - m : t[k] = r[m + k - 1]
  <2>1. \A k \in m..n + 1 : r[k] \in X
    BY <1>1, <1>2
  <2> DEFINE p == n + 1
  <2>2. p \in Int /\ m \in Int
    BY <1>1, <1>2
  <2>3. p - m + 1 = n + 2 - m /\ m <= p
    BY <1>1, <1>2
  <2> HIDE DEF p
  <2>4. /\ SubSeq(r, m, p) \in Seq(X)
        /\ Len(SubSeq(r, m, p)) = IF m <= p THEN p - m + 1 ELSE 0
        /\ \A k \in 1..p - m + 1 : SubSeq(r, m, p)[k] = r[m + k - 1]
    <3>1. \A k \in m..p : r[k] \in X
      BY <2>1 DEF p
    <3> QED
      BY <2>2, <3>1, SubSeqProperties
  <2> QED
    BY <2>3, <2>4 DEF p
<1>4. /\ u \in Seq(X) /\ Len(u) = n + 1 - m
      /\ \A k \in 1..n + 1 - m : u[k] = s[m + k - 1]
  <2>1. \A k \in m..n : s[k] \in X
    BY <1>1, <1>2
  <2>2. n \in Int /\ m \in Int
    BY <1>1, <1>2
  <2>3. /\ u \in Seq(X) /\ Len(u) = IF m <= n THEN n - m + 1 ELSE 0
        /\ \A k \in 1..n - m + 1 : u[k] = s[m + k - 1]
    BY <2>1, <2>2, SubSeqProperties
  <2>4. n - m + 1 = n + 1 - m /\ (~ (m <= n) => n + 1 - m = 0)
    BY <1>1, <1>2
  <2> QED
    BY <2>3, <2>4
<1> HIDE DEF t, u
<1> DEFINE v == Append(u, x)
<1>5. /\ v \in Seq(X) /\ Len(v) = Len(u) + 1 /\ v[Len(u) + 1] = x
      /\ \A k \in 1..Len(u) : v[k] = u[k]
  BY <1>4, AppendProperties
<1> HIDE DEF v
<1>6. v \in Seq(X) /\ Len(v) = n + 2 - m
  BY <1>1, <1>2, <1>4, <1>5
<1>7. ASSUME NEW k \in 1..n + 2 - m PROVE t[k] = v[k]
  <2>1. CASE k = n + 2 - m
    <3>1. m + k - 1 = n + 1 /\ k = Len(u) + 1
      BY <1>1, <1>2, <1>4, <2>1
    <3> QED
      BY <1>1, <1>3, <1>5, <3>1
  <2>2. CASE k # n + 2 - m
    <3>1. k \in 1..n + 1 - m /\ m + k - 1 \in 1..n
      BY <1>1, <1>2, <2>2
    <3>2. v[k] = u[k]
      BY <1>4, <1>5, <3>1
    <3> QED
      BY <1>1, <1>3, <1>4, <3>1, <3>2
  <2> QED
    BY <2>1, <2>2
<1>8. t = v
  BY <1>3, <1>6, <1>7, SeqEqual
<1> QED
  BY <1>8 DEF t, v, u, r, n

-----------------------------------------------------------------------------
(* Counting                                                                  *)

\* At how many of the first n places s has x.
CountTo(n, s, x) == Cardinality({k \in 1..n : s[k] = x})

\* A count is a number, and grows with the range.
LEMMA Counted ==
    ASSUME NEW m \in Nat, NEW n \in Nat, m <= n, NEW s, NEW x
    PROVE  CountTo(m, s, x) \in Nat /\ CountTo(m, s, x) <= CountTo(n, s, x)
<1> DEFINE M == {k \in 1..m : s[k] = x}
           N == {k \in 1..n : s[k] = x}
<1>1. IsFiniteSet(1..n)
  BY FS_Interval
<1>2. IsFiniteSet(N)
  <2>1. N \subseteq 1..n
    OBVIOUS
  <2> QED
    BY <1>1, <2>1, FS_Subset
<1>3. M \subseteq N
  OBVIOUS
<1>4. IsFiniteSet(M) /\ Cardinality(M) <= Cardinality(N)
  BY <1>2, <1>3, FS_Subset
<1> QED
  BY <1>4, FS_CardinalityType DEF CountTo

\* A place more with x adds one.
LEMMA CountedNext ==
    ASSUME NEW n \in Nat, NEW s, NEW x, s[n + 1] = x
    PROVE  CountTo(n + 1, s, x) = CountTo(n, s, x) + 1
<1> DEFINE N == {k \in 1..n : s[k] = x}
<1>1. IsFiniteSet(1..n)
  BY FS_Interval
<1>2. N \subseteq 1..n
  OBVIOUS
<1>3. IsFiniteSet(N)
  BY <1>1, <1>2, FS_Subset
<1>4. n + 1 \notin N
  OBVIOUS
<1>5. {k \in 1..n + 1 : s[k] = x} = N \union {n + 1}
  OBVIOUS
<1>6. Cardinality(N \union {n + 1}) = Cardinality(N) + 1
  BY <1>3, <1>4, FS_AddElement
<1> QED
  BY <1>5, <1>6 DEF CountTo

\* One with something else adds none.
LEMMA CountedOther ==
    ASSUME NEW n \in Nat, NEW s, NEW x, s[n + 1] # x
    PROVE  CountTo(n + 1, s, x) = CountTo(n, s, x)
<1>1. {k \in 1..n + 1 : s[k] = x} = {k \in 1..n : s[k] = x}
  OBVIOUS
<1> QED
  BY <1>1 DEF CountTo

LEMMA PlacesCounted ==
    ASSUME NEW n \in Nat
    PROVE  IsFiniteSet(1..n) /\ Cardinality(1..n) = n
<1>1. 1 \in Int /\ n \in Int
  OBVIOUS
<1>2. IsFiniteSet(1..n)
  BY <1>1, FS_Interval
<1>3. Cardinality(1..n) = IF 1 > n THEN 0 ELSE n - 1 + 1
  BY <1>1, FS_Interval, Zenon
<1>4. (IF 1 > n THEN 0 ELSE n - 1 + 1) = n
  OBVIOUS
<1> QED
  BY <1>2, <1>3, <1>4

\* A finite set fits into one that has no fewer elements.
LEMMA SmallerInjects ==
    ASSUME NEW A, NEW B, IsFiniteSet(A), IsFiniteSet(B), Cardinality(A) <= Cardinality(B)
    PROVE  \E f : f \in Injection(A, B)
<1> DEFINE n == Cardinality(A)
           m == Cardinality(B)
<1>1. n \in Nat /\ m \in Nat /\ n <= m
  BY FS_CardinalityType
<1>2. PICK a : a \in Bijection(1..n, A)
  BY FS_CardinalityType DEF ExistsBijection
<1>3. PICK b : b \in Bijection(1..m, B)
  BY FS_CardinalityType DEF ExistsBijection
<1> HIDE DEF n, m
<1>4. /\ a \in [1..n -> A] /\ \A x \in A : \E k \in 1..n : a[k] = x
  BY <1>2 DEF Bijection, Surjection
<1>5. /\ b \in [1..m -> B] /\ \A j, k \in 1..m : b[j] = b[k] => j = k
  BY <1>3 DEF Bijection, Injection, IsInjective
<1> DEFINE at == [x \in A |-> CHOOSE k \in 1..n : a[k] = x]
           f == [x \in A |-> b[at[x]]]
<1>6. ASSUME NEW x \in A PROVE at[x] \in 1..m /\ a[at[x]] = x
  <2>1. \E k \in 1..n : a[k] = x
    BY <1>4
  <2>2. at[x] \in 1..n /\ a[at[x]] = x
    BY <2>1
  <2> QED
    BY <1>1, <2>2
<1> HIDE DEF at
<1>7. f \in [A -> B]
  BY <1>5, <1>6
<1>8. ASSUME NEW x \in A, NEW y \in A, f[x] = f[y] PROVE x = y
  <2>1. b[at[x]] = b[at[y]]
    BY <1>8
  <2>2. at[x] = at[y]
    BY <1>5, <1>6, <2>1
  <2> QED
    BY <1>6, <2>2
<1>9. f \in Injection(A, B)
  BY <1>7, <1>8 DEF Injection, IsInjective
<1> QED
  BY <1>9

\* What f maps to h.
Fibre(f, D, h) == {d \in D : f[d] = h}

\* If no h has more in D than in E, D has no more than E; and if E has no more than D
\* either, then every h has the same number in both.
LEMMA Fibres ==
    ASSUME NEW D, NEW E, NEW H, IsFiniteSet(D), IsFiniteSet(E),
           NEW f \in [D -> H], NEW g \in [E -> H],
           \A h \in H : Cardinality(Fibre(f, D, h)) <= Cardinality(Fibre(g, E, h))
    PROVE  /\ Cardinality(D) <= Cardinality(E)
           /\ Cardinality(D) = Cardinality(E) =>
                \A h \in H : Cardinality(Fibre(f, D, h)) = Cardinality(Fibre(g, E, h))
<1>1. ASSUME NEW h \in H
      PROVE  /\ IsFiniteSet(Fibre(f, D, h)) /\ IsFiniteSet(Fibre(g, E, h))
             /\ Fibre(f, D, h) \subseteq D /\ Fibre(g, E, h) \subseteq E
  <2>1. Fibre(f, D, h) \subseteq D /\ Fibre(g, E, h) \subseteq E
    BY DEF Fibre
  <2> QED
    BY <2>1, FS_Subset
<1> DEFINE into == [h \in H |-> CHOOSE p : p \in Injection(Fibre(f, D, h), Fibre(g, E, h))]
           all == [d \in D |-> into[f[d]][d]]
<1>2. ASSUME NEW h \in H PROVE into[h] \in Injection(Fibre(f, D, h), Fibre(g, E, h))
  <2>1. \E p : p \in Injection(Fibre(f, D, h), Fibre(g, E, h))
    BY <1>1, SmallerInjects
  <2> QED
    BY <2>1
<1> HIDE DEF into
<1>3. ASSUME NEW d \in D
      PROVE  /\ f[d] \in H /\ d \in Fibre(f, D, f[d])
             /\ all[d] = into[f[d]][d] /\ all[d] \in E /\ g[all[d]] = f[d]
  <2>1. f[d] \in H /\ d \in Fibre(f, D, f[d])
    BY DEF Fibre
  <2>2. into[f[d]] \in [Fibre(f, D, f[d]) -> Fibre(g, E, f[d])]
    BY <1>2, <2>1 DEF Injection
  <2>3. into[f[d]][d] \in Fibre(g, E, f[d])
    BY <2>1, <2>2
  <2> QED
    BY <2>1, <2>3 DEF Fibre
<1>4. all \in Injection(D, E)
  <2>1. all \in [D -> E]
    BY <1>3
  <2>2. ASSUME NEW c \in D, NEW d \in D, all[c] = all[d] PROVE c = d
    <3>1. f[c] = f[d]
      BY <1>3, <2>2
    <3> DEFINE h == f[c]
    <3>2. /\ h \in H /\ c \in Fibre(f, D, h) /\ d \in Fibre(f, D, h)
          /\ into[h][c] = into[h][d]
      BY <1>3, <2>2, <3>1
    <3> HIDE DEF h
    <3>3. into[h] \in Injection(Fibre(f, D, h), Fibre(g, E, h))
      BY <1>2, <3>2
    <3> QED
      BY <3>2, <3>3 DEF Injection, IsInjective
  <2> HIDE DEF all
  <2> QED
    BY <2>1, <2>2 DEF Injection, IsInjective
<1> HIDE DEF all
<1>5. /\ Cardinality(D) <= Cardinality(E)
      /\ Cardinality(D) = Cardinality(E) => all \in Surjection(D, E)
  BY <1>4, FS_Injection
<1>6. ASSUME Cardinality(D) = Cardinality(E), NEW h \in H
      PROVE  Cardinality(Fibre(f, D, h)) = Cardinality(Fibre(g, E, h))
  <2> DEFINE A == Fibre(f, D, h)
             B == Fibre(g, E, h)
  <2>1. into[h] \in Injection(A, B)
    BY <1>2
  <2>2. ASSUME NEW e \in B PROVE \E d \in A : into[h][d] = e
    <3>1. e \in E /\ g[e] = h
      BY <2>2 DEF Fibre
    <3>2. PICK d \in D : all[d] = e
      BY <1>5, <1>6, <3>1 DEF Surjection
    <3>3. f[d] = h
      BY <1>3, <3>1, <3>2
    <3> QED
      BY <1>3, <3>2, <3>3
  <2>3. IsFiniteSet(A) /\ IsFiniteSet(B)
    BY <1>1
  <2> HIDE DEF A, B
  <2>4. into[h] \in Surjection(A, B)
    BY <2>1, <2>2 DEF Injection, Surjection
  <2>5. Cardinality(A) = Cardinality(B)
    BY <2>1, <2>3, <2>4, FS_Injection
  <2> QED
    BY <2>5 DEF A, B
<1> QED
  BY <1>5, <1>6
-----------------------------------------------------------------------------
(* Induction over sequences, and what a sequence starts with                 *)

LEMMA SeqInduction ==
    ASSUME NEW X, NEW T, <<>> \in T,
           \A s \in Seq(X), x \in X : s \in T => Append(s, x) \in T
    PROVE  Seq(X) \subseteq T
<1> DEFINE N == {n \in Nat : \A s \in Seq(X) : Len(s) = n => s \in T}
<1>1. 0 \in N
  BY EmptySeq
<1>2. ASSUME NEW n \in Nat, n \in N PROVE n + 1 \in N
  <2> SUFFICES ASSUME NEW s \in Seq(X), Len(s) = n + 1 PROVE s \in T
    OBVIOUS
  <2>1. s # <<>>
    BY EmptySeq
  <2>2. PICK r \in Seq(X), x \in X : s = Append(r, x)
    BY <2>1, SequenceEmptyOrAppend
  <2>3. Len(r) \in Nat /\ Len(s) = Len(r) + 1
    BY <2>2, LenProperties, AppendProperties
  <2>4. r \in T
    BY <1>2, <2>3
  <2> QED
    BY <2>2, <2>4
<1> HIDE DEF N
<1>3. Nat \subseteq N
  BY <1>1, <1>2, SetInduction
<1> QED
  BY <1>3, LenProperties DEF N

\* What every step keeps holds at the end.
LEMMA StepsIn ==
    ASSUME NEW X, NEW P, NEW step, NEW base \in P,
           \A p \in P, x \in X : step[<<p, x>>] \in P
    PROVE  \A s \in Seq(X) : Steps(step, base, s) \in P
<1> DEFINE T == {s \in Seq(X) : Steps(step, base, s) \in P}
<1>1. <<>> \in T
  BY StepsEmpty, EmptySeq
<1>2. ASSUME NEW s \in Seq(X), NEW x \in X, s \in T PROVE Append(s, x) \in T
  <2>1. Append(s, x) \in Seq(X)
    BY AppendProperties
  <2> DEFINE p == Steps(step, base, s)
  <2>2. Steps(step, base, Append(s, x)) = step[<<p, x>>]
    BY StepsAppend
  <2>3. p \in P
    BY <1>2
  <2> HIDE DEF p
  <2> QED
    BY <2>1, <2>2, <2>3
<1> HIDE DEF T
<1>3. Seq(X) \subseteq T
  BY <1>1, <1>2, SeqInduction
<1> QED
  BY <1>3 DEF T

LEMMA AppendConcat ==
    ASSUME NEW X, NEW s \in Seq(X), NEW t \in Seq(X), NEW x \in X
    PROVE  s \o Append(t, x) = Append(s \o t, x)
<1>1. <<x>> \in Seq(X) /\ s \o t \in Seq(X)
  BY ConcatProperties
<1>2. Append(t, x) = t \o <<x>> /\ Append(s \o t, x) = (s \o t) \o <<x>>
  BY <1>1, AppendIsConcat
<1>3. s \o (t \o <<x>>) = (s \o t) \o <<x>>
  BY <1>1, ConcatAssociative
<1> QED
  BY <1>2, <1>3

LEMMA AppendPair ==
    ASSUME NEW X, NEW a \in X, NEW b \in X
    PROVE  Append(<<a>>, b) = <<a, b>> /\ <<a>> \in Seq(X) /\ <<a, b>> \in Seq(X)
<1> DEFINE s == Append(<<a>>, b)
           t == <<a, b>>
<1>1. <<a>> \in Seq(X) /\ Len(<<a>>) = 1 /\ <<a>>[1] = a
  OBVIOUS
<1>2. s \in Seq(X) /\ Len(s) = 2 /\ s[1] = a /\ s[2] = b
  BY <1>1, AppendProperties
<1>3. t \in Seq(X) /\ Len(t) = 2 /\ t[1] = a /\ t[2] = b
  OBVIOUS
<1> HIDE DEF s, t
<1>4. Len(s) = Len(t) /\ \A i \in 1..Len(s) : s[i] = t[i]
  BY <1>2, <1>3
<1>5. s = t
  BY <1>2, <1>3, <1>4, SeqEqual
<1> QED
  BY <1>1, <1>3, <1>5 DEF s, t

\* One sequence after the other.
LEMMA StepsConcat ==
    ASSUME NEW X, NEW step, NEW base, NEW s \in Seq(X)
    PROVE  \A t \in Seq(X) : Steps(step, base, s \o t) = Steps(step, Steps(step, base, s), t)
<1> DEFINE T == {t \in Seq(X) : Steps(step, base, s \o t) = Steps(step, Steps(step, base, s), t)}
<1>1. <<>> \in T
  BY StepsEmpty, EmptySeq, ConcatEmptySeq
<1>2. ASSUME NEW t \in Seq(X), NEW x \in X, t \in T PROVE Append(t, x) \in T
  <2> DEFINE r == Steps(step, base, s)
             st == s \o t
  <2>1. s \o Append(t, x) = Append(st, x) /\ st \in Seq(X) /\ Append(t, x) \in Seq(X)
    BY AppendConcat, ConcatProperties, AppendProperties
  <2>2. Steps(step, base, st) = Steps(step, r, t)
    BY <1>2
  <2> HIDE DEF r, st
  <2>3. Steps(step, base, Append(st, x)) = step[<<Steps(step, base, st), x>>]
    BY <2>1, StepsAppend
  <2>4. Steps(step, r, Append(t, x)) = step[<<Steps(step, r, t), x>>]
    BY StepsAppend
  <2>5. Steps(step, base, s \o Append(t, x)) = Steps(step, r, Append(t, x))
    BY <2>1, <2>2, <2>3, <2>4
  <2> QED
    BY <2>1, <2>5 DEF r
<1> HIDE DEF T
<1>3. Seq(X) \subseteq T
  BY <1>1, <1>2, SeqInduction
<1> QED
  BY <1>3 DEF T

\* Three sequences one after the other.
Three(a, b, c, d) == d = (a \o b) \o c /\ d = a \o (b \o c)

LEMMA ThreeIs ==
    ASSUME NEW X, NEW a \in Seq(X), NEW b \in Seq(X), NEW c \in Seq(X)
    PROVE  Three(a, b, c, (a \o b) \o c) /\ a \o b \in Seq(X) /\ b \o c \in Seq(X)
  BY ConcatAssociative, ConcatProperties DEF Three

\* m and g are longer by x than n and h.
Longer(m, g, n, h, x) == m \o g = (n \o h) \o x

LEMMA LongerBehind ==
    ASSUME NEW X, NEW a \in Seq(X), NEW n \in Seq(X), NEW h \in Seq(X),
           NEW m \in Seq(X), NEW g \in Seq(X), NEW x \in Seq(X),
           Longer(m, g, n, h, x)
    PROVE  Longer(a \o m, g, a \o n, h, x)
<1> DEFINE nh == n \o h
           an == a \o n
           mg == m \o g
<1>1. Three(a, m, g, (a \o m) \o g) /\ Three(a, n, h, (a \o n) \o h)
      /\ nh \in Seq(X) /\ an \in Seq(X)
  BY ThreeIs
<1>2. mg = nh \o x
  BY DEF Longer
<1>4. (a \o m) \o g = a \o mg /\ an \o h = a \o nh
  BY <1>1 DEF Three
<1> HIDE DEF nh, an, mg
<1>5. Three(a, nh, x, (a \o nh) \o x)
  BY <1>1, ThreeIs
<1>6. (a \o nh) \o x = a \o (nh \o x)
  BY <1>5 DEF Three
<1>7. (a \o m) \o g = (an \o h) \o x
  BY <1>2, <1>4, <1>6
<1> QED
  BY <1>7 DEF an, Longer

\* q starts with p.
Starts(p, q, X) == p \in Seq(X) /\ \E r \in Seq(X) : q = p \o r

LEMMA StartsSelf ==
    ASSUME NEW X, NEW p \in Seq(X)
    PROVE  Starts(p, p, X)
<1>1. <<>> \in Seq(X) /\ p = p \o <<>>
  BY EmptySeq, ConcatEmptySeq
<1> QED
  BY <1>1 DEF Starts

LEMMA StartsTransitive ==
    ASSUME NEW X, NEW p, NEW q, NEW r, Starts(p, q, X), Starts(q, r, X)
    PROVE  Starts(p, r, X)
<1>1. p \in Seq(X) /\ q \in Seq(X)
  BY DEF Starts
<1>2. PICK a \in Seq(X) : q = p \o a
  BY DEF Starts
<1>3. PICK b \in Seq(X) : r = q \o b
  BY DEF Starts
<1>4. a \o b \in Seq(X) /\ r = p \o (a \o b)
  BY <1>1, <1>2, <1>3, ConcatProperties, ConcatAssociative
<1> QED
  BY <1>1, <1>4 DEF Starts

LEMMA StartsConcat ==
    ASSUME NEW X, NEW p \in Seq(X), NEW r \in Seq(X)
    PROVE  Starts(p, p \o r, X)
  BY DEF Starts

LEMMA StartsAppend ==
    ASSUME NEW X, NEW p \in Seq(X), NEW x \in X
    PROVE  Starts(p, Append(p, x), X)
<1>1. <<x>> \in Seq(X) /\ Append(p, x) = p \o <<x>>
  BY AppendIsConcat
<1> QED
  BY <1>1 DEF Starts

LEMMA StartsAt ==
    ASSUME NEW X, NEW p, NEW q, Starts(p, q, X)
    PROVE  /\ p \in Seq(X) /\ q \in Seq(X) /\ Len(p) \in Nat /\ Len(q) \in Nat
           /\ Len(p) <= Len(q) /\ \A k \in 1..Len(p) : q[k] = p[k]
<1>1. PICK r \in Seq(X) : q = p \o r
  BY DEF Starts
<1>2. p \in Seq(X) /\ Len(p) \in Nat /\ Len(r) \in Nat
  BY LenProperties DEF Starts
<1>3. /\ q \in Seq(X) /\ Len(q) = Len(p) + Len(r)
      /\ \A k \in 1..Len(p) + Len(r) : q[k] = IF k <= Len(p) THEN p[k] ELSE r[k - Len(p)]
  BY <1>1, <1>2, ConcatProperties
<1> QED
  BY <1>2, <1>3

LEMMA StartsIsPrefix ==
    ASSUME NEW X, NEW p, NEW q, Starts(p, q, X)
    PROVE  IsPrefix(p, q)
<1> DEFINE n == Len(p)
<1>1. /\ p \in Seq(X) /\ q \in Seq(X) /\ n \in Nat /\ n <= Len(q)
      /\ \A k \in 1..n : q[k] = p[k]
  BY StartsAt
<1>2. \A k \in 1..n : p[k] \in X
  BY <1>1, ElementOfSeq
<1> HIDE DEF n
<1>3. 1 \in Int /\ n \in Int /\ \A k \in 1..n : p[k] \in X /\ q[k] \in X
  BY <1>1, <1>2
<1> DEFINE u == SubSeq(p, 1, n)
           v == SubSeq(q, 1, n)
<1>4. /\ u \in Seq(X) /\ Len(u) = IF 1 <= n THEN n - 1 + 1 ELSE 0
      /\ \A k \in 1..n - 1 + 1 : u[k] = p[1 + k - 1]
  BY <1>3, SubSeqProperties
<1>5. /\ v \in Seq(X) /\ Len(v) = IF 1 <= n THEN n - 1 + 1 ELSE 0
      /\ \A k \in 1..n - 1 + 1 : v[k] = q[1 + k - 1]
  BY <1>3, SubSeqProperties
<1> HIDE DEF u, v
<1>6. (IF 1 <= n THEN n - 1 + 1 ELSE 0) = n /\ n - 1 + 1 = n /\ \A k \in 1..n : 1 + k - 1 = k
  BY <1>1
<1>7. Len(u) = Len(v) /\ \A k \in 1..Len(u) : u[k] = v[k]
  BY <1>1, <1>4, <1>5, <1>6
<1>8. u = v
  BY <1>4, <1>5, <1>7, SeqEqual
<1> QED
  BY <1>1, <1>8 DEF IsPrefix, n, u, v
=============================================================================

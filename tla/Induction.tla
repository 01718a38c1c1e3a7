------------------------------- MODULE Induction -------------------------------
(***************************************************************************)
(* What the proofs about folds and recursive functions rest on.  The step  *)
(* and the property are parameters of the module, so that a proof takes    *)
(* them by an INSTANCE of it: the provers do not instantiate a theorem     *)
(* whose parameter is an operator.                                         *)
(*                                                                         *)
(* The first argument of each is what the step, or the property, depends   *)
(* on besides.                                                             *)
(***************************************************************************)
EXTENDS Integers, Folds

CONSTANTS
  Step(_, _, _),   \* of a fold: value and element; of a function: itself and where
  Good(_, _, _)    \* of the value of a fold after so many elements

Largest(S) == CHOOSE x \in S : \A y \in S : x >= y

\* What FoldLeft is, of the sequences of the community modules.
FoldOf(c, base, seq) ==
  MapThenFoldSet(LAMBDA x, value : Step(c, value, x), base, LAMBDA i : seq[i],
                 LAMBDA S : Largest(S), DOMAIN seq)

RecursionOf(c, D) == LET f[i \in D] == Step(c, f, i) IN f

\* Induction, for sets of numbers.  It is a hypothesis here: what it
\* follows from would be repeated in each instance.
Inductive ==
  \A n \in Nat : \A T :
    0 \in T /\ (\A k \in 0 .. n - 1 : k \in T => k + 1 \in T)
      => \A k \in 0 .. n : k \in T

-----------------------------------------------------------------------------
(* FoldLeft. *)

\* The function FoldLeft is defined by, for the first k elements.
Iterates(h, c, base, seq, k) ==
  h = [s \in SUBSET (1 .. k) |->
         IF s = {} THEN base ELSE Step(c, h[s \ {Largest(s)}], seq[Largest(s)])]

LEMMA LargestIs ==
  ASSUME NEW k \in Nat, NEW s \in SUBSET (1 .. k), k \in s
  PROVE  Largest(s) = k
<1>1. \A y \in s : k >= y
  OBVIOUS
<1>2. Largest(s) \in s /\ \A y \in s : Largest(s) >= y
  BY <1>1 DEF Largest
<1>3. Largest(s) \in 1 .. k /\ Largest(s) >= k
  BY <1>2
<1> QED
  BY <1>3

LEMMA IteratesExtend ==
  ASSUME NEW c, NEW base, NEW seq, NEW k \in Nat, NEW h, Iterates(h, c, base, seq, k)
  PROVE  \E g : Iterates(g, c, base, seq, k + 1)
<1> DEFINE g == [s \in SUBSET (1 .. k + 1) |->
                   IF k + 1 \notin s THEN h[s]
                   ELSE Step(c, h[s \ {k + 1}], seq[k + 1])]
           e(f, s) == IF s = {} THEN base ELSE Step(c, f[s \ {Largest(s)}], seq[Largest(s)])
<1>1. h = [s \in SUBSET (1 .. k) |-> e(h, s)]
  BY DEF Iterates
<1>2. \A s \in SUBSET (1 .. k) : h[s] = e(h, s)
  BY <1>1
<1>3. ASSUME NEW s \in SUBSET (1 .. k) PROVE g[s] = h[s]
  <2>1. s \in SUBSET (1 .. k + 1) /\ k + 1 \notin s
    OBVIOUS
  <2> QED
    BY <2>1
<1>4. ASSUME NEW s \in SUBSET (1 .. k + 1) PROVE g[s] = e(g, s)
  <2>1. CASE k + 1 \notin s
    <3>1. s \in SUBSET (1 .. k)
      BY <2>1
    <3>2. g[s] = e(h, s)
      BY <1>2, <1>3, <3>1
    <3>3. CASE s = {}
      BY <3>2, <3>3
    <3>4. CASE s # {}
      <4>1. s \ {Largest(s)} \in SUBSET (1 .. k)
        BY <3>1
      <4>2. g[s \ {Largest(s)}] = h[s \ {Largest(s)}]
        BY <1>3, <4>1
      <4> QED
        BY <3>2, <3>4, <4>2
    <3> QED
      BY <3>3, <3>4
  <2>2. CASE k + 1 \in s
    <3>1. k + 1 \in Nat /\ s # {}
      BY <2>2
    <3>3. Largest(s) = k + 1
      BY <2>2, <3>1, LargestIs
    <3>4. s \ {k + 1} \in SUBSET (1 .. k)
      OBVIOUS
    <3>5. g[s \ {k + 1}] = h[s \ {k + 1}]
      BY <1>3, <3>4
    <3>6. g[s] = Step(c, h[s \ {k + 1}], seq[k + 1])
      BY <2>2
    <3> QED
      BY <3>1, <3>3, <3>5, <3>6
  <2> QED
    BY <2>1, <2>2
<1>5. g = [s \in SUBSET (1 .. k + 1) |-> g[s]]
  OBVIOUS
<1> HIDE DEF g
<1>6. g = [s \in SUBSET (1 .. k + 1) |-> e(g, s)]
  BY <1>4, <1>5
<1>7. Iterates(g, c, base, seq, k + 1)
  BY <1>6 DEF Iterates
<1> QED
  BY <1>7

LEMMA IteratesExist ==
  ASSUME NEW c, NEW base, NEW seq, NEW n \in Nat, Inductive
  PROVE  \E h : Iterates(h, c, base, seq, n)
<1> DEFINE T == {k \in Nat : \E h : Iterates(h, c, base, seq, k)}
           h == [s \in SUBSET (1 .. 0) |-> base]
<1>1. 0 \in T
  <2>1. \A s \in SUBSET (1 .. 0) : s = {}
    OBVIOUS
  <2>2. Iterates(h, c, base, seq, 0)
    BY <2>1 DEF Iterates
  <2> QED
    BY <2>2
<1>2. \A k \in 0 .. n - 1 : k \in T => k + 1 \in T
  BY IteratesExtend
<1> HIDE DEF T
<1>3. n \in T
  BY <1>1, <1>2 DEF Inductive
<1> QED
  BY <1>3 DEF T

LEMMA FoldIterates ==
  ASSUME NEW c, NEW base, NEW seq, NEW n \in Nat, DOMAIN seq = 1 .. n,
         Inductive
  PROVE  \E h : Iterates(h, c, base, seq, n) /\ FoldOf(c, base, seq) = h[1 .. n]
<1> DEFINE iter[s \in SUBSET (1 .. n)] ==
             IF s = {} THEN base ELSE Step(c, iter[s \ {Largest(s)}], seq[Largest(s)])
<1>1. FoldOf(c, base, seq) = iter[1 .. n]
  BY DEF FoldOf, MapThenFoldSet
<1>2. \E h : Iterates(h, c, base, seq, n)
  BY IteratesExist
<1>3. Iterates(iter, c, base, seq, n)
  BY <1>2 DEF Iterates
<1> HIDE DEF iter
<1> QED
  BY <1>1, <1>3

(* A property of the base that each step keeps holds of the fold. *)
LEMMA FoldGood ==
  ASSUME NEW c, NEW base, NEW seq, NEW n \in Nat, DOMAIN seq = 1 .. n,
         Inductive,
         Good(c, 0, base),
         \A i \in 1 .. n : \A x : Good(c, i - 1, x) => Good(c, i, Step(c, x, seq[i]))
  PROVE  Good(c, n, FoldOf(c, base, seq))
<1>1. PICK h : Iterates(h, c, base, seq, n) /\ FoldOf(c, base, seq) = h[1 .. n]
  BY FoldIterates
<1>2. \A s \in SUBSET (1 .. n) :
        h[s] = IF s = {} THEN base ELSE Step(c, h[s \ {Largest(s)}], seq[Largest(s)])
  BY <1>1 DEF Iterates
<1> DEFINE T == {k \in Nat : k <= n => Good(c, k, h[1 .. k])}
<1>3. 0 \in T
  <2>1. 1 .. 0 = {} /\ 1 .. 0 \in SUBSET (1 .. n)
    OBVIOUS
  <2>2. h[1 .. 0] = base
    BY <1>2, <2>1
  <2> QED
    BY <2>2
<1>4. ASSUME NEW k \in 0 .. n - 1, k \in T PROVE k + 1 \in T
  <2>1. k + 1 \in 1 .. n /\ (k + 1) - 1 = k /\ k \in Nat
    OBVIOUS
  <2>2. Good(c, k, h[1 .. k])
    BY <1>4
  <2>3. 1 .. k + 1 \in SUBSET (1 .. n) /\ 1 .. k + 1 # {} /\ k + 1 \in 1 .. k + 1
    <3> HIDE DEF T
    <3>1. \A i \in 1 .. k + 1 : i \in 1 .. n
      BY <2>1
    <3>2. k + 1 \in 1 .. k + 1
      BY <2>1
    <3> QED
      BY <3>1, <3>2
  <2>4. Largest(1 .. k + 1) = k + 1
    <3>1. k + 1 \in Nat /\ 1 .. k + 1 \in SUBSET (1 .. k + 1)
      BY <2>1
    <3> QED
      BY <2>3, <3>1, LargestIs
  <2>5. (1 .. k + 1) \ {k + 1} = 1 .. k
    BY <2>1
  <2>6. h[1 .. k + 1] = Step(c, h[1 .. k], seq[k + 1])
    BY <1>2, <2>3, <2>4, <2>5
  <2>7. Good(c, k + 1, h[1 .. k + 1])
    BY <2>1, <2>2, <2>6
  <2> QED
    BY <2>7
<1> HIDE DEF T
<1>5. \A k \in 0 .. n - 1 : k \in T => k + 1 \in T
  BY <1>4
<1>6. n \in 0 .. n
  OBVIOUS
<1>7. \A k \in 0 .. n : k \in T
  BY <1>3, <1>5 DEF Inductive
<1>8. Good(c, n, h[1 .. n])
  BY <1>6, <1>7 DEF T
<1> QED
  BY <1>1, <1>8

-----------------------------------------------------------------------------
(* Recursive functions on an interval. *)

Recurs(f, c, m, n) == f = [i \in m .. n |-> Step(c, f, i)]

\* What is at i depends only on what is before it.
Progressive(c, m, n) ==
  \A i \in m .. n : \A f, g :
    (\A j \in m .. i - 1 : f[j] = g[j]) => Step(c, f, i) = Step(c, g, i)

LEMMA RecursionExtends ==
  ASSUME NEW c, NEW m \in Nat, NEW n \in Nat, Progressive(c, m, n),
         NEW k \in Nat, m + k <= n, NEW f, Recurs(f, c, m, m + k - 1)
  PROVE  \E g : Recurs(g, c, m, m + k)
<1> DEFINE top == m + k
           g == [i \in m .. top |-> IF i = top THEN Step(c, f, top) ELSE f[i]]
<1>0. top \in Nat /\ top = m + k /\ top <= n /\ m <= top
  OBVIOUS
<1> HIDE DEF top
<1>1. \A i \in m .. top - 1 : g[i] = f[i]
  <2>1. \A i \in m .. top - 1 : i \in m .. top /\ i # top
    BY <1>0
  <2> QED
    BY <2>1
<1>2. \A i \in m .. top - 1 : f[i] = Step(c, f, i)
  <2>1. f = [i \in m .. m + k - 1 |-> Step(c, f, i)]
    BY DEF Recurs
  <2>2. \A i \in m .. m + k - 1 : f[i] = Step(c, f, i)
    BY <2>1
  <2> QED
    BY <1>0, <2>2
<1>3. g[top] = Step(c, f, top)
  <2>1. top \in m .. top
    BY <1>0
  <2> QED
    BY <2>1
<1>4. g = [i \in m .. top |-> g[i]]
  OBVIOUS
<1> HIDE DEF g
<1>5. ASSUME NEW i \in m .. top PROVE g[i] = Step(c, g, i)
  <2>1. i \in m .. n /\ \A j \in m .. i - 1 : j \in m .. top - 1
    BY <1>0
  <2>2. \A j \in m .. i - 1 : f[j] = g[j]
    BY <1>1, <2>1
  <2>3. Step(c, f, i) = Step(c, g, i)
    BY <2>1, <2>2 DEF Progressive
  <2>4. i = top \/ i \in m .. top - 1
    BY <1>0
  <2> QED
    BY <1>1, <1>2, <1>3, <2>3, <2>4
<1>6. Recurs(g, c, m, top)
  BY <1>4, <1>5 DEF Recurs
<1> QED
  BY <1>6 DEF top

Unfolds(f, c, D) == DOMAIN f = D /\ \A i \in D : f[i] = Step(c, f, i)

LEMMA RecursionUnfolds ==
  ASSUME NEW c, NEW m \in Nat, NEW n \in Nat, Progressive(c, m, n), NEW D, D = m .. n,
         Inductive
  PROVE  Unfolds(RecursionOf(c, D), c, D)
<1>1. \E f : Recurs(f, c, m, n)
  <2>1. CASE n < m
    <3> DEFINE f == [i \in m .. n |-> 0]
    <3>1. \A i \in m .. n : FALSE
      BY <2>1
    <3>2. Recurs(f, c, m, n)
      BY <3>1 DEF Recurs
    <3> QED
      BY <3>2
  <2>2. CASE m <= n
    <3> DEFINE T == {k \in Nat : m + k - 1 <= n => \E f : Recurs(f, c, m, m + k - 1)}
               last == n - m + 1
    <3>0. last \in Nat /\ m + last - 1 = n
      BY <2>2
    <3>1. 0 \in T
      <4> DEFINE f == [i \in m .. m + 0 - 1 |-> 0]
      <4>1. \A i \in m .. m + 0 - 1 : FALSE
        OBVIOUS
      <4>2. Recurs(f, c, m, m + 0 - 1)
        BY <4>1 DEF Recurs
      <4> QED
        BY <4>2
    <3>2. ASSUME NEW k \in 0 .. last - 1, k \in T PROVE k + 1 \in T
      <4>1. k \in Nat /\ m + k <= n /\ m + k - 1 <= n /\ m + (k + 1) - 1 = m + k
        BY <3>0
      <4>2. PICK f : Recurs(f, c, m, m + k - 1)
        BY <3>2, <4>1
      <4>3. \E g : Recurs(g, c, m, m + k)
        BY <4>1, <4>2, RecursionExtends
      <4> QED
        BY <4>1, <4>3
    <3> HIDE DEF T, last
    <3>4. \A k \in 0 .. last - 1 : k \in T => k + 1 \in T
      BY <3>2
    <3>5. \A k \in 0 .. last : k \in T
      BY <3>0, <3>1, <3>4 DEF Inductive
    <3>3. last \in T
      BY <3>0, <3>5
    <3> QED
      BY <3>0, <3>3 DEF T
  <2> QED
    BY <2>1, <2>2
<1>2. \E f : f = [i \in D |-> Step(c, f, i)]
  BY <1>1 DEF Recurs
<1> DEFINE f[i \in D] == Step(c, f, i)
<1>3. f = RecursionOf(c, D)
  BY DEF RecursionOf
<1>4. f = [i \in D |-> Step(c, f, i)]
  BY <1>2
<1> HIDE DEF f
<1>5. DOMAIN f = D /\ \A i \in D : f[i] = Step(c, f, i)
  BY <1>4
<1> QED
  BY <1>3, <1>5 DEF Unfolds
=============================================================================

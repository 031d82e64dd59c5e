----------------------------- MODULE Induction ------------------------------
(***************************************************************************)
(* Induction without an operator as a parameter, and what it is needed     *)
(* for: the values of functions defined by recursion and of folds over a   *)
(* sequence, and the sum of a function over a finite set.                  *)
(*                                                                         *)
(* Every induction is over a set P: a least number, or a minimal subset of *)
(* a finite set, outside P is contradicted.                                *)
(***************************************************************************)
EXTENDS Integers, Sequences, FiniteSets, FiniteSetsExt, TLAPS, FiniteSetTheorems,
        SequenceTheorems, WellFoundedInduction

(* A family of subsets of a finite set has a minimal member.               *)
LEMMA LeastSubset ==
  ASSUME NEW S, IsFiniteSet(S), NEW T \in SUBSET (SUBSET S), T # {}
  PROVE  \E x \in T : \A y \in T : ~(y \subseteq x /\ y # x)
<1>1. IsWellFoundedOn(StrictSubsetOrdering(S), FiniteSubsetsOf(S))
  BY FS_StrictSubsetOrderingWellFounded
<1>2. T \subseteq FiniteSubsetsOf(S)
  BY FS_Subset DEF FiniteSubsetsOf
<1>3. PICK x \in T : \A y \in T : ~(<<y, x>> \in StrictSubsetOrdering(S))
  BY <1>1, <1>2, WFMin
<1> QED BY <1>3 DEF StrictSubsetOrdering

(* A set of naturals that is not empty has a least element.                *)
LEMMA LeastNatural ==
  ASSUME NEW T \in SUBSET Nat, T # {}
  PROVE  \E x \in T : \A y \in T : x <= y
<1>1. PICK n \in T : TRUE
  OBVIOUS
<1> DEFINE F == {1 .. y : y \in {z \in T : z <= n}}
<1>2. IsFiniteSet(1 .. n)
  BY FS_Interval
<1>3. F \subseteq SUBSET (1 .. n) /\ 1 .. n \in F
  <2>1. \A y \in Nat : y <= n => 1 .. y \subseteq 1 .. n
    OBVIOUS
  <2>2. n <= n
    OBVIOUS
  <2> QED BY <2>1, <2>2
<1>4. PICK s \in F : \A t \in F : ~(t \subseteq s /\ t # s)
  <2> DEFINE S == 1 .. n
  <2>1. IsFiniteSet(S) /\ F \in SUBSET (SUBSET S) /\ F # {}
    BY <1>2, <1>3
  <2> HIDE DEF F, S
  <2> QED BY <2>1, LeastSubset
<1>5. PICK x \in T : x <= n /\ s = 1 .. x
  OBVIOUS
<1>6. ASSUME NEW y \in T, y < x PROVE FALSE
  <2>1. 1 .. y \in F
    BY <1>5, <1>6
  <2>2. 1 .. y \subseteq 1 .. x /\ x \in 1 .. x /\ x \notin 1 .. y
    BY <1>6
  <2> QED BY <1>4, <1>5, <2>1, <2>2
<1> QED BY <1>6

(* A function on an initial interval is a sequence.                        *)
LEMMA FunctionIsSeq ==
  ASSUME NEW S, NEW k \in Nat, NEW f \in [1 .. k -> S]
  PROVE  f \in Seq(S) /\ Len(f) = k
BY SeqDef

LEMMA OneMore ==
  ASSUME NEW S, NEW s \in Seq(S), NEW x \in S
  PROVE  /\ s \o <<x>> \in Seq(S) /\ Len(s \o <<x>>) = Len(s) + 1
         /\ (s \o <<x>>)[Len(s) + 1] = x
         /\ \A i \in 1 .. Len(s) : (s \o <<x>>)[i] = s[i]
<1>1. <<x>> \in Seq(S) /\ Len(<<x>>) = 1 /\ <<x>>[1] = x
  OBVIOUS
<1> QED BY <1>1

(* Induction over the naturals.                                            *)
LEMMA NaturalInduction ==
  ASSUME NEW P, 0 \in P, \A n \in Nat : n \in P => n + 1 \in P
  PROVE  \A n \in Nat : n \in P
<1> DEFINE B == {n \in Nat : n \notin P}
<1> SUFFICES ASSUME B # {} PROVE FALSE
  OBVIOUS
<1>1. PICK n \in B : \A m \in B : n <= m
  <2>1. B \in SUBSET Nat
    OBVIOUS
  <2> HIDE DEF B
  <2> QED BY <2>1, LeastNatural
<1>2. n # 0 /\ n - 1 \in Nat /\ n - 1 \notin B
  BY <1>1
<1> QED BY <1>1, <1>2

(* A set of naturals with a bound has a greatest element, which is its Max. *)
LEMMA MaxIsGreatest ==
  ASSUME NEW N \in Nat, NEW T \in SUBSET (0 .. N), T # {}
  PROVE  Max(T) \in T /\ \A y \in T : Max(T) >= y
<1> DEFINE D == {N - y : y \in T}
<1>1. D \in SUBSET Nat /\ D # {}
  <2>1. \A y \in T : N - y \in Nat
    OBVIOUS
  <2> QED BY <2>1
<1>2. PICK d \in D : \A e \in D : d <= e
  <2> HIDE DEF D
  <2> QED BY <1>1, LeastNatural
<1>3. PICK x \in T : d = N - x
  OBVIOUS
<1>4. \A y \in T : x >= y
  <2> TAKE y \in T
  <2>1. N - y \in D
    OBVIOUS
  <2>2. d <= N - y
    BY <1>2, <2>1
  <2> QED BY <1>3, <2>2
<1> QED BY <1>4 DEF Max

LEMMA MaxOfPrefix ==
  ASSUME NEW n \in Nat, n # 0
  PROVE  Max(1 .. n) = n
<1>1. 1 .. n \in SUBSET (0 .. n) /\ n \in 1 .. n
  OBVIOUS
<1>2. Max(1 .. n) \in 1 .. n /\ Max(1 .. n) >= n
  BY <1>1, MaxIsGreatest
<1> QED BY <1>2

(* Whatever the step, a function defined by recursion on a bounded number  *)
(* has a value: G[n, x] is what step n makes of x.                         *)
Iterates(f, N, base, G) ==
  f[0] = base /\ \A n \in 1 .. N : f[n] = G[<<n, f[n - 1]>>]

LEMMA IterationExists ==
  ASSUME NEW N \in Nat, NEW X, NEW base \in X, NEW G \in [(1 .. N) \X X -> X]
  PROVE  \E f \in [0 .. N -> X] : Iterates(f, N, base, G)
<1> USE DEF Iterates
<1> DEFINE P == {m \in Nat : m <= N => \E f \in [0 .. m -> X] : Iterates(f, m, base, G)}
<1>1. 0 \in P
  <2>1. [n \in 0 .. 0 |-> base] \in [0 .. 0 -> X] /\ Iterates([n \in 0 .. 0 |-> base], 0, base, G)
    OBVIOUS
  <2> QED BY <2>1
<1>2. ASSUME NEW m \in Nat, m \in P PROVE m + 1 \in P
  <2> SUFFICES ASSUME m + 1 <= N PROVE \E f \in [0 .. m + 1 -> X] : Iterates(f, m + 1, base, G)
    OBVIOUS
  <2>1. PICK f \in [0 .. m -> X] : Iterates(f, m, base, G)
    BY <1>2
  <2> DEFINE g == [n \in 0 .. m + 1 |-> IF n <= m THEN f[n] ELSE G[<<m + 1, f[m]>>]]
  <2>2. f[m] \in X /\ m + 1 \in 1 .. N
    OBVIOUS
  <2>3. g \in [0 .. m + 1 -> X]
    BY <2>2
  <2>4. g[0] = base
    BY <2>1
  <2>5. ASSUME NEW n \in 1 .. m + 1 PROVE g[n] = G[<<n, g[n - 1]>>]
    <3>1. n - 1 \in 0 .. m /\ g[n - 1] = f[n - 1]
      OBVIOUS
    <3>2. CASE n <= m
      BY <2>1, <3>1, <3>2
    <3>3. CASE n = m + 1
      <4>1. n - 1 = m /\ ~(n <= m)
        BY <3>3
      <4>2. g[n] = G[<<m + 1, f[m]>>] /\ g[n - 1] = f[m]
        BY <3>1, <4>1
      <4> HIDE DEF g
      <4> QED BY <3>3, <4>1, <4>2
    <3> QED BY <3>2, <3>3
  <2> QED BY <2>3, <2>4, <2>5
<1>3. N \in P
  <2> HIDE DEF P
  <2> QED BY <1>1, <1>2, NaturalInduction
<1>4. N <= N
  OBVIOUS
<1> QED BY <1>3, <1>4

(* The same for a fold from the left over 1 .. N, which the library        *)
(* defines by recursion on subsets: what is left without the greatest      *)
(* element is folded first.                                                *)
Folds(h, N, base, G) ==
  \A s \in SUBSET (1 .. N) :
    h[s] = IF s = {} THEN base ELSE G[<<Max(s), h[s \ {Max(s)}]>>]

LEMMA FoldExists ==
  ASSUME NEW N \in Nat, NEW X, NEW base \in X, NEW G \in [(1 .. N) \X X -> X]
  PROVE  \E h \in [SUBSET (1 .. N) -> X] : Folds(h, N, base, G)
<1> DEFINE Q(m) == \E h \in [SUBSET (1 .. m) -> X] : Folds(h, m, base, G)
           P == {m \in Nat : m <= N => Q(m)}
<1>1. 0 \in P
  <2> USE DEF Folds
  <2> DEFINE h == [s \in SUBSET (1 .. 0) |-> base]
  <2>1. h \in [SUBSET (1 .. 0) -> X]
    OBVIOUS
  <2>2. \A s \in SUBSET (1 .. 0) : s = {}
    OBVIOUS
  <2>3. Folds(h, 0, base, G)
    BY <2>2
  <2> HIDE DEF h
  <2> QED BY <2>1, <2>3
<1>2. ASSUME NEW m \in Nat, m \in P PROVE m + 1 \in P
  <2> HIDE DEF Q
  <2> SUFFICES ASSUME m + 1 <= N PROVE Q(m + 1)
    OBVIOUS
  <2> USE DEF Q, Folds
  <2>0. m <= N
    OBVIOUS
  <2>1. PICK h \in [SUBSET (1 .. m) -> X] : Folds(h, m, base, G)
    BY <1>2, <2>0
  <2> DEFINE top == m + 1
             k == [s \in SUBSET (1 .. m + 1) |->
                     IF top \in s THEN G[<<top, h[s \ {top}]>>] ELSE h[s]]
  <2>2. \A s \in SUBSET (1 .. m + 1) : s \ {top} \in SUBSET (1 .. m)
    OBVIOUS
  <2>3. \A s \in SUBSET (1 .. m + 1) : top \notin s => s \in SUBSET (1 .. m)
    OBVIOUS
  <2>4. top \in 1 .. N
    OBVIOUS
  <2>5. k \in [SUBSET (1 .. m + 1) -> X]
    BY <2>2, <2>3, <2>4
  <2>6. ASSUME NEW s \in SUBSET (1 .. m + 1)
        PROVE  k[s] = IF s = {} THEN base ELSE G[<<Max(s), k[s \ {Max(s)}]>>]
    <3>1. CASE top \in s
      <4>1. s \in SUBSET (0 .. m + 1) /\ s # {} /\ m + 1 \in Nat
        BY <3>1
      <4>2. Max(s) \in s /\ \A y \in s : Max(s) >= y
        BY <4>1, MaxIsGreatest
      <4>3. Max(s) \in 1 .. m + 1 /\ Max(s) >= top
        BY <3>1, <4>2
      <4>4. Max(s) = top
        BY <4>3
      <4>5. k[s \ {top}] = h[s \ {top}]
        BY <2>2
      <4> QED BY <3>1, <4>4, <4>5
    <3>2. CASE top \notin s
      <4>1. s \in SUBSET (1 .. m) /\ k[s] = h[s]
        BY <2>3, <3>2
      <4>2. CASE s = {}
        BY <2>1, <4>1, <4>2
      <4>3. CASE s # {}
        <5>1. s \in SUBSET (0 .. m)
          BY <4>1
        <5>2. Max(s) \in s
          BY <4>3, <5>1, MaxIsGreatest
        <5> DEFINE t == s \ {Max(s)}
        <5>3. t \in SUBSET (1 .. m) /\ t \in SUBSET (1 .. m + 1) /\ top \notin t
          BY <3>2, <4>1
        <5>4. k[t] = h[t]
          BY <5>3
        <5>5. h[s] = G[<<Max(s), h[t]>>]
          BY <2>1, <4>1, <4>3
        <5> QED BY <4>1, <4>3, <5>4, <5>5
      <4> QED BY <4>2, <4>3
    <3> QED BY <3>1, <3>2
  <2> HIDE DEF k
  <2>7. Folds(k, m + 1, base, G)
    BY <2>6
  <2> QED BY <2>5, <2>7
<1>3. N \in P
  <2> HIDE DEF P
  <2> QED BY <1>1, <1>2, NaturalInduction
<1>4. N <= N
  OBVIOUS
<1> QED BY <1>3, <1>4

(* What the greatest element of a prefix is, and what is left without it.  *)
LEMMA PrefixStep ==
  ASSUME NEW N \in Nat, NEW n \in 1 .. N
  PROVE  /\ 1 .. n \in SUBSET (1 .. N) /\ 1 .. n # {}
         /\ Max(1 .. n) = n /\ (1 .. n) \ {n} = 1 .. (n - 1)
<1>1. n \in Nat /\ n # 0 /\ n \in 1 .. n /\ n <= N
  OBVIOUS
<1>2. Max(1 .. n) = n
  BY <1>1, MaxOfPrefix
<1>3. 1 .. n \subseteq 1 .. N
  BY <1>1
<1>4. (1 .. n) \ {n} = 1 .. (n - 1)
  BY <1>1
<1> QED BY <1>1, <1>2, <1>3, <1>4

(* Only the prefixes matter: a fold is an iteration.                       *)
IteratesTo(f, v, N, base, G) == Iterates(f, N, base, G) /\ f[N] = v

FoldsPrefixes(w, N, X, base, G) ==
  /\ w[{}] = base
  /\ \A n \in 1 .. N : w[1 .. (n - 1)] \in X => w[1 .. n] = G[<<n, w[1 .. (n - 1)]>>]

LEMMA FoldIterates ==
  ASSUME NEW N \in Nat, NEW X, NEW base \in X, NEW G \in [(1 .. N) \X X -> X], NEW w,
         FoldsPrefixes(w, N, X, base, G)
  PROVE  \E f \in [0 .. N -> X] : IteratesTo(f, w[1 .. N], N, base, G)
<1> DEFINE f == [n \in 0 .. N |-> w[1 .. n]]
           P == {n \in Nat : n <= N => w[1 .. n] \in X}
<1> USE DEF FoldsPrefixes
<1>1. w[1 .. 0] = base
  <2>1. 1 .. 0 = {}
    OBVIOUS
  <2> QED BY <2>1
<1>2. 0 \in P
  BY <1>1
<1>3. ASSUME NEW n \in Nat, n \in P PROVE n + 1 \in P
  <2>1. CASE n + 1 <= N
    <3> DEFINE m == n + 1
    <3>1. m \in 1 .. N /\ m - 1 = n /\ n <= N
      BY <2>1
    <3>2. w[1 .. (m - 1)] \in X
      BY <1>3, <3>1
    <3> HIDE DEF m
    <3>3. w[1 .. m] = G[<<m, w[1 .. (m - 1)]>>]
      BY <3>1, <3>2
    <3>4. w[1 .. m] \in X
      BY <3>1, <3>2, <3>3
    <3> QED BY <3>4 DEF m
  <2> QED BY <2>1
<1>4. \A n \in Nat : n \in P
  <2> HIDE DEF P
  <2> QED BY <1>2, <1>3, NaturalInduction
<1>5. f \in [0 .. N -> X]
  BY <1>4
<1>6. ASSUME NEW n \in 1 .. N PROVE f[n] = G[<<n, f[n - 1]>>]
  <2>1. n \in 0 .. N /\ n - 1 \in 0 .. N
    OBVIOUS
  <2>2. f[n] = w[1 .. n] /\ f[n - 1] = w[1 .. (n - 1)]
    BY <2>1
  <2>3. f[n - 1] \in X
    BY <1>5, <2>1
  <2> HIDE DEF f
  <2> QED BY <2>2, <2>3
<1>7. f[0] = base /\ f[N] = w[1 .. N]
  BY <1>1
<1> HIDE DEF f
<1> QED BY <1>5, <1>6, <1>7 DEF Iterates, IteratesTo

(* Induction over the subsets of a finite set, one element at a time.      *)
LEMMA SubsetInduction ==
  ASSUME NEW S, IsFiniteSet(S), NEW P, {} \in P,
         \A T \in SUBSET S : \A x \in T : T \ {x} \in P => T \in P
  PROVE  \A T \in SUBSET S : T \in P
<1> DEFINE B == {T \in SUBSET S : T \notin P}
<1> SUFFICES ASSUME B # {} PROVE FALSE
  OBVIOUS
<1>1. PICK T \in B : \A U \in B : ~(U \subseteq T /\ U # T)
  <2>1. B \in SUBSET (SUBSET S)
    OBVIOUS
  <2> HIDE DEF B
  <2> QED BY <2>1, LeastSubset
<1>2. PICK x \in T : TRUE
  BY <1>1
<1>3. T \ {x} \subseteq T /\ T \ {x} # T /\ T \ {x} \in SUBSET S
  BY <1>1, <1>2
<1>4. T \ {x} \in P
  BY <1>1, <1>3
<1> QED BY <1>1, <1>2, <1>4

-----------------------------------------------------------------------------
(* What the sum is                                                          *)

(* g gives the sum of f over every subset of S.                            *)
Adds(g, f, S) ==
  /\ g \in [SUBSET S -> Nat]
  /\ g[{}] = 0
  /\ \A T \in SUBSET S : \A x \in T : g[T] = f[x] + g[T \ {x}]

LEMMA AddsExists ==
  ASSUME NEW S, IsFiniteSet(S), NEW f, \A x \in S : f[x] \in Nat
  PROVE  \E g : Adds(g, f, S)
<1> DEFINE P == {T \in SUBSET S : \E g : Adds(g, f, T)}
<1>1. {} \in P
  <2>1. Adds([T \in SUBSET {} |-> 0], f, {})
    BY DEF Adds
  <2> QED BY <2>1
<1>2. ASSUME NEW T \in SUBSET S, NEW a \in T, T \ {a} \in P PROVE T \in P
  <2>1. PICK h : Adds(h, f, T \ {a})
    BY <1>2
  <2> DEFINE g == [X \in SUBSET T |-> IF a \in X THEN f[a] + h[X \ {a}] ELSE h[X]]
  <2>2. h \in [SUBSET (T \ {a}) -> Nat]
    BY <2>1 DEF Adds
  <2>3. \A X \in SUBSET T : X \ {a} \in SUBSET (T \ {a}) /\ (a \notin X => X \in SUBSET (T \ {a}))
    OBVIOUS
  <2>4. f[a] \in Nat
    OBVIOUS
  <2>5. g \in [SUBSET T -> Nat]
    BY <2>2, <2>3, <2>4
  <2>6. g[{}] = 0
    BY <2>1 DEF Adds
  <2>7. ASSUME NEW X \in SUBSET T, NEW x \in X PROVE g[X] = f[x] + g[X \ {x}]
    <3>1. CASE x = a
      <4>1. X \ {a} \in SUBSET T /\ a \notin X \ {a} /\ a \in X
        BY <3>1
      <4>2. g[X] = f[a] + h[X \ {a}] /\ g[X \ {a}] = h[X \ {a}]
        BY <4>1
      <4> HIDE DEF g
      <4> QED BY <3>1, <4>2
    <3>2. CASE x # a /\ a \in X
      <4>1. x \in X \ {a} /\ X \ {a} \in SUBSET (T \ {a})
        BY <3>2
      <4>2. h[X \ {a}] = f[x] + h[(X \ {a}) \ {x}]
        BY <2>1, <4>1 DEF Adds
      <4> DEFINE z == h[(X \ {a}) \ {x}]
      <4>3. z \in Nat /\ f[x] \in Nat
        BY <2>2, <4>1
      <4>4. (X \ {x}) \ {a} = (X \ {a}) \ {x}
        OBVIOUS
      <4>5. g[X \ {x}] = f[a] + h[(X \ {x}) \ {a}]
        BY <3>2
      <4>6. g[X] = f[a] + (f[x] + z)
        BY <3>2, <4>2
      <4>7. g[X \ {x}] = f[a] + z
        BY <4>4, <4>5
      <4> HIDE DEF g, z
      <4> QED BY <2>4, <4>3, <4>6, <4>7
    <3>3. CASE a \notin X
      <4>1. X \in SUBSET (T \ {a}) /\ X \ {x} \in SUBSET T /\ a \notin X \ {x}
        BY <3>3
      <4>2. h[X] = f[x] + h[X \ {x}]
        BY <2>1, <4>1 DEF Adds
      <4> QED BY <3>3, <4>1, <4>2
    <3> QED BY <3>1, <3>2, <3>3
  <2>8. Adds(g, f, T)
    <3> HIDE DEF g
    <3> QED BY <2>5, <2>6, <2>7 DEF Adds
  <2> QED BY <2>8
<1>3. S \in P
  <2>1. \A T \in SUBSET S : \A x \in T : T \ {x} \in P => T \in P
    BY <1>2
  <2> HIDE DEF P
  <2>2. \A T \in SUBSET S : T \in P
    BY <1>1, <2>1, SubsetInduction
  <2>3. S \in SUBSET S
    OBVIOUS
  <2> QED BY <2>2, <2>3
<1> QED BY <1>3

(* The recursion the sum is defined by has one solution.                   *)
LEMMA AddsUnique ==
  ASSUME NEW S, IsFiniteSet(S), NEW f, NEW g, Adds(g, f, S), NEW U \in SUBSET S
  PROVE  SumFunctionOnSet(f, U) = g[U]
<1> DEFINE pick(s) == CHOOSE x \in s : TRUE
           Solves(h) == h = [s \in SUBSET U |->
                              IF s = {} THEN 0 ELSE f[pick(s)] + h[s \ {pick(s)}]]
           r == [s \in SUBSET U |-> g[s]]
<1>1. \A s \in SUBSET U : s # {} => pick(s) \in s
  OBVIOUS
<1>2. Solves(r)
  <2>1. ASSUME NEW s \in SUBSET U
        PROVE  r[s] = IF s = {} THEN 0 ELSE f[pick(s)] + r[s \ {pick(s)}]
    <3>1. CASE s = {}
      BY <3>1 DEF Adds
    <3>2. CASE s # {}
      <4>1. pick(s) \in s /\ s \in SUBSET S /\ s \ {pick(s)} \in SUBSET U
        BY <1>1, <3>2
      <4> HIDE DEF pick
      <4> QED BY <3>2, <4>1 DEF Adds
    <3> QED BY <3>1, <3>2
  <2> HIDE DEF pick
  <2> QED BY <2>1
<1>3. ASSUME NEW h, Solves(h) PROVE \A s \in SUBSET U : h[s] = g[s]
  <2> DEFINE P == {s \in SUBSET U : h[s] = g[s]}
  <2>1. {} \in P
    BY <1>3 DEF Adds
  <2>2. ASSUME NEW s \in SUBSET U, s # {}, s \ {pick(s)} \in P PROVE s \in P
    <3>1. h[s] = f[pick(s)] + h[s \ {pick(s)}]
      BY <1>3, <2>2
    <3>2. g[s] = f[pick(s)] + g[s \ {pick(s)}]
      <4>1. pick(s) \in s /\ s \in SUBSET S
        BY <1>1, <2>2
      <4> HIDE DEF pick
      <4> QED BY <4>1 DEF Adds
    <3> QED BY <2>2, <3>1, <3>2
  <2> DEFINE B == {s \in SUBSET U : s \notin P}
  <2> SUFFICES ASSUME B # {} PROVE FALSE
    OBVIOUS
  <2>3. PICK s \in B : \A t \in B : ~(t \subseteq s /\ t # s)
    <3>1. B \in SUBSET (SUBSET U) /\ IsFiniteSet(U)
      BY FS_Subset
    <3> HIDE DEF B
    <3> QED BY <3>1, LeastSubset
  <2>4. s # {}
    BY <2>1, <2>3
  <2>5. pick(s) \in s
    BY <1>1, <2>3, <2>4
  <2> HIDE DEF pick, P
  <2>6. s \ {pick(s)} \in P
    BY <2>3, <2>5
  <2> QED BY <2>2, <2>3, <2>4, <2>6
<1>4. SumFunctionOnSet(f, U) = (CHOOSE h : Solves(h))[U]
  BY DEF SumFunctionOnSet, FoldFunctionOnSet, MapThenFoldSet
<1> HIDE DEF Solves
<1>5. Solves(CHOOSE h : Solves(h))
  BY <1>2
<1> QED BY <1>3, <1>4, <1>5

-----------------------------------------------------------------------------
(* What follows for a user of the sum                                       *)

(* An element at a time.                                                    *)
LEMMA SumOne ==
  ASSUME NEW S, IsFiniteSet(S), NEW f, \A x \in S : f[x] \in Nat
  PROVE  /\ SumFunctionOnSet(f, {}) = 0
         /\ SumFunctionOnSet(f, S) \in Nat
         /\ \A a \in S : SumFunctionOnSet(f, S) = f[a] + SumFunctionOnSet(f, S \ {a})
<1>1. PICK g : Adds(g, f, S)
  BY AddsExists
<1>2. \A U \in SUBSET S : SumFunctionOnSet(f, U) = g[U]
  BY <1>1, AddsUnique
<1>3. S \in SUBSET S /\ {} \in SUBSET S /\ \A a \in S : S \ {a} \in SUBSET S
  OBVIOUS
<1> QED BY <1>1, <1>2, <1>3 DEF Adds

(* The sum depends on the values summed and on nothing else.                *)
LEMMA SumSame ==
  ASSUME NEW S, IsFiniteSet(S), NEW f, NEW h, \A x \in S : f[x] \in Nat /\ h[x] = f[x]
  PROVE  SumFunctionOnSet(h, S) = SumFunctionOnSet(f, S)
<1>1. PICK g : Adds(g, f, S)
  BY AddsExists
<1>2. Adds(g, h, S)
  BY <1>1 DEF Adds
<1>3. S \in SUBSET S
  OBVIOUS
<1> QED BY <1>1, <1>2, <1>3, AddsUnique

(* Fewer and smaller terms, smaller sum.                                    *)
LEMMA SumMonotone ==
  ASSUME NEW S, IsFiniteSet(S), NEW R \in SUBSET S, NEW f, NEW h,
         \A x \in S : f[x] \in Nat, \A x \in R : h[x] \in Nat /\ h[x] <= f[x]
  PROVE  SumFunctionOnSet(h, R) <= SumFunctionOnSet(f, S)
<1> DEFINE P == {T \in SUBSET S :
                  SumFunctionOnSet(h, T \cap R) <= SumFunctionOnSet(f, T)}
<1>0. \A T \in SUBSET S : IsFiniteSet(T) /\ IsFiniteSet(T \cap R)
  BY FS_Subset
<1>1. {} \in P
  <2>1. SumFunctionOnSet(f, {}) = 0 /\ SumFunctionOnSet(h, {}) = 0
    BY SumOne, FS_EmptySet
  <2>2. {} \cap R = {}
    OBVIOUS
  <2> QED BY <2>1, <2>2
<1>2. ASSUME NEW T \in SUBSET S, NEW x \in T, T \ {x} \in P PROVE T \in P
  <2>1. /\ SumFunctionOnSet(f, T) = f[x] + SumFunctionOnSet(f, T \ {x})
        /\ SumFunctionOnSet(f, T \ {x}) \in Nat /\ f[x] \in Nat
    <3>1. T \ {x} \in SUBSET S
      OBVIOUS
    <3> QED BY <1>0, <3>1, SumOne
  <2>2. SumFunctionOnSet(h, (T \ {x}) \cap R) \in Nat
    <3>1. T \ {x} \in SUBSET S
      OBVIOUS
    <3> QED BY <1>0, <3>1, SumOne
  <2>3. CASE x \in R
    <3>1. x \in T \cap R /\ (T \cap R) \ {x} = (T \ {x}) \cap R
      BY <2>3
    <3>2. SumFunctionOnSet(h, T \cap R) = h[x] + SumFunctionOnSet(h, (T \ {x}) \cap R)
      <4> DEFINE Q == T \cap R
      <4>1. IsFiniteSet(Q) /\ (\A y \in Q : h[y] \in Nat) /\ x \in Q
        BY <1>0, <3>1
      <4> HIDE DEF Q
      <4>2. SumFunctionOnSet(h, Q) = h[x] + SumFunctionOnSet(h, Q \ {x})
        BY <4>1, SumOne
      <4> QED BY <3>1, <4>2 DEF Q
    <3>3. h[x] \in Nat /\ h[x] <= f[x]
      BY <2>3
    <3>4. SumFunctionOnSet(h, (T \ {x}) \cap R) <= SumFunctionOnSet(f, T \ {x})
      BY <1>2
    <3>5. SumFunctionOnSet(h, T \cap R) <= SumFunctionOnSet(f, T)
      BY <2>1, <2>2, <3>2, <3>3, <3>4
    <3> QED BY <3>5
  <2>4. CASE x \notin R
    <3>1. T \cap R = (T \ {x}) \cap R
      BY <2>4
    <3>2. SumFunctionOnSet(h, (T \ {x}) \cap R) <= SumFunctionOnSet(f, T \ {x})
      BY <1>2
    <3>3. SumFunctionOnSet(h, T \cap R) <= SumFunctionOnSet(f, T)
      BY <2>1, <2>2, <3>1, <3>2
    <3> QED BY <3>3
  <2> QED BY <2>3, <2>4
<1>3. S \in P
  <2>1. \A T \in SUBSET S : \A x \in T : T \ {x} \in P => T \in P
    BY <1>2
  <2> HIDE DEF P
  <2>2. \A T \in SUBSET S : T \in P
    BY <1>1, <2>1, SubsetInduction
  <2>3. S \in SUBSET S
    OBVIOUS
  <2> QED BY <2>2, <2>3
<1>4. S \cap R = R
  OBVIOUS
<1> QED BY <1>3, <1>4

(* Summing two functions is summing their sums.                             *)
LEMMA SumPlus ==
  ASSUME NEW S, IsFiniteSet(S), NEW f, NEW h, NEW k,
         \A x \in S : f[x] \in Nat /\ h[x] \in Nat /\ k[x] = f[x] + h[x]
  PROVE  SumFunctionOnSet(k, S) = SumFunctionOnSet(f, S) + SumFunctionOnSet(h, S)
<1>1. PICK a : Adds(a, f, S)
  BY AddsExists
<1>2. PICK b : Adds(b, h, S)
  BY AddsExists
<1> DEFINE c == [T \in SUBSET S |-> a[T] + b[T]]
<1>3. Adds(c, k, S)
  <2>1. a \in [SUBSET S -> Nat] /\ b \in [SUBSET S -> Nat]
    BY <1>1, <1>2 DEF Adds
  <2>2. c \in [SUBSET S -> Nat] /\ c[{}] = 0
    BY <1>1, <1>2, <2>1 DEF Adds
  <2>3. ASSUME NEW T \in SUBSET S, NEW x \in T PROVE c[T] = k[x] + c[T \ {x}]
    <3>1. T \ {x} \in SUBSET S
      OBVIOUS
    <3>2. a[T] = f[x] + a[T \ {x}] /\ b[T] = h[x] + b[T \ {x}]
      BY <1>1, <1>2 DEF Adds
    <3>3. a[T \ {x}] \in Nat /\ b[T \ {x}] \in Nat /\ f[x] \in Nat /\ h[x] \in Nat
          /\ k[x] = f[x] + h[x]
      BY <2>1, <3>1
    <3>4. c[T] = a[T] + b[T] /\ c[T \ {x}] = a[T \ {x}] + b[T \ {x}]
      BY <3>1
    <3> QED BY <3>2, <3>3, <3>4
  <2> HIDE DEF c
  <2> QED BY <2>2, <2>3 DEF Adds
<1>4. S \in SUBSET S
  OBVIOUS
<1>5. SumFunctionOnSet(f, S) = a[S] /\ SumFunctionOnSet(h, S) = b[S]
  BY <1>1, <1>2, <1>4, AddsUnique
<1>6. SumFunctionOnSet(k, S) = c[S]
  <2> HIDE DEF c
  <2> QED BY <1>3, <1>4, AddsUnique
<1> QED BY <1>4, <1>5, <1>6

(* Renaming what is summed over does not change the sum.                    *)
LEMMA SumRenamed ==
  ASSUME NEW S, IsFiniteSet(S), NEW w, NEW f, NEW h,
         \A x \in S : f[x] \in Nat /\ h[w[x]] = f[x],
         \A x, y \in S : w[x] = w[y] => x = y
  PROVE  SumFunctionOnSet(h, {w[x] : x \in S}) = SumFunctionOnSet(f, S)
<1> DEFINE P == {T \in SUBSET S :
                  /\ IsFiniteSet({w[x] : x \in T})
                  /\ SumFunctionOnSet(h, {w[x] : x \in T}) = SumFunctionOnSet(f, T)}
<1>0. \A T \in SUBSET S : IsFiniteSet(T)
  BY FS_Subset
<1>1. {} \in P
  <2>1. SumFunctionOnSet(f, {}) = 0 /\ SumFunctionOnSet(h, {}) = 0 /\ IsFiniteSet({})
    BY SumOne, FS_EmptySet
  <2>2. {w[x] : x \in {}} = {}
    OBVIOUS
  <2> QED BY <2>1, <2>2
<1>2. ASSUME NEW T \in SUBSET S, NEW a \in T, T \ {a} \in P PROVE T \in P
  <2> DEFINE R == {w[x] : x \in T}
             Q == {w[x] : x \in T \ {a}}
  <2>1. R = Q \cup {w[a]} /\ w[a] \notin Q /\ R \ {w[a]} = Q
    OBVIOUS
  <2>2. IsFiniteSet(Q) /\ SumFunctionOnSet(h, Q) = SumFunctionOnSet(f, T \ {a})
    BY <1>2
  <2>3. \A y \in R : h[y] \in Nat
    OBVIOUS
  <2>4. w[a] \in R /\ h[w[a]] = f[a]
    OBVIOUS
  <2> HIDE DEF R, Q
  <2>5. IsFiniteSet(R)
    BY <2>1, <2>2, FS_AddElement
  <2>6. SumFunctionOnSet(h, R) = h[w[a]] + SumFunctionOnSet(h, Q)
    <3>1. \A b \in R : SumFunctionOnSet(h, R) = h[b] + SumFunctionOnSet(h, R \ {b})
      BY <2>3, <2>5, SumOne
    <3> QED BY <2>1, <2>4, <3>1
  <2>7. SumFunctionOnSet(f, T) = f[a] + SumFunctionOnSet(f, T \ {a})
    BY <1>0, SumOne
  <2> QED BY <2>2, <2>4, <2>5, <2>6, <2>7 DEF R
<1>3. S \in P
  <2>1. \A T \in SUBSET S : \A x \in T : T \ {x} \in P => T \in P
    BY <1>2
  <2> HIDE DEF P
  <2>2. \A T \in SUBSET S : T \in P
    BY <1>1, <2>1, SubsetInduction
  <2>3. S \in SUBSET S
    OBVIOUS
  <2> QED BY <2>2, <2>3
<1> QED BY <1>3
-----------------------------------------------------------------------------
(* Sums over parts and over pairs                                           *)

(* Nothing adds up to nothing.                                              *)
LEMMA SumZero ==
  ASSUME NEW S, IsFiniteSet(S), NEW f, \A x \in S : f[x] = 0
  PROVE  SumFunctionOnSet(f, S) = 0
<1> DEFINE g == [T \in SUBSET S |-> 0]
<1>1. Adds(g, f, S)
  BY DEF Adds
<1>2. S \in SUBSET S /\ g[S] = 0
  OBVIOUS
<1> HIDE DEF g
<1> QED BY <1>1, <1>2, AddsUnique

(* A sum with one term.                                                     *)
LEMMA SumPoint ==
  ASSUME NEW S, IsFiniteSet(S), NEW a \in S, NEW v \in Nat, NEW f,
         \A x \in S : f[x] = IF x = a THEN v ELSE 0
  PROVE  SumFunctionOnSet(f, S) = v
<1>1. \A x \in S : f[x] \in Nat
  OBVIOUS
<1>2. SumFunctionOnSet(f, S) = f[a] + SumFunctionOnSet(f, S \ {a})
  BY <1>1, SumOne
<1>3. SumFunctionOnSet(f, S \ {a}) = 0
  <2> DEFINE R == S \ {a}
  <2>1. IsFiniteSet(R) /\ \A x \in R : f[x] = 0
    BY FS_Subset
  <2> HIDE DEF R
  <2>2. SumFunctionOnSet(f, R) = 0
    BY <2>1, SumZero
  <2> QED BY <2>2 DEF R
<1> QED BY <1>2, <1>3

(* The sum over two disjoint sets.                                          *)
LEMMA SumUnion ==
  ASSUME NEW S, IsFiniteSet(S), NEW R, IsFiniteSet(R), S \cap R = {},
         NEW f, \A x \in S \cup R : f[x] \in Nat
  PROVE  SumFunctionOnSet(f, S \cup R) = SumFunctionOnSet(f, S) + SumFunctionOnSet(f, R)
<1> DEFINE P == {T \in SUBSET R :
                  SumFunctionOnSet(f, S \cup T)
                    = SumFunctionOnSet(f, S) + SumFunctionOnSet(f, T)}
<1>0. \A T \in SUBSET R : IsFiniteSet(T) /\ IsFiniteSet(S \cup T)
  BY FS_Subset, FS_Union
<1>1. {} \in P
  <2>1. SumFunctionOnSet(f, {}) = 0 /\ SumFunctionOnSet(f, S) \in Nat
    BY SumOne, FS_EmptySet
  <2>2. S \cup {} = S
    OBVIOUS
  <2> QED BY <2>1, <2>2
<1>2. ASSUME NEW T \in SUBSET R, NEW a \in T, T \ {a} \in P PROVE T \in P
  <2> DEFINE U == S \cup T
  <2>1. a \in U /\ U \ {a} = S \cup (T \ {a}) /\ (\A x \in U : f[x] \in Nat) /\ IsFiniteSet(U)
    BY <1>0
  <2> HIDE DEF U
  <2>2. SumFunctionOnSet(f, U) = f[a] + SumFunctionOnSet(f, U \ {a})
    BY <2>1, SumOne
  <2>3. SumFunctionOnSet(f, T) = f[a] + SumFunctionOnSet(f, T \ {a})
    BY <1>0, SumOne
  <2>4. SumFunctionOnSet(f, S) \in Nat /\ f[a] \in Nat
    BY SumOne
  <2>5. SumFunctionOnSet(f, T \ {a}) \in Nat
    <3>1. T \ {a} \in SUBSET R
      OBVIOUS
    <3> QED BY <1>0, <3>1, SumOne
  <2>6. SumFunctionOnSet(f, S \cup (T \ {a}))
          = SumFunctionOnSet(f, S) + SumFunctionOnSet(f, T \ {a})
    BY <1>2
  <2>7. SumFunctionOnSet(f, U \ {a}) = SumFunctionOnSet(f, S) + SumFunctionOnSet(f, T \ {a})
    BY <2>1, <2>6
  <2>8. SumFunctionOnSet(f, U) = SumFunctionOnSet(f, S) + SumFunctionOnSet(f, T)
    BY <2>2, <2>3, <2>4, <2>5, <2>7
  <2> QED BY <2>8 DEF U
<1>3. R \in P
  <2>1. \A T \in SUBSET R : \A x \in T : T \ {x} \in P => T \in P
    BY <1>2
  <2> HIDE DEF P
  <2>2. \A T \in SUBSET R : T \in P
    BY <1>1, <2>1, SubsetInduction
  <2>3. R \in SUBSET R
    OBVIOUS
  <2> QED BY <2>2, <2>3
<1> QED BY <1>3

(* A table summed by rows and by columns.                                   *)
LEMMA SumExchange ==
  ASSUME NEW I, IsFiniteSet(I), NEW S, IsFiniteSet(S), NEW F, NEW H, NEW r,
         \A i \in I : \A x \in S : F[i][x] \in Nat /\ H[x][i] = F[i][x],
         \A i \in I : r[i] = SumFunctionOnSet(F[i], S)
  PROVE  SumFunctionOnSet([x \in S |-> SumFunctionOnSet(H[x], I)], S) = SumFunctionOnSet(r, I)
<1> DEFINE col(T) == [x \in S |-> SumFunctionOnSet(H[x], T)]
           P == {T \in SUBSET I : SumFunctionOnSet(col(T), S) = SumFunctionOnSet(r, T)}
<1>0. \A T \in SUBSET I : IsFiniteSet(T)
  BY FS_Subset
<1>1. \A i \in I : r[i] \in Nat
  BY SumOne
<1>2. {} \in P
  <2>1. \A x \in S : col({})[x] = 0
    BY SumOne, FS_EmptySet
  <2> HIDE DEF col
  <2>2. SumFunctionOnSet(col({}), S) = 0
    BY <2>1, SumZero
  <2>3. SumFunctionOnSet(r, {}) = 0
    BY SumOne, FS_EmptySet
  <2> QED BY <2>2, <2>3
<1>3. ASSUME NEW T \in SUBSET I, NEW i \in T, T \ {i} \in P PROVE T \in P
  <2>1. T \ {i} \in SUBSET I /\ IsFiniteSet(T) /\ IsFiniteSet(T \ {i})
    BY <1>0
  <2>2. \A x \in S : /\ SumFunctionOnSet(H[x], T) = H[x][i] + SumFunctionOnSet(H[x], T \ {i})
                     /\ SumFunctionOnSet(H[x], T \ {i}) \in Nat
    <3>1. ASSUME NEW x \in S
          PROVE  /\ SumFunctionOnSet(H[x], T) = H[x][i] + SumFunctionOnSet(H[x], T \ {i})
                 /\ SumFunctionOnSet(H[x], T \ {i}) \in Nat
      <4> DEFINE h == H[x]
      <4>1. \A j \in T : h[j] \in Nat
        OBVIOUS
      <4> HIDE DEF h
      <4>2. SumFunctionOnSet(h, T) = h[i] + SumFunctionOnSet(h, T \ {i})
        BY <2>1, <4>1, SumOne
      <4>3. SumFunctionOnSet(h, T \ {i}) \in Nat
        BY <2>1, <4>1, SumOne
      <4> QED BY <4>2, <4>3 DEF h
    <3> QED BY <3>1
  <2> DEFINE k == col(T)
             h == col(T \ {i})
             f == F[i]
  <2>3. \A x \in S : f[x] \in Nat /\ h[x] \in Nat /\ k[x] = f[x] + h[x]
    BY <2>2
  <2> HIDE DEF k, h, f
  <2>4. SumFunctionOnSet(k, S) = SumFunctionOnSet(f, S) + SumFunctionOnSet(h, S)
    BY <2>3, SumPlus
  <2>5. SumFunctionOnSet(f, S) = r[i]
    BY DEF f
  <2>6. SumFunctionOnSet(h, S) = SumFunctionOnSet(r, T \ {i})
    BY <1>3 DEF h
  <2>7. SumFunctionOnSet(r, T) = r[i] + SumFunctionOnSet(r, T \ {i})
    BY <1>1, <2>1, SumOne
  <2>8. SumFunctionOnSet(k, S) = SumFunctionOnSet(r, T)
    BY <2>4, <2>5, <2>6, <2>7
  <2> QED BY <2>8 DEF k
<1>4. I \in P
  <2>1. \A T \in SUBSET I : \A x \in T : T \ {x} \in P => T \in P
    BY <1>3
  <2> HIDE DEF P
  <2>2. \A T \in SUBSET I : T \in P
    BY <1>2, <2>1, SubsetInduction
  <2>3. I \in SUBSET I
    OBVIOUS
  <2> QED BY <2>2, <2>3
<1> QED BY <1>4
=============================================================================

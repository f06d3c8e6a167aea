-------------------------- MODULE Profiles_proofs --------------------------
(***************************************************************************)
(* Proofs about Profiles and what it is made of: the template miner (Drain) *)
(* for any messages, similarity threshold, depth and limit of a leaf; the   *)
(* profile manager, for every number of callers and every set of profiles,  *)
(* with `logsieve learn` writing the local file while the server runs.      *)
(* The lemmas about the miner serve the proofs about Dedup too.             *)
(***************************************************************************)
EXTENDS Profiles, FunctionTheorems, SequenceTheorems, FiniteSetTheorems, WellFoundedInduction, TLAPS

-----------------------------------------------------------------------------
(* Numbers and what is built up along them. *)

\* A set of numbers has a least element.
LEMMA Least ==
  ASSUME NEW A, A \subseteq Nat, A # {}
  PROVE  \E b \in A : \A c \in A : b <= c
<1> DEFINE R == OpToRel(<, Nat)
<1>1. IsWellFoundedOn(R, Nat)
  BY NatLessThanWellFounded
<1>2. PICK b \in A : \A c \in A : ~(<<c, b>> \in R)
  <2> HIDE DEF R
  <2> QED  BY <1>1, WFMin
<1>3. \A c \in A : ~(c < b)
  BY <1>2 DEF OpToRel
<1> QED  BY <1>3

\* What holds of 0, and of every number up to N after the one before it, holds up to N.
LEMMA UpTo ==
  ASSUME NEW N \in Nat, NEW S, 0 \in S, \A n \in 1..N : n - 1 \in S => n \in S
  PROVE  0..N \subseteq S
<1> DEFINE T == (0..N) \ S
<1> SUFFICES ASSUME T # {} PROVE FALSE
  OBVIOUS
<1>1. PICK b \in T : \A c \in T : b <= c
  <2>1. T \subseteq Nat
    OBVIOUS
  <2> HIDE DEF T
  <2> QED  BY <2>1, Least
<1>2. b \in 1..N /\ b - 1 \in 0..N /\ ~(b <= b - 1)
  BY DEF T
<1>3. b - 1 \notin T
  BY <1>1, <1>2
<1> QED  BY <1>2, <1>3

\* g starts with base and takes the steps of F.
Recurs(g, N, base, F) == g[0] = base /\ \A n \in 1..N : g[n] = F[n][g[n - 1]]

LEMMA Recursion ==
  ASSUME NEW N \in Nat, NEW X, NEW base \in X, NEW F \in [1..N -> [X -> X]]
  PROVE  \E g \in [0..N -> X] : Recurs(g, N, base, F)
<1> DEFINE Good(g, n) == g \in [0..n -> X] /\ g[0] = base /\ \A j \in 1..n : g[j] = F[j][g[j - 1]]
           S == {n \in 0..N : \E g : Good(g, n)}
<1>1. 0 \in S
  <2> DEFINE g == [j \in 0..0 |-> base]
  <2>1. Good(g, 0)
    OBVIOUS
  <2> HIDE DEF Good, g
  <2> QED  BY <2>1
<1>2. ASSUME NEW n \in 1..N, n - 1 \in S PROVE n \in S
  <2>1. PICK g : Good(g, n - 1)
    BY <1>2
  <2> DEFINE h == [j \in 0..n |-> IF j = n THEN F[n][g[n - 1]] ELSE g[j]]
  <2>2. n - 1 \in 0..n - 1 /\ \A j \in 0..n : j # n => j \in 0..n - 1
    OBVIOUS
  <2>3. g[n - 1] \in X /\ F[n][g[n - 1]] \in X
    BY <2>1, <2>2
  <2>4. h \in [0..n -> X] /\ h[0] = base
    BY <2>1, <2>2, <2>3
  <2>5. ASSUME NEW j \in 1..n PROVE h[j] = F[j][h[j - 1]]
    <3>1. j - 1 \in 0..n /\ j - 1 # n /\ h[j - 1] = g[j - 1]
      OBVIOUS
    <3>2. CASE j = n
      BY <3>1, <3>2
    <3>3. CASE j # n
      <4>1. j \in 1..n - 1
        BY <3>3
      <4> QED  BY <2>1, <3>1, <3>3, <4>1
    <3> QED  BY <3>2, <3>3
  <2>6. Good(h, n)
    BY <2>4, <2>5
  <2> HIDE DEF Good, h
  <2> QED  BY <2>6
<1>3. 0..N \subseteq S
  <2> HIDE DEF S
  <2> QED  BY <1>1, <1>2, UpTo
<1>4. N \in S
  BY <1>3
<1> QED  BY <1>4 DEF Recurs

-----------------------------------------------------------------------------
(* Sums over finite sets. *)

\* What holds of {}, and of a set when it holds of what is left after any element is
\* taken out, holds of the subsets of a finite set.
LEMMA SubsetsUpTo ==
  ASSUME NEW S, IsFiniteSet(S), NEW G, {} \in G,
         \A s \in SUBSET S : s # {} /\ (\A x \in s : s \ {x} \in G) => s \in G
  PROVE  SUBSET S \subseteq G
<1> DEFINE Bad == (SUBSET S) \ G
           A == {Cardinality(s) : s \in Bad}
<1> SUFFICES ASSUME Bad # {} PROVE FALSE
  OBVIOUS
<1>1. \A s \in SUBSET S : IsFiniteSet(s) /\ Cardinality(s) \in Nat
  BY FS_Subset, FS_CardinalityType
<1>2. A \subseteq Nat /\ A # {}
  BY <1>1
<1>3. PICK b \in A : \A c \in A : b <= c
  <2> HIDE DEF A
  <2> QED  BY <1>2, Least
<1>4. PICK s \in Bad : Cardinality(s) = b
  OBVIOUS
<1>5. ASSUME NEW x \in s PROVE s \ {x} \in G
  <2>1. Cardinality(s \ {x}) = b - 1
    BY <1>1, <1>4, FS_RemoveElement
  <2>2. b \in Nat /\ ~(b <= b - 1)
    BY <1>2
  <2>3. s \ {x} \notin Bad
    BY <1>3, <2>1, <2>2
  <2> QED  BY <2>3
<1>6. s # {}
  OBVIOUS
<1> QED  BY <1>5, <1>6

Chosen(s) == CHOOSE x \in s : TRUE

\* The function in the definition of a sum over S, of which the last value is the sum.
SumsChosen(g, f, S) ==
  g = [s \in SUBSET S |-> IF s = {} THEN 0 ELSE f[Chosen(s)] + g[s \ {Chosen(s)}]]

LEMMA SumIsChosen ==
  ASSUME NEW f, NEW S
  PROVE  SumFunctionOnSet(f, S) = (CHOOSE g : SumsChosen(g, f, S))[S]
BY DEF SumFunctionOnSet, FoldFunctionOnSet, MapThenFoldSet, SumsChosen, Chosen

\* f is a number on every element of the finite set S.
Summable(f, S) == IsFiniteSet(S) /\ \A x \in S : f[x] \in Nat

LEMMA SumsExist ==
  ASSUME NEW f, NEW S, Summable(f, S)
  PROVE  \E g \in [SUBSET S -> Nat] : SumsChosen(g, f, S)
<1> DEFINE N == Cardinality(S)
           X == [SUBSET S -> Nat]
           base == [s \in SUBSET S |-> 0]
           Next1(g) == [s \in SUBSET S |->
                          IF s = {} THEN 0 ELSE f[Chosen(s)] + g[s \ {Chosen(s)}]]
           F == [n \in 1..N + 1 |-> [g \in X |-> Next1(g)]]
<1>1. N \in Nat /\ N + 1 \in Nat /\ \A s \in SUBSET S : Cardinality(s) \in 0..N
  <2>1. IsFiniteSet(S)
    BY DEF Summable
  <2>2. \A s \in SUBSET S : IsFiniteSet(s) /\ Cardinality(s) \in Nat /\ Cardinality(s) <= N
    BY <2>1, FS_Subset, FS_CardinalityType
  <2>3. N \in Nat
    BY <2>1, FS_CardinalityType
  <2> HIDE DEF N
  <2> QED  BY <2>2, <2>3
<1>2. \A s \in SUBSET S : s # {} => Chosen(s) \in s
  BY DEF Chosen
<1>3. base \in X /\ F \in [1..N + 1 -> [X -> X]]
  <2>1. ASSUME NEW g \in X PROVE Next1(g) \in X
    <3>1. ASSUME NEW s \in SUBSET S, s # {} PROVE f[Chosen(s)] + g[s \ {Chosen(s)}] \in Nat
      <4>1. f[Chosen(s)] \in Nat /\ s \ {Chosen(s)} \in SUBSET S
        BY <1>2, <3>1 DEF Summable
      <4> QED  BY <4>1
    <3> QED  BY <3>1
  <2> HIDE DEF Next1, N
  <2> QED  BY <2>1
<1>4. PICK g \in [0..N + 1 -> X] : Recurs(g, N + 1, base, F)
  <2> HIDE DEF F, X, base, N
  <2> QED  BY <1>1, <1>3, Recursion
<1>5. g[0] = base /\ \A n \in 1..N + 1 : g[n - 1] \in X /\ g[n] = Next1(g[n - 1])
  <2>1. \A n \in 1..N + 1 : n - 1 \in 0..N + 1
    BY <1>1
  <2>2. \A n \in 1..N + 1 : g[n - 1] \in X /\ g[n] = F[n][g[n - 1]]
    <3> HIDE DEF F, X, base, N
    <3> QED  BY <1>4, <2>1 DEF Recurs
  <2>3. \A n \in 1..N + 1 : F[n][g[n - 1]] = Next1(g[n - 1])
    <3> HIDE DEF Next1, X, N
    <3> QED  BY <2>2
  <2> HIDE DEF F, X, base, N, Next1
  <2> QED  BY <1>4, <2>2, <2>3 DEF Recurs
\* The sums of sets with at most n elements are settled after n steps.
<1> DEFINE T == {n \in 0..N : \A s \in SUBSET S : Cardinality(s) <= n => g[n + 1][s] = g[n][s]}
<1>6. 0 \in T
  <2> SUFFICES ASSUME NEW s \in SUBSET S, Cardinality(s) <= 0 PROVE g[0 + 1][s] = g[0][s]
    BY <1>1
  <2>1. s = {}
    <3>0. Cardinality(s) = 0
      <4>1. Cardinality(s) \in 0..N
        BY <1>1
      <4> HIDE DEF N
      <4> QED  BY <1>1, <4>1
    <3>1. IsFiniteSet(s)
      BY FS_Subset DEF Summable
    <3> QED  BY <3>0, <3>1, FS_EmptySet
  <2>2. 1 \in 1..N + 1 /\ 0 + 1 = 1
    BY <1>1
  <2>3. g[1][s] = 0 /\ g[0][s] = 0
    BY <1>5, <2>1, <2>2
  <2> QED  BY <2>2, <2>3
<1>7. ASSUME NEW n \in 1..N, n - 1 \in T PROVE n \in T
  <2>1. n \in 0..N /\ n \in Nat /\ n \in 1..N + 1 /\ n + 1 \in 1..N + 1 /\ (n + 1) - 1 = n
        /\ (n - 1) + 1 = n
    <3> HIDE DEF N
    <3> QED  BY <1>1
  <2> SUFFICES ASSUME NEW s \in SUBSET S, Cardinality(s) <= n PROVE g[n + 1][s] = g[n][s]
    BY <2>1
  <2>2. g[n + 1] = Next1(g[n]) /\ g[n] = Next1(g[n - 1])
    <3>1. g[n + 1] = Next1(g[(n + 1) - 1])
      <4> HIDE DEF Next1, N, X
      <4> QED  BY <1>5, <2>1
    <3>2. g[n] = Next1(g[n - 1])
      <4> HIDE DEF Next1, N, X
      <4> QED  BY <1>5, <2>1
    <3> HIDE DEF Next1
    <3> QED  BY <2>1, <3>1, <3>2
  <2>3. CASE s = {}
    BY <2>2, <2>3
  <2>4. CASE s # {}
    <3> DEFINE c == Chosen(s)
               u == s \ {c}
    <3>1. c \in s /\ u \in SUBSET S
      BY <1>2, <2>4
    <3>2. Cardinality(u) <= n - 1
      <4>1. IsFiniteSet(s)
        BY FS_Subset DEF Summable
      <4>2. Cardinality(u) = Cardinality(s) - 1
        BY <3>1, <4>1, FS_RemoveElement
      <4>3. Cardinality(s) \in Nat
        BY <1>1
      <4> QED  BY <2>1, <4>2, <4>3
    <3>3. g[n][u] = g[n - 1][u]
      BY <1>7, <2>1, <3>1, <3>2
    <3>4. g[n + 1][s] = f[c] + g[n][u] /\ g[n][s] = f[c] + g[n - 1][u]
      BY <2>2, <2>4
    <3> QED  BY <3>3, <3>4
  <2> QED  BY <2>3, <2>4
<1>8. N \in T
  <2>1. 0..N \subseteq T
    <3> HIDE DEF T, N
    <3> QED  BY <1>1, <1>6, <1>7, UpTo
  <2> QED  BY <1>1, <2>1
<1> DEFINE h == g[N]
<1>9. h \in X /\ g[N + 1] = Next1(h)
  <2>1. N + 1 \in 1..N + 1 /\ (N + 1) - 1 = N
    BY <1>1
  <2> HIDE DEF X, N, Next1
  <2> QED  BY <1>5, <2>1
<1>10. \A s \in SUBSET S : h[s] = IF s = {} THEN 0 ELSE f[Chosen(s)] + h[s \ {Chosen(s)}]
  <2> SUFFICES ASSUME NEW s \in SUBSET S
               PROVE  h[s] = IF s = {} THEN 0 ELSE f[Chosen(s)] + h[s \ {Chosen(s)}]
    OBVIOUS
  <2>1. g[N + 1][s] = h[s]
    BY <1>1, <1>8
  <2> HIDE DEF h
  <2> QED  BY <1>9, <2>1
<1>11. SumsChosen(h, f, S)
  <2> HIDE DEF h
  <2> QED  BY <1>9, <1>10 DEF SumsChosen
<1> QED  BY <1>9, <1>11

\* The order in which the elements are added up makes no difference.
SumsUp(sum, f, S) ==
  /\ sum[{}] = 0
  /\ \A s \in SUBSET S : \A x \in s : sum[s] = f[x] + sum[s \ {x}]

LEMMA AnyOrder ==
  ASSUME NEW f, NEW S, Summable(f, S), NEW g \in [SUBSET S -> Nat], SumsChosen(g, f, S)
  PROVE  SumsUp(g, f, S)
<1>1. \A s \in SUBSET S : g[s] = IF s = {} THEN 0 ELSE f[Chosen(s)] + g[s \ {Chosen(s)}]
  BY DEF SumsChosen
<1> DEFINE Good(s) == \A x \in s : g[s] = f[x] + g[s \ {x}]
           G == {s \in SUBSET S : Good(s)}
<1>2. {} \in G
  OBVIOUS
<1>3. ASSUME NEW s \in SUBSET S, s # {}, \A x \in s : s \ {x} \in G PROVE s \in G
  <2> SUFFICES ASSUME NEW x \in s PROVE g[s] = f[x] + g[s \ {x}]
    OBVIOUS
  <2>1. PICK c \in s : g[s] = f[c] + g[s \ {c}]
    BY <1>1, <1>3 DEF Chosen
  <2>2. CASE x = c
    BY <2>1, <2>2
  <2>3. CASE x # c
    <3>1. PICK u : u = s \ {c}
      OBVIOUS
    <3>2. PICK v : v = s \ {x}
      OBVIOUS
    <3>3. PICK w : w = u \ {x}
      OBVIOUS
    <3>4. x \in u /\ c \in v /\ w = v \ {c} /\ u \in SUBSET S /\ v \in SUBSET S /\ w \in SUBSET S
      BY <2>3, <3>1, <3>2, <3>3
    <3>5. u \in G /\ v \in G
      BY <1>3, <3>1, <3>2
    <3>6. g[u] = f[x] + g[w] /\ g[v] = f[c] + g[w]
      BY <3>3, <3>4, <3>5
    <3>7. f[x] \in Nat /\ f[c] \in Nat /\ g[w] \in Nat
      BY <3>4 DEF Summable
    <3>8. g[s] = f[c] + g[u]
      BY <2>1, <3>1
    <3>9. f[c] + (f[x] + g[w]) = f[x] + (f[c] + g[w])
      BY ONLY <3>7
    <3> QED  BY <3>2, <3>6, <3>8, <3>9
  <2> QED  BY <2>2, <2>3
<1>4. SUBSET S \subseteq G
  <2>1. IsFiniteSet(S)
    BY DEF Summable
  <2> HIDE DEF G
  <2> QED  BY <1>2, <1>3, <2>1, SubsetsUpTo
<1>5. g[{}] = 0
  BY <1>1
<1> QED  BY <1>4, <1>5 DEF SumsUp

\* One function gives the sums over all subsets.
LEMMA SumOfSubset ==
  ASSUME NEW f, NEW S, Summable(f, S),
         NEW g, SumsUp(g, f, S), NEW s \in SUBSET S
  PROVE  SumFunctionOnSet(f, s) = g[s]
<1>1. Summable(f, s)
  BY FS_Subset DEF Summable
<1> DEFINE h == CHOOSE h : SumsChosen(h, f, s)
<1>2. PICK k \in [SUBSET s -> Nat] : SumsChosen(k, f, s)
  BY <1>1, SumsExist
<1>3. SumsChosen(h, f, s)
  BY <1>2
<1>4. SumFunctionOnSet(f, s) = h[s]
  BY SumIsChosen
<1> HIDE DEF h
<1>5. \A u \in SUBSET s : h[u] = IF u = {} THEN 0 ELSE f[Chosen(u)] + h[u \ {Chosen(u)}]
  BY <1>3 DEF SumsChosen
<1> DEFINE G == {u \in SUBSET s : h[u] = g[u]}
<1>6. {} \in G
  BY <1>5 DEF SumsUp
<1>7. ASSUME NEW u \in SUBSET s, u # {}, \A x \in u : u \ {x} \in G PROVE u \in G
  <2>1. PICK c \in u : h[u] = f[c] + h[u \ {c}]
    BY <1>5, <1>7 DEF Chosen
  <2>2. h[u \ {c}] = g[u \ {c}]
    BY <1>7
  <2>3. g[u] = f[c] + g[u \ {c}]
    <3>1. u \in SUBSET S
      OBVIOUS
    <3> QED  BY <3>1 DEF SumsUp
  <2> QED  BY <2>1, <2>2, <2>3
<1>8. SUBSET s \subseteq G
  <2>1. IsFiniteSet(s)
    BY <1>1 DEF Summable
  <2> HIDE DEF G
  <2> QED  BY <1>6, <1>7, <2>1, SubsetsUpTo
<1> QED  BY <1>4, <1>8

\* What a sum is, with nothing of its definition left.
LEMMA SumFacts ==
  ASSUME NEW f, NEW S, Summable(f, S)
  PROVE  /\ SumFunctionOnSet(f, {}) = 0
         /\ \A s \in SUBSET S : SumFunctionOnSet(f, s) \in Nat
         /\ \A s \in SUBSET S : \A x \in s :
              SumFunctionOnSet(f, s) = f[x] + SumFunctionOnSet(f, s \ {x})
<1>1. PICK g \in [SUBSET S -> Nat] : SumsChosen(g, f, S)
  BY SumsExist
<1>2. SumsUp(g, f, S)
  BY <1>1, AnyOrder
<1>3. \A s \in SUBSET S : SumFunctionOnSet(f, s) = g[s]
  BY <1>2, SumOfSubset
<1>4. \A s \in SUBSET S : g[s] \in Nat /\ \A x \in s : s \ {x} \in SUBSET S
  BY <1>1
<1>5. \A s \in SUBSET S : \A x \in s : g[s] = f[x] + g[s \ {x}]
  BY <1>2 DEF SumsUp
<1>6. {} \in SUBSET S /\ g[{}] = 0
  BY <1>2 DEF SumsUp
<1>7. SumFunctionOnSet(f, {}) = 0
  BY <1>3, <1>6
<1>8. ASSUME NEW s \in SUBSET S, NEW x \in s
      PROVE  SumFunctionOnSet(f, s) = f[x] + SumFunctionOnSet(f, s \ {x})
  <2>1. SumFunctionOnSet(f, s) = g[s] /\ SumFunctionOnSet(f, s \ {x}) = g[s \ {x}]
    BY <1>3, <1>4
  <2> QED  BY <1>5, <2>1
<1> QED  BY <1>3, <1>4, <1>7, <1>8

\* A sum over more is no less, and a sum over a union no more than both sums.
LEMMA SumOverMore ==
  ASSUME NEW f, NEW S, Summable(f, S), NEW u \in SUBSET S, NEW v \in SUBSET u
  PROVE  SumFunctionOnSet(f, v) <= SumFunctionOnSet(f, u)
<1> DEFINE Sum(s) == SumFunctionOnSet(f, s)
           G == {s \in SUBSET S : \A t \in SUBSET s : Sum(t) <= Sum(s)}
<1>1. \A s \in SUBSET S : Sum(s) \in Nat /\ \A x \in s : Sum(s) = f[x] + Sum(s \ {x})
  BY SumFacts
<1>2. \A x \in S : f[x] \in Nat
  BY DEF Summable
<1> HIDE DEF Sum
<1>3. {} \in G
  BY <1>1
<1>4. ASSUME NEW s \in SUBSET S, s # {}, \A x \in s : s \ {x} \in G PROVE s \in G
  <2> SUFFICES ASSUME NEW t \in SUBSET s PROVE Sum(t) <= Sum(s)
    OBVIOUS
  <2>1. CASE t = s
    BY <1>1, <2>1
  <2>2. CASE t # s
    <3>1. PICK x \in s : x \notin t
      BY <2>2
    <3>2. Sum(t) <= Sum(s \ {x})
      BY <1>4, <3>1
    <3>3. Sum(s) = f[x] + Sum(s \ {x}) /\ f[x] \in Nat /\ Sum(s \ {x}) \in Nat /\ Sum(t) \in Nat
      BY <1>1, <1>2
    <3> QED  BY <3>2, <3>3
  <2> QED  BY <2>1, <2>2
<1>5. SUBSET S \subseteq G
  <2>1. IsFiniteSet(S)
    BY DEF Summable
  <2> HIDE DEF G
  <2> QED  BY <1>3, <1>4, <2>1, SubsetsUpTo
<1>6. Sum(v) <= Sum(u)
  BY <1>5
<1> QED  BY <1>6 DEF Sum

LEMMA SumOverUnion ==
  ASSUME NEW f, NEW S, Summable(f, S), NEW u \in SUBSET S, NEW v \in SUBSET S
  PROVE  SumFunctionOnSet(f, u \cup v) <= SumFunctionOnSet(f, u) + SumFunctionOnSet(f, v)
<1> DEFINE Sum(s) == SumFunctionOnSet(f, s)
           G == {s \in SUBSET S : Sum(s \cup v) <= Sum(s) + Sum(v)}
<1>1. Sum({}) = 0 /\ \A s \in SUBSET S : Sum(s) \in Nat /\ \A x \in s : Sum(s) = f[x] + Sum(s \ {x})
  BY SumFacts
<1>2. \A x \in S : f[x] \in Nat
  BY DEF Summable
<1> HIDE DEF Sum
<1>3. {} \in G
  <2>1. {} \cup v = v /\ Sum(v) \in Nat
    BY <1>1
  <2> QED  BY <1>1, <2>1
<1>4. ASSUME NEW s \in SUBSET S, s # {}, \A x \in s : s \ {x} \in G PROVE s \in G
  <2>1. PICK x \in s : TRUE
    BY <1>4
  <2>2. PICK t : t = s \ {x}
    OBVIOUS
  <2>3. /\ Sum(t \cup v) <= Sum(t) + Sum(v) /\ Sum(s) = f[x] + Sum(t)
        /\ f[x] \in Nat /\ Sum(t) \in Nat /\ Sum(v) \in Nat /\ Sum(t \cup v) \in Nat
    BY <1>1, <1>2, <1>4, <2>2
  <2>4. CASE x \in v
    <3>1. s \cup v = t \cup v
      BY <2>2, <2>4
    <3>2. Sum(s \cup v) = Sum(t \cup v)
      BY <3>1
    <3>3. Sum(s \cup v) <= Sum(s) + Sum(v)
      BY ONLY <2>3, <3>2
    <3> QED  BY <3>3
  <2>5. CASE x \notin v
    <3>1. s \cup v \in SUBSET S /\ x \in s \cup v /\ (s \cup v) \ {x} = t \cup v
      BY <2>2, <2>5
    <3>2. Sum(s \cup v) = f[x] + Sum(t \cup v)
      BY <1>1, <3>1
    <3> QED  BY <2>3, <3>2
  <2> QED  BY <2>4, <2>5
<1>5. SUBSET S \subseteq G
  <2>1. IsFiniteSet(S)
    BY DEF Summable
  <2> HIDE DEF G
  <2> QED  BY <1>3, <1>4, <2>1, SubsetsUpTo
<1>6. Sum(u \cup v) <= Sum(u) + Sum(v)
  BY <1>5
<1> QED  BY <1>6 DEF Sum

\* Only the values count, each as often as an index has it.
LEMMA SumReindexed ==
  ASSUME NEW K, NEW h, Summable(h, K), NEW D, NEW f, Summable(f, D), NEW s,
         \A i \in K : s[i] \in D /\ h[i] = f[s[i]],
         \A i, j \in K : s[i] = s[j] => i = j
  PROVE  SumFunctionOnSet(h, K) = SumFunctionOnSet(f, {s[i] : i \in K})
<1> DEFINE Of(u) == {s[i] : i \in u}
           G == {u \in SUBSET K : SumFunctionOnSet(h, u) = SumFunctionOnSet(f, Of(u))}
<1>1. {} \in G
  <2>1. Of({}) = {}
    OBVIOUS
  <2>2. SumFunctionOnSet(h, {}) = 0 /\ SumFunctionOnSet(f, {}) = 0
    BY SumFacts
  <2> QED  BY <2>1, <2>2
<1>2. ASSUME NEW u \in SUBSET K, u # {}, \A x \in u : u \ {x} \in G PROVE u \in G
  <2>1. PICK x \in u : TRUE
    BY <1>2
  <2>2. PICK v : v = u \ {x}
    OBVIOUS
  <2>3. Of(u) \in SUBSET D /\ s[x] \in Of(u) /\ Of(u) \ {s[x]} = Of(v)
    BY <2>2
  <2> HIDE DEF Of
  <2>4. SumFunctionOnSet(f, Of(u)) = f[s[x]] + SumFunctionOnSet(f, Of(v))
    BY <2>3, SumFacts
  <2>5. SumFunctionOnSet(h, u) = h[x] + SumFunctionOnSet(h, v)
    BY <2>2, SumFacts
  <2>6. SumFunctionOnSet(h, v) = SumFunctionOnSet(f, Of(v))
    BY <1>2, <2>2
  <2> QED  BY <2>4, <2>5, <2>6
<1>3. SUBSET K \subseteq G
  <2>1. IsFiniteSet(K)
    BY DEF Summable
  <2> HIDE DEF G
  <2> QED  BY <1>1, <1>2, <2>1, SubsetsUpTo
<1> QED  BY <1>3

LEMMA SumOfSame ==
  ASSUME NEW S, NEW f, Summable(f, S), NEW h, \A x \in S : h[x] = f[x]
  PROVE  Summable(h, S) /\ SumFunctionOnSet(h, S) = SumFunctionOnSet(f, S)
<1> DEFINE id == [x \in S |-> x]
<1>1. Summable(h, S)
  BY DEF Summable
<1>2. \A i \in S : id[i] \in S /\ h[i] = f[id[i]]
  OBVIOUS
<1>3. {id[i] : i \in S} = S /\ \A i, j \in S : id[i] = id[j] => i = j
  OBVIOUS
<1> HIDE DEF id
<1>4. SumFunctionOnSet(h, S) = SumFunctionOnSet(f, {id[i] : i \in S})
  BY <1>1, <1>2, <1>3, SumReindexed
<1> QED  BY <1>1, <1>3, <1>4

\* One more at x is one more in every sum with x.
LEMMA SumOneMore ==
  ASSUME NEW S, NEW f, Summable(f, S), NEW h, NEW x \in S,
         h[x] = f[x] + 1, \A y \in S : y # x => h[y] = f[y]
  PROVE  SumFunctionOnSet(h, S) = SumFunctionOnSet(f, S) + 1
<1>1. \A y \in S : f[y] \in Nat /\ h[y] \in Nat
  BY DEF Summable
<1>2. Summable(h, S) /\ Summable(f, S \ {x})
  BY <1>1, FS_RemoveElement DEF Summable
<1>3. SumFunctionOnSet(h, S \ {x}) = SumFunctionOnSet(f, S \ {x})
  BY <1>2, SumOfSame
<1>4. /\ SumFunctionOnSet(h, S) = h[x] + SumFunctionOnSet(h, S \ {x})
      /\ SumFunctionOnSet(f, S) = f[x] + SumFunctionOnSet(f, S \ {x})
      /\ SumFunctionOnSet(f, S \ {x}) \in Nat
  <2>1. S \in SUBSET S /\ S \ {x} \in SUBSET S
    OBVIOUS
  <2> QED  BY <1>2, <2>1, SumFacts
<1> QED  BY <1>1, <1>3, <1>4

-----------------------------------------------------------------------------
(* The elements of a sequence at some positions. *)

\* The function of which Kept is the last value.
Keeps(kept, s, P) ==
  /\ kept[0] = <<>>
  /\ \A n \in 1..Len(s) :
       kept[n] = IF n \in P THEN Append(kept[n - 1], s[n]) ELSE kept[n - 1]
  /\ Kept(s, P) = kept[Len(s)]

LEMMA KeptRecursion ==
  ASSUME NEW S, NEW s \in Seq(S), NEW P
  PROVE  \E kept \in [0..Len(s) -> Seq(S)] : Keeps(kept, s, P)
<1> DEFINE N == Len(s)
           X == Seq(S)
           F == [n \in 1..N |-> [x \in X |-> IF n \in P THEN Append(x, s[n]) ELSE x]]
           Eq(g) == g = [n \in 0..N |->
                           IF n = 0 THEN <<>>
                           ELSE IF n \in P THEN Append(g[n - 1], s[n]) ELSE g[n - 1]]
           kept == CHOOSE g : Eq(g)
<1>1. N \in Nat /\ <<>> \in X /\ \A n \in 1..N : s[n] \in S
  BY LenProperties, ElementOfSeq, EmptySeq
<1>2. F \in [1..N -> [X -> X]]
  <2> SUFFICES ASSUME NEW n \in 1..N, NEW x \in X PROVE Append(x, s[n]) \in X
    OBVIOUS
  <2> HIDE DEF N
  <2> QED  BY <1>1, AppendProperties
<1>3. PICK g \in [0..N -> X] : g[0] = <<>> /\ \A n \in 1..N : g[n] = F[n][g[n - 1]]
  <2> DEFINE base == <<>>
  <2>1. base \in X /\ N \in Nat
    BY <1>1
  <2> HIDE DEF N, X, F, base
  <2>2. \E g \in [0..N -> X] : Recurs(g, N, base, F)
    BY <1>2, <2>1, Recursion
  <2> QED  BY <2>2 DEF base, Recurs
<1>4. \A n \in 1..N : g[n] = IF n \in P THEN Append(g[n - 1], s[n]) ELSE g[n - 1]
  <2> SUFFICES ASSUME NEW n \in 1..N
               PROVE  g[n] = IF n \in P THEN Append(g[n - 1], s[n]) ELSE g[n - 1]
    OBVIOUS
  <2>1. g[n - 1] \in X
    BY <1>1
  <2> QED  BY <1>3, <2>1
<1>5. Eq(g)
  <2> HIDE DEF N, X, F
  <2>1. \A n \in 0..N : n = 0 \/ n \in 1..N
    BY <1>1
  <2>2. g = [n \in 0..N |-> g[n]]
    OBVIOUS
  <2>3. \A n \in 0..N :
          g[n] = IF n = 0 THEN <<>> ELSE IF n \in P THEN Append(g[n - 1], s[n]) ELSE g[n - 1]
    BY <1>3, <1>4, <2>1
  <2> QED  BY <2>2, <2>3
<1>6. Eq(kept)
  <2> HIDE DEF Eq
  <2> QED  BY <1>5
<1>7. ASSUME NEW n \in 0..N PROVE kept[n] = g[n]
  <2> DEFINE T == {j \in 0..N : kept[j] = g[j]}
  <2>0. kept = [i \in 0..N |->
                  IF i = 0 THEN <<>>
                  ELSE IF i \in P THEN Append(kept[i - 1], s[i]) ELSE kept[i - 1]]
    <3> HIDE DEF kept
    <3> QED  BY <1>6
  <2> HIDE DEF kept, N
  <2>1. 0 \in T
    BY <1>1, <1>3, <2>0
  <2>2. ASSUME NEW j \in 1..N, j - 1 \in T PROVE j \in T
    <3>0. j \in 0..N /\ j # 0
      BY <1>1
    <3>1. kept[j] = IF j \in P THEN Append(kept[j - 1], s[j]) ELSE kept[j - 1]
      BY <2>0, <3>0
    <3>2. kept[j - 1] = g[j - 1]
      BY <2>2
    <3> QED  BY <1>1, <1>4, <3>1, <3>2
  <2>3. 0..N \subseteq T
    <3> HIDE DEF T
    <3> QED  BY <1>1, <2>1, <2>2, UpTo
  <2> QED  BY <2>3
<1>8. Kept(s, P) = kept[N]
  BY DEF Kept
<1>9. Kept(s, P) = g[N]
  <2> HIDE DEF kept, N
  <2> QED  BY <1>1, <1>7, <1>8
<1> HIDE DEF F
<1> HIDE DEF N
<1>10. Keeps(g, s, P)
  BY <1>3, <1>4, <1>9 DEF Keeps, N
<1> QED  BY <1>10 DEF N

\* How many of the positions in P are not past n.
Count(P, n) == Cardinality({j \in 1..n : j \in P})

LEMMA CountStep ==
  ASSUME NEW P, NEW n \in Nat
  PROVE  /\ Count(P, 0) = 0
         /\ Count(P, n) \in Nat
         /\ n > 0 => Count(P, n) = Count(P, n - 1) + (IF n \in P THEN 1 ELSE 0)
<1> DEFINE C(k) == {j \in 1..k : j \in P}
<1>1. \A k \in Nat : IsFiniteSet(C(k)) /\ Cardinality(C(k)) \in Nat
  <2> SUFFICES ASSUME NEW k \in Nat PROVE IsFiniteSet(C(k)) /\ Cardinality(C(k)) \in Nat
    OBVIOUS
  <2>1. IsFiniteSet(1..k) /\ C(k) \subseteq 1..k
    BY FS_Interval
  <2>2. IsFiniteSet(C(k))
    <3> HIDE DEF C
    <3> QED  BY <2>1, FS_Subset
  <2> QED  BY <2>2, FS_CardinalityType
<1>2. C(0) = {} /\ Count(P, 0) = 0
  BY FS_EmptySet DEF Count
<1>3. ASSUME n > 0 PROVE Count(P, n) = Count(P, n - 1) + (IF n \in P THEN 1 ELSE 0)
  <2>1. n - 1 \in Nat /\ n \notin C(n - 1) /\ IsFiniteSet(C(n - 1)) /\ Cardinality(C(n - 1)) \in Nat
    BY <1>1, <1>3
  <2>2. C(n) = IF n \in P THEN C(n - 1) \cup {n} ELSE C(n - 1)
    BY <1>3
  <2> HIDE DEF C
  <2>3. Cardinality(C(n)) = Cardinality(C(n - 1)) + (IF n \in P THEN 1 ELSE 0)
    BY <2>1, <2>2, FS_AddElement
  <2> QED  BY <2>3 DEF Count, C
<1> QED  BY <1>1, <1>2, <1>3 DEF Count

\* Kept has as many elements of s as there are positions, each where it is expected.
LEMMA KeptProperties ==
  ASSUME NEW S, NEW s \in Seq(S), NEW P
  PROVE  /\ Kept(s, P) \in Seq(S) /\ Len(Kept(s, P)) = Count(P, Len(s))
         /\ \A i \in 1..Len(s) : i \in P => Kept(s, P)[Count(P, i)] = s[i]
<1> DEFINE N == Len(s)
<1>1. PICK kept \in [0..N -> Seq(S)] :
        /\ kept[0] = <<>>
        /\ \A n \in 1..N : kept[n] = IF n \in P THEN Append(kept[n - 1], s[n]) ELSE kept[n - 1]
        /\ Kept(s, P) = kept[N]
  <2>1. \E kept \in [0..Len(s) -> Seq(S)] : Keeps(kept, s, P)
    BY KeptRecursion
  <2> QED  BY <2>1 DEF Keeps
<1>2. N \in Nat /\ \A n \in 1..N : s[n] \in S
  BY LenProperties, ElementOfSeq
<1> HIDE DEF N
<1> DEFINE Good(n) == /\ Len(kept[n]) = Count(P, n)
                      /\ \A i \in 1..n : i \in P => /\ Count(P, i) \in 1..Count(P, n)
                                                    /\ kept[n][Count(P, i)] = s[i]
           T == {n \in 0..N : Good(n)}
<1>3. 0 \in T
  <2>1. Len(kept[0]) = 0 /\ Count(P, 0) = 0 /\ \A i \in 1..0 : FALSE
    BY <1>1, CountStep
  <2> QED  BY <1>2, <2>1
<1>4. ASSUME NEW n \in 1..N, n - 1 \in T PROVE n \in T
  <2> DEFINE x == kept[n - 1]
             c == Count(P, n - 1)
  <2>1. x \in Seq(S) /\ Len(x) = c /\ c \in Nat
    BY <1>1, <1>2, <1>4, CountStep
  <2>2. \A i \in 1..n - 1 : i \in P => Count(P, i) \in 1..c /\ x[Count(P, i)] = s[i]
    BY <1>4
  <2>3. Count(P, n) = c + (IF n \in P THEN 1 ELSE 0)
    BY <1>2, CountStep
  <2>4. kept[n] = IF n \in P THEN Append(x, s[n]) ELSE x
    BY <1>1
  <2>5. s[n] \in S /\ n \in Nat
    BY <1>2
  <2> HIDE DEF x, c, Good
  <2>6. CASE n \in P
    <3>1. /\ Len(kept[n]) = c + 1 /\ kept[n][c + 1] = s[n]
          /\ \A j \in 1..c : kept[n][j] = x[j]
      BY <2>1, <2>4, <2>5, <2>6, AppendProperties
    <3>2. ASSUME NEW i \in 1..n, i \in P
          PROVE  Count(P, i) \in 1..Count(P, n) /\ kept[n][Count(P, i)] = s[i]
      <4>1. CASE i = n
        BY <2>1, <2>3, <2>6, <3>1, <4>1
      <4>2. CASE i # n
        <5>1. i \in 1..n - 1
          BY <2>5, <4>2
        <5>2. Count(P, i) \in 1..c /\ x[Count(P, i)] = s[i]
          BY <2>2, <3>2, <5>1
        <5> QED  BY <2>1, <2>3, <2>6, <3>1, <5>2
      <4> QED  BY <4>1, <4>2
    <3>3. Good(n)
      BY <2>3, <2>6, <3>1, <3>2 DEF Good
    <3> QED  BY <1>2, <3>3
  <2>7. CASE n \notin P
    <3>1. ASSUME NEW i \in 1..n, i \in P
          PROVE  Count(P, i) \in 1..c /\ x[Count(P, i)] = s[i]
      <4>1. i \in 1..n - 1
        BY <2>5, <2>7, <3>1
      <4> QED  BY <2>2, <3>1, <4>1
    <3>2. Good(n)
      BY <2>1, <2>3, <2>4, <2>7, <3>1 DEF Good
    <3> QED  BY <1>2, <3>2
  <2> QED  BY <2>6, <2>7
<1>5. N \in T
  <2>1. 0..N \subseteq T
    <3> HIDE DEF T
    <3> QED  BY <1>2, <1>3, <1>4, UpTo
  <2> QED  BY <1>2, <2>1
<1>6. Kept(s, P) \in Seq(S) /\ Len(Kept(s, P)) = Count(P, N)
  BY <1>1, <1>2, <1>5
<1>7. \A i \in 1..N : i \in P => Kept(s, P)[Count(P, i)] = s[i]
  BY <1>1, <1>5
<1> QED  BY <1>6, <1>7 DEF N

\* The tokens of the messages, in the engine and in the miner by itself.
Tokens == UNION {ToSet(Tokenize(m)) : m \in Messages}

LEMMA TokensOfMessage ==
  ASSUME NEW m \in Messages
  PROVE  Tokenize(m) \in Seq(Tokens)
<1> DEFINE masked == [i \in DOMAIN m |-> IF m[i] \in Masked THEN Mask ELSE m[i]]
           P == {i \in DOMAIN m : m[i] \notin Delimiters}
           S == ToSet(m) \cup {Mask}
           t == Tokenize(m)
<1>1. m \in Seq(ToSet(m))
  BY DrainAssumption
<1>2. masked \in Seq(S)
  <2>1. Len(m) \in Nat /\ DOMAIN m = 1..Len(m) /\ \A i \in 1..Len(m) : m[i] \in ToSet(m)
    BY <1>1, LenProperties, ElementOfSeq
  <2> QED  BY <2>1
<1>3. t = Kept(masked, P)
  BY DEF Tokenize
<1>4. t \in Seq(S)
  <2> HIDE DEF masked, P, S, t
  <2> QED  BY <1>2, <1>3, KeptProperties
<1>5. Len(t) \in Nat /\ DOMAIN t = 1..Len(t)
  <2> HIDE DEF t
  <2> QED  BY <1>4, LenProperties
<1>6. \A i \in 1..Len(t) : t[i] \in Tokens
  <2>1. ToSet(t) \subseteq Tokens
    BY DEF Tokens
  <2>2. \A i \in DOMAIN t : t[i] \in ToSet(t)
    BY DEF ToSet
  <2> QED  BY <1>5, <2>1, <2>2
<1>7. t = [i \in 1..Len(t) |-> t[i]]
  <2> HIDE DEF t, S
  <2> QED  BY <1>4, <1>5
<1> HIDE DEF t
<1>8. t \in Seq(Tokens)
  BY <1>5, <1>6, <1>7, IsASeq
<1> QED  BY <1>8 DEF t

-----------------------------------------------------------------------------
(* The miner's state. *)

Cluster == [template : Seq(Tokens \cup {Wild}), size : Nat]

\* A leaf holds ids of clusters there are.
TreeInv(d) ==
  /\ d = [clusters |-> d.clusters, nodes |-> d.nodes, leaf |-> d.leaf]
  /\ d.clusters \in Seq(Cluster)
  /\ \A p \in DOMAIN d.leaf : d.leaf[p] \in Seq(1..Len(d.clusters))

LEMMA EmptyTree == TreeInv(EmptyDrain) /\ EmptyDrain.clusters = <<>>
<1>1. <<>> \in Seq(Cluster)
  BY EmptySeq
<1> QED  BY <1>1 DEF TreeInv, EmptyDrain

LEMMA LeafIds ==
  ASSUME NEW d, TreeInv(d), NEW p
  PROVE  LeafClusters(d, p) \in Seq(1..Len(d.clusters))
<1>1. <<>> \in Seq(1..Len(d.clusters))
  BY EmptySeq
<1> QED  BY <1>1 DEF LeafClusters, TreeInv

\* A list of ids, with one more id.
LEMMA MoreIds ==
  ASSUME NEW n \in Nat, NEW ids \in Seq(1..n)
  PROVE  /\ ids \in Seq(1..n + 1)
         /\ Append(ids, n + 1) \in Seq(1..n + 1) /\ Append(ids, n + 1) # <<>>
<1>1. 1..n \subseteq 1..n + 1 /\ n + 1 \in 1..n + 1
  OBVIOUS
<1>2. ids \in Seq(1..n + 1)
  BY ONLY <1>1, ids \in Seq(1..n), SeqMonotonic
<1> DEFINE S == 1..n + 1
           e == n + 1
<1>3. e \in S /\ ids \in Seq(S)
  BY <1>1, <1>2
<1> HIDE DEF S, e
<1>4. Append(ids, e) \in Seq(S) /\ Append(ids, e) # <<>>
  BY ONLY <1>3, AppendProperties
<1> QED  BY <1>2, <1>4 DEF S, e

\* A search finds nothing, or a cluster of the message's length.
LEMMA SearchFinds ==
  ASSUME NEW d, TreeInv(d), NEW tokens, TreeSearch(d, tokens) # 0
  PROVE  /\ TreeSearch(d, tokens) \in 1..Len(d.clusters)
         /\ Len(d.clusters[TreeSearch(d, tokens)].template) = Len(tokens)
<1> DEFINE ids == LeafClusters(d, Descend(d, tokens))
           m(i) == Matches(d.clusters[ids[i]].template, tokens)
           best == {i \in DOMAIN ids :
                      /\ Similar(d.clusters[ids[i]].template, tokens)
                      /\ \A j \in DOMAIN ids : m(j) < m(i) \/ (m(j) = m(i) /\ i <= j)}
<1>1. TreeSearch(d, tokens) = IF best = {} THEN 0 ELSE ids[CHOOSE i \in best : TRUE]
  BY DEF TreeSearch
<1>2. PICK i \in best : TreeSearch(d, tokens) = ids[i]
  BY <1>1
<1>3. i \in DOMAIN ids /\ Similar(d.clusters[ids[i]].template, tokens)
  OBVIOUS
<1>4. ids[i] \in 1..Len(d.clusters)
  <2>1. ids \in Seq(1..Len(d.clusters))
    BY LeafIds
  <2> HIDE DEF ids
  <2> QED  BY <1>3, <2>1, ElementOfSeq, LenProperties
<1>5. Len(d.clusters[ids[i]].template) = Len(tokens)
  BY <1>3 DEF Similar, Matches
<1> QED  BY <1>2, <1>4, <1>5

\* A new cluster: it gets the next id, and its leaf keeps the newest ids.
LEMMA InsertKeeps ==
  ASSUME NEW d, TreeInv(d), NEW tokens \in Seq(Tokens)
  PROVE  /\ TreeInv(Insert(d, tokens))
         /\ Insert(d, tokens).clusters = Append(d.clusters, [template |-> tokens, size |-> 1])
<1> DEFINE n == Len(d.clusters)
           id == n + 1
           k == KeyDepth(Len(tokens))
           p == Node(Len(tokens), SubSeq(tokens, 1, k))
           ids == Append(LeafClusters(d, p), id)
           kept == IF Len(ids) > MaxChildren THEN Tail(ids) ELSE ids
           c == [template |-> tokens, size |-> 1]
           e == Insert(d, tokens)
<1>1. /\ e = [clusters |-> e.clusters, nodes |-> e.nodes, leaf |-> e.leaf]
      /\ e.clusters = Append(d.clusters, c)
      /\ e.leaf = [q \in DOMAIN d.leaf \cup {p} |-> IF q # p THEN d.leaf[q] ELSE kept]
  BY DEF Insert
<1>2. n \in Nat /\ id \in 1..n + 1 /\ d.clusters \in Seq(Cluster)
  BY LenProperties DEF TreeInv
<1>3. c \in Cluster
  <2>1. tokens \in Seq(Tokens \cup {Wild})
    BY SeqMonotonic
  <2> QED  BY <2>1 DEF Cluster
<1>4. e.clusters \in Seq(Cluster) /\ Len(e.clusters) = n + 1
  <2> HIDE DEF c, e
  <2> QED  BY <1>1, <1>2, <1>3, AppendProperties
<1>5. kept \in Seq(1..n + 1)
  <2>1. LeafClusters(d, p) \in Seq(1..n)
    BY LeafIds
  <2> HIDE DEF n, p
  <2>2. ids \in Seq(1..n + 1) /\ ids # <<>>
    BY <1>2, <2>1, MoreIds
  <2> HIDE DEF ids
  <2> QED  BY <2>2, HeadTailProperties
<1>6. \A q \in DOMAIN e.leaf : e.leaf[q] \in Seq(1..n + 1)
  <2>2. \A q \in DOMAIN d.leaf : d.leaf[q] \in Seq(1..n + 1)
    <3> SUFFICES ASSUME NEW q \in DOMAIN d.leaf PROVE d.leaf[q] \in Seq(1..n + 1)
      OBVIOUS
    <3>1. d.leaf[q] \in Seq(1..n)
      BY DEF TreeInv
    <3> HIDE DEF n
    <3> QED  BY <1>2, <3>1, MoreIds
  <2> HIDE DEF kept, p, e, n
  <2> QED  BY <1>1, <1>5, <2>2
<1> HIDE DEF e, n, c
<1> QED  BY <1>1, <1>4, <1>6 DEF TreeInv, e, c

\* The wildcard path may put an id into one more leaf.
LEMMA WildcardPathKeeps ==
  ASSUME NEW d, TreeInv(d), NEW id \in 1..Len(d.clusters)
  PROVE  TreeInv(AddWildcardPath(d, id)) /\ AddWildcardPath(d, id).clusters = d.clusters
<1> DEFINE template == d.clusters[id].template
           k == KeyDepth(Len(template))
           p == Node(Len(template), [i \in 1..k |-> Wild])
           ids == LeafClusters(d, p)
           more == IF id \in ToSet(ids) THEN ids ELSE Append(ids, id)
           e == AddWildcardPath(d, id)
<1>1. /\ e = [clusters |-> e.clusters, nodes |-> e.nodes, leaf |-> e.leaf]
      /\ e.clusters = d.clusters
      /\ e.leaf = [q \in DOMAIN d.leaf \cup {p} |-> IF q # p THEN d.leaf[q] ELSE more]
  BY DEF AddWildcardPath
<1>2. more \in Seq(1..Len(d.clusters))
  <2>1. ids \in Seq(1..Len(d.clusters))
    BY LeafIds
  <2> HIDE DEF ids
  <2> QED  BY <2>1, AppendProperties
<1>3. \A q \in DOMAIN e.leaf : e.leaf[q] \in Seq(1..Len(d.clusters))
  <2> HIDE DEF more, p, e
  <2> QED  BY <1>1, <1>2 DEF TreeInv
<1> HIDE DEF e
<1> QED  BY <1>1, <1>3 DEF TreeInv, e

\* The templates in e are those in d, but for that of cluster id.
HasTemplate(e, d, id, t) ==
  \A j \in 1..Len(d.clusters) :
    e.clusters[j].template = IF j = id THEN t ELSE d.clusters[j].template

\* The sizes in e are those in d, but for that of cluster id.
HasSize(e, d, id, n) ==
  \A j \in 1..Len(d.clusters) :
    e.clusters[j].size = IF j = id THEN n ELSE d.clusters[j].size

\* A cluster that absorbs a message keeps its length.
LEMMA AbsorbKeeps ==
  ASSUME NEW d, TreeInv(d), NEW id \in 1..Len(d.clusters), NEW tokens
  PROVE  /\ TreeInv(Absorb(d, id, tokens))
         /\ Len(Absorb(d, id, tokens).clusters) = Len(d.clusters)
         /\ HasTemplate(Absorb(d, id, tokens), d, id, Generalise(d.clusters[id].template, tokens))
         /\ HasSize(Absorb(d, id, tokens), d, id, d.clusters[id].size + 1)
         /\ Len(Generalise(d.clusters[id].template, tokens)) = Len(d.clusters[id].template)
<1> DEFINE old == d.clusters[id]
           new == [template |-> Generalise(old.template, tokens), size |-> old.size + 1]
           e == [d EXCEPT !.clusters[id] = new]
           cs == [d.clusters EXCEPT ![id] = new]
<1>1. d.clusters \in Seq(Cluster) /\ old \in Cluster
  BY ElementOfSeq DEF TreeInv
<1>2. /\ Generalise(old.template, tokens) \in Seq(Tokens \cup {Wild})
      /\ Len(Generalise(old.template, tokens)) = Len(old.template)
  <2> DEFINE t == old.template
  <2>1. t \in Seq(Tokens \cup {Wild})
    BY <1>1 DEF Cluster
  <2> HIDE DEF t
  <2>2. Len(t) \in Nat /\ DOMAIN t = 1..Len(t) /\ \A i \in 1..Len(t) : t[i] \in Tokens \cup {Wild}
    BY <2>1, LenProperties, ElementOfSeq
  <2>3. Generalise(t, tokens) = [i \in 1..Len(t) |-> IF t[i] = tokens[i] THEN t[i] ELSE Wild]
    BY <2>2 DEF Generalise
  <2>4. Generalise(t, tokens) \in Seq(Tokens \cup {Wild})
    BY <2>2, <2>3
  <2>5. Len(Generalise(t, tokens)) = Len(t)
    BY <2>2, <2>3
  <2> QED  BY <2>4, <2>5 DEF t
<1>3. new \in Cluster
  BY <1>1, <1>2 DEF Cluster
<1>4. /\ cs \in Seq(Cluster) /\ Len(cs) = Len(d.clusters)
      /\ \A j \in 1..Len(d.clusters) : cs[j] = IF j = id THEN new ELSE d.clusters[j]
  <2> HIDE DEF new
  <2> QED  BY <1>1, <1>3, ExceptSeq
<1>5. e = [clusters |-> cs, nodes |-> d.nodes, leaf |-> d.leaf]
  <2> HIDE DEF new
  <2>1. d = [clusters |-> d.clusters, nodes |-> d.nodes, leaf |-> d.leaf]
    BY DEF TreeInv
  <2> QED  BY ONLY <2>1
<1>6. TreeInv(e) /\ e.clusters = cs
  <2> HIDE DEF cs, e
  <2> QED  BY <1>4, <1>5 DEF TreeInv
<1>7. /\ TreeInv(AddWildcardPath(e, id))
      /\ AddWildcardPath(e, id).clusters = cs
  <2> HIDE DEF cs, e
  <2> QED  BY <1>4, <1>6, WildcardPathKeeps
<1>8. TreeInv(Absorb(d, id, tokens)) /\ Absorb(d, id, tokens).clusters = cs
  <2>1. Absorb(d, id, tokens) = e \/ Absorb(d, id, tokens) = AddWildcardPath(e, id)
    BY DEF Absorb
  <2> HIDE DEF cs, e
  <2> QED  BY <1>6, <1>7, <2>1
<1>9. \A j \in 1..Len(d.clusters) :
        cs[j].template = IF j = id THEN Generalise(old.template, tokens) ELSE d.clusters[j].template
  <2> HIDE DEF cs
  <2> QED  BY <1>4
<1>10. \A j \in 1..Len(d.clusters) :
         cs[j].size = IF j = id THEN old.size + 1 ELSE d.clusters[j].size
  <2> HIDE DEF cs
  <2> QED  BY <1>4
<1> HIDE DEF cs
<1> QED  BY <1>2, <1>4, <1>8, <1>9, <1>10 DEF HasTemplate, HasSize

\* AddLogMessage does nothing, makes a cluster, or lets an old one absorb the message.
LEMMA Mined ==
  ASSUME NEW d, TreeInv(d), NEW m \in Messages
  PROVE  /\ TreeInv(AddLogMessage(d, m))
         /\ \/ /\ Tokenize(m) = <<>> /\ ClusterOf(d, m) = 0 /\ ~CreatesCluster(d, m)
               /\ AddLogMessage(d, m) = d
            \/ /\ Tokenize(m) # <<>> /\ ClusterOf(d, m) = Len(d.clusters) + 1
               /\ CreatesCluster(d, m)
               /\ AddLogMessage(d, m).clusters =
                    Append(d.clusters, [template |-> Tokenize(m), size |-> 1])
            \/ /\ Tokenize(m) # <<>> /\ ClusterOf(d, m) \in 1..Len(d.clusters)
               /\ ~CreatesCluster(d, m)
               /\ Len(d.clusters[ClusterOf(d, m)].template) = Len(Tokenize(m))
               /\ AddLogMessage(d, m) = Absorb(d, ClusterOf(d, m), Tokenize(m))
<1> DEFINE tokens == Tokenize(m)
<1>1. tokens \in Seq(Tokens)
  BY TokensOfMessage
<1> HIDE DEF tokens
<1>2. CASE tokens = <<>>
  BY <1>2 DEF AddLogMessage, ClusterOf, CreatesCluster, tokens
<1>3. CASE tokens # <<>> /\ TreeSearch(d, tokens) = 0
  <2>1. AddLogMessage(d, m) = Insert(d, tokens) /\ ClusterOf(d, m) = Len(d.clusters) + 1
        /\ CreatesCluster(d, m)
    BY <1>3 DEF AddLogMessage, ClusterOf, CreatesCluster, tokens
  <2> QED  BY <1>1, <1>3, <2>1, InsertKeeps DEF tokens
<1>4. CASE tokens # <<>> /\ TreeSearch(d, tokens) # 0
  <2>1. /\ AddLogMessage(d, m) = Absorb(d, TreeSearch(d, tokens), tokens)
        /\ ClusterOf(d, m) = TreeSearch(d, tokens) /\ ~CreatesCluster(d, m)
    BY <1>4 DEF AddLogMessage, ClusterOf, CreatesCluster, tokens
  <2>2. /\ TreeSearch(d, tokens) \in 1..Len(d.clusters)
        /\ Len(d.clusters[TreeSearch(d, tokens)].template) = Len(tokens)
    BY <1>4, SearchFinds
  <2>3. TreeInv(Absorb(d, TreeSearch(d, tokens), tokens))
    BY <2>2, AbsorbKeeps
  <2> QED  BY <1>4, <2>1, <2>2, <2>3 DEF tokens
<1> QED  BY <1>2, <1>3, <1>4

-----------------------------------------------------------------------------
(* The leaf at which a search ends. *)

LEMMA Prefix ==
  ASSUME NEW S, NEW s \in Seq(S), NEW n \in 0..Len(s)
  PROVE  /\ SubSeq(s, 1, n) \in Seq(S) /\ Len(SubSeq(s, 1, n)) = n
         /\ \A i \in 1..n : SubSeq(s, 1, n)[i] = s[i]
         /\ n = 0 => SubSeq(s, 1, n) = <<>>
         /\ n > 0 => SubSeq(s, 1, n) = Append(SubSeq(s, 1, n - 1), s[n])
<1>1. Len(s) \in Nat /\ \A i \in 1..Len(s) : s[i] \in S
  BY LenProperties, ElementOfSeq
<1>2. n \in Nat /\ n \in Int /\ \A i \in 1..n : s[i] \in S
  BY <1>1
<1>3. /\ SubSeq(s, 1, n) \in Seq(S)
      /\ Len(SubSeq(s, 1, n)) = IF 1 <= n THEN n - 1 + 1 ELSE 0
      /\ \A i \in 1..n - 1 + 1 : SubSeq(s, 1, n)[i] = s[1 + i - 1]
  BY ONLY <1>2, SubSeqProperties
<1>4. Len(SubSeq(s, 1, n)) = n /\ \A i \in 1..n : SubSeq(s, 1, n)[i] = s[i]
  BY <1>2, <1>3
<1>5. n = 0 => SubSeq(s, 1, n) = <<>>
  BY <1>2, SubSeqEmpty
<1>6. ASSUME n > 0 PROVE SubSeq(s, 1, n) = Append(SubSeq(s, 1, n - 1), s[n])
  <2> DEFINE u == SubSeq(s, 1, n - 1)
  <2>1. 1 \in 1..Len(s) /\ n \in 1..Len(s) /\ n - 1 \in Int /\ \A i \in 1..n - 1 : s[i] \in S
    BY <1>1, <1>2, <1>6
  <2>2. SubSeq(s, 1, n) = u \o <<s[n]>>
    BY <2>1, SubSeqRecursiveSecond
  <2>3. u \in Seq(S)
    BY ONLY <2>1, SubSeqProperties
  <2>4. s[n] \in S
    BY <1>1, <2>1
  <2> HIDE DEF u
  <2>5. Append(u, s[n]) = u \o <<s[n]>>
    BY <2>3, <2>4, AppendIsConcat
  <2> QED  BY <2>2, <2>5 DEF u
<1> QED  BY <1>3, <1>4, <1>5, <1>6

\* The prefixes of a longer sequence.
LEMMA PrefixOfAppend ==
  ASSUME NEW S, NEW s \in Seq(S), NEW e \in S, NEW n \in 0..Len(s) + 1
  PROVE  SubSeq(Append(s, e), 1, n) = IF n = Len(s) + 1 THEN Append(s, e) ELSE SubSeq(s, 1, n)
<1> DEFINE t == Append(s, e)
<1>1. /\ t \in Seq(S) /\ Len(t) = Len(s) + 1 /\ Len(s) \in Nat
      /\ \A i \in 1..Len(s) : t[i] = s[i]
  BY AppendProperties, LenProperties
<1> HIDE DEF t
<1>2. CASE n = Len(s) + 1
  BY <1>1, <1>2, SubSeqFull DEF t
<1>3. CASE n # Len(s) + 1
  <2> DEFINE u == SubSeq(t, 1, n)
             v == SubSeq(s, 1, n)
  <2>1. n \in 0..Len(s) /\ n \in 0..Len(t)
    BY <1>1, <1>3
  <2>2. u \in Seq(S) /\ Len(u) = n /\ \A i \in 1..n : u[i] = t[i]
    BY <1>1, <2>1, Prefix
  <2>3. v \in Seq(S) /\ Len(v) = n /\ \A i \in 1..n : v[i] = s[i]
    BY <2>1, Prefix
  <2>4. \A i \in 1..n : t[i] = s[i]
    BY <1>1, <2>1
  <2> HIDE DEF u, v
  <2>5. u = v
    BY <2>2, <2>3, <2>4, SeqEqual
  <2> QED  BY <1>3, <2>5 DEF u, v, t
<1> QED  BY <1>2, <1>3

LEMMA KeyDepthIs == ASSUME NEW n \in Nat PROVE KeyDepth(n) \in 0..n
BY DrainAssumption DEF KeyDepth

LEMMA NodeIs ==
  ASSUME NEW len, NEW keys
  PROVE  /\ Node(len, keys).len = len /\ Node(len, keys).keys = keys
         /\ \A l, k : Node(len, keys) = Node(l, k) => len = l /\ keys = k
<1>1. ASSUME NEW l, NEW k, Node(len, keys) = Node(l, k) PROVE len = l /\ keys = k
  <2>1. Node(len, keys).len = len /\ Node(l, k).len = l
    BY DEF Node
  <2>2. Node(len, keys).keys = keys /\ Node(l, k).keys = k
    BY DEF Node
  <2> QED  BY <1>1, <2>1, <2>2
<1> QED  BY <1>1 DEF Node

\* The nodes that treeSearch passes.
Passes(path, d, tokens) ==
  /\ path[0] = IF Node(Len(tokens), <<>>) \in d.nodes THEN Node(Len(tokens), <<>>) ELSE NoNode
  /\ \A n \in 1..KeyDepth(Len(tokens)) : path[n] = Step(d, path[n - 1], tokens[n])
  /\ Descend(d, tokens) = path[KeyDepth(Len(tokens))]

LEMMA PathExists ==
  ASSUME NEW d, NEW S, NEW tokens \in Seq(S)
  PROVE  \E path : Passes(path, d, tokens)
<1> DEFINE K == KeyDepth(Len(tokens))
           root == Node(Len(tokens), <<>>)
           X == d.nodes \cup {NoNode}
           base == IF root \in d.nodes THEN root ELSE NoNode
           F == [n \in 1..K |-> [p \in X |-> Step(d, p, tokens[n])]]
           Eq(f) == f = [n \in 0..K |-> IF n = 0 THEN base ELSE Step(d, f[n - 1], tokens[n])]
           path == CHOOSE f : Eq(f)
<1>1. K \in Nat
  BY LenProperties, KeyDepthIs
<1>2. base \in X
  OBVIOUS
<1>3. F \in [1..K -> [X -> X]]
  BY DEF Step
<1>4. PICK g \in [0..K -> X] : Recurs(g, K, base, F)
  <2> HIDE DEF K, X, F, base
  <2> QED  BY <1>1, <1>2, <1>3, Recursion
<1>5. \A n \in 1..K : g[n] = Step(d, g[n - 1], tokens[n])
  <2> HIDE DEF K, X
  <2> SUFFICES ASSUME NEW n \in 1..K PROVE g[n] = Step(d, g[n - 1], tokens[n])
    OBVIOUS
  <2>1. g[n - 1] \in X
    BY <1>1
  <2> QED  BY <1>4, <2>1 DEF Recurs
<1>6. Eq(g)
  <2> HIDE DEF K, X, base
  <2>1. \A n \in 0..K : n = 0 \/ n \in 1..K
    BY <1>1
  <2>2. g = [n \in 0..K |-> g[n]]
    OBVIOUS
  <2>3. \A n \in 0..K : g[n] = IF n = 0 THEN base ELSE Step(d, g[n - 1], tokens[n])
    BY <1>4, <1>5, <2>1 DEF Recurs
  <2> QED  BY <2>2, <2>3
<1>7. Eq(path)
  <2> HIDE DEF Eq
  <2> QED  BY <1>6
<1>8. path = [n \in 0..K |-> IF n = 0 THEN base ELSE Step(d, path[n - 1], tokens[n])]
  <2> HIDE DEF path
  <2> QED  BY <1>7
<1>9. Descend(d, tokens) = path[K]
  BY DEF Descend
<1> HIDE DEF path, K, base
<1>10. path[0] = base
  BY <1>1, <1>8
<1>11. ASSUME NEW n \in 1..K PROVE path[n] = Step(d, path[n - 1], tokens[n])
  <2>1. n \in 0..K /\ n # 0
    BY <1>1
  <2> QED  BY <1>8, <2>1
<1>12. Passes(path, d, tokens)
  BY <1>9, <1>10, <1>11 DEF Passes, K, base
<1> QED  BY <1>12

\* The keys are those a search takes: every token that has a node, the wildcard for others.
Leads(d, tokens, keys) ==
  /\ Node(Len(tokens), <<>>) \in d.nodes
  /\ \A n \in 1..Len(keys) :
       /\ Node(Len(tokens), SubSeq(keys, 1, n)) \in d.nodes
       /\ \/ keys[n] = tokens[n]
          \/ /\ keys[n] = Wild
             /\ Node(Len(tokens), Append(SubSeq(keys, 1, n - 1), tokens[n])) \notin d.nodes

LEMMA LeadsThere ==
  ASSUME NEW d, NEW S, NEW tokens \in Seq(S), tokens # <<>>,
         NEW T, NEW keys \in Seq(T), Len(keys) = KeyDepth(Len(tokens)), Leads(d, tokens, keys)
  PROVE  Descend(d, tokens) = Node(Len(tokens), keys)
<1> DEFINE L == Len(tokens)
           K == KeyDepth(L)
<1>1. L \in Nat /\ L # 0 /\ K \in Nat
  BY LenProperties, KeyDepthIs
<1>2. PICK path : Passes(path, d, tokens)
  BY PathExists
<1> DEFINE G == {n \in 0..K : path[n] = Node(L, SubSeq(keys, 1, n))}
<1>3. 0 \in G
  <2>1. SubSeq(keys, 1, 0) = <<>>
    BY SubSeqEmpty
  <2>2. path[0] = Node(L, <<>>) /\ 0 \in 0..K
    BY <1>1, <1>2 DEF Passes, Leads
  <2> HIDE DEF K, L
  <2> QED  BY <2>1, <2>2
<1>4. ASSUME NEW n \in 1..K, n - 1 \in G PROVE n \in G
  <2> DEFINE u == SubSeq(keys, 1, n - 1)
             w == SubSeq(keys, 1, n)
             q == Node(L, u)
  <2>1. path[n] = Step(d, q, tokens[n])
    BY <1>2, <1>4 DEF Passes
  <2>2. q # NoNode
    BY <1>1, NodeIs DEF NoNode
  <2>3. \A x : Child(q, x) = Node(L, Append(u, x))
    BY DEF Child, Node
  <2>4. w = Append(u, keys[n])
    <3>1. n \in 0..Len(keys) /\ n > 0
      BY <1>1
    <3> QED  BY <3>1, Prefix
  <2>5. /\ Node(L, w) \in d.nodes
        /\ keys[n] = tokens[n] \/ (keys[n] = Wild /\ Node(L, Append(u, tokens[n])) \notin d.nodes)
    BY DEF Leads
  <2>6. path[n] = Node(L, w)
    <3> HIDE DEF u, w, q
    <3> QED  BY <2>1, <2>2, <2>3, <2>4, <2>5 DEF Step
  <2> QED  BY <1>1, <2>6
<1>5. 0..K \subseteq G
  <2> HIDE DEF G, K
  <2> QED  BY <1>1, <1>3, <1>4, UpTo
<1>6. path[K] = Node(L, SubSeq(keys, 1, K))
  BY <1>1, <1>5
<1>7. SubSeq(keys, 1, K) = keys
  BY SubSeqFull
<1> QED  BY <1>2, <1>6, <1>7 DEF Passes

\* One more key.
LEMMA LeadsOn ==
  ASSUME NEW d, NEW tokens, NEW T, NEW keys \in Seq(T), NEW c \in T, NEW n \in Nat,
         n = Len(keys) + 1, Leads(d, tokens, keys),
         Node(Len(tokens), Append(keys, c)) \in d.nodes,
         \/ c = tokens[n]
         \/ c = Wild /\ Node(Len(tokens), Append(keys, tokens[n])) \notin d.nodes
  PROVE  Leads(d, tokens, Append(keys, c))
<1> DEFINE more == Append(keys, c)
<1>1. /\ Len(keys) \in Nat /\ Len(more) = n
      /\ \A i \in 1..Len(keys) : more[i] = keys[i]
      /\ more[n] = c
  BY AppendProperties, LenProperties
<1>2. \A j \in 0..n : SubSeq(more, 1, j) = IF j = n THEN more ELSE SubSeq(keys, 1, j)
  BY PrefixOfAppend
<1>3. SubSeq(more, 1, n - 1) = keys
  <2>1. SubSeq(keys, 1, Len(keys)) = keys
    BY SubSeqFull
  <2> HIDE DEF more
  <2> QED  BY <1>1, <1>2, <2>1
<1> HIDE DEF more
<1>4. ASSUME NEW j \in 1..n
      PROVE  /\ Node(Len(tokens), SubSeq(more, 1, j)) \in d.nodes
             /\ \/ more[j] = tokens[j]
                \/ /\ more[j] = Wild
                   /\ Node(Len(tokens), Append(SubSeq(more, 1, j - 1), tokens[j])) \notin d.nodes
  <2>1. CASE j = n
    <3>1. SubSeq(more, 1, j) = more
      BY <1>1, <1>2, <2>1
    <3> QED  BY <1>1, <1>3, <2>1, <3>1 DEF more
  <2>2. CASE j # n
    <3>1. j \in 1..Len(keys) /\ j - 1 \in 0..n /\ j - 1 # n /\ j \in 0..n
      BY <1>1, <2>2
    <3>2. more[j] = keys[j] /\ SubSeq(more, 1, j) = SubSeq(keys, 1, j)
          /\ SubSeq(more, 1, j - 1) = SubSeq(keys, 1, j - 1)
      BY <1>1, <1>2, <2>2, <3>1
    <3> QED  BY <3>1, <3>2 DEF Leads
  <2> QED  BY <2>1, <2>2
<1>5. Leads(d, tokens, more)
  BY <1>1, <1>4 DEF Leads
<1> QED  BY <1>5 DEF more

LEMMA LeadsFrom ==
  ASSUME NEW d, NEW S, NEW tokens \in Seq(S), Descend(d, tokens) # NoNode
  PROVE  \E keys \in Seq(S \cup {Wild}) :
           Len(keys) = KeyDepth(Len(tokens)) /\ Leads(d, tokens, keys)
<1> DEFINE L == Len(tokens)
           K == KeyDepth(L)
           T == S \cup {Wild}
           Good(path, n) ==
             \/ path[n] = NoNode
             \/ \E keys \in Seq(T) :
                  Len(keys) = n /\ Leads(d, tokens, keys) /\ path[n] = Node(L, keys)
<1>1. L \in Nat /\ K \in 0..L
  BY LenProperties, KeyDepthIs
<1>2. PICK path : Passes(path, d, tokens)
  BY PathExists
<1> DEFINE G == {n \in 0..K : Good(path, n)}
<1>3. 0 \in G
  <2> DEFINE none == <<>>
  <2>1. none \in Seq(T) /\ Len(none) = 0
    BY EmptySeq
  <2>2. path[0] = NoNode \/ (path[0] = Node(L, none) /\ Node(L, none) \in d.nodes)
    BY <1>2 DEF Passes
  <2>3. Node(L, none) \in d.nodes => Leads(d, tokens, none)
    BY <2>1 DEF Leads
  <2> HIDE DEF none
  <2>4. Good(path, 0)
    BY <2>1, <2>2, <2>3
  <2> QED  BY <1>1, <2>4
<1>4. ASSUME NEW n \in 1..K, n - 1 \in G PROVE n \in G
  <2>1. CASE path[n] = NoNode
    BY <2>1
  <2>2. CASE path[n] # NoNode
    <3>1. path[n] = Step(d, path[n - 1], tokens[n])
      BY <1>2 DEF Passes
    <3>2. path[n - 1] # NoNode
      BY <2>2, <3>1 DEF Step
    <3>3. PICK keys \in Seq(T) :
            Len(keys) = n - 1 /\ Leads(d, tokens, keys) /\ path[n - 1] = Node(L, keys)
      BY <1>4, <3>2
    <3>4. \A x : Child(Node(L, keys), x) = Node(L, Append(keys, x))
      BY DEF Child, Node
    <3>5. PICK c \in {tokens[n], Wild} :
            /\ path[n] = Node(L, Append(keys, c)) /\ Node(L, Append(keys, c)) \in d.nodes
            /\ c = tokens[n] \/ (c = Wild /\ Node(L, Append(keys, tokens[n])) \notin d.nodes)
      BY <2>2, <3>1, <3>2, <3>3, <3>4 DEF Step
    <3>6. c \in T /\ n \in Nat
      <4>1. n \in 1..Len(tokens)
        BY <1>1
      <4> QED  BY <3>5, <4>1, ElementOfSeq
    <3>7. n = Len(keys) + 1
      BY <1>1, <3>3
    <3> DEFINE more == Append(keys, c)
    <3>8. more \in Seq(T) /\ Len(more) = n
      BY <3>3, <3>6, <3>7, AppendProperties
    <3>9. Leads(d, tokens, more)
      BY <3>3, <3>5, <3>6, <3>7, LeadsOn
    <3>10. path[n] = Node(L, more)
      BY <3>5
    <3> HIDE DEF more
    <3>11. Good(path, n)
      BY <3>8, <3>9, <3>10
    <3> QED  BY <1>1, <3>11
  <2> QED  BY <2>1, <2>2
<1>5. 0..K \subseteq G
  <2>1. K \in Nat
    BY <1>1
  <2> HIDE DEF G, K
  <2> QED  BY <1>3, <1>4, <2>1, UpTo
<1>6. Good(path, K)
  BY <1>1, <1>5
<1> QED  BY <1>2, <1>6 DEF Passes

-----------------------------------------------------------------------------
(* A message that was added is found again. *)

\* All tokens match just if the template covers them.
LEMMA AllMatch ==
  ASSUME NEW S, NEW tokens \in Seq(S), tokens # <<>>, NEW t
  PROVE  /\ Matches(t, tokens) \in 0..Len(tokens)
         /\ Matches(t, tokens) = Len(tokens) <=> Covers(t, tokens)
<1> DEFINE L == Len(tokens)
           M == {i \in DOMAIN tokens : t[i] \in {tokens[i], Wild}}
<1>1. L \in Nat /\ L # 0 /\ DOMAIN tokens = 1..L
  BY LenProperties
<1>2. CASE Len(t) # L
  BY <1>1, <1>2 DEF Matches, Covers
<1>3. CASE Len(t) = L
  <2>1. Matches(t, tokens) = Cardinality(M)
    BY <1>3 DEF Matches
  <2>2. M \subseteq 1..L
    BY <1>1
  <2>3. Covers(t, tokens) <=> M = 1..L
    BY <1>1, <1>3 DEF Covers
  <2>4. 1 \in Int /\ L \in Int
    BY <1>1
  <2> HIDE DEF M, L
  <2>5. IsFiniteSet(1..L) /\ Cardinality(1..L) = L
    BY <1>1, <2>4, FS_Interval
  <2>6. IsFiniteSet(M) /\ Cardinality(M) <= L /\ (Cardinality(M) = L => M = 1..L)
    BY <2>2, <2>5, FS_Subset
  <2>7. Cardinality(M) \in Nat
    BY <2>6, FS_CardinalityType
  <2> QED  BY <1>1, <2>1, <2>3, <2>5, <2>6, <2>7 DEF L
<1> QED  BY <1>2, <1>3

\* The ids in the leaf p.
Leaf(d, p) == ToSet(LeafClusters(d, p))

\* The leaf for the tokens has a cluster whose template covers them.
Found(d, tokens) ==
  \E id \in Leaf(d, Descend(d, tokens)) : Covers(d.clusters[id].template, tokens)

LEMMA Enough ==
  ASSUME NEW n \in Nat, NEW a \in Nat, NEW b \in Nat, a <= b
  PROVE  n * b >= a * n
<1>1. PICK c \in Nat : b = a + c
  <2>1. b - a \in Nat /\ b = a + (b - a)
    OBVIOUS
  <2> QED  BY <2>1
<1>2. n * b = a * n + n * c /\ n * c \in Nat /\ a * n \in Nat
  BY <1>1
<1> QED  BY <1>2

\* Then a search has such a cluster for its result.
LEMMA FoundIsCovered ==
  ASSUME NEW d, TreeInv(d), NEW S, NEW tokens \in Seq(S), tokens # <<>>, Found(d, tokens)
  PROVE  /\ TreeSearch(d, tokens) \in 1..Len(d.clusters)
         /\ Covers(d.clusters[TreeSearch(d, tokens)].template, tokens)
<1> DEFINE L == Len(tokens)
           ids == LeafClusters(d, Descend(d, tokens))
           m(i) == Matches(d.clusters[ids[i]].template, tokens)
           best == {i \in DOMAIN ids :
                      /\ Similar(d.clusters[ids[i]].template, tokens)
                      /\ \A j \in DOMAIN ids : m(j) < m(i) \/ (m(j) = m(i) /\ i <= j)}
           A == {i \in DOMAIN ids : m(i) = L}
<1>1. ids \in Seq(1..Len(d.clusters))
  BY LeafIds
<1>2. L \in Nat /\ L > 0
  BY LenProperties
<1>3. \A i : m(i) \in 0..L /\ (m(i) = L <=> Covers(d.clusters[ids[i]].template, tokens))
  BY AllMatch
<1>4. PICK i0 \in DOMAIN ids : Covers(d.clusters[ids[i0]].template, tokens)
  BY DEF Found, Leaf, ToSet
<1>5. DOMAIN ids \subseteq Nat
  <2> HIDE DEF ids
  <2> QED  BY <1>1, LenProperties
<1>6. A \subseteq Nat /\ A # {}
  BY <1>3, <1>4, <1>5
<1>7. PICK i \in A : \A j \in A : i <= j
  <2> HIDE DEF A
  <2> QED  BY <1>6, Least
<1>8. Similar(d.clusters[ids[i]].template, tokens)
  <2>1. L * SimDen >= SimNum * L
    <3> HIDE DEF L
    <3> QED  BY <1>2, DrainAssumption, Enough
  <2>2. Matches(d.clusters[ids[i]].template, tokens) = L
    BY <1>7
  <2> QED  BY <1>2, <2>1, <2>2 DEF Similar
<1>9. \A j \in DOMAIN ids : m(j) < m(i) \/ (m(j) = m(i) /\ i <= j)
  <2> SUFFICES ASSUME NEW j \in DOMAIN ids PROVE m(j) < m(i) \/ (m(j) = m(i) /\ i <= j)
    OBVIOUS
  <2>1. m(i) = L /\ m(j) \in 0..L
    BY <1>3, <1>7
  <2>2. m(j) = L => i <= j
    BY <1>7
  <2> HIDE DEF m, L
  <2> QED  BY <1>2, <2>1, <2>2
<1>10. i \in best
  BY <1>7, <1>8, <1>9
<1>11. TreeSearch(d, tokens) = IF best = {} THEN 0 ELSE ids[CHOOSE k \in best : TRUE]
  BY DEF TreeSearch
<1>12. PICK k \in best : TreeSearch(d, tokens) = ids[k]
  BY <1>10, <1>11
<1>13. Covers(d.clusters[ids[k]].template, tokens)
  <2>1. m(i) < m(k) \/ m(i) = m(k)
    BY <1>7, <1>12
  <2>2. m(i) = L /\ m(k) \in 0..L
    BY <1>3, <1>7
  <2>3. m(k) = L
    <3> HIDE DEF m, L
    <3> QED  BY <1>2, <2>1, <2>2
  <2> QED  BY <1>3, <2>3
<1>14. ids[k] \in 1..Len(d.clusters)
  <2>1. k \in DOMAIN ids
    BY <1>12
  <2> HIDE DEF ids
  <2> QED  BY <1>1, <2>1, LenProperties, ElementOfSeq
<1> QED  BY <1>12, <1>13, <1>14

Wilds(n) == [i \in 1..n |-> Wild]

\* Where the keys of leaf p are wildcards, a token of template t has a node of its own.
Branches(nodes, p, t) ==
  \A n \in 1..Len(p.keys) :
    n \in DOMAIN t /\ (\A j \in 1..n : p.keys[j] = Wild) =>
      t[n] = Wild \/ Node(p.len, Append(Wilds(n - 1), t[n])) \in nodes

\* A search for tokens that a cluster has absorbed still comes to the leaf in which the
\* cluster was found: a node that would lead it astray was there before.
SearchInv(d) ==
  /\ NoNode \notin DOMAIN d.leaf
  /\ \A p \in DOMAIN d.leaf : \A id \in Leaf(d, p) : Branches(d.nodes, p, d.clusters[id].template)

LEMMA BranchesGrow ==
  ASSUME NEW nodes, NEW more, nodes \subseteq more, NEW p, NEW t, NEW u, DOMAIN u = DOMAIN t,
         \A n \in DOMAIN t : u[n] \in {t[n], Wild},
         Branches(nodes, p, t)
  PROVE  Branches(more, p, u)
BY DEF Branches

LEMMA SearchInvEmpty == SearchInv(EmptyDrain)
BY DEF SearchInv, EmptyDrain

\* The oldest id goes, the new one stays.
LEMMA NewestStays ==
  ASSUME NEW S, NEW old \in Seq(S), NEW id \in S
  PROVE  LET ids == Append(old, id)
             kept == IF Len(ids) > MaxChildren THEN Tail(ids) ELSE ids
         IN id \in ToSet(kept) /\ ToSet(kept) \subseteq ToSet(old) \cup {id}
<1> DEFINE ids == Append(old, id)
           kept == IF Len(ids) > MaxChildren THEN Tail(ids) ELSE ids
           n == Len(old)
<1>1. /\ n \in Nat /\ ids \in Seq(S) /\ ids # <<>> /\ Len(ids) = n + 1
      /\ \A i \in 1..n : ids[i] = old[i]
      /\ ids[n + 1] = id
      /\ DOMAIN old = 1..n
  BY AppendProperties, LenProperties
<1>2. MaxChildren \in Nat /\ MaxChildren >= 1
  BY DrainAssumption
<1> HIDE DEF ids, n
<1>3. DOMAIN ids = 1..n + 1 /\ \A i \in 1..n + 1 : ids[i] \in ToSet(old) \cup {id}
  <2>1. DOMAIN ids = 1..n + 1
    BY <1>1, LenProperties
  <2>2. \A i \in 1..n : old[i] \in ToSet(old)
    BY <1>1 DEF ToSet
  <2>3. \A i \in 1..n + 1 : i \in 1..n \/ i = n + 1
    BY <1>1
  <2> QED  BY <1>1, <2>1, <2>2, <2>3
<1>4. CASE Len(ids) > MaxChildren
  <2> DEFINE u == Tail(ids)
  <2>1. u \in Seq(S) /\ Len(u) = n /\ \A i \in 1..n : u[i] = ids[i + 1]
    <3>1. u \in Seq(S) /\ Len(u) = Len(ids) - 1 /\ \A i \in 1..Len(u) : u[i] = ids[i + 1]
      BY <1>1, HeadTailProperties
    <3>2. Len(u) = n
      BY <1>1, <3>1
    <3> HIDE DEF u
    <3> QED  BY <3>1, <3>2
  <2>2. kept = u
    BY <1>4
  <2> HIDE DEF u, kept
  <2>3. DOMAIN u = 1..n
    BY <2>1, LenProperties
  <2>4. n >= 1 /\ u[n] = id
    BY <1>1, <1>2, <1>4, <2>1
  <2>5. n \in DOMAIN u
    BY <1>1, <2>3, <2>4
  <2>6. \A i \in DOMAIN u : u[i] \in ToSet(old) \cup {id}
    <3>1. \A i \in 1..n : i + 1 \in 1..n + 1
      BY <1>1
    <3> QED  BY <1>3, <2>1, <2>3, <3>1
  <2>7. id \in ToSet(u) /\ ToSet(u) \subseteq ToSet(old) \cup {id}
    BY <2>4, <2>5, <2>6 DEF ToSet
  <2> QED  BY <2>2, <2>7 DEF kept, ids
<1>5. CASE ~(Len(ids) > MaxChildren)
  <2>1. n + 1 \in 1..n + 1
    BY <1>1
  <2>2. id \in ToSet(ids) /\ ToSet(ids) \subseteq ToSet(old) \cup {id}
    BY <1>1, <1>3, <2>1 DEF ToSet
  <2>3. kept = ids
    BY <1>5
  <2> HIDE DEF kept
  <2> QED  BY <2>2, <2>3 DEF kept, ids
<1> QED  BY <1>4, <1>5

LEMMA InsertFinds ==
  ASSUME NEW d, TreeInv(d), SearchInv(d), NEW tokens \in Seq(Tokens), tokens # <<>>
  PROVE  SearchInv(Insert(d, tokens)) /\ Found(Insert(d, tokens), tokens)
<1> DEFINE L == Len(tokens)
           K == KeyDepth(L)
           keys == SubSeq(tokens, 1, K)
           p == Node(L, keys)
           id == Len(d.clusters) + 1
           ids == Append(LeafClusters(d, p), id)
           kept == IF Len(ids) > MaxChildren THEN Tail(ids) ELSE ids
           c == [template |-> tokens, size |-> 1]
           e == Insert(d, tokens)
<1>1. /\ e.clusters = Append(d.clusters, c)
      /\ e.nodes = d.nodes \cup {Node(L, SubSeq(tokens, 1, n)) : n \in 0..K}
      /\ e.leaf = [q \in DOMAIN d.leaf \cup {p} |-> IF q # p THEN d.leaf[q] ELSE kept]
  BY DEF Insert
<1>2. /\ L \in Nat /\ L # 0 /\ K \in 0..L /\ K \in Nat
      /\ Len(d.clusters) \in Nat /\ id \in Nat
  BY LenProperties, KeyDepthIs DEF TreeInv
<1>3. /\ keys \in Seq(Tokens) /\ Len(keys) = K
      /\ \A i \in 1..K : keys[i] = tokens[i]
  BY <1>2, Prefix
<1>4. /\ \A i \in 1..Len(d.clusters) : e.clusters[i] = d.clusters[i]
      /\ e.clusters[id].template = tokens
  <2>1. d.clusters \in Seq(Cluster) /\ c.template = tokens
    BY DEF TreeInv
  <2>2. c \in Cluster
    <3>1. tokens \in Seq(Tokens \cup {Wild})
      BY SeqMonotonic
    <3> QED  BY <3>1 DEF Cluster
  <2> HIDE DEF c, e
  <2> QED  BY <1>1, <2>1, <2>2, AppendProperties
<1> HIDE DEF e, c, K, L
<1>5. Leads(e, tokens, keys)
  <2>1. Node(L, <<>>) \in e.nodes
    <3>1. 0 \in 0..K /\ SubSeq(tokens, 1, 0) = <<>>
      BY <1>2, SubSeqEmpty
    <3> QED  BY <1>1, <3>1
  <2>2. ASSUME NEW n \in 1..K
        PROVE  Node(L, SubSeq(keys, 1, n)) \in e.nodes /\ keys[n] = tokens[n]
    <3> DEFINE u == SubSeq(keys, 1, n)
               v == SubSeq(tokens, 1, n)
    <3>1. n \in 0..Len(keys) /\ n \in 0..Len(tokens) /\ n \in 0..K
      BY <1>2, <1>3 DEF L
    <3>2. u \in Seq(Tokens) /\ Len(u) = n /\ \A i \in 1..n : u[i] = keys[i]
      BY <1>3, <3>1, Prefix
    <3>3. v \in Seq(Tokens) /\ Len(v) = n /\ \A i \in 1..n : v[i] = tokens[i]
      BY <3>1, Prefix
    <3>4. \A i \in 1..n : keys[i] = tokens[i]
      BY <1>2, <1>3
    <3> HIDE DEF u, v, keys
    <3>5. u = v
      BY <3>2, <3>3, <3>4, SeqEqual
    <3>6. Node(L, v) \in e.nodes
      BY <1>1, <3>1 DEF v, p
    <3>7. Node(L, u) \in e.nodes
      BY <3>5, <3>6
    <3> QED  BY <1>3, <3>7 DEF u
  <2> HIDE DEF keys
  <2> QED  BY <1>3, <2>1, <2>2 DEF Leads, L
<1>6. Descend(e, tokens) = p
  <2> HIDE DEF keys, e
  <2> QED  BY <1>3, <1>5, LeadsThere DEF L, K, p
<1>7. p # NoNode /\ p.keys = keys /\ p.len = L
  <2> HIDE DEF keys
  <2>1. p.keys = keys /\ p.len = L
    BY NodeIs
  <2>2. NoNode.len = 0
    BY DEF NoNode, Node
  <2> HIDE DEF p
  <2> QED  BY <1>2, <2>1, <2>2
<1>8. LeafClusters(d, p) \in Seq(1..Len(d.clusters))
  BY LeafIds
<1>9. id \in ToSet(kept) /\ ToSet(kept) \subseteq Leaf(d, p) \cup {id}
  <2> DEFINE old == LeafClusters(d, p)
  <2>1. old \in Seq(Nat)
    <3>1. 1..Len(d.clusters) \subseteq Nat
      BY <1>2
    <3> QED  BY <1>8, <3>1, SeqMonotonic
  <2> HIDE DEF old, id
  <2> QED  BY <1>2, <2>1, NewestStays DEF Leaf, old
<1> HIDE DEF p, keys, kept, id
<1>10. /\ Leaf(e, p) = ToSet(kept)
       /\ \A q \in DOMAIN e.leaf : q # p => q \in DOMAIN d.leaf /\ Leaf(e, q) = Leaf(d, q)
       /\ DOMAIN e.leaf = DOMAIN d.leaf \cup {p}
  BY <1>1 DEF Leaf, LeafClusters
<1>11. Found(e, tokens)
  <2>1. Covers(tokens, tokens)
    BY DEF Covers
  <2> QED  BY <1>4, <1>6, <1>9, <1>10, <2>1 DEF Found
<1>12. \A q \in DOMAIN d.leaf : \A j \in Leaf(d, q) :
         e.clusters[j] = d.clusters[j] /\ Branches(d.nodes, q, d.clusters[j].template)
  <2> SUFFICES ASSUME NEW q \in DOMAIN d.leaf, NEW j \in Leaf(d, q)
               PROVE  e.clusters[j] = d.clusters[j] /\ Branches(d.nodes, q, d.clusters[j].template)
    OBVIOUS
  <2>1. j \in 1..Len(d.clusters)
    <3> DEFINE old == LeafClusters(d, q)
    <3>1. old \in Seq(1..Len(d.clusters))
      BY LeafIds
    <3> HIDE DEF old
    <3>2. PICK i \in DOMAIN old : j = old[i]
      BY DEF Leaf, ToSet, old
    <3> QED  BY <3>1, <3>2, LenProperties, ElementOfSeq
  <2> QED  BY <1>4, <2>1 DEF SearchInv
<1>13. d.nodes \subseteq e.nodes
  BY <1>1
<1>14. \A q, t : Branches(d.nodes, q, t) => Branches(e.nodes, q, t)
  BY <1>13, BranchesGrow
<1>15. Leaf(d, p) # {} => p \in DOMAIN d.leaf
  BY DEF Leaf, LeafClusters, ToSet
<1>16. Branches(e.nodes, p, tokens)
  BY <1>3, <1>7 DEF Branches
<1>17. ASSUME NEW q \in DOMAIN e.leaf, NEW j \in Leaf(e, q)
       PROVE  Branches(e.nodes, q, e.clusters[j].template)
  <2>1. CASE q # p
    BY <1>10, <1>12, <1>14, <2>1
  <2>2. CASE q = p /\ j \in Leaf(d, p)
    BY <1>12, <1>14, <1>15, <2>2
  <2>3. CASE q = p /\ j = id
    BY <1>4, <1>16, <2>3
  <2> QED  BY <1>9, <1>10, <2>1, <2>2, <2>3
<1>18. NoNode \notin DOMAIN e.leaf
  BY <1>7, <1>10 DEF SearchInv
<1>19. SearchInv(e)
  BY <1>17, <1>18 DEF SearchInv
<1> QED  BY <1>11, <1>19 DEF e

\* What addWildcardPathForCluster adds for a template: nodes, and the leaf at their end.
WildcardNodes(t) ==
  {Node(Len(t), Wilds(n)) : n \in 0..KeyDepth(Len(t))}
    \cup {Node(Len(t), Append(Wilds(n - 1), t[n])) : n \in 1..KeyDepth(Len(t))}

WildcardLeaf(t) == Node(Len(t), Wilds(KeyDepth(Len(t))))

HasWildcardPath(e, d, id, t) ==
  LET ids == LeafClusters(d, WildcardLeaf(t))
  IN /\ e.nodes = d.nodes \cup WildcardNodes(t)
     /\ e.leaf = [q \in DOMAIN d.leaf \cup {WildcardLeaf(t)} |->
                    IF q # WildcardLeaf(t) THEN d.leaf[q]
                    ELSE IF id \in ToSet(ids) THEN ids ELSE Append(ids, id)]

LEMMA WildcardPathIs ==
  ASSUME NEW d, NEW id
  PROVE  HasWildcardPath(AddWildcardPath(d, id), d, id, d.clusters[id].template)
<1> DEFINE t == d.clusters[id].template
           ids == LeafClusters(d, WildcardLeaf(t))
<1>1. AddWildcardPath(d, id).nodes = d.nodes \cup WildcardNodes(t)
  BY DEF AddWildcardPath, WildcardNodes, Wilds
<1>2. AddWildcardPath(d, id).leaf =
        [q \in DOMAIN d.leaf \cup {WildcardLeaf(t)} |->
           IF q # WildcardLeaf(t) THEN d.leaf[q]
           ELSE IF id \in ToSet(ids) THEN ids ELSE Append(ids, id)]
  BY DEF AddWildcardPath, WildcardLeaf, Wilds
<1> QED  BY <1>1, <1>2 DEF HasWildcardPath

LEMMA AbsorbTree ==
  ASSUME NEW d, TreeInv(d), NEW id \in 1..Len(d.clusters), NEW tokens,
         NEW t, t = Generalise(d.clusters[id].template, tokens),
         NEW e, e = Absorb(d, id, tokens),
         NEW p, p = WildcardLeaf(t)
  PROVE  \/ /\ e.nodes = d.nodes /\ e.leaf = d.leaf
         \/ /\ e.nodes = d.nodes \cup WildcardNodes(t)
            /\ DOMAIN e.leaf = DOMAIN d.leaf \cup {p}
            /\ \A q : Leaf(e, q) = IF q = p THEN Leaf(d, p) \cup {id} ELSE Leaf(d, q)
<1> DEFINE old == d.clusters[id]
           new == [template |-> t, size |-> old.size + 1]
           f == [d EXCEPT !.clusters[id] = new]
           cs == [d.clusters EXCEPT ![id] = new]
<1>2. f = [clusters |-> cs, nodes |-> d.nodes, leaf |-> d.leaf]
  <2> HIDE DEF new
  <2>1. d = [clusters |-> d.clusters, nodes |-> d.nodes, leaf |-> d.leaf]
    BY DEF TreeInv
  <2> QED  BY ONLY <2>1
<1>3. f.nodes = d.nodes /\ f.leaf = d.leaf /\ f.clusters = cs
  <2> HIDE DEF f, cs
  <2> QED  BY <1>2
<1>4. cs[id] = new
  <2>1. d.clusters \in Seq(Cluster)
    BY DEF TreeInv
  <2>2. id \in DOMAIN d.clusters
    BY <2>1, LenProperties
  <2> HIDE DEF new
  <2> QED  BY <2>2
<1>5. f.clusters[id].template = t
  <2>1. new.template = t
    OBVIOUS
  <2> HIDE DEF f, cs, new
  <2> QED  BY <1>3, <1>4, <2>1
<1>6. e = f \/ e = AddWildcardPath(f, id)
  BY DEF Absorb
<1> HIDE DEF f
<1>7. CASE e = f
  BY <1>3, <1>7
<1>8. CASE e = AddWildcardPath(f, id)
  <2> DEFINE ids == LeafClusters(f, p)
             more == IF id \in ToSet(ids) THEN ids ELSE Append(ids, id)
  <2>0. HasWildcardPath(e, f, id, t)
    <3>1. HasWildcardPath(AddWildcardPath(f, id), f, id, f.clusters[id].template)
      BY WildcardPathIs
    <3> QED  BY <1>5, <1>8, <3>1
  <2>1. e.nodes = d.nodes \cup WildcardNodes(t)
    BY <1>3, <2>0 DEF HasWildcardPath
  <2>2. e.leaf = [q \in DOMAIN d.leaf \cup {p} |-> IF q # p THEN d.leaf[q] ELSE more]
    BY <1>3, <2>0 DEF HasWildcardPath
  <2>3. \A q : LeafClusters(f, q) = LeafClusters(d, q)
    BY <1>3 DEF LeafClusters
  <2>4. ToSet(more) = Leaf(d, p) \cup {id}
    <3>1. ids \in Seq(1..Len(d.clusters)) /\ ToSet(ids) = Leaf(d, p)
      BY <2>3, LeafIds DEF Leaf
    <3> HIDE DEF ids
    <3>2. ToSet(Append(ids, id)) = ToSet(ids) \cup {id}
      <4> DEFINE a == Append(ids, id)
                 n == Len(ids)
      <4>1. /\ n \in Nat /\ Len(a) = n + 1 /\ a \in Seq(1..Len(d.clusters))
            /\ \A i \in 1..n : a[i] = ids[i]
            /\ a[n + 1] = id
        BY <3>1, AppendProperties, LenProperties
      <4>2. DOMAIN ids = 1..n
        BY <3>1, LenProperties
      <4> HIDE DEF a, n
      <4>3. DOMAIN a = 1..n + 1
        BY <4>1, LenProperties
      <4>4. \A i \in 1..n + 1 : i \in 1..n \/ i = n + 1
        BY <4>1
      <4>5. 1..n \subseteq 1..n + 1 /\ n + 1 \in 1..n + 1
        BY <4>1
      <4>6. ToSet(a) = ToSet(ids) \cup {id}
        BY <4>1, <4>2, <4>3, <4>4, <4>5 DEF ToSet
      <4> QED  BY <4>6 DEF a
    <3> QED  BY <3>1, <3>2
  <2> HIDE DEF more
  <2>5. DOMAIN e.leaf = DOMAIN d.leaf \cup {p}
    BY <2>2
  <2>6. ASSUME NEW q PROVE Leaf(e, q) = IF q = p THEN Leaf(d, p) \cup {id} ELSE Leaf(d, q)
    BY <2>2, <2>4, <2>5 DEF Leaf, LeafClusters
  <2> QED  BY <2>1, <2>5, <2>6
<1> QED  BY <1>6, <1>7, <1>8

\* A cluster that is found is in the leaf where the search ended.
LEMMA SearchIsInLeaf ==
  ASSUME NEW d, NEW tokens, TreeSearch(d, tokens) # 0
  PROVE  TreeSearch(d, tokens) \in Leaf(d, Descend(d, tokens))
<1> DEFINE ids == LeafClusters(d, Descend(d, tokens))
           m(i) == Matches(d.clusters[ids[i]].template, tokens)
           best == {i \in DOMAIN ids :
                      /\ Similar(d.clusters[ids[i]].template, tokens)
                      /\ \A j \in DOMAIN ids : m(j) < m(i) \/ (m(j) = m(i) /\ i <= j)}
<1>1. TreeSearch(d, tokens) = IF best = {} THEN 0 ELSE ids[CHOOSE i \in best : TRUE]
  BY DEF TreeSearch
<1>2. PICK i \in best : TreeSearch(d, tokens) = ids[i]
  BY <1>1
<1> QED  BY <1>2 DEF Leaf, ToSet

\* The nodes that the wildcard path adds do not lead a search astray.
LEMMA StillLeads ==
  ASSUME NEW d, NEW e, NEW tokens, NEW t, NEW T, NEW keys \in Seq(T),
         Len(t) = Len(tokens), Len(tokens) \in Nat, DOMAIN t = 1..Len(tokens),
         Len(keys) = KeyDepth(Len(tokens)),
         Leads(d, tokens, keys), Branches(d.nodes, Node(Len(tokens), keys), t),
         \/ e.nodes = d.nodes
         \/ e.nodes = d.nodes \cup WildcardNodes(Generalise(t, tokens)),
         Len(Generalise(t, tokens)) = Len(t), tokens \in Seq(T), Wild \in T
  PROVE  Leads(e, tokens, keys)
<1> DEFINE L == Len(tokens)
           K == KeyDepth(L)
           g == Generalise(t, tokens)
<1>1. d.nodes \subseteq e.nodes
  OBVIOUS
<1>2. K \in 0..L /\ K \in Nat /\ L \in Nat
  BY KeyDepthIs
<1>3. \A n \in 1..L : g[n] = IF t[n] = tokens[n] THEN t[n] ELSE Wild
  BY DEF Generalise
<1> HIDE DEF L, K, g
<1>4. ASSUME NEW n \in 1..Len(keys), keys[n] # tokens[n]
      PROVE  Node(L, Append(SubSeq(keys, 1, n - 1), tokens[n])) \notin e.nodes
  <2> DEFINE u == SubSeq(keys, 1, n - 1)
             a == Node(L, Append(u, tokens[n]))
  <2>1. n \in 1..K /\ n \in 1..L /\ n - 1 \in 0..Len(keys)
    BY <1>2 DEF K, L
  <2>2. keys[n] = Wild /\ a \notin d.nodes
    BY <1>4 DEF Leads, L
  <2>3. u \in Seq(T) /\ Len(u) = n - 1 /\ \A i \in 1..n - 1 : u[i] = keys[i]
    BY <2>1, Prefix
  <2>4. tokens[n] \in T
    BY <2>1, ElementOfSeq DEF L
  <2> SUFFICES ASSUME a \in e.nodes PROVE FALSE
    OBVIOUS
  <2>5. a \in WildcardNodes(g) /\ Len(g) = L
    BY <2>2 DEF g, L
  <2>6. \A k \in Nat : Wilds(k) \in Seq(T) /\ Len(Wilds(k)) = k /\ \A i \in 1..k : Wilds(k)[i] = Wild
    BY DEF Wilds
  <2> HIDE DEF u
  <2> DEFINE v == Append(u, tokens[n])
  <2>7. v \in Seq(T) /\ Len(v) = n /\ v[n] = tokens[n] /\ \A i \in 1..n - 1 : v[i] = u[i]
    BY <2>1, <2>3, <2>4, AppendProperties
  <2>7a. a = Node(L, v)
    BY DEF v
  <2> HIDE DEF v, a
  <2>7b. ASSUME NEW k, a = Node(L, k) PROVE v = k
    <3>1. Node(L, v).keys = v /\ Node(L, k).keys = k
      BY NodeIs
    <3> QED  BY <2>7a, <2>7b, <3>1
  <2>8. ASSUME NEW k \in 0..K, a = Node(L, Wilds(k)) PROVE FALSE
    <3>1. v = Wilds(k)
      BY <2>7b, <2>8
    <3>2. k \in Nat
      BY <1>2
    <3>3. n = k
      BY <2>6, <2>7, <3>1, <3>2
    <3>4. tokens[n] = Wild
      <4>1. n \in 1..k /\ \A i \in 1..k : Wilds(k)[i] = Wild
        BY <2>1, <2>6, <3>2, <3>3
      <4> QED  BY <2>7, <3>1, <4>1
    <3> QED  BY <1>4, <2>2, <3>4
  <2>9. ASSUME NEW k \in 1..K, a = Node(L, Append(Wilds(k - 1), g[k])) PROVE FALSE
    <3> DEFINE w == Append(Wilds(k - 1), g[k])
    <3>1. v = w
      BY <2>7b, <2>9
    <3>2. k - 1 \in Nat /\ k \in 1..L /\ k \in Nat
      BY <1>2
    <3>3. g[k] \in T
      <4>1. tokens[k] \in T
        BY <3>2, ElementOfSeq DEF L
      <4> QED  BY <1>3, <3>2, <4>1
    <3>4. /\ Len(w) = k /\ w[k] = g[k]
          /\ \A i \in 1..k - 1 : w[i] = Wild
      <4>1. Wilds(k - 1) \in Seq(T) /\ Len(Wilds(k - 1)) = k - 1
            /\ \A i \in 1..k - 1 : Wilds(k - 1)[i] = Wild
        BY <2>6, <3>2
      <4> DEFINE z == Wilds(k - 1)
      <4> HIDE DEF z
      <4>2. /\ Len(Append(z, g[k])) = Len(z) + 1
            /\ \A i \in 1..Len(z) : Append(z, g[k])[i] = z[i]
            /\ Append(z, g[k])[Len(z) + 1] = g[k]
        BY <3>3, <4>1, AppendProperties DEF z
      <4>3. Len(z) = k - 1 /\ Len(z) + 1 = k
        BY <3>2, <4>1 DEF z
      <4> QED  BY <4>1, <4>2, <4>3 DEF z
    <3> HIDE DEF w
    <3>5. k = n
      BY <2>1, <2>7, <3>1, <3>4
    <3>6. g[n] = tokens[n] /\ tokens[n] # Wild
      BY <1>4, <2>2, <2>7, <3>1, <3>4, <3>5
    <3>7. t[n] = tokens[n]
      BY <1>3, <2>1, <3>6
    <3>8. \A j \in 1..n : keys[j] = Wild
      <4> SUFFICES ASSUME NEW j \in 1..n PROVE keys[j] = Wild
        OBVIOUS
      <4>1. CASE j = n
        BY <2>2, <4>1
      <4>2. CASE j # n
        <5>1. j \in 1..n - 1
          BY <2>1, <4>2
        <5> QED  BY <2>3, <2>7, <3>1, <3>4, <3>5, <5>1
      <4> QED  BY <4>1, <4>2
    <3>9. Node(L, Append(Wilds(n - 1), t[n])) \in d.nodes
      <4>1. n \in DOMAIN t
        BY <2>1 DEF L
      <4>2. Node(L, keys).keys = keys /\ Node(L, keys).len = L
        BY NodeIs
      <4> QED  BY <3>6, <3>7, <3>8, <4>1, <4>2 DEF Branches, L
    <3>10. Append(Wilds(n - 1), t[n]) = v
      BY <3>1, <3>5, <3>6, <3>7 DEF w
    <3> QED  BY <2>2, <3>9, <3>10 DEF a, v
  <2>10. \/ \E k \in 0..K : a = Node(L, Wilds(k))
         \/ \E k \in 1..K : a = Node(L, Append(Wilds(k - 1), g[k]))
    BY <2>5 DEF WildcardNodes, K
  <2> QED  BY <2>8, <2>9, <2>10
<1>5. ASSUME NEW n \in 1..Len(keys)
      PROVE  /\ Node(L, SubSeq(keys, 1, n)) \in e.nodes
             /\ \/ keys[n] = tokens[n]
                \/ /\ keys[n] = Wild
                   /\ Node(L, Append(SubSeq(keys, 1, n - 1), tokens[n])) \notin e.nodes
  BY <1>1, <1>4 DEF Leads, L
<1>6. Node(L, <<>>) \in e.nodes
  BY <1>1 DEF Leads, L
<1> QED  BY <1>5, <1>6 DEF Leads, L

LEMMA AbsorbFinds ==
  ASSUME NEW d, TreeInv(d), SearchInv(d), NEW tokens \in Seq(Tokens), tokens # <<>>,
         TreeSearch(d, tokens) # 0
  PROVE  LET e == Absorb(d, TreeSearch(d, tokens), tokens)
         IN SearchInv(e) /\ Found(e, tokens)
<1>1. PICK id : id = TreeSearch(d, tokens)
  OBVIOUS
<1>2. PICK e : e = Absorb(d, id, tokens)
  OBVIOUS
<1>3. PICK q : q = Descend(d, tokens)
  OBVIOUS
<1>4. PICK t : t = d.clusters[id].template
  OBVIOUS
<1>5. PICK g : g = Generalise(t, tokens)
  OBVIOUS
<1>6. PICK p : p = WildcardLeaf(g)
  OBVIOUS
<1> DEFINE L == Len(tokens)
<1>7. /\ id \in 1..Len(d.clusters) /\ Len(t) = L /\ id \in Leaf(d, q)
      /\ L \in Nat /\ L # 0 /\ DOMAIN tokens = 1..L
  BY <1>1, <1>3, <1>4, SearchFinds, SearchIsInLeaf, LenProperties
<1>8. t \in Seq(Tokens \cup {Wild}) /\ DOMAIN t = 1..L
  <2>1. d.clusters[id] \in Cluster
    BY <1>7, ElementOfSeq DEF TreeInv
  <2>2. t \in Seq(Tokens \cup {Wild})
    BY <1>4, <2>1 DEF Cluster
  <2> QED  BY <1>7, <2>2, LenProperties
<1>9. /\ Len(e.clusters) = Len(d.clusters) /\ Len(g) = L
      /\ \A j \in 1..Len(d.clusters) :
           e.clusters[j].template = IF j = id THEN g ELSE d.clusters[j].template
  <2>1. Len(Absorb(d, id, tokens).clusters) = Len(d.clusters)
    BY <1>7, AbsorbKeeps
  <2>2. HasTemplate(Absorb(d, id, tokens), d, id, Generalise(d.clusters[id].template, tokens))
    BY <1>7, AbsorbKeeps
  <2>3. Len(Generalise(d.clusters[id].template, tokens)) = Len(d.clusters[id].template)
    BY <1>7, AbsorbKeeps
  <2>4. Generalise(d.clusters[id].template, tokens) = g /\ Len(d.clusters[id].template) = L
    BY <1>4, <1>5, <1>7
  <2> QED  BY <1>2, <2>1, <2>2, <2>3, <2>4 DEF HasTemplate
<1>10. \/ e.nodes = d.nodes /\ e.leaf = d.leaf
       \/ /\ e.nodes = d.nodes \cup WildcardNodes(g)
          /\ DOMAIN e.leaf = DOMAIN d.leaf \cup {p}
          /\ \A r : Leaf(e, r) = IF r = p THEN Leaf(d, p) \cup {id} ELSE Leaf(d, r)
  BY <1>2, <1>4, <1>5, <1>6, <1>7, AbsorbTree
<1>11. q \in DOMAIN d.leaf /\ q # NoNode
  BY <1>7 DEF Leaf, LeafClusters, ToSet, SearchInv
<1>12. PICK keys \in Seq(Tokens \cup {Wild}) :
         Len(keys) = KeyDepth(L) /\ Leads(d, tokens, keys)
  BY <1>3, <1>11, LeadsFrom
<1>13. q = Node(L, keys)
  BY <1>3, <1>12, LeadsThere
<1>14. Branches(d.nodes, q, t)
  BY <1>4, <1>7, <1>11 DEF SearchInv
<1>15. Leads(e, tokens, keys)
  <2>1. tokens \in Seq(Tokens \cup {Wild})
    BY SeqMonotonic
  <2> QED  BY <1>5, <1>7, <1>8, <1>9, <1>10, <1>12, <1>13, <1>14, <2>1, StillLeads
<1>16. Descend(e, tokens) = q
  BY <1>12, <1>13, <1>15, LeadsThere
<1>17. id \in Leaf(e, q)
  BY <1>7, <1>10 DEF Leaf, LeafClusters
<1>18. g = [n \in 1..L |-> IF t[n] = tokens[n] THEN t[n] ELSE Wild]
  BY <1>5, <1>8 DEF Generalise
<1>19. Found(e, tokens)
  <2>1. Covers(g, tokens)
    BY <1>7, <1>9, <1>18 DEF Covers
  <2> QED  BY <1>7, <1>9, <1>16, <1>17, <2>1 DEF Found
<1>20. DOMAIN g = DOMAIN t /\ \A n \in DOMAIN t : g[n] \in {t[n], Wild}
  BY <1>8, <1>18
<1>21. p # NoNode /\ p.len = L /\ p.keys = Wilds(KeyDepth(L))
  <2>1. p.keys = Wilds(KeyDepth(L)) /\ p.len = L
    BY <1>6, <1>9, NodeIs DEF WildcardLeaf
  <2>2. NoNode.len = 0
    BY DEF NoNode, Node
  <2> QED  BY <1>7, <2>1, <2>2
<1>22. NoNode \notin DOMAIN e.leaf
  BY <1>10, <1>21 DEF SearchInv
<1>23. d.nodes \subseteq e.nodes
  BY <1>10
<1>24. ASSUME NEW r \in DOMAIN d.leaf, NEW j \in Leaf(d, r)
       PROVE  Branches(e.nodes, r, e.clusters[j].template)
  <2>1. j \in 1..Len(d.clusters)
    <3> DEFINE old == LeafClusters(d, r)
    <3>1. old \in Seq(1..Len(d.clusters))
      BY LeafIds
    <3> HIDE DEF old
    <3>2. PICK i \in DOMAIN old : j = old[i]
      BY DEF Leaf, ToSet, old
    <3> QED  BY <3>1, <3>2, LenProperties, ElementOfSeq
  <2>2. Branches(d.nodes, r, d.clusters[j].template)
    BY DEF SearchInv
  <2>3. CASE j = id
    BY <1>4, <1>9, <1>20, <1>23, <2>1, <2>2, <2>3, BranchesGrow
  <2>4. CASE j # id
    <3> DEFINE u == d.clusters[j].template
    <3>1. e.clusters[j].template = u
      BY <1>9, <2>1, <2>4
    <3> HIDE DEF u
    <3>2. Branches(d.nodes, r, u)
      BY <2>2 DEF u
    <3>3. Branches(e.nodes, r, u)
      BY <1>23, <3>2, BranchesGrow
    <3> QED  BY <3>1, <3>3
  <2> QED  BY <2>3, <2>4
<1>25. ASSUME e.nodes = d.nodes \cup WildcardNodes(g) PROVE Branches(e.nodes, p, g)
  <2> SUFFICES ASSUME NEW n \in 1..Len(p.keys)
               PROVE  Node(p.len, Append(Wilds(n - 1), g[n])) \in e.nodes
    BY DEF Branches
  <2>1. KeyDepth(L) \in Nat
    BY <1>7, KeyDepthIs
  <2>2. Len(Wilds(KeyDepth(L))) = KeyDepth(L)
    BY <2>1 DEF Wilds
  <2>3. n \in 1..KeyDepth(L)
    BY <1>21, <2>2
  <2> QED  BY <1>9, <1>21, <1>25, <2>3 DEF WildcardNodes
<1>26. ASSUME NEW r \in DOMAIN e.leaf, NEW j \in Leaf(e, r)
       PROVE  Branches(e.nodes, r, e.clusters[j].template)
  <2>1. Leaf(d, r) # {} => r \in DOMAIN d.leaf
    BY DEF Leaf, LeafClusters, ToSet
  <2>2. CASE j \in Leaf(d, r)
    BY <1>24, <2>1, <2>2
  <2>3. CASE j \notin Leaf(d, r)
    <3>1. /\ e.nodes = d.nodes \cup WildcardNodes(g)
          /\ Leaf(e, r) = IF r = p THEN Leaf(d, p) \cup {id} ELSE Leaf(d, r)
      BY <1>10, <2>3 DEF Leaf, LeafClusters
    <3>2. r = p /\ j = id
      BY <2>3, <3>1
    <3> QED  BY <1>7, <1>9, <1>25, <3>1, <3>2
  <2> QED  BY <2>2, <2>3
<1>27. SearchInv(e)
  BY <1>22, <1>26 DEF SearchInv
<1> QED  BY <1>1, <1>2, <1>19, <1>27

\* Whatever a search finds, after it has been added the message is found.
LEMMA MinedFinds ==
  ASSUME NEW d, TreeInv(d), SearchInv(d), NEW m \in Messages
  PROVE  /\ SearchInv(AddLogMessage(d, m))
         /\ Tokenize(m) # <<>> => Found(AddLogMessage(d, m), Tokenize(m))
<1>1. PICK tokens : tokens = Tokenize(m)
  OBVIOUS
<1>2. tokens \in Seq(Tokens)
  BY <1>1, TokensOfMessage
<1>3. PICK id : id = TreeSearch(d, tokens)
  OBVIOUS
<1>4. AddLogMessage(d, m) = IF tokens = <<>> THEN d
                            ELSE IF id = 0 THEN Insert(d, tokens)
                            ELSE Absorb(d, id, tokens)
  BY <1>1, <1>3 DEF AddLogMessage
<1>5. CASE tokens = <<>>
  BY <1>1, <1>4, <1>5
<1>6. CASE tokens # <<>> /\ id = 0
  BY <1>1, <1>2, <1>4, <1>6, InsertFinds
<1>7. CASE tokens # <<>> /\ id # 0
  BY <1>1, <1>2, <1>3, <1>4, <1>7, AbsorbFinds
<1> QED  BY <1>5, <1>6, <1>7

\* The parameters that are taken out of a message go back to where they were.
LEMMA FilledIsMessage ==
  ASSUME NEW S, NEW tokens \in Seq(S), NEW R, NEW t \in Seq(R), Covers(t, tokens)
  PROVE  Filled(t, Parameters(t, tokens)) = tokens
<1> DEFINE L == Len(tokens)
           P == {i \in DOMAIN tokens : t[i] \in Placeholders}
           x == Parameters(t, tokens)
<1>1. L \in Nat /\ DOMAIN tokens = 1..L /\ DOMAIN t = 1..L
  BY LenProperties DEF Covers
<1>2. x = Kept(tokens, P)
  BY DEF Parameters
<1>3. \A i \in 1..L : i \in P => x[Count(P, i)] = tokens[i]
  <2> HIDE DEF P, x
  <2> QED  BY <1>2, KeptProperties
<1>4. ASSUME NEW i \in 1..L
      PROVE  Count(P, i) = Cardinality({j \in 1..i : t[j] \in Placeholders})
  <2>1. {j \in 1..i : j \in P} = {j \in 1..i : t[j] \in Placeholders}
    BY <1>1
  <2> QED  BY <2>1 DEF Count
<1>5. ASSUME NEW i \in 1..L
      PROVE  tokens[i] = IF t[i] \in Placeholders
                         THEN x[Cardinality({j \in 1..i : t[j] \in Placeholders})]
                         ELSE t[i]
  <2>1. CASE t[i] \in Placeholders
    <3>1. i \in P
      BY <1>1, <2>1
    <3> HIDE DEF P, x
    <3> QED  BY <1>3, <1>4, <2>1, <3>1
  <2>2. CASE t[i] \notin Placeholders
    <3>1. t[i] \in {tokens[i], Wild} /\ t[i] # Wild
      BY <1>1, <2>2 DEF Covers, Placeholders
    <3> QED  BY <2>2, <3>1
  <2> QED  BY <2>1, <2>2
<1>6. Filled(t, x) = [i \in 1..L |->
                        IF t[i] \in Placeholders
                        THEN x[Cardinality({j \in 1..i : t[j] \in Placeholders})]
                        ELSE t[i]]
  BY <1>1 DEF Filled
<1>7. tokens = [i \in 1..L |-> tokens[i]]
  <2> HIDE DEF L
  <2> QED  BY <1>1
<1> QED  BY <1>5, <1>6, <1>7

-----------------------------------------------------------------------------
(* The miner by itself. *)

\* What a template stands for, it stands for when it has become more general.
LEMMA GeneraliseCovers ==
  ASSUME NEW t \in Seq(Tokens \cup {Wild}), NEW u, Len(t) = Len(u), NEW v, DOMAIN v = DOMAIN t,
         Covers(t, v)
  PROVE  Covers(Generalise(t, u), v)
<1>1. DOMAIN t = 1..Len(t) /\ Len(t) \in Nat
  BY LenProperties
<1>2. Generalise(t, u) = [i \in 1..Len(t) |-> IF t[i] = u[i] THEN t[i] ELSE Wild]
  BY <1>1 DEF Generalise
<1>3. Len(Generalise(t, u)) = Len(t)
  BY <1>1, <1>2
<1> QED  BY <1>1, <1>2, <1>3 DEF Covers

MinerInv ==
  /\ TreeInv(miner)
  /\ members \in Seq(SUBSET Messages)
  /\ Len(members) = Len(miner.clusters)
  /\ \A id \in 1..Len(members) : \A m \in members[id] :
       Covers(miner.clusters[id].template, Tokenize(m))

LEMMA MinerEmpty ==
  ASSUME miner = EmptyDrain, members = <<>>
  PROVE  MinerInv
<1>1. Len(<<>>) = 0 /\ <<>> \in Seq(SUBSET Messages)
  BY EmptySeq
<1>2. \A id \in 1..0 : FALSE
  OBVIOUS
<1> QED  BY <1>1, <1>2, EmptyTree DEF MinerInv

LEMMA MinerResets ==
  ASSUME miner' = EmptyDrain, members' = <<>>
  PROVE  MinerInv'
<1>1. Len(<<>>) = 0 /\ <<>> \in Seq(SUBSET Messages) /\ \A id \in 1..0 : FALSE
  BY EmptySeq
<1> QED  BY <1>1, EmptyTree DEF MinerInv

LEMMA MinerAdds ==
  ASSUME MinerInv, NEW m \in Messages, Add(m)
  PROVE  MinerInv'
<1> DEFINE id == ClusterOf(miner, m)
           tokens == Tokenize(m)
           n == Len(miner.clusters)
<1>1. /\ miner' = AddLogMessage(miner, m)
      /\ members' = IF tokens = <<>> THEN members
                    ELSE IF CreatesCluster(miner, m) THEN Append(members, {m})
                    ELSE [members EXCEPT ![id] = @ \cup {m}]
  BY DEF Add
<1>2. /\ TreeInv(miner) /\ members \in Seq(SUBSET Messages) /\ Len(members) = n /\ n \in Nat
      /\ miner.clusters \in Seq(Cluster)
  BY LenProperties DEF MinerInv, TreeInv
<1>3. TreeInv(miner')
  BY <1>1, <1>2, Mined
<1>4. CASE tokens = <<>>
  <2>1. miner' = miner /\ members' = members
    BY <1>1, <1>2, <1>4, Mined
  <2> QED  BY <2>1 DEF MinerInv
<1>5. CASE tokens # <<>> /\ CreatesCluster(miner, m)
  <2> DEFINE c == [template |-> tokens, size |-> 1]
             M == {m}
  <2>1. miner'.clusters = Append(miner.clusters, c) /\ members' = Append(members, M)
    BY <1>1, <1>2, <1>5, Mined
  <2>2. tokens \in Seq(Tokens)
    BY TokensOfMessage
  <2>3. c \in Cluster
    <3>1. tokens \in Seq(Tokens \cup {Wild})
      BY <2>2, SeqMonotonic
    <3> QED  BY <3>1 DEF Cluster
  <2>4. M \in SUBSET Messages
    OBVIOUS
  <2>5. c.template = tokens /\ \A k \in M : k = m
    OBVIOUS
  <2> HIDE DEF c, M
  <2>6. /\ members' \in Seq(SUBSET Messages) /\ Len(members') = n + 1
        /\ \A j \in 1..n : members'[j] = members[j]
        /\ members'[n + 1] = M
    BY <1>2, <2>1, <2>4, AppendProperties
  <2>7. /\ Len(miner'.clusters) = n + 1
        /\ \A j \in 1..n : miner'.clusters[j] = miner.clusters[j]
        /\ miner'.clusters[n + 1] = c
    BY <1>2, <2>1, <2>3, AppendProperties
  <2>8. Covers(c.template, Tokenize(m))
    BY <2>5 DEF Covers
  <2>9. ASSUME NEW j \in 1..n + 1, NEW k \in members'[j]
        PROVE  Covers(miner'.clusters[j].template, Tokenize(k))
    <3>1. CASE j = n + 1
      BY <2>5, <2>6, <2>7, <2>8, <3>1
    <3>2. CASE j # n + 1
      <4>1. j \in 1..n
        BY <1>2, <3>2
      <4> QED  BY <1>2, <2>6, <2>7, <4>1 DEF MinerInv
    <3> QED  BY <3>1, <3>2
  <2> QED  BY <1>3, <2>6, <2>7, <2>9 DEF MinerInv
<1>6. CASE tokens # <<>> /\ ~CreatesCluster(miner, m)
  <2> DEFINE t == miner.clusters[id].template
             M == members[id] \cup {m}
  <2>1. /\ id \in 1..n /\ Len(t) = Len(tokens)
        /\ miner' = Absorb(miner, id, tokens)
    BY <1>1, <1>2, <1>6, Mined
  <2>2. /\ Len(miner'.clusters) = n
        /\ \A j \in 1..n : miner'.clusters[j].template =
             IF j = id THEN Generalise(t, tokens) ELSE miner.clusters[j].template
    <3>1. PICK d : d = miner
      OBVIOUS
    <3>2. PICK i : i = id
      OBVIOUS
    <3>3. PICK u : u = tokens
      OBVIOUS
    <3>4. TreeInv(d) /\ i \in 1..Len(d.clusters)
      BY <1>2, <2>1, <3>1, <3>2
    <3>5. /\ Len(Absorb(d, i, u).clusters) = Len(d.clusters)
          /\ HasTemplate(Absorb(d, i, u), d, i, Generalise(d.clusters[i].template, u))
      BY <3>4, AbsorbKeeps
    <3> HIDE DEF id, tokens
    <3> QED  BY <2>1, <3>1, <3>2, <3>3, <3>5 DEF HasTemplate
  <2>3. members' = [members EXCEPT ![id] = M]
    BY <1>1, <1>6
  <2>4. members[id] \in SUBSET Messages /\ M \in SUBSET Messages
    BY <1>2, <2>1, ElementOfSeq
  <2>5. /\ members' \in Seq(SUBSET Messages) /\ Len(members') = n
        /\ \A j \in 1..n : members'[j] = IF j = id THEN M ELSE members[j]
    <3> HIDE DEF M, id, n
    <3> QED  BY <1>2, <2>1, <2>3, <2>4, ExceptSeq
  <2>6. t \in Seq(Tokens \cup {Wild}) /\ tokens \in Seq(Tokens)
    <3>1. miner.clusters[id] \in Cluster
      BY <1>2, <2>1, ElementOfSeq
    <3> QED  BY <3>1, TokensOfMessage DEF Cluster
  <2>7. Len(Generalise(t, tokens)) = Len(t)
    BY <1>2, <2>1, AbsorbKeeps
  <2>8. Covers(Generalise(t, tokens), tokens)
    <3> HIDE DEF t, tokens
    <3>1. DOMAIN t = 1..Len(t) /\ DOMAIN tokens = 1..Len(tokens)
      BY <2>6, LenProperties
    <3>2. \A i \in DOMAIN t : Generalise(t, tokens)[i] \in {tokens[i], Wild}
      BY DEF Generalise
    <3> QED  BY <2>1, <2>7, <3>1, <3>2 DEF Covers
  <2>9. ASSUME NEW k \in members[id] PROVE Covers(Generalise(t, tokens), Tokenize(k))
    <3>1. k \in Messages /\ Covers(t, Tokenize(k))
      BY <1>2, <2>1, <2>4 DEF MinerInv
    <3>2. Tokenize(k) \in Seq(Tokens) /\ Len(Tokenize(k)) = Len(t)
      BY <3>1, TokensOfMessage DEF Covers
    <3> HIDE DEF t, tokens
    <3>3. DOMAIN Tokenize(k) = DOMAIN t
      BY <2>6, <3>2, LenProperties
    <3> QED  BY <2>1, <2>6, <3>1, <3>3, GeneraliseCovers
  <2>10. ASSUME NEW j \in 1..n, NEW k \in members'[j]
         PROVE  Covers(miner'.clusters[j].template, Tokenize(k))
    <3>1. CASE j = id
      BY <2>2, <2>5, <2>8, <2>9, <3>1
    <3>2. CASE j # id
      BY <1>2, <2>2, <2>5, <3>2 DEF MinerInv
    <3> QED  BY <3>1, <3>2
  <2> QED  BY <1>3, <2>2, <2>5, <2>10 DEF MinerInv
<1> QED  BY <1>4, <1>5, <1>6

\* A template stands for every message that was ever counted to its cluster, however
\* often it has become more general and whatever leaf the search reached: for any
\* messages, similarity threshold and depth.
THEOREM TemplatesCoverMembersHolds == DrainSpec => []TemplatesCoverMembers
<1>1. DrainInit => MinerInv
  BY MinerEmpty DEF DrainInit
<1>2. MinerInv /\ [DrainNext]_drainVars => MinerInv'
  <2> SUFFICES ASSUME MinerInv, [DrainNext]_drainVars PROVE MinerInv'
    OBVIOUS
  <2>1. ASSUME NEW m \in Messages, Add(m) PROVE MinerInv'
    BY <2>1, MinerAdds
  <2>2. CASE ResetMiner
    BY <2>2, MinerResets DEF ResetMiner
  <2>3. CASE UNCHANGED drainVars
    BY <2>3 DEF drainVars, MinerInv
  <2> QED  BY <2>1, <2>2, <2>3 DEF DrainNext
<1>3. MinerInv => TemplatesCoverMembers
  <2> SUFFICES ASSUME MinerInv, NEW id \in DOMAIN miner.clusters, NEW m \in members[id]
               PROVE  Covers(miner.clusters[id].template, Tokenize(m))
    BY DEF TemplatesCoverMembers, Ids
  <2>1. DOMAIN miner.clusters = 1..Len(members)
    BY LenProperties DEF MinerInv, TreeInv
  <2> QED  BY <2>1 DEF MinerInv
<1> QED  BY <1>1, <1>2, <1>3, PTL DEF DrainSpec

\* The search is led to a cluster that covers the last message.
FindInv ==
  /\ TreeInv(miner)
  /\ SearchInv(miner)
  /\ last \in Messages \cup {<<>>}
  /\ last # <<>> /\ Tokenize(last) # <<>> => Found(miner, Tokenize(last))

LEMMA FindInvEmpty ==
  ASSUME miner = EmptyDrain, last = <<>>
  PROVE  FindInv
BY EmptyTree, SearchInvEmpty DEF FindInv

LEMMA FindInvStep == FindInv /\ [DrainNext]_drainVars => FindInv'
<1> SUFFICES ASSUME FindInv, [DrainNext]_drainVars PROVE FindInv'
  OBVIOUS
<1>1. ASSUME NEW m \in Messages, Add(m) PROVE FindInv'
  <2>1. miner' = AddLogMessage(miner, m) /\ last' = m /\ m \in Messages
    BY <1>1 DEF Add
  <2>2. TreeInv(miner) /\ SearchInv(miner)
    BY DEF FindInv
  <2>3. TreeInv(AddLogMessage(miner, m))
    BY <2>1, <2>2, Mined
  <2>4. /\ SearchInv(AddLogMessage(miner, m))
        /\ Tokenize(m) # <<>> => Found(AddLogMessage(miner, m), Tokenize(m))
    BY <2>1, <2>2, MinedFinds
  <2> QED  BY <2>1, <2>3, <2>4 DEF FindInv
<1>2. CASE ResetMiner
  <2>1. miner' = EmptyDrain /\ last' = <<>>
    BY <1>2 DEF ResetMiner
  <2> QED  BY <2>1, EmptyTree, SearchInvEmpty DEF FindInv
<1>3. CASE UNCHANGED drainVars
  BY <1>3 DEF drainVars, FindInv
<1> QED  BY <1>1, <1>2, <1>3 DEF DrainNext

\* A message that has just been added is recognised, with the parameters that give it
\* back: for any messages, threshold, depth and limit of a leaf.
THEOREM LastIsFoundHolds == DrainSpec => []LastIsFound
<1>1. DrainInit => FindInv
  BY FindInvEmpty DEF DrainInit
<1>2. FindInv => LastIsFound
  <2> SUFFICES ASSUME FindInv, last # <<>>, Tokenize(last) # <<>>
               PROVE  /\ Match(miner, last) # NoMatch
                      /\ Filled(Match(miner, last).template, Match(miner, last).parameters)
                           = Tokenize(last)
    BY DEF LastIsFound
  <2>1. PICK tokens : tokens = Tokenize(last)
    OBVIOUS
  <2>2. PICK id : id = TreeSearch(miner, tokens)
    OBVIOUS
  <2>3. PICK t : t = miner.clusters[id].template
    OBVIOUS
  <2>4. TreeInv(miner) /\ tokens \in Seq(Tokens) /\ tokens # <<>> /\ Found(miner, tokens)
    BY <2>1, TokensOfMessage DEF FindInv
  <2>5. id \in 1..Len(miner.clusters) /\ Covers(t, tokens)
    BY <2>2, <2>3, <2>4, FoundIsCovered
  <2>6. t \in Seq(Tokens \cup {Wild})
    <3>1. miner.clusters[id] \in Cluster
      BY <2>4, <2>5, LenProperties, ElementOfSeq DEF TreeInv
    <3> QED  BY <2>3, <3>1 DEF Cluster
  <2>7. id # 0
    BY <2>4, <2>5, LenProperties DEF TreeInv
  <2>8. Match(miner, last) = [cluster |-> id, template |-> t, parameters |-> Parameters(t, tokens)]
    BY <2>1, <2>2, <2>3, <2>4, <2>7 DEF Match
  <2>9. Match(miner, last) # NoMatch
    BY <2>7, <2>8 DEF NoMatch
  <2>10. Filled(t, Parameters(t, tokens)) = tokens
    BY <2>4, <2>5, <2>6, FilledIsMessage
  <2> QED  BY <2>1, <2>8, <2>9, <2>10
<1> QED  BY <1>1, <1>2, FindInvStep, PTL DEF DrainSpec

-----------------------------------------------------------------------------
(* Lines and rules. *)

LEMMA KeptAll ==
  ASSUME NEW S, NEW s \in Seq(S), NEW P, \A i \in 1..Len(s) : i \in P
  PROVE  Kept(s, P) = s
<1> DEFINE N == Len(s)
           k == Kept(s, P)
<1>1. N \in Nat /\ DOMAIN s = 1..N
  BY LenProperties
<1>2. ASSUME NEW i \in 0..N PROVE Count(P, i) = i
  <2>1. {j \in 1..i : j \in P} = 1..i
    BY <1>1
  <2>2. Cardinality(1..i) = i
    <3>1. i \in Nat /\ 1 \in Int /\ i \in Int
      BY <1>1
    <3> QED  BY <3>1, FS_Interval
  <2> QED  BY <2>1, <2>2 DEF Count
<1>3. k \in Seq(S) /\ Len(k) = Count(P, N) /\ \A i \in 1..N : k[Count(P, i)] = s[i]
  BY KeptProperties
<1>4. Len(k) = N /\ \A i \in 1..N : k[i] = s[i]
  <2>1. N \in 0..N /\ \A i \in 1..N : i \in 0..N
    BY <1>1
  <2> HIDE DEF N, k
  <2> QED  BY <1>2, <1>3, <2>1
<1> HIDE DEF N, k
<1>5. DOMAIN k = 1..N
  BY <1>3, <1>4, LenProperties
<1>6. k = [i \in 1..N |-> k[i]] /\ s = [i \in 1..N |-> s[i]]
  BY <1>1, <1>3, <1>5
<1>7. k = s
  BY <1>4, <1>6
<1> QED  BY <1>7 DEF k

\* The miner and the regular expression see the words of a line without delimiters.
LEMMA PlainLine ==
  ASSUME NEW m \in Messages, ~HasDelimiter(m)
  PROVE  /\ DOMAIN m = 1..Len(m) /\ Len(m) \in Nat
         /\ Tokenize(m) = [i \in 1..Len(m) |-> IF m[i] \in Masked THEN Mask ELSE m[i]]
         /\ Fields(m) = m
<1> DEFINE N == Len(m)
<1>1. N \in Nat /\ DOMAIN m = 1..N /\ m \in Seq(ToSet(m)) /\ \A i \in 1..N : m[i] \in ToSet(m)
  <2>1. m \in Seq(ToSet(m))
    BY DrainAssumption
  <2> QED  BY <2>1, LenProperties, ElementOfSeq
<1>2. \A i \in 1..N : m[i] \notin Delimiters
  BY <1>1 DEF HasDelimiter
<1>3. Tokenize(m) = [i \in 1..N |-> IF m[i] \in Masked THEN Mask ELSE m[i]]
  <2> DEFINE masked == [i \in DOMAIN m |-> IF m[i] \in Masked THEN Mask ELSE m[i]]
             S == ToSet(m) \cup {Mask}
             P == {i \in DOMAIN m : m[i] \notin Delimiters}
  <2>1. masked \in Seq(S) /\ Len(masked) = N
    BY <1>1
  <2>2. \A i \in 1..N : i \in P
    BY <1>1, <1>2
  <2>3. Kept(masked, P) = masked
    <3> HIDE DEF masked, S, P, N
    <3> QED  BY <2>1, <2>2, KeptAll
  <2>4. Tokenize(m) = Kept(masked, P)
    BY DEF Tokenize
  <2> QED  BY <1>1, <2>3, <2>4
<1>4. Fields(m) = m
  <2> DEFINE glued(i) == i \in DOMAIN m /\ m[i] \in Delimiters
             positions == [i \in DOMAIN m |-> i]
             P == {i \in DOMAIN m : i = 1 \/ ~(glued(i - 1) \/ glued(i))}
             starts == Kept(positions, P)
  <2>1. \A i : ~glued(i)
    BY <1>1, <1>2
  <2>2. positions \in Seq(Nat) /\ Len(positions) = N
    BY <1>1
  <2>3. \A i \in 1..N : i \in P
    BY <1>1, <2>1
  <2>4. starts = positions
    <3> HIDE DEF positions, P, N
    <3> QED  BY <2>2, <2>3, KeptAll
  <2>5. Fields(m) = [k \in DOMAIN starts |->
                       IF glued(starts[k]) \/ glued(starts[k] + 1) THEN Joined ELSE m[starts[k]]]
    BY DEF Fields
  <2>6. Fields(m) = [k \in DOMAIN starts |-> m[starts[k]]]
    <3> HIDE DEF starts, glued
    <3> QED  BY <2>1, <2>5
  <2>7. Fields(m) = [k \in 1..N |-> m[k]]
    <3> HIDE DEF starts
    <3> QED  BY <1>1, <2>4, <2>6
  <2>8. m = [k \in 1..N |-> m[k]]
    BY <1>1
  <2> QED  BY <2>7, <2>8
<1> QED  BY <1>1, <1>3, <1>4

\* A rule matches the lines without delimiters, and so without white space at an edge, that
\* its template covers.
LEMMA CoveredIsMatched ==
  ASSUME NEW m \in Messages, ~HasDelimiter(m), NEW R, NEW t \in Seq(R), Covers(t, Tokenize(m))
  PROVE  RuleMatches(t, m)
<1>1. PICK u : u = Tokenize(m)
  OBVIOUS
<1>2. /\ Len(m) \in Nat /\ u = [i \in 1..Len(m) |-> IF m[i] \in Masked THEN Mask ELSE m[i]]
      /\ Fields(m) = m
  BY <1>1, PlainLine
<1>3. DOMAIN u = 1..Len(m) /\ Len(u) = Len(m) /\ \A i \in 1..Len(m) : u[i] \in {m[i], Mask}
  BY <1>2
<1>4. Len(t) = Len(m) /\ \A i \in 1..Len(m) : t[i] \in {u[i], Wild}
  BY <1>1, <1>3 DEF Covers
<1>5. DOMAIN t = 1..Len(m)
  BY <1>4, LenProperties
<1>6. \A i \in 1..Len(m) : t[i] \in Placeholders \cup {m[i]}
  BY <1>3, <1>4 DEF Placeholders
<1>7. ~HasEdge(m)
  <2>1. DOMAIN m = 1..Len(m) /\ \A i \in DOMAIN m : m[i] \notin Delimiters
    BY PlainLine DEF HasDelimiter
  <2>2. m # <<>> => 1 \in DOMAIN m /\ Len(m) \in DOMAIN m
    <3>1. m \in Seq(ToSet(m))
      BY DrainAssumption
    <3>2. m # <<>> => Len(m) # 0
      BY <3>1, EmptySeq
    <3> QED  BY <1>2, <2>1, <3>2
  <2> QED  BY <2>1, <2>2, LearnAssumption DEF HasEdge
<1> QED  BY <1>2, <1>4, <1>5, <1>6, <1>7 DEF RuleMatches

LEMMA Share ==
  ASSUME NEW a \in Nat, NEW c \in Nat, NEW d \in Nat \ {0}, c <= d
  PROVE  (a * c) \div d <= a
OBVIOUS

\* Whatever clusters are taken, they count no more messages than there are lines of which
\* one went to them.  A line is counted by a cluster each time that it comes, though not
\* by the same one each time.
CountsLines(sizes, of, ls, n) ==
  \A I \in SUBSET (1..n) :
    SumFunctionOnSet(sizes, I) <= SumFunctionOnSet(ls, UNION {of[id] : id \in I})

\* Counts and lines of the right types, for n clusters.
Tally(sizes, of, ls, n) ==
  /\ n \in Nat
  /\ \A id \in 1..n : sizes[id] \in Nat /\ of[id] \in SUBSET Messages
  /\ \A m \in Messages : ls[m] \in Nat

LEMMA TallySums ==
  ASSUME NEW sizes, NEW of, NEW ls, NEW n, Tally(sizes, of, ls, n)
  PROVE  /\ Summable(ls, Messages) /\ Summable(sizes, 1..n)
         /\ \A I \in SUBSET (1..n) : Summable(sizes, I) /\ UNION {of[id] : id \in I} \in SUBSET Messages
<1>1. IsFiniteSet(1..n)
  <2>1. 1 \in Int /\ n \in Int
    BY DEF Tally
  <2> QED  BY <2>1, FS_Interval
<1>2. Summable(ls, Messages)
  BY LearnAssumption DEF Summable, Tally
<1>3. Summable(sizes, 1..n)
  BY <1>1 DEF Summable, Tally
<1>4. ASSUME NEW I \in SUBSET (1..n)
      PROVE  Summable(sizes, I) /\ UNION {of[id] : id \in I} \in SUBSET Messages
  <2>1. IsFiniteSet(I)
    BY <1>1, FS_Subset
  <2> QED  BY <2>1 DEF Summable, Tally
<1> QED  BY <1>2, <1>3, <1>4

\* ls2 has one line m more than ls.
MoreBy(ls2, ls, m) ==
  \A k \in Messages : ls2[k] = IF k = m THEN ls[k] + 1 ELSE ls[k]

LEMMA LinesGrow ==
  ASSUME NEW ls, NEW ls2, Summable(ls, Messages), NEW m \in Messages, MoreBy(ls2, ls, m),
         NEW U \in SUBSET Messages
  PROVE  /\ Summable(ls2, Messages)
         /\ SumFunctionOnSet(ls2, U) = SumFunctionOnSet(ls, U) + (IF m \in U THEN 1 ELSE 0)
<1>1. Summable(ls2, Messages)
  BY DEF Summable, MoreBy
<1>2. Summable(ls, U) /\ SumFunctionOnSet(ls, U) \in Nat
  <2>1. SumFunctionOnSet(ls, U) \in Nat
    BY SumFacts
  <2> QED  BY <2>1, FS_Subset DEF Summable
<1>3. CASE m \in U
  <2>1. ls2[m] = ls[m] + 1 /\ \A y \in U : y # m => ls2[y] = ls[y]
    BY DEF MoreBy
  <2> QED  BY <1>1, <1>2, <1>3, <2>1, SumOneMore
<1>4. CASE m \notin U
  <2>1. \A y \in U : ls2[y] = ls[y]
    BY <1>4 DEF MoreBy
  <2>2. SumFunctionOnSet(ls2, U) = SumFunctionOnSet(ls, U)
    BY <1>2, <2>1, SumOfSame
  <2> QED  BY <1>1, <1>2, <1>4, <2>2
<1> QED  BY <1>3, <1>4

\* A line without tokens is counted nowhere.
LEMMA LineIsIgnored ==
  ASSUME NEW sizes, NEW of, NEW ls, NEW n, Tally(sizes, of, ls, n), CountsLines(sizes, of, ls, n),
         NEW ls2, NEW m \in Messages, MoreBy(ls2, ls, m)
  PROVE  CountsLines(sizes, of, ls2, n)
<1> SUFFICES ASSUME NEW I \in SUBSET (1..n)
             PROVE  SumFunctionOnSet(sizes, I) <= SumFunctionOnSet(ls2, UNION {of[id] : id \in I})
  BY DEF CountsLines
<1>1. PICK U : U = UNION {of[id] : id \in I}
  OBVIOUS
<1>2. Summable(ls, Messages) /\ U \in SUBSET Messages /\ Summable(sizes, I)
  BY <1>1, TallySums
<1>3. SumFunctionOnSet(ls2, U) = SumFunctionOnSet(ls, U) + (IF m \in U THEN 1 ELSE 0)
  BY <1>2, LinesGrow
<1>4. SumFunctionOnSet(ls, U) \in Nat
  BY <1>2, SumFacts
<1>5. SumFunctionOnSet(sizes, I) \in Nat
  <2>1. I \in SUBSET I
    OBVIOUS
  <2> QED  BY <1>2, <2>1, SumFacts
<1>6. SumFunctionOnSet(sizes, I) <= SumFunctionOnSet(ls, U)
  BY <1>1 DEF CountsLines
<1> QED  BY <1>1, <1>3, <1>4, <1>5, <1>6

\* Cluster id, which may be new, counts line m.
CountedBy(sizes2, of2, n2, sizes, of, n, id, m) ==
  /\ id \in 1..n2 /\ m \in of2[id]
  /\ \A j \in 1..n2 : j # id => j \in 1..n /\ sizes2[j] = sizes[j] /\ of2[j] = of[j]
  /\ IF id \in 1..n THEN sizes2[id] = sizes[id] + 1 /\ of[id] \subseteq of2[id]
     ELSE sizes2[id] = 1

LEMMA LineIsCounted ==
  ASSUME NEW sizes, NEW of, NEW ls, NEW n, Tally(sizes, of, ls, n), CountsLines(sizes, of, ls, n),
         NEW sizes2, NEW of2, NEW ls2, NEW n2, Tally(sizes2, of2, ls2, n2),
         NEW m \in Messages, MoreBy(ls2, ls, m),
         NEW id, CountedBy(sizes2, of2, n2, sizes, of, n, id, m)
  PROVE  CountsLines(sizes2, of2, ls2, n2)
<1> SUFFICES ASSUME NEW I \in SUBSET (1..n2)
             PROVE  SumFunctionOnSet(sizes2, I) <= SumFunctionOnSet(ls2, UNION {of2[j] : j \in I})
  BY DEF CountsLines
<1> DEFINE old == I \cap (1..n)
<1>1. PICK U : U = UNION {of2[j] : j \in I}
  OBVIOUS
<1>2. PICK V : V = UNION {of[j] : j \in old}
  OBVIOUS
<1>3. /\ Summable(ls, Messages) /\ Summable(sizes, old) /\ V \in SUBSET Messages
      /\ Summable(sizes2, I) /\ U \in SUBSET Messages
  <2>1. old \in SUBSET (1..n)
    OBVIOUS
  <2> HIDE DEF old
  <2> QED  BY <1>1, <1>2, <2>1, TallySums
<1>4. /\ SumFunctionOnSet(ls, U) \in Nat /\ SumFunctionOnSet(ls, V) \in Nat
      /\ SumFunctionOnSet(sizes, old) \in Nat
      /\ SumFunctionOnSet(ls2, U) = SumFunctionOnSet(ls, U) + (IF m \in U THEN 1 ELSE 0)
  <2>1. old \in SUBSET old
    OBVIOUS
  <2> HIDE DEF old
  <2> QED  BY <1>3, <2>1, SumFacts, LinesGrow
<1>5. SumFunctionOnSet(sizes, old) <= SumFunctionOnSet(ls, V)
  BY <1>2 DEF CountsLines
<1>6. V \subseteq U
  <2> SUFFICES ASSUME NEW j \in old PROVE of[j] \subseteq of2[j]
    BY <1>1, <1>2
  <2> QED  BY DEF CountedBy
<1>7. SumFunctionOnSet(ls, V) <= SumFunctionOnSet(ls, U)
  BY <1>3, <1>6, SumOverMore
<1>8. CASE id \notin I
  <2>1. old = I /\ \A j \in I : sizes2[j] = sizes[j]
    BY <1>8 DEF CountedBy
  <2>2. SumFunctionOnSet(sizes2, I) = SumFunctionOnSet(sizes, I)
    BY <1>3, <2>1, SumOfSame
  <2> HIDE DEF old
  <2> QED  BY <1>1, <1>4, <1>5, <1>7, <2>1, <2>2
<1>9. CASE id \in I
  <2>1. m \in U
    BY <1>1, <1>9 DEF CountedBy
  <2>2. SumFunctionOnSet(sizes2, I) = SumFunctionOnSet(sizes, old) + 1
    <3>1. CASE id \in 1..n
      <4>1. /\ old = I /\ sizes2[id] = sizes[id] + 1
            /\ \A j \in I : j # id => sizes2[j] = sizes[j]
        BY <3>1 DEF CountedBy
      <4>2. Summable(sizes, I)
        BY <1>3, <4>1
      <4>3. SumFunctionOnSet(sizes2, I) = SumFunctionOnSet(sizes, I) + 1
        BY <1>9, <4>1, <4>2, SumOneMore
      <4> QED  BY <4>1, <4>3
    <3>2. CASE id \notin 1..n
      <4>1. /\ old = I \ {id} /\ sizes2[id] = 1
            /\ \A j \in old : sizes2[j] = sizes[j]
        BY <3>2 DEF CountedBy
      <4>2. SumFunctionOnSet(sizes2, I) = sizes2[id] + SumFunctionOnSet(sizes2, I \ {id})
        <5>1. I \in SUBSET I
          OBVIOUS
        <5> QED  BY <1>3, <1>9, <5>1, SumFacts
      <4> HIDE DEF old
      <4>3. SumFunctionOnSet(sizes2, old) = SumFunctionOnSet(sizes, old)
        BY <1>3, <4>1, SumOfSame
      <4> QED  BY <1>4, <4>1, <4>2, <4>3
    <3> QED  BY <3>1, <3>2
  <2> HIDE DEF old
  <2> QED  BY <1>1, <1>4, <1>5, <1>7, <2>1, <2>2
<1> QED  BY <1>8, <1>9

\* Sizes, of any miner.
SizesOf(d) == [id \in DOMAIN d.clusters |-> d.clusters[id].size]

LEMMA SizesAreTally ==
  ASSUME NEW d, TreeInv(d), NEW ms \in Seq(SUBSET Messages), Len(ms) = Len(d.clusters),
         NEW ls \in [Messages -> Nat]
  PROVE  /\ Tally(SizesOf(d), ms, ls, Len(ms))
         /\ DOMAIN SizesOf(d) = 1..Len(ms)
         /\ \A id \in 1..Len(ms) : SizesOf(d)[id] = d.clusters[id].size
<1>1. d.clusters \in Seq(Cluster)
  BY DEF TreeInv
<1>2. DOMAIN d.clusters = 1..Len(ms) /\ Len(ms) \in Nat
      /\ \A id \in 1..Len(ms) : d.clusters[id] \in Cluster /\ ms[id] \in SUBSET Messages
  BY <1>1, LenProperties, ElementOfSeq
<1>3. \A id \in 1..Len(ms) : d.clusters[id].size \in Nat
  BY <1>2 DEF Cluster
<1> QED  BY <1>2, <1>3 DEF Tally, SizesOf

LEMMA AddCounts ==
  ASSUME NEW d, TreeInv(d), NEW m \in Messages, Tokenize(m) # <<>>,
         NEW ms \in Seq(SUBSET Messages), Len(ms) = Len(d.clusters),
         NEW e, e = AddLogMessage(d, m),
         NEW ms2, ms2 = IF CreatesCluster(d, m) THEN Append(ms, {m})
                        ELSE [ms EXCEPT ![ClusterOf(d, m)] = @ \cup {m}]
  PROVE  CountedBy(SizesOf(e), ms2, Len(ms2), SizesOf(d), ms, Len(ms), ClusterOf(d, m), m)
<1>1. PICK id : id = ClusterOf(d, m)
  OBVIOUS
<1> DEFINE n == Len(ms)
<1>2. d.clusters \in Seq(Cluster) /\ n \in Nat /\ Len(d.clusters) = n /\ DOMAIN d.clusters = 1..n
  BY LenProperties DEF TreeInv
<1>3. TreeInv(e) /\ e.clusters \in Seq(Cluster) /\ DOMAIN e.clusters = 1..Len(e.clusters)
  <2>1. TreeInv(e)
    BY Mined
  <2> QED  BY <2>1, LenProperties DEF TreeInv
<1>4. CASE CreatesCluster(d, m)
  <2> DEFINE c == [template |-> Tokenize(m), size |-> 1]
             M == {m}
  <2>1. id = n + 1 /\ e.clusters = Append(d.clusters, c) /\ ms2 = Append(ms, M)
    BY <1>1, <1>2, <1>4, Mined
  <2>2. c \in Cluster
    <3>1. Tokenize(m) \in Seq(Tokens \cup {Wild})
      BY TokensOfMessage, SeqMonotonic
    <3> QED  BY <3>1 DEF Cluster
  <2>3. M \in SUBSET Messages /\ m \in M /\ c.size = 1
    OBVIOUS
  <2> HIDE DEF c, M, n
  <2>4. /\ Len(ms2) = n + 1 /\ ms2[n + 1] = M
        /\ \A j \in 1..n : ms2[j] = ms[j]
    BY <2>1, <2>3, AppendProperties DEF n
  <2>5. /\ Len(e.clusters) = n + 1 /\ e.clusters[n + 1] = c
        /\ \A j \in 1..n : e.clusters[j] = d.clusters[j]
    BY <1>2, <2>1, <2>2, AppendProperties
  <2>6. \A j \in 1..n + 1 : j # n + 1 => j \in 1..n
    BY <1>2
  <2>7. /\ \A j \in 1..n : SizesOf(e)[j] = e.clusters[j].size /\ SizesOf(d)[j] = d.clusters[j].size
        /\ SizesOf(e)[n + 1] = 1 /\ n + 1 \in 1..n + 1 /\ n + 1 \notin 1..n
    <3>1. n + 1 \in 1..n + 1 /\ n + 1 \notin 1..n /\ \A j \in 1..n : j \in 1..n + 1
      BY <1>2
    <3> QED  BY <1>2, <1>3, <2>3, <2>5, <3>1 DEF SizesOf
  <2>8. \A j \in 1..n + 1 : j # n + 1 => j \in 1..n /\ SizesOf(e)[j] = SizesOf(d)[j] /\ ms2[j] = ms[j]
    <3> SUFFICES ASSUME NEW j \in 1..n + 1, j # n + 1
                 PROVE  j \in 1..n /\ SizesOf(e)[j] = SizesOf(d)[j] /\ ms2[j] = ms[j]
      OBVIOUS
    <3>1. j \in 1..n
      BY <2>6
    <3>2. e.clusters[j] = d.clusters[j] /\ ms2[j] = ms[j]
      BY <2>4, <2>5, <3>1
    <3>3. SizesOf(e)[j] = e.clusters[j].size /\ SizesOf(d)[j] = d.clusters[j].size
      BY <2>7, <3>1
    <3> QED  BY <3>1, <3>2, <3>3
  <2>9. CountedBy(SizesOf(e), ms2, n + 1, SizesOf(d), ms, n, n + 1, m)
    BY <2>3, <2>4, <2>7, <2>8 DEF CountedBy
  <2> QED  BY <1>1, <2>1, <2>4, <2>9 DEF n
<1>5. CASE ~CreatesCluster(d, m)
  <2> DEFINE M == ms[id] \cup {m}
  <2>1. id \in 1..n /\ e = Absorb(d, id, Tokenize(m)) /\ ms2 = [ms EXCEPT ![id] = M]
    <3>1. id \in 1..n /\ e = Absorb(d, id, Tokenize(m))
      <4> HIDE DEF n
      <4> QED  BY <1>1, <1>2, <1>5, Mined
    <3>2. ms2 = [ms EXCEPT ![id] = M]
      BY <1>1, <1>5
    <3> QED  BY <3>1, <3>2
  <2>2. Len(e.clusters) = n /\ HasSize(e, d, id, d.clusters[id].size + 1)
    <3>1. PICK u : u = Tokenize(m)
      OBVIOUS
    <3>2. id \in 1..Len(d.clusters)
      BY <1>2, <2>1
    <3>3. /\ Len(Absorb(d, id, u).clusters) = Len(d.clusters)
          /\ HasSize(Absorb(d, id, u), d, id, d.clusters[id].size + 1)
      BY <3>2, AbsorbKeeps
    <3>4. e = Absorb(d, id, u)
      BY <2>1, <3>1
    <3> QED  BY ONLY <1>2, <3>3, <3>4
  <2>3. M \in SUBSET Messages /\ m \in M /\ ms[id] \subseteq M
    <3>1. ms[id] \in SUBSET Messages
      BY <2>1, ElementOfSeq
    <3> QED  BY <3>1
  <2> HIDE DEF M, n
  <2>4. Len(ms2) = n /\ \A j \in 1..n : ms2[j] = IF j = id THEN M ELSE ms[j]
    <3>1. Len(ms) = n
      BY DEF n
    <3>2. /\ Len([ms EXCEPT ![id] = M]) = Len(ms)
          /\ \A j \in 1..Len(ms) : [ms EXCEPT ![id] = M][j] = IF j = id THEN M ELSE ms[j]
      BY <2>1, <2>3, <3>1, ExceptSeq
    <3> QED  BY <2>1, <3>1, <3>2
  <2>5. \A j \in 1..n : SizesOf(e)[j] = e.clusters[j].size /\ SizesOf(d)[j] = d.clusters[j].size
    BY <1>2, <1>3, <2>2 DEF SizesOf
  <2>6. \A j \in 1..n : SizesOf(e)[j] = IF j = id THEN SizesOf(d)[id] + 1 ELSE SizesOf(d)[j]
    BY <1>2, <2>1, <2>2, <2>5 DEF HasSize
  <2>7. CountedBy(SizesOf(e), ms2, n, SizesOf(d), ms, n, id, m)
    BY <2>1, <2>3, <2>4, <2>6 DEF CountedBy
  <2> QED  BY <1>1, <2>4, <2>7 DEF n
<1> QED  BY <1>4, <1>5

LearnInv ==
  /\ MinerInv
  /\ lines \in [Messages -> Nat]
  /\ CountsLines(Sizes, members, lines, Len(members))

LEMMA NothingCounted ==
  ASSUME NEW sizes, NEW of, NEW ls, Tally(sizes, of, ls, 0)
  PROVE  CountsLines(sizes, of, ls, 0)
<1> SUFFICES ASSUME NEW I \in SUBSET (1..0)
             PROVE  SumFunctionOnSet(sizes, I) <= SumFunctionOnSet(ls, UNION {of[id] : id \in I})
  BY DEF CountsLines
<1>1. I = {}
  OBVIOUS
<1>2. UNION {of[id] : id \in {}} = {}
  OBVIOUS
<1>3. SumFunctionOnSet(sizes, {}) = 0 /\ SumFunctionOnSet(ls, {}) = 0
  BY TallySums, SumFacts
<1> QED  BY <1>1, <1>2, <1>3

LEMMA NothingRead ==
  ASSUME NEW d, d = EmptyDrain, NEW ls, ls = NoLines
  PROVE  ls \in [Messages -> Nat] /\ CountsLines(SizesOf(d), <<>>, ls, 0)
<1>1. ls \in [Messages -> Nat]
  BY DEF NoLines
<1>2. TreeInv(d) /\ d.clusters = <<>> /\ <<>> \in Seq(SUBSET Messages) /\ Len(<<>>) = 0
  BY EmptyTree, EmptySeq
<1>3. Tally(SizesOf(d), <<>>, ls, 0)
  BY <1>1, <1>2, SizesAreTally
<1> QED  BY <1>1, <1>3, NothingCounted

LEMMA LearnInvInit == LearnInit => LearnInv
<1> SUFFICES ASSUME LearnInit PROVE LearnInv
  OBVIOUS
<1>1. miner = EmptyDrain /\ members = <<>> /\ lines = NoLines
  BY DEF LearnInit, DrainInit
<1>2. MinerInv
  BY <1>1, MinerEmpty
<1>3. Sizes = SizesOf(miner) /\ Len(members) = 0
  BY <1>1, EmptySeq DEF Sizes, SizesOf
<1> QED  BY <1>1, <1>2, <1>3, NothingRead DEF LearnInv

LEMMA LearnReads ==
  ASSUME LearnInv, NEW m \in Messages, ReadLine(m)
  PROVE  LearnInv'
<1>1. Add(m) /\ lines' = [lines EXCEPT ![m] = @ + 1]
  BY DEF ReadLine
<1>2. MinerInv /\ MinerInv'
  BY <1>1, MinerAdds DEF LearnInv
<1>3. PICK d : d = miner
  OBVIOUS
<1>4. PICK e : e = miner'
  OBVIOUS
<1>5. PICK ms : ms = members
  OBVIOUS
<1>6. PICK ms2 : ms2 = members'
  OBVIOUS
<1>7. PICK ls : ls = lines
  OBVIOUS
<1>8. PICK ls2 : ls2 = lines'
  OBVIOUS
<1>9. /\ TreeInv(d) /\ ms \in Seq(SUBSET Messages) /\ Len(ms) = Len(d.clusters)
      /\ TreeInv(e) /\ ms2 \in Seq(SUBSET Messages) /\ Len(ms2) = Len(e.clusters)
  BY <1>2, <1>3, <1>4, <1>5, <1>6 DEF MinerInv
<1>10. ls \in [Messages -> Nat] /\ ls2 \in [Messages -> Nat] /\ MoreBy(ls2, ls, m)
  BY <1>1, <1>7, <1>8 DEF LearnInv, MoreBy
<1>11. Tally(SizesOf(d), ms, ls, Len(ms)) /\ Tally(SizesOf(e), ms2, ls2, Len(ms2))
  BY <1>9, <1>10, SizesAreTally
<1>12. CountsLines(SizesOf(d), ms, ls, Len(ms))
  BY <1>3, <1>5, <1>7 DEF LearnInv, Sizes, SizesOf
<1>13. /\ e = AddLogMessage(d, m)
       /\ ms2 = IF Tokenize(m) = <<>> THEN ms
                ELSE IF CreatesCluster(d, m) THEN Append(ms, {m})
                ELSE [ms EXCEPT ![ClusterOf(d, m)] = @ \cup {m}]
  BY <1>1, <1>3, <1>4, <1>5, <1>6 DEF Add
<1>14. CountsLines(SizesOf(e), ms2, ls2, Len(ms2))
  <2>1. CASE Tokenize(m) = <<>>
    <3>1. e = d /\ ms2 = ms
      BY <1>9, <1>13, <2>1, Mined
    <3> QED  BY <1>10, <1>11, <1>12, <3>1, LineIsIgnored
  <2>2. CASE Tokenize(m) # <<>>
    <3>1. CountedBy(SizesOf(e), ms2, Len(ms2), SizesOf(d), ms, Len(ms), ClusterOf(d, m), m)
      BY <1>9, <1>13, <2>2, AddCounts
    <3> QED  BY <1>10, <1>11, <1>12, <3>1, LineIsCounted
  <2> QED  BY <2>1, <2>2
<1>15. Sizes' = SizesOf(e)
  BY <1>4 DEF Sizes, SizesOf
<1> QED  BY <1>2, <1>6, <1>8, <1>10, <1>14, <1>15 DEF LearnInv

LearnStep == (\E m \in Messages : ReadLine(m)) \/ LearnEnds

LEMMA LearnInvStep == LearnInv /\ [LearnStep]_learnVars => LearnInv'
<1> SUFFICES ASSUME LearnInv, [LearnStep]_learnVars PROVE LearnInv'
  OBVIOUS
<1>1. ASSUME NEW m \in Messages, ReadLine(m) PROVE LearnInv'
  BY <1>1, LearnReads
<1>2. CASE LearnEnds
  <2>1. miner' = EmptyDrain /\ members' = <<>> /\ lines' = NoLines /\ ResetMiner
    BY <1>2 DEF LearnEnds, ResetMiner
  <2>2. MinerInv'
    BY <2>1, MinerResets
  <2>3. PICK d : d = miner'
    OBVIOUS
  <2>4. PICK ls : ls = lines'
    OBVIOUS
  <2>5. Sizes' = SizesOf(d) /\ Len(members') = 0
    BY <2>1, <2>3, EmptySeq DEF Sizes, SizesOf
  <2>6. NoLines' = NoLines
    BY DEF NoLines
  <2>7. ls \in [Messages -> Nat] /\ CountsLines(SizesOf(d), <<>>, ls, 0)
    BY <2>1, <2>3, <2>4, NothingRead
  <2> QED  BY <2>1, <2>2, <2>4, <2>5, <2>7 DEF LearnInv
<1>3. CASE UNCHANGED learnVars
  BY <1>3 DEF learnVars, drainVars, LearnInv, MinerInv, Sizes
<1> QED  BY <1>1, <1>2, <1>3 DEF LearnStep

\* The sum along a sequence without repetitions is that over the set of its elements.
LEMMA SumAlong ==
  ASSUME NEW D, NEW f, Summable(f, D), NEW n \in Nat, NEW s,
         \A i \in 1..n : s[i] \in D, \A i, j \in 1..n : s[i] = s[j] => i = j
  PROVE  /\ {s[i] : i \in 1..n} \in SUBSET D
         /\ SumFunction([i \in 1..n |-> f[s[i]]]) = SumFunctionOnSet(f, {s[i] : i \in 1..n})
<1> DEFINE h == [i \in 1..n |-> f[s[i]]]
<1>1. {s[i] : i \in 1..n} \in SUBSET D
  OBVIOUS
<1>2. IsFiniteSet(1..n)
  <2>1. 1 \in Int /\ n \in Int
    OBVIOUS
  <2> QED  BY <2>1, FS_Interval
<1>3. DOMAIN h = 1..n /\ \A i \in 1..n : h[i] = f[s[i]]
  OBVIOUS
<1> HIDE DEF h
<1>4. PICK K : K = 1..n
  OBVIOUS
<1>5. Summable(h, K)
  BY <1>2, <1>3, <1>4 DEF Summable
<1>6. \A i \in K : s[i] \in D /\ h[i] = f[s[i]]
  BY <1>3, <1>4
<1>7. \A i, j \in K : s[i] = s[j] => i = j
  BY <1>4
<1>8. SumFunctionOnSet(h, K) = SumFunctionOnSet(f, {s[i] : i \in K})
  BY <1>5, <1>6, <1>7, SumReindexed
<1>9. SumFunction(h) = SumFunctionOnSet(h, K)
  BY <1>3, <1>4 DEF SumFunction, SumFunctionOnSet, FoldFunction
<1> QED  BY <1>1, <1>4, <1>8, <1>9 DEF h

LEMMA LenOfFunction ==
  ASSUME NEW L \in Nat, NEW s \in [1..L -> 1..L]
  PROVE  Len(s) = L
<1>1. s \in Seq(1..L)
  OBVIOUS
<1> QED  BY <1>1, LenProperties

LEMMA ShareOfCoverage ==
  ASSUME NEW a \in Nat
  PROVE  (a * CovNum) \div CovDen \in Nat /\ (a * CovNum) \div CovDen <= a
<1>1. CovNum \in Nat /\ CovDen \in Nat \ {0} /\ CovNum <= CovDen
  BY LearnAssumption
<1>2. PICK c \in Nat, d \in Nat \ {0} : c = CovNum /\ d = CovDen /\ c <= d
  BY <1>1
<1>3. (a * c) \div d \in Nat /\ (a * c) \div d <= a
  <2>1. (a * c) \div d \in Nat
    BY Z3
  <2> QED  BY <1>2, <2>1, Share
<1> QED  BY <1>2, <1>3

\* What the taken clusters count is the sum of their sizes, and reaches the target.
LEMMA TakenReach ==
  ASSUME LearnInv, NEW s \in TopClusters, NEW n \in 0..Len(miner.clusters), Taken(s, n)
  PROVE  /\ {s[i] : i \in 1..n} \in SUBSET (1..Len(members))
         /\ SumFunctionOnSet(Sizes, {s[i] : i \in 1..n}) \in Nat /\ TargetCoverage \in Nat
         /\ SumFunctionOnSet(Sizes, {s[i] : i \in 1..n}) >= TargetCoverage
<1>1. PICK L \in Nat :
        /\ L = Len(members) /\ DOMAIN miner.clusters = 1..L /\ Len(miner.clusters) = L
        /\ DOMAIN Sizes = 1..L /\ Summable(Sizes, 1..L)
  <2>1. PICK d : d = miner
    OBVIOUS
  <2>2. PICK ms : ms = members
    OBVIOUS
  <2>3. PICK ls : ls = lines
    OBVIOUS
  <2>4. TreeInv(d) /\ ms \in Seq(SUBSET Messages) /\ Len(ms) = Len(d.clusters) /\ ls \in [Messages -> Nat]
    BY <2>1, <2>2, <2>3 DEF LearnInv, MinerInv
  <2>5. Tally(SizesOf(d), ms, ls, Len(ms)) /\ DOMAIN SizesOf(d) = 1..Len(ms)
    BY <2>4, SizesAreTally
  <2>6. Summable(SizesOf(d), 1..Len(ms))
    BY <2>5, TallySums
  <2>7. Sizes = SizesOf(d)
    BY <2>1 DEF Sizes, SizesOf
  <2>8. DOMAIN d.clusters = 1..Len(ms) /\ Len(ms) \in Nat
    BY <2>4, LenProperties DEF TreeInv
  <2> QED  BY <2>1, <2>2, <2>4, <2>5, <2>6, <2>7, <2>8
<1>2. s \in Bijection(1..L, 1..L)
  BY <1>1 DEF TopClusters
<1>3. /\ s \in [1..L -> 1..L]
      /\ \A i, j \in 1..L : s[i] = s[j] => i = j
      /\ \A id \in 1..L : \E i \in 1..L : s[i] = id
  BY <1>2 DEF Bijection, Injection, Surjection, IsInjective
<1>4. Len(s) = L
  BY <1>3, LenOfFunction
<1>5. n \in 0..L
  BY <1>1
<1>6. PICK I : I = {s[i] : i \in 1..n}
  OBVIOUS
<1>7. I \in SUBSET (1..L) /\ CoveredMessages(s, n) = SumFunctionOnSet(Sizes, I)
  <2>1. PICK f : f = Sizes /\ Summable(f, 1..L)
    BY <1>1
  <2>2. /\ {s[i] : i \in 1..n} \in SUBSET (1..L)
        /\ SumFunction([i \in 1..n |-> f[s[i]]]) = SumFunctionOnSet(f, {s[i] : i \in 1..n})
    <3>1. n \in Nat /\ \A i \in 1..n : i \in 1..L
      BY <1>5
    <3>2. \A i \in 1..n : s[i] \in 1..L
      BY <1>3, <3>1
    <3>3. \A i, j \in 1..n : s[i] = s[j] => i = j
      BY <1>3, <3>1
    <3>4. PICK D : D = 1..L
      OBVIOUS
    <3>5. Summable(f, D) /\ \A i \in 1..n : s[i] \in D
      BY <2>1, <3>2, <3>4
    <3>6. n \in Nat
      BY <3>1
    <3>7. /\ {s[i] : i \in 1..n} \in SUBSET D
          /\ SumFunction([i \in 1..n |-> f[s[i]]]) = SumFunctionOnSet(f, {s[i] : i \in 1..n})
      BY ONLY <3>3, <3>5, <3>6, SumAlong
    <3> QED  BY <3>4, <3>7
  <2>3. CoveredMessages(s, n) = SumFunction([i \in 1..n |-> f[s[i]]])
    BY <2>1 DEF CoveredMessages
  <2> QED  BY <1>6, <2>1, <2>2, <2>3
<1>8. SumFunctionOnSet(Sizes, I) \in Nat /\ SumFunctionOnSet(Sizes, 1..L) \in Nat
  <2>1. 1..L \in SUBSET (1..L)
    OBVIOUS
  <2> QED  BY <1>1, <1>7, <2>1, SumFacts
<1>9. SumFunctionOnSet(Sizes, 1..L) >= TargetCoverage /\ TargetCoverage \in Nat
  <2>1. SumFunction(Sizes) = SumFunctionOnSet(Sizes, 1..L)
    BY <1>1 DEF SumFunction, SumFunctionOnSet, FoldFunction
  <2>2. PICK a \in Nat : a = SumFunctionOnSet(Sizes, 1..L)
    BY <1>8
  <2>3. PICK t \in Nat : t = (a * CovNum) \div CovDen /\ t <= a
    BY ShareOfCoverage
  <2>4. TargetCoverage = t
    BY <2>1, <2>2, <2>3 DEF TargetCoverage
  <2> QED  BY <2>2, <2>3, <2>4
<1>10. SumFunctionOnSet(Sizes, I) >= TargetCoverage
  <2>1. CASE n = Len(s)
    <3>1. 1..L \subseteq I
      BY <1>3, <1>4, <1>6, <2>1
    <3>2. I = 1..L
      BY <1>7, <3>1
    <3> QED  BY <1>9, <3>2
  <2>2. CASE n # Len(s)
    <3>1. CoveredMessages(s, n) >= TargetCoverage
      BY <2>2 DEF Taken
    <3> QED  BY <1>7, <3>1
  <2> QED  BY <2>1, <2>2
<1> QED  BY <1>1, <1>6, <1>7, <1>8, <1>9, <1>10

LEMMA LearnInvCovers == LearnInv => LearnedCovers
<1> SUFFICES ASSUME LearnInv, NEW rules \in FingerprintRules
             PROVE  MatchedLines(rules) + SumFunctionOnSet(lines, {m \in Messages : HasDelimiter(m)})
                      >= TargetCoverage
  BY DEF LearnedCovers
<1>1. PICK s \in TopClusters :
        rules \in {[i \in 1..n |-> miner.clusters[s[i]].template] :
                     n \in {k \in 0..Len(miner.clusters) : Taken(s, k)}}
  BY DEF FingerprintRules
<1>2. PICK n \in 0..Len(miner.clusters) :
        Taken(s, n) /\ rules = [i \in 1..n |-> miner.clusters[s[i]].template]
  BY <1>1
<1> DEFINE I == {s[i] : i \in 1..n}
           A == {m \in Messages : \E i \in DOMAIN rules : RuleMatches(rules[i], m)}
           B == {m \in Messages : HasDelimiter(m)}
           U == UNION {members[id] : id \in I}
           Sum(S) == SumFunctionOnSet(lines, S)
<1>3. I \in SUBSET (1..Len(members)) /\ SumFunctionOnSet(Sizes, I) >= TargetCoverage
      /\ SumFunctionOnSet(Sizes, I) \in Nat /\ TargetCoverage \in Nat
  BY <1>2, TakenReach
<1>4. SumFunctionOnSet(Sizes, I) <= Sum(U)
  <2> HIDE DEF I
  <2> QED  BY <1>3 DEF LearnInv, CountsLines
<1>5. U \subseteq A \cup B
  <2> SUFFICES ASSUME NEW m \in U, m \notin B
               PROVE  m \in A
    OBVIOUS
  <2>0. PICK i \in 1..n : m \in members[s[i]]
    OBVIOUS
  <2>1. s[i] \in 1..Len(members)
    BY <1>3
  <2>2. m \in Messages /\ Covers(miner.clusters[s[i]].template, Tokenize(m))
    <3>1. members[s[i]] \in SUBSET Messages
      BY <2>1, ElementOfSeq DEF LearnInv, MinerInv
    <3> QED  BY <2>0, <2>1, <3>1 DEF LearnInv, MinerInv
  <2>3. miner.clusters[s[i]].template \in Seq(Tokens \cup {Wild})
    <3>1. miner.clusters[s[i]] \in Cluster
      BY <2>1, LenProperties, ElementOfSeq DEF LearnInv, MinerInv, TreeInv
    <3> QED  BY <3>1 DEF Cluster
  <2>4. RuleMatches(miner.clusters[s[i]].template, m)
    BY <2>2, <2>3, CoveredIsMatched DEF B
  <2>5. i \in DOMAIN rules /\ rules[i] = miner.clusters[s[i]].template
    BY <1>2
  <2> QED  BY <2>2, <2>4, <2>5
<1>6. Summable(lines, Messages)
  BY LearnAssumption DEF LearnInv, Summable
<1>7. A \in SUBSET Messages /\ B \in SUBSET Messages /\ U \in SUBSET Messages
      /\ A \cup B \in SUBSET Messages
  BY <1>5
<1>8. /\ Sum(A) \in Nat /\ Sum(B) \in Nat /\ Sum(U) \in Nat /\ Sum(A \cup B) \in Nat
      /\ Sum(U) <= Sum(A \cup B) /\ Sum(A \cup B) <= Sum(A) + Sum(B)
  <2> HIDE DEF A, B, U
  <2> QED  BY <1>5, <1>6, <1>7, SumFacts, SumOverMore, SumOverUnion
<1>9. MatchedLines(rules) = Sum(A)
  BY DEF MatchedLines
<1> HIDE DEF I, A, B, U, Sum
<1>10. Sum(A) + Sum(B) >= TargetCoverage
  BY <1>3, <1>4, <1>8
<1> QED  BY <1>9, <1>10 DEF Sum, B

LEMMA OnlyLearnSteps == [ProfilesNext]_profilesVars => [LearnStep]_learnVars
BY DEF ProfilesNext, Mine, CreateProfile, WriteProfile, Serve, LearnStep, profilesVars, learnVars, drainVars

\* An audit of the mined lines with the learned rules matches as many as were to be
\* covered, but for lines with a delimiter in them and lines with white space at an edge,
\* which the anchored rules do not match: for any lines, wherever the file ends.
THEOREM LearnedCoversHolds == ProfilesSpec => []LearnedCovers
<1>1. ProfilesInit => LearnInv
  BY LearnInvInit DEF ProfilesInit
<1>2. LearnInv /\ [ProfilesNext]_profilesVars => LearnInv'
  BY OnlyLearnSteps, LearnInvStep
<1> QED  BY <1>1, <1>2, LearnInvCovers, PTL DEF ProfilesSpec

LEMMA OnlyMinerSteps == [ProfilesNext]_profilesVars => [DrainNext]_drainVars
BY DEF ProfilesNext, Mine, CreateProfile, WriteProfile, Serve, ReadLine, LearnEnds, DrainNext,
       profilesVars, learnVars

\* Inside learn the miner does what it does by itself.
THEOREM LearnRunsMiner == ProfilesSpec => DrainSpec
<1>1. ProfilesInit => DrainInit
  BY DEF ProfilesInit, LearnInit
<1> QED  BY <1>1, OnlyMinerSteps, PTL DEF ProfilesSpec, DrainSpec

\* So what is proved of the miner holds of the one that learns.
THEOREM LearnersMiner == ProfilesSpec => [](TemplatesCoverMembers /\ LastIsFound)
BY LearnRunsMiner, TemplatesCoverMembersHolds, LastIsFoundHolds, PTL

-----------------------------------------------------------------------------
(* What the two programs do to the manager and to its file. *)

ManagerStep == ManagerNext \/ CreateLocal \/ WriteLocal

LEMMA OnlyManagerSteps == [ProfilesNext]_profilesVars => [ManagerStep]_managerVars
BY DEF ProfilesNext, Mine, CreateProfile, WriteProfile, Serve, ManagerStep, profilesVars

-----------------------------------------------------------------------------
(* Types. *)

\* What every caller has when the process starts.
LEMMA Fresh ==
  /\ [c \in Callers |-> [op |-> "none"]] \in [Callers -> Calls]
  /\ [c \in Callers |-> NoResult] \in
       [Callers -> [found : SUBSET Known, count : Nat, listed : SUBSET Names]]
<1>1. NoResult \in [found : SUBSET Known, count : Nat, listed : SUBSET Names]
  BY DEF NoResult
<1>2. [op |-> "none"] \in Calls
  BY DEF Calls
<1> HIDE DEF NoResult
<1> QED  BY <1>1, <1>2

LEMMA TypeInit == ManagerInit => ManagerTypeOK
<1> SUFFICES ASSUME ManagerInit PROVE ManagerTypeOK
  OBVIOUS
<1>1. call \in [Callers -> Calls]
      /\ result \in [Callers -> [found : SUBSET Known, count : Nat, listed : SUBSET Names]]
  BY Fresh, Zenon DEF ManagerInit
<1>2. /\ readers \in [Callers -> Nat]
      /\ pc \in [Callers -> {"idle", "rlock", "rwait", "read", "rlock again", "rwait again",
                            "read again", "lock", "acquire", "local", "cache"}]
  BY DEF ManagerInit
<1>3. /\ strict \in BOOLEAN /\ server \in {"down", "loading", "up"}
      /\ profiles \subseteq Known /\ local \in {"absent", "torn", "whole"}
      /\ pending \in Callers \cup {NoOne} /\ whole \in BOOLEAN
  BY DEF ManagerInit
<1> QED  BY <1>1, <1>2, <1>3 DEF ManagerTypeOK

\* The map of profiles is finite.
LEMMA FiniteMap ==
  ASSUME ManagerTypeOK
  PROVE  IsFiniteSet(profiles) /\ Cardinality(profiles) \in Nat
BY ManagerAssumption, FS_Subset, FS_CardinalityType DEF ManagerTypeOK

\* A call begins with a known operation and an empty result.
LEMMA TypeBegin ==
  ASSUME ManagerTypeOK, NEW c \in Callers, NEW step \in {"rlock", "lock"}, NEW op \in Calls,
         Begin(c, step, op), server' \in {"down", "loading", "up"}, strict' \in BOOLEAN,
         whole' \in BOOLEAN
  PROVE  ManagerTypeOK'
<1>1. NoResult \in [found : SUBSET Known, count : Nat, listed : SUBSET Names]
  BY DEF NoResult
<1> QED  BY <1>1 DEF Begin, ManagerTypeOK, lock

LEMMA TypeStep == ManagerTypeOK /\ [ManagerStep]_managerVars => ManagerTypeOK'
<1> SUFFICES ASSUME ManagerTypeOK, [ManagerStep]_managerVars PROVE ManagerTypeOK'
  OBVIOUS
<1> USE DEF lock
<1>1. ASSUME NEW c \in Callers, BeginRead(c) PROVE ManagerTypeOK'
  <2>1. PICK op \in Calls : Begin(c, "rlock", op)
    BY <1>1 DEF BeginRead, Calls
  <2> QED  BY <1>1, <2>1, TypeBegin DEF BeginRead, ManagerTypeOK
<1>2. ASSUME NEW c \in Callers, BeginWrite(c) PROVE ManagerTypeOK'
  <2>1. PICK op \in Calls : Begin(c, "lock", op)
    BY <1>2 DEF BeginWrite, Calls
  <2> QED  BY <1>2, <2>1, TypeBegin DEF BeginWrite, ManagerTypeOK
<1>3. ASSUME NEW c \in Callers, StartServer(c) PROVE ManagerTypeOK'
  <2>1. [op |-> "LoadProfiles"] \in Calls
    BY DEF Calls
  <2> QED  BY <1>3, <2>1, TypeBegin DEF StartServer, ManagerTypeOK
<1>4. ASSUME NEW c \in Callers, RLock(c) PROVE ManagerTypeOK'
  <2>1. readers' \in [Callers -> Nat]
    <3>1. readers \in [Callers -> Nat]
      BY DEF ManagerTypeOK
    <3>2. readers' = [readers EXCEPT ![c] = @ + 1] \/ readers' = readers
      BY <1>4 DEF RLock
    <3> QED  BY <3>1, <3>2
  <2>2. pc' \in [Callers -> {"idle", "rlock", "rwait", "read", "rlock again", "rwait again",
                            "read again", "lock", "acquire", "local", "cache"}]
    BY <1>4 DEF RLock, ManagerTypeOK
  <2> QED  BY <1>4, <2>1, <2>2 DEF RLock, ManagerTypeOK
<1>5. ASSUME NEW c \in Callers, Lock(c) PROVE ManagerTypeOK'
  BY <1>5 DEF Lock, ManagerTypeOK
<1>6. ASSUME NEW c \in Callers, Finds(c) PROVE ManagerTypeOK'
  BY <1>6 DEF Finds, Entry, RUnlock, ManagerTypeOK
<1>7. ASSUME NEW c \in Callers, FallsBack(c) PROVE ManagerTypeOK'
  <2>1. Generic \in Names
    BY ManagerAssumption DEF Names, Known
  <2>2. [op |-> "its fallback", name |-> Generic] \in Calls
    BY <2>1 DEF Calls
  <2> QED  BY <1>7, <2>2 DEF FallsBack, ManagerTypeOK
<1>8. ASSUME NEW c \in Callers, ListProfiles(c) PROVE ManagerTypeOK'
  BY <1>8 DEF ListProfiles, RUnlock, ManagerTypeOK
<1>9. ASSUME NEW c \in Callers, CountProfiles(c) PROVE ManagerTypeOK'
  BY <1>9, FiniteMap DEF CountProfiles, ManagerTypeOK
<1>10. ASSUME NEW c \in Callers, ListForStats(c) PROVE ManagerTypeOK'
  <2>1. {p.name : p \in profiles} \subseteq Names
    BY DEF ManagerTypeOK, Names
  <2> QED  BY <1>10, <2>1 DEF ListForStats, RUnlock, ManagerTypeOK
<1>11. ASSUME NEW c \in Callers, Writes(c) PROVE ManagerTypeOK'
  <2>1. profiles' \subseteq Known
    <3>1. call[c].op = "AddProfile" => call[c].profile \in Offered
      BY DEF ManagerTypeOK, Calls
    <3> QED  BY <1>11, <3>1 DEF Writes, AddProfile, RemoveProfile, LoadBuiltin, LoadLocal,
                                LoadCached, With, FromDir, ManagerTypeOK, Known
  <2>2. readers' \in [Callers -> Nat] /\ pending' \in Callers \cup {NoOne}
    <3>1. readers \in [Callers -> Nat] /\ pending \in Callers \cup {NoOne}
      BY DEF ManagerTypeOK
    <3>2. Unlock(c) \/ UNCHANGED lock
      BY <1>11 DEF Writes, AddProfile, RemoveProfile, LoadBuiltin, LoadLocal, LoadCached
    <3> QED  BY <3>1, <3>2 DEF Unlock
  <2>3. pc' \in [Callers -> {"idle", "rlock", "rwait", "read", "rlock again", "rwait again",
                            "read again", "lock", "acquire", "local", "cache"}]
    BY <1>11 DEF Writes, AddProfile, RemoveProfile, LoadBuiltin, LoadLocal, LoadCached, Unlock,
                 ManagerTypeOK
  <2>4. /\ UNCHANGED <<strict, local, call, result>>
        /\ server' \in {"down", "loading", "up"} /\ whole' \in BOOLEAN
    BY <1>11 DEF Writes, AddProfile, RemoveProfile, LoadBuiltin, LoadLocal, LoadCached,
                 ManagerTypeOK
  <2> QED  BY <2>1, <2>2, <2>3, <2>4 DEF ManagerTypeOK
<1>12. ASSUME Gone, UNCHANGED local PROVE ManagerTypeOK'
  BY <1>12, Fresh DEF Gone, ManagerTypeOK
<1>13. CASE CreateLocal \/ WriteLocal
  BY <1>13 DEF CreateLocal, WriteLocal, ManagerTypeOK
<1>14. CASE UNCHANGED managerVars
  BY <1>14 DEF managerVars, ManagerTypeOK
<1> QED
  BY <1>1, <1>2, <1>3, <1>4, <1>5, <1>6, <1>7, <1>8, <1>9, <1>10, <1>11, <1>12, <1>13, <1>14
     DEF ManagerStep, ManagerNext, Steps, Reads, Panics, StopServer

LEMMA TypeInvariant == ProfilesSpec => []ManagerTypeOK
BY TypeInit, TypeStep, OnlyManagerSteps, PTL DEF ProfilesSpec, ProfilesInit

-----------------------------------------------------------------------------
(* The read-write lock: at most one writer is past Lock; from its first write on *)
(* nobody reads, also not between the two read locks of a GetStats.              *)

Writing == {"acquire", "local", "cache"}
Reading == {"read", "read again", "rlock again", "rwait again"}

LockInv ==
  \A c \in Callers :
    /\ pc[c] \in Writing <=> pending = c
    /\ pc[c] \in {"local", "cache"} => \A d \in Callers : readers[d] = 0
    /\ pc[c] \in Reading => readers[c] # 0

LEMMA LockStep == ManagerTypeOK /\ LockInv /\ [ManagerStep]_managerVars => LockInv'
<1> SUFFICES ASSUME ManagerTypeOK, LockInv, [ManagerStep]_managerVars PROVE LockInv'
  OBVIOUS
<1> USE DEF lock, Writing, Reading
<1> DEFINE Places == {"idle", "rlock", "rwait", "read", "rlock again", "rwait again",
                      "read again", "lock", "acquire", "local", "cache"}
<1>1. /\ readers \in [Callers -> Nat] /\ readers' \in [Callers -> Nat]
      /\ pending \in Callers \cup {NoOne}
      /\ pc \in [Callers -> Places] /\ pc' \in [Callers -> Places]
      /\ NoOne \notin Callers
  BY ManagerAssumption, TypeStep DEF ManagerTypeOK
<1>2. CASE UNCHANGED <<pc, lock>>
  BY <1>2 DEF LockInv
<1>3. ASSUME NEW c \in Callers, NEW step \in {"rlock", "lock"}, NEW op, Begin(c, step, op)
      PROVE  LockInv'
  BY <1>1, <1>3 DEF Begin, LockInv
<1>4. ASSUME NEW c \in Callers, RLock(c) PROVE LockInv'
  <2>1. CASE pending = NoOne
    <3>1. /\ pc' = [pc EXCEPT ![c] = IF @ = "rlock" THEN "read" ELSE "read again"]
          /\ readers' = [readers EXCEPT ![c] = @ + 1] /\ UNCHANGED pending
      BY <1>4, <2>1 DEF RLock
    <3>2. \A d \in Callers : pc[d] \notin Writing
      BY <1>1, <2>1 DEF LockInv
    <3>3. pc'[c] \notin Writing /\ readers'[c] # 0
      <4>1. pc'[c] \in {"read", "read again"}
        BY <1>1, <1>4, <2>1 DEF RLock
      <4>2. readers'[c] = readers[c] + 1
        BY <1>1, <1>4, <2>1 DEF RLock
      <4>3. readers[c] \in Nat
        BY <1>1
      <4>4. pc'[c] \notin Writing
        BY ONLY <4>1
      <4>5. readers'[c] # 0
        BY ONLY <4>2, <4>3
      <4> QED  BY <4>4, <4>5
    <3>4. \A d \in Callers \ {c} : pc'[d] = pc[d] /\ readers'[d] = readers[d]
      BY <1>1, <3>1
    <3> QED  BY <1>1, <2>1, <3>1, <3>2, <3>3, <3>4 DEF LockInv
  <2>2. CASE pending # NoOne
    <3>1. /\ pc' = [pc EXCEPT ![c] = IF @ = "rlock" THEN "rwait" ELSE "rwait again"]
          /\ pc[c] \in {"rlock", "rlock again"} /\ UNCHANGED lock
      BY <1>4, <2>2 DEF RLock
    <3> QED  BY <1>1, <3>1 DEF LockInv
  <2> QED  BY <2>1, <2>2
<1>5. ASSUME NEW c \in Callers, Lock(c) PROVE LockInv'
  BY <1>1, <1>5 DEF Lock, LockInv
<1>6. ASSUME NEW c \in Callers, pc[c] \in {"read", "read again"}, RUnlock(c), UNCHANGED pending
      PROVE  LockInv'
  BY <1>1, <1>6 DEF RUnlock, LockInv
<1>7. ASSUME NEW c \in Callers, FallsBack(c) PROVE LockInv'
  BY <1>1, <1>7 DEF FallsBack, LockInv
<1>8. ASSUME NEW c \in Callers, CountProfiles(c) PROVE LockInv'
  BY <1>1, <1>8 DEF CountProfiles, LockInv
<1>9. ASSUME NEW c \in Callers, pc[c] \in Writing, Unlock(c) PROVE LockInv'
  <2>1. \A d \in Callers : pc[d] \in Writing => d = c
    BY <1>1, <1>9 DEF LockInv
  <2>2. \A d \in Callers : pc'[d] \notin Writing
    BY <1>1, <1>9, <2>1 DEF Unlock
  <2>3. ASSUME NEW d \in Callers, pc'[d] \in Reading PROVE readers'[d] # 0
    <3>1. CASE pc[d] = "rwait"
      <4>1. readers'[d] = readers[d] + 1
        BY <1>9, <3>1 DEF Unlock
      <4>2. readers[d] \in Nat
        BY <1>1
      <4> QED  BY ONLY <4>1, <4>2
    <3>2. CASE pc[d] # "rwait"
      <4>1. pc[d] \in Reading
        BY <1>1, <1>9, <2>3, <3>2 DEF Unlock
      <4> QED  BY <1>1, <1>9, <3>2, <4>1 DEF Unlock, LockInv
    <3> QED  BY <3>1, <3>2
  <2> QED  BY <1>1, <1>9, <2>2, <2>3 DEF Unlock, LockInv
<1>10. ASSUME NEW c \in Callers, LoadBuiltin(c) \/ LoadLocal(c) PROVE LockInv'
  BY <1>1, <1>10 DEF LoadBuiltin, LoadLocal, Acquired, LockInv
<1>11. CASE Gone
  BY <1>1, <1>11 DEF Gone, LockInv
<1> QED
  BY <1>2, <1>3, <1>4, <1>5, <1>6, <1>7, <1>8, <1>9, <1>10, <1>11
     DEF ManagerStep, ManagerNext, BeginRead, BeginWrite, StartServer, Steps, Reads, Writes,
         Finds, Panics, ListProfiles, ListForStats, AddProfile, RemoveProfile, LoadCached,
         Acquired, StopServer, CreateLocal, WriteLocal, managerVars

LEMMA LockInvariant == ProfilesSpec => []LockInv
<1>1. ManagerInit => LockInv
  BY ManagerAssumption DEF ManagerInit, LockInv, Writing, Reading
<1> QED  BY <1>1, LockStep, TypeInvariant, OnlyManagerSteps, PTL DEF ProfilesSpec, ProfilesInit

\* The map changes only under the write lock, or with the process.
LEMMA OnlyWritersChange ==
  ASSUME ManagerTypeOK, LockInv, [ManagerStep]_managerVars, ~Gone
  PROVE  \/ UNCHANGED profiles
         \/ \A d \in Callers : readers[d] = 0 /\ pc[d] \notin Reading
<1>1. ASSUME NEW c \in Callers, Writes(c)
      PROVE  \A d \in Callers : readers[d] = 0 /\ pc[d] \notin Reading
  <2>1. \A d \in Callers : readers[d] = 0
    BY <1>1 DEF Writes, AddProfile, RemoveProfile, LoadBuiltin, LoadLocal, LoadCached, Acquired,
                LockInv
  <2> QED  BY <2>1 DEF LockInv
<1> QED
  BY <1>1
     DEF ManagerStep, ManagerNext, BeginRead, BeginWrite, StartServer, Begin, Steps, RLock, Lock,
         Reads, Finds, FallsBack, Panics, ListProfiles, CountProfiles, ListForStats,
         StopServer, CreateLocal, WriteLocal, managerVars

-----------------------------------------------------------------------------
(* GetStats: what it counts and what it lists are the same map, whose profiles have *)
(* different names.                                                               *)

OneOfAName == \A p, q \in profiles : p.name = q.name => p = q

LEMMA WithKeepsNames ==
  ASSUME OneOfAName, NEW ps, \A p, q \in ps : p.name = q.name => p = q
  PROVE  \A p, q \in With(ps) : p.name = q.name => p = q
BY DEF With, OneOfAName

LEMMA NamesStep == ManagerTypeOK /\ OneOfAName /\ [ManagerStep]_managerVars => OneOfAName'
<1> SUFFICES ASSUME ManagerTypeOK, OneOfAName, [ManagerStep]_managerVars PROVE OneOfAName'
  OBVIOUS
<1>1. CASE profiles' \subseteq profiles
  BY <1>1 DEF OneOfAName
<1>2. ASSUME NEW ps, \A p, q \in ps : p.name = q.name => p = q, profiles' = With(ps)
      PROVE  OneOfAName'
  BY <1>2, WithKeepsNames DEF OneOfAName
<1>3. ASSUME NEW c \in Callers, AddProfile(c) PROVE OneOfAName'
  BY <1>1, <1>2, <1>3 DEF AddProfile
<1>4. ASSUME NEW c \in Callers, LoadBuiltin(c) PROVE OneOfAName'
  BY <1>2, <1>4, ManagerAssumption DEF LoadBuiltin
<1>5. ASSUME NEW c \in Callers, LoadLocal(c) PROVE OneOfAName'
  BY <1>1, <1>2, <1>5 DEF LoadLocal, FromDir
<1>6. ASSUME NEW c \in Callers, LoadCached(c) PROVE OneOfAName'
  BY <1>2, <1>6, ManagerAssumption DEF LoadCached, FromDir
<1> QED
  BY <1>1, <1>3, <1>4, <1>5, <1>6
     DEF ManagerStep, ManagerNext, BeginRead, BeginWrite, StartServer, Begin, Steps, RLock, Lock,
         Reads, Writes, Finds, FallsBack, Panics, ListProfiles, CountProfiles, ListForStats,
         RemoveProfile, StopServer, Gone, CreateLocal, WriteLocal, managerVars

\* A map whose profiles have different names has as many names as profiles.
LEMMA AsManyNames ==
  ASSUME ManagerTypeOK, OneOfAName
  PROVE  Cardinality({p.name : p \in profiles}) = Cardinality(profiles)
<1> DEFINE NameOf == [p \in profiles |-> p.name]
           Held == {p.name : p \in profiles}
<1>1. NameOf \in Bijection(profiles, Held)
  <2>1. NameOf \in [profiles -> Held]
    OBVIOUS
  <2>2. \A p, q \in profiles : NameOf[p] = NameOf[q] => p = q
    BY DEF OneOfAName
  <2>3. \A n \in Held : \E p \in profiles : NameOf[p] = n
    OBVIOUS
  <2> QED  BY <2>1, <2>2, <2>3, Fun_IsBij
<1> HIDE DEF NameOf
<1>2. Cardinality(profiles) = Cardinality(Held)
  BY <1>1, FiniteMap, FS_Bijection DEF ExistsBijection
<1> QED  BY <1>2

Counting == {"rlock again", "rwait again", "read again"}

Counted ==
  \A c \in Callers :
    result[c].count =
      IF pc[c] \in Counting THEN Cardinality(profiles) ELSE Cardinality(result[c].listed)

LEMMA CountedStep ==
  ManagerTypeOK /\ LockInv /\ OneOfAName /\ Counted /\ [ManagerStep]_managerVars => Counted'
<1> SUFFICES ASSUME ManagerTypeOK, LockInv, OneOfAName, Counted, [ManagerStep]_managerVars
             PROVE  Counted'
  OBVIOUS
<1> USE DEF Counting
<1>1. /\ pc \in [Callers -> {"idle", "rlock", "rwait", "read", "rlock again", "rwait again",
                            "read again", "lock", "acquire", "local", "cache"}]
      /\ result \in [Callers -> [found : SUBSET Known, count : Nat, listed : SUBSET Names]]
  BY DEF ManagerTypeOK
<1>2. ASSUME UNCHANGED <<profiles, result>>,
             \A d \in Callers : pc'[d] \in Counting <=> pc[d] \in Counting
      PROVE  Counted'
  BY <1>2 DEF Counted
<1>3. ASSUME NEW c \in Callers, NEW step \in {"rlock", "lock"}, NEW op, Begin(c, step, op)
      PROVE  Counted'
  <2>1. NoResult.count = Cardinality(NoResult.listed)
    BY FS_EmptySet DEF NoResult
  <2>2. result'[c] = NoResult /\ pc'[c] \notin Counting /\ UNCHANGED profiles
    BY <1>1, <1>3 DEF Begin
  <2>3. \A d \in Callers \ {c} : result'[d] = result[d] /\ pc'[d] = pc[d]
    BY <1>1, <1>3 DEF Begin
  <2> HIDE DEF NoResult
  <2> QED  BY <2>1, <2>2, <2>3 DEF Counted
<1>4. ASSUME NEW c \in Callers, RLock(c) PROVE Counted'
  BY <1>1, <1>2, <1>4 DEF RLock
<1>5. ASSUME NEW c \in Callers, Lock(c) \/ FallsBack(c) \/ ListProfiles(c) PROVE Counted'
  BY <1>1, <1>2, <1>5 DEF Lock, FallsBack, ListProfiles, RUnlock
<1>6. ASSUME NEW c \in Callers, Finds(c) PROVE Counted'
  <2>1. /\ pc[c] = "read" /\ pc'[c] = "idle" /\ UNCHANGED profiles
        /\ result'[c].count = result[c].count /\ result'[c].listed = result[c].listed
    BY <1>1, <1>6 DEF Finds, RUnlock
  <2>2. \A d \in Callers \ {c} : result'[d] = result[d] /\ pc'[d] = pc[d]
    BY <1>1, <1>6 DEF Finds, RUnlock
  <2> QED  BY <2>1, <2>2 DEF Counted
<1>7. ASSUME NEW c \in Callers, CountProfiles(c) PROVE Counted'
  <2>1. /\ pc'[c] = "rlock again" /\ UNCHANGED profiles
        /\ result'[c].count = Cardinality(profiles)
    BY <1>1, <1>7 DEF CountProfiles
  <2>2. \A d \in Callers \ {c} : result'[d] = result[d] /\ pc'[d] = pc[d]
    BY <1>1, <1>7 DEF CountProfiles
  <2> QED  BY <2>1, <2>2 DEF Counted
<1>8. ASSUME NEW c \in Callers, ListForStats(c) PROVE Counted'
  <2>1. /\ pc[c] = "read again" /\ pc'[c] = "idle" /\ UNCHANGED profiles
        /\ result'[c].count = result[c].count
        /\ result'[c].listed = {p.name : p \in profiles}
    BY <1>1, <1>8 DEF ListForStats, RUnlock
  <2>2. \A d \in Callers \ {c} : result'[d] = result[d] /\ pc'[d] = pc[d]
    BY <1>1, <1>8 DEF ListForStats, RUnlock
  <2>3. result'[c].count = Cardinality(result'[c].listed)
    BY <2>1, AsManyNames DEF Counted
  <2> QED  BY <2>1, <2>2, <2>3 DEF Counted
<1>9. ASSUME NEW c \in Callers, Writes(c) PROVE Counted'
  <2>1. UNCHANGED result
    BY <1>9 DEF Writes, AddProfile, RemoveProfile, LoadBuiltin, LoadLocal, LoadCached
  <2>2. \A d \in Callers : pc[d] \notin Counting
    <3>1. \A d \in Callers : readers[d] = 0
      BY <1>9 DEF Writes, AddProfile, RemoveProfile, LoadBuiltin, LoadLocal, LoadCached, Acquired,
                  LockInv
    <3> QED  BY <1>1, <3>1 DEF LockInv, Reading
  <2>3. \A d \in Callers : pc'[d] \notin Counting
    BY <1>1, <1>9, <2>2 DEF Writes, AddProfile, RemoveProfile, LoadBuiltin, LoadLocal, LoadCached,
                            Unlock
  <2> QED  BY <2>1, <2>2, <2>3 DEF Counted
<1>10. CASE Gone
  <2>1. NoResult.count = Cardinality(NoResult.listed)
    BY FS_EmptySet DEF NoResult
  <2>2. \A d \in Callers : result'[d] = NoResult /\ pc'[d] \notin Counting
    BY <1>10 DEF Gone
  <2> HIDE DEF NoResult
  <2> QED  BY <2>1, <2>2 DEF Counted
<1>11. CASE CreateLocal \/ WriteLocal \/ UNCHANGED managerVars
  BY <1>2, <1>11 DEF CreateLocal, WriteLocal, managerVars
<1> QED
  BY <1>3, <1>4, <1>5, <1>6, <1>7, <1>8, <1>9, <1>10, <1>11
     DEF ManagerStep, ManagerNext, BeginRead, BeginWrite, StartServer, Steps, Reads, Panics,
         StopServer

\* What GetStats returns is of one moment, for every number of callers: the read lock it
\* keeps while it takes the second one keeps the map as it was counted.
THEOREM StatsAreOfOneMoment == ProfilesSpec => []StatsAreConsistent
<1>1. ManagerInit => OneOfAName /\ Counted
  <2>1. NoResult.count = Cardinality(NoResult.listed)
    BY FS_EmptySet DEF NoResult
  <2>2. ASSUME ManagerInit
        PROVE  \A c \in Callers : result[c] = NoResult /\ pc[c] \notin Counting
    BY <2>2 DEF ManagerInit, Counting
  <2> HIDE DEF NoResult
  <2> QED  BY <2>1, <2>2 DEF ManagerInit, OneOfAName, Counted
<1>2. Counted => StatsAreConsistent
  BY DEF Counted, StatsAreConsistent, Counting
<1> QED
  BY <1>1, <1>2, NamesStep, CountedStep, TypeInvariant, LockInvariant, OnlyManagerSteps, PTL
     DEF ProfilesSpec, ProfilesInit

-----------------------------------------------------------------------------
(* The learned profile: a built-in profile of its name is in the map only while the *)
(* writer that put it there has not yet come to the local directory.               *)

\* A process that is down remembers nothing, so the trust mode may change.
DownIsClean ==
  server = "down" =>
    profiles = {} /\ \A c \in Callers : pc[c] = "idle" /\ result[c].found = {}

Superseded == {p \in Builtin : p.name = Learned.name}

Wins ==
  whole /\ Accepted(Learned) =>
    /\ profiles \cap Superseded # {} => \E c \in Callers : pc[c] = "local"
    /\ \A c \in Callers : result[c].found \cap Superseded = {}

\* Nothing that fills the map after the built-in profiles brings one of them back, and
\* the learned profile takes the place of the one of its name.
LEMMA NotBuiltin ==
  /\ \A p \in Offered : With({p}) \cap Superseded \subseteq profiles
  /\ FromDir(InCache) \cap Superseded \subseteq profiles
  /\ Accepted(Learned) => FromDir({Learned}) \cap Superseded = {}
<1>1. \A p \in Offered \cup InCache \cup {Learned, Empty} : p \notin Builtin
  BY ManagerAssumption
<1> QED  BY <1>1 DEF With, FromDir, Superseded

LEMMA CleanWhenGone ==
  ASSUME Gone
  PROVE  profiles' = {} /\ \A c \in Callers : pc'[c] = "idle" /\ result'[c].found = {}
<1>1. NoResult.found = {}
  BY DEF NoResult
<1> HIDE DEF NoResult
<1> QED  BY <1>1 DEF Gone

LEMMA DownStep == DownIsClean /\ [ManagerStep]_managerVars => DownIsClean'
<1> SUFFICES ASSUME DownIsClean, [ManagerStep]_managerVars, server' = "down"
             PROVE  profiles' = {} /\ \A c \in Callers : pc'[c] = "idle" /\ result'[c].found = {}
  BY DEF DownIsClean
<1>1. CASE ~Gone
  <2>1. server = "down"
    BY <1>1 DEF ManagerStep, ManagerNext, BeginRead, BeginWrite, StartServer, Begin, Steps, RLock,
          Lock, Reads, Writes, Finds, FallsBack, Panics, ListProfiles, CountProfiles,
          ListForStats, AddProfile, RemoveProfile, LoadBuiltin, LoadLocal, LoadCached,
          StopServer, CreateLocal, WriteLocal, managerVars
  <2>2. \A c \in Callers : pc[c] = "idle"
    BY <2>1 DEF DownIsClean
  <2>3. UNCHANGED <<profiles, pc, result>>
    BY <1>1, <2>1, <2>2
       DEF ManagerStep, ManagerNext, BeginRead, BeginWrite, StartServer, Steps, RLock,
           Lock, Reads, Writes, Finds, FallsBack, Panics, ListProfiles, CountProfiles,
           ListForStats, AddProfile, RemoveProfile, LoadBuiltin, LoadLocal, LoadCached,
           Acquired, StopServer, CreateLocal, WriteLocal, managerVars
  <2> QED  BY <2>1, <2>3 DEF DownIsClean
<1> QED  BY <1>1, CleanWhenGone

LEMMA WinsStep ==
  ManagerTypeOK /\ LockInv /\ DownIsClean /\ Wins /\ [ManagerStep]_managerVars => Wins'
<1> SUFFICES ASSUME ManagerTypeOK, LockInv, DownIsClean, [ManagerStep]_managerVars, Wins,
                    whole', Accepted(Learned)'
             PROVE  /\ profiles' \cap Superseded # {} => \E c \in Callers : pc'[c] = "local"
                    /\ \A c \in Callers : result'[c].found \cap Superseded = {}
  BY DEF Wins
<1>1. /\ pc \in [Callers -> {"idle", "rlock", "rwait", "read", "rlock again", "rwait again",
                            "read again", "lock", "acquire", "local", "cache"}]
      /\ result \in [Callers -> [found : SUBSET Known, count : Nat, listed : SUBSET Names]]
  BY DEF ManagerTypeOK
<1>2. CASE server = "down" \/ Gone
  <2>1. profiles' = {} /\ \A c \in Callers : result'[c].found = {}
    <3>1. CASE Gone
      BY <3>1, CleanWhenGone
    <3>2. CASE server' = "down"
      BY <3>2, DownStep DEF DownIsClean
    <3>3. ASSUME NEW c \in Callers, StartServer(c)
          PROVE  profiles' = {} /\ \A d \in Callers : result'[d].found = {}
      <4>1. profiles = {} /\ \A d \in Callers : result[d].found = {}
        BY <3>3 DEF StartServer, DownIsClean
      <4>2. NoResult.found = {}
        BY DEF NoResult
      <4> HIDE DEF NoResult
      <4> QED  BY <1>1, <3>3, <4>1, <4>2 DEF StartServer, Begin
    <3>4. CASE ~Gone /\ server' # "down" /\ ~\E c \in Callers : StartServer(c)
      <4>1. server = "down" /\ \A c \in Callers : pc[c] = "idle"
        BY <1>2, <3>4 DEF DownIsClean
      <4> QED
        BY <3>4, <4>1
           DEF ManagerStep, ManagerNext, BeginRead, BeginWrite, Steps, RLock,
               Lock, Reads, Writes, Finds, FallsBack, Panics, ListProfiles, CountProfiles,
               ListForStats, AddProfile, RemoveProfile, LoadBuiltin, LoadLocal, LoadCached,
               Acquired, StopServer, CreateLocal, WriteLocal, managerVars
    <3> QED  BY <3>1, <3>2, <3>3, <3>4
  <2> QED  BY <2>1
<1>3. CASE server # "down" /\ ~Gone
  <2>1. UNCHANGED strict /\ whole
    BY <1>3 DEF ManagerStep, ManagerNext, BeginRead, BeginWrite, StartServer, Begin, Steps, RLock,
          Lock, Reads, Writes, Finds, FallsBack, Panics, ListProfiles, CountProfiles,
          ListForStats, AddProfile, RemoveProfile, LoadBuiltin, LoadLocal, LoadCached,
          StopServer, CreateLocal, WriteLocal, managerVars
  <2>2. Accepted(Learned)
    BY <2>1 DEF Accepted
  <2>3. /\ profiles \cap Superseded # {} => \E c \in Callers : pc[c] = "local"
        /\ \A c \in Callers : result[c].found \cap Superseded = {}
    BY <2>1, <2>2 DEF Wins
  <2>4. ASSUME UNCHANGED <<profiles, result>>, \A d \in Callers : pc[d] = "local" => pc'[d] = "local"
        PROVE  /\ profiles' \cap Superseded # {} => \E c \in Callers : pc'[c] = "local"
               /\ \A c \in Callers : result'[c].found \cap Superseded = {}
    BY <2>3, <2>4
  <2>5. ASSUME NEW c \in Callers, NEW step \in {"rlock", "lock"}, NEW op, Begin(c, step, op)
        PROVE  /\ profiles' \cap Superseded # {} => \E d \in Callers : pc'[d] = "local"
               /\ \A d \in Callers : result'[d].found \cap Superseded = {}
    <3>1. NoResult.found = {}
      BY DEF NoResult
    <3>2. UNCHANGED profiles /\ \A d \in Callers : pc[d] = "local" => pc'[d] = "local"
      BY <1>1, <2>5 DEF Begin
    <3>3. \A d \in Callers : result'[d] \in {NoResult, result[d]}
      BY <1>1, <2>5 DEF Begin
    <3> HIDE DEF NoResult
    <3> QED  BY <2>3, <3>1, <3>2, <3>3
  <2>6. ASSUME NEW c \in Callers, Finds(c)
        PROVE  /\ profiles' \cap Superseded # {} => \E d \in Callers : pc'[d] = "local"
               /\ \A d \in Callers : result'[d].found \cap Superseded = {}
    <3>1. \A d \in Callers : pc[d] # "local"
      BY <2>6 DEF Finds, LockInv, Reading
    <3>2. profiles' \cap Superseded = {} /\ profiles \cap Superseded = {}
      BY <2>3, <2>6, <3>1 DEF Finds
    <3>3. result'[c].found \cap Superseded = {}
      BY <1>1, <2>6, <3>2 DEF Finds, Entry
    <3>4. \A d \in Callers \ {c} : result'[d] = result[d]
      BY <1>1, <2>6 DEF Finds
    <3> QED  BY <2>3, <3>2, <3>3, <3>4
  <2>7. ASSUME NEW c \in Callers, CountProfiles(c) \/ ListForStats(c)
        PROVE  /\ profiles' \cap Superseded # {} => \E d \in Callers : pc'[d] = "local"
               /\ \A d \in Callers : result'[d].found \cap Superseded = {}
    <3>1. UNCHANGED profiles /\ \A d \in Callers : pc[d] = "local" => pc'[d] = "local"
      BY <1>1, <2>7 DEF CountProfiles, ListForStats, RUnlock
    <3>2. result'[c].found = result[c].found
      BY <1>1, <2>7 DEF CountProfiles, ListForStats
    <3>3. \A d \in Callers \ {c} : result'[d] = result[d]
      BY <1>1, <2>7 DEF CountProfiles, ListForStats
    <3> QED  BY <2>3, <3>1, <3>2, <3>3
  <2>8. ASSUME NEW c \in Callers,
               RLock(c) \/ Lock(c) \/ FallsBack(c) \/ ListProfiles(c)
        PROVE  /\ profiles' \cap Superseded # {} => \E d \in Callers : pc'[d] = "local"
               /\ \A d \in Callers : result'[d].found \cap Superseded = {}
    BY <1>1, <2>4, <2>8 DEF RLock, Lock, FallsBack, ListProfiles, RUnlock
  <2>9. ASSUME NEW c \in Callers, LoadBuiltin(c)
        PROVE  /\ profiles' \cap Superseded # {} => \E d \in Callers : pc'[d] = "local"
               /\ \A d \in Callers : result'[d].found \cap Superseded = {}
    BY <1>1, <2>3, <2>9 DEF LoadBuiltin
  <2>10. ASSUME NEW c \in Callers, LoadLocal(c)
        PROVE  /\ profiles' \cap Superseded # {} => \E d \in Callers : pc'[d] = "local"
               /\ \A d \in Callers : result'[d].found \cap Superseded = {}
    <3>1. profiles' = FromDir({Learned})
      BY <2>10 DEF LoadLocal
    <3> QED  BY <2>2, <2>3, <2>10, <3>1, NotBuiltin DEF LoadLocal
  <2>11. ASSUME NEW c \in Callers, AddProfile(c) \/ RemoveProfile(c) \/ LoadCached(c)
        PROVE  /\ profiles' \cap Superseded # {} => \E d \in Callers : pc'[d] = "local"
               /\ \A d \in Callers : result'[d].found \cap Superseded = {}
    <3>1. \A d \in Callers : pc[d] # "local"
      BY <1>1, <2>11, ManagerAssumption
         DEF AddProfile, RemoveProfile, LoadCached, Acquired, LockInv, Writing
    <3>2. profiles \cap Superseded = {}
      BY <2>3, <3>1
    <3>3. call[c].op = "AddProfile" => call[c].profile \in Offered
      BY DEF ManagerTypeOK, Calls
    <3>4. profiles' \cap Superseded \subseteq profiles
      BY <2>11, <3>3, NotBuiltin DEF AddProfile, RemoveProfile, LoadCached
    <3> QED  BY <2>3, <2>11, <3>2, <3>4 DEF AddProfile, RemoveProfile, LoadCached
  <2>12. CASE CreateLocal \/ WriteLocal \/ UNCHANGED managerVars
    BY <2>4, <2>12 DEF CreateLocal, WriteLocal, managerVars
  <2> QED
    BY <1>3, <2>5, <2>6, <2>7, <2>8, <2>9, <2>10, <2>11, <2>12
       DEF ManagerStep, ManagerNext, BeginRead, BeginWrite, StartServer, Steps, Reads, Writes,
           Panics, StopServer
<1> QED  BY <1>2, <1>3

\* A profile that `logsieve learn` wrote replaces the built-in one of its name: unless a
\* load has met the file missing or half written, no caller is ever given the built-in
\* one, whatever else is added, removed or loaded again meanwhile.
THEOREM LearnedProfileWins == ProfilesSpec => []LearnedWins
<1>1. ManagerInit => DownIsClean /\ Wins
  <2>1. NoResult.found = {}
    BY DEF NoResult
  <2> HIDE DEF NoResult
  <2> QED  BY <2>1 DEF ManagerInit, DownIsClean, Wins
<1>2. ManagerTypeOK /\ Wins => LearnedWins
  BY DEF Wins, LearnedWins, Superseded
<1> QED
  BY <1>1, <1>2, DownStep, WinsStep, TypeInvariant, LockInvariant, OnlyManagerSteps, PTL
     DEF ProfilesSpec, ProfilesInit
=============================================================================

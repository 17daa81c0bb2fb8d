----------------------------- MODULE FoldLemmas -----------------------------
(***************************************************************************)
(* What the folds of the community modules compute: SumFunction over a     *)
(* finite set and FlattenSeq over a sequence of sequences; and the facts   *)
(* about sequences and their members that the proofs share.                *)
(*                                                                         *)
(* The induction theorems of the library take a predicate as a parameter.  *)
(* Here an induction is over the set of values that satisfy it: that a     *)
(* family of subsets has a minimal member, and a set of naturals a least   *)
(* one, follows from the well-foundedness of strict inclusion, which the   *)
(* library states without a parameter.                                     *)
(***************************************************************************)
EXTENDS Integers, Functions, SequencesExt, FiniteSetTheorems,
        WellFoundedInduction, SequenceTheorems, TLAPS

\* A family of subsets of a finite set has a minimal member.
LEMMA MinimalSubset ==
  ASSUME NEW S, IsFiniteSet(S), NEW F \in SUBSET (SUBSET S), F # {}
  PROVE  \E s \in F : \A r \in F : r \subseteq s => r = s
<1>1. IsWellFoundedOn(StrictSubsetOrdering(S), SUBSET S)
  BY FS_StrictSubsetOrderingWellFounded, FS_FiniteSubsetsOfFinite
<1>2. PICK s \in F : \A r \in F : <<r, s>> \notin StrictSubsetOrdering(S)
  BY <1>1, WFMin
<1> QED BY <1>2 DEF StrictSubsetOrdering

\* A set of naturals has a least member.
LEMMA LeastNatural ==
  ASSUME NEW T \in SUBSET Nat, T # {}
  PROVE  \E n \in T : \A m \in T : n <= m
<1>1. PICK k \in T : k \in Nat
  OBVIOUS
<1> DEFINE B == 0..k
           F == {0..m : m \in {i \in T : i <= k}}
<1>2. IsFiniteSet(B)
  BY <1>1, FS_Interval
<1>3. F \in SUBSET (SUBSET B)
  BY <1>1
<1>4. 0..k \in F
  BY <1>1
<1>5. PICK s \in F : \A r \in F : r \subseteq s => r = s
  <2> HIDE DEF F, B
  <2> QED BY <1>2, <1>3, <1>4, MinimalSubset
<1>6. PICK n \in T : n <= k /\ s = 0..n
  BY <1>5
<1>7. ASSUME NEW m \in T, ~(n <= m) PROVE FALSE
  <2>1. 0..m \in F /\ 0..m \subseteq s /\ n \in s /\ n \notin 0..m
    BY <1>6, <1>7
  <2> QED BY <2>1, <1>5
<1> QED BY <1>7

\* Induction over the naturals, for a set instead of a predicate.
LEMMA Induction ==
  ASSUME NEW T, 0 \in T, \A n \in Nat : n \in T => n + 1 \in T
  PROVE  \A n \in Nat : n \in T
<1> SUFFICES ASSUME Nat \ T # {} PROVE FALSE
  OBVIOUS
<1>1. PICK n \in Nat \ T : \A m \in Nat \ T : n <= m
  BY LeastNatural
<1>2. n - 1 \in Nat /\ n - 1 \in T
  BY <1>1
<1> QED BY <1>1, <1>2

Member(s) == CHOOSE x \in s : TRUE

\* The equation of the sum of f over the subsets of S.
Sums(f, S, g) ==
  g = [s \in SUBSET S |-> IF s = {} THEN 0 ELSE f[Member(s)] + g[s \ {Member(s)}]]

LEMMA SumsExist ==
  ASSUME NEW S, IsFiniteSet(S), NEW f
  PROVE  \E g : Sums(f, S, g)
<1> DEFINE Value(s, g) == IF s = {} THEN 0 ELSE f[Member(s)] + g[s \ {Member(s)}]
    Upto(n, g) == \A s \in SUBSET S : Cardinality(s) <= n => g[s] = Value(s, g)
    Extended(g) == [s \in SUBSET S |-> Value(s, g)]
    T == {n \in Nat : \E g : Upto(n, g)}
<1>1. 0 \in T
  <2>1. \A s \in SUBSET S : Cardinality(s) <= 0 => s = {}
    BY FS_Subset, FS_EmptySet, FS_CardinalityType
  <2>2. Upto(0, [s \in SUBSET S |-> 0])
    BY <2>1
  <2> QED BY <2>2
<1>2. ASSUME NEW n \in Nat, n \in T PROVE n + 1 \in T
  <2>1. PICK g : Upto(n, g)
    BY <1>2
  <2>2. ASSUME NEW s \in SUBSET S, Cardinality(s) <= n + 1
        PROVE  Extended(g)[s] = Value(s, Extended(g))
    <3>1. CASE s = {}
      BY <3>1
    <3>2. CASE s # {}
      <4> DEFINE r == s \ {Member(s)}
      <4>1. Member(s) \in s
        BY <3>2 DEF Member
      <4>2. IsFiniteSet(s) /\ Cardinality(s) \in Nat
        BY FS_Subset, FS_CardinalityType
      <4>3. Cardinality(r) = Cardinality(s) - 1
        BY <4>1, <4>2, FS_RemoveElement
      <4>4. r \in SUBSET S /\ Cardinality(r) <= n
        BY <4>2, <4>3, <2>2
      <4>5. g[r] = Value(r, g)
        BY <4>4, <2>1
      <4>6. Extended(g)[r] = g[r]
        BY <4>4, <4>5
      <4> QED BY <3>2, <4>6
    <3> QED BY <3>1, <3>2
  <2>3. Upto(n + 1, Extended(g))
    BY <2>2
  <2>4. n + 1 \in Nat
    OBVIOUS
  <2> HIDE DEF Upto, Extended
  <2> QED BY <2>3, <2>4
<1>3. Cardinality(S) \in T
  <2> HIDE DEF T
  <2> QED BY <1>1, <1>2, Induction, FS_CardinalityType
<1>4. PICK g : Upto(Cardinality(S), g)
  BY <1>3
<1>5. \A s \in SUBSET S : g[s] = Value(s, g)
  BY <1>4, FS_Subset
<1>6. \A s \in SUBSET S : Extended(g)[s] = Value(s, Extended(g))
  <2> SUFFICES ASSUME NEW s \in SUBSET S PROVE Extended(g)[s] = Value(s, Extended(g))
    OBVIOUS
  <2>1. s \ {Member(s)} \in SUBSET S
    OBVIOUS
  <2> QED BY <2>1, <1>5
<1>7. Sums(f, S, Extended(g))
  <2> HIDE DEF Value
  <2> QED BY <1>6 DEF Sums, Value
<1> QED BY <1>7

\* The sum that the library computes is one of these.
LEMMA SumIs ==
  ASSUME NEW S, IsFiniteSet(S), NEW f, DOMAIN f = S
  PROVE  \E g : Sums(f, S, g) /\ SumFunction(f) = g[S]
<1> DEFINE h == CHOOSE g : g = [s \in SUBSET S |-> IF s = {} THEN 0 ELSE f[CHOOSE x \in s : TRUE] + g[s \ {CHOOSE x \in s : TRUE}]]
<1>1. SumFunction(f) = h[S]
  BY Zenon DEF SumFunction, SumFunctionOnSet, FoldFunctionOnSet, MapThenFoldSet
<1>2. Sums(f, S, h)
  <2>1. \E g : Sums(f, S, g)
    BY SumsExist
  <2>2. h = CHOOSE g : Sums(f, S, g)
    BY Zenon DEF Sums, Member
  <2> HIDE DEF h
  <2> QED BY <2>1, <2>2, Zenon
<1> QED BY <1>1, <1>2

\* The sum of integers is one, of naturals a natural, and of zeros zero.
LEMMA SumType ==
  ASSUME NEW S, IsFiniteSet(S), NEW f, DOMAIN f = S, NEW N, 0 \in N,
         \A m, n \in N : m + n \in N, \A x \in S : f[x] \in N
  PROVE  SumFunction(f) \in N
<1>1. PICK g : Sums(f, S, g) /\ SumFunction(f) = g[S]
  BY SumIs
<1> DEFINE Bad == {s \in SUBSET S : g[s] \notin N}
<1>2. ASSUME NEW s \in Bad, \A r \in Bad : r \subseteq s => r = s PROVE FALSE
  <2>1. g[s] = IF s = {} THEN 0 ELSE f[Member(s)] + g[s \ {Member(s)}]
    BY <1>1 DEF Sums
  <2>2. s # {} /\ Member(s) \in s
    BY <2>1 DEF Member
  <2>3. s \ {Member(s)} \notin Bad
    BY <1>2, <2>2
  <2> QED BY <2>1, <2>2, <2>3
<1>3. Bad = {}
  <2>1. Bad \in SUBSET (SUBSET S)
    OBVIOUS
  <2> HIDE DEF Bad
  <2> QED BY <1>2, <2>1, MinimalSubset
<1> QED BY <1>1, <1>3

\* One term changes, and the sum with it.
LEMMA SumChanges ==
  ASSUME NEW S, IsFiniteSet(S), NEW f \in [S -> Int], NEW g \in [S -> Int],
         NEW t \in S, \A u \in S \ {t} : g[u] = f[u]
  PROVE  SumFunction(g) = SumFunction(f) + (g[t] - f[t])
<1>1. PICK F : Sums(f, S, F) /\ SumFunction(f) = F[S]
  BY SumIs
<1>2. PICK G : Sums(g, S, G) /\ SumFunction(g) = G[S]
  BY SumIs
<1> DEFINE Diff(s) == IF t \in s THEN g[t] - f[t] ELSE 0
    Bad == {s \in SUBSET S : ~(F[s] \in Int /\ G[s] = F[s] + Diff(s))}
<1>3. ASSUME NEW s \in Bad, \A r \in Bad : r \subseteq s => r = s PROVE FALSE
  <2> DEFINE x == Member(s)
             r == s \ {x}
  <2>1. /\ F[s] = IF s = {} THEN 0 ELSE f[x] + F[r]
        /\ G[s] = IF s = {} THEN 0 ELSE g[x] + G[r]
    BY <1>1, <1>2 DEF Sums
  <2>2. s # {}
    BY <2>1
  <2>3. x \in s
    BY <2>2 DEF Member
  <2>4. r \in SUBSET S /\ r # s /\ r \subseteq s
    BY <2>3
  <2>5. F[r] \in Int /\ G[r] = F[r] + Diff(r)
    BY <2>4, <1>3
  <2>6. f[x] \in Int /\ g[x] \in Int /\ Diff(r) \in Int
    BY <2>3
  <2>7. x = t => g[x] + Diff(r) = f[x] + Diff(s)
    BY <2>3, <2>6
  <2>8. x # t => g[x] + Diff(r) = f[x] + Diff(s)
    BY <2>3, <2>6
  <2>9. Diff(s) \in Int /\ (s \in Bad => ~(F[s] \in Int /\ G[s] = F[s] + Diff(s)))
    OBVIOUS
  <2> HIDE DEF x, r, Diff, Bad
  <2> QED BY <1>3, <2>1, <2>2, <2>5, <2>6, <2>7, <2>8, <2>9
<1>4. Bad = {}
  <2>1. Bad \in SUBSET (SUBSET S)
    OBVIOUS
  <2> HIDE DEF Bad
  <2> QED BY <1>3, <2>1, MinimalSubset
<1>5. G[S] = F[S] + Diff(S)
  BY <1>4
<1> QED BY <1>1, <1>2, <1>5

-----------------------------------------------------------------------------
(* FlattenSeq *)

\* The equation of the concatenations of the first members of ss.
Concats(ss, f) ==
  f = [i \in 1..Len(ss) |-> IF i = 1 THEN ss[i] ELSE f[i - 1] \o ss[i]]

LEMMA ConcatsStep ==
  ASSUME NEW ss, NEW f, Concats(ss, f), NEW n \in Nat, n + 1 \in 1..Len(ss)
  PROVE  f[n + 1] = IF n = 0 THEN ss[n + 1] ELSE f[n] \o ss[n + 1]
<1> DEFINE i == n + 1
<1>1. n = i - 1 /\ (i = 1 <=> n = 0) /\ i \in 1..Len(ss)
  OBVIOUS
<1> HIDE DEF i
<1>2. f[i] = IF i = 1 THEN ss[i] ELSE f[i - 1] \o ss[i]
  BY <1>1, Zenon DEF Concats
<1>3. f[i] = IF n = 0 THEN ss[i] ELSE f[n] \o ss[i]
  BY <1>1, <1>2
<1> QED BY <1>3 DEF i

LEMMA ConcatsExist ==
  ASSUME NEW A, NEW ss \in Seq(A)
  PROVE  \E f : Concats(ss, f)
<1> DEFINE Upto(n, f) == f = [i \in 1..n |-> IF i = 1 THEN ss[i] ELSE f[i - 1] \o ss[i]]
    Extended(n, f) ==
      [i \in 1..n + 1 |-> IF i <= n THEN f[i]
                          ELSE IF i = 1 THEN ss[i] ELSE f[i - 1] \o ss[i]]
    T == {n \in Nat : \E f : Upto(n, f)}
<1>1. 0 \in T
  <2>1. Upto(0, <<>>)
    OBVIOUS
  <2> QED BY <2>1
<1>2. ASSUME NEW n \in Nat, n \in T PROVE n + 1 \in T
  <2>1. PICK f : Upto(n, f)
    BY <1>2
  <2>2. ASSUME NEW i \in 1..n + 1
        PROVE  Extended(n, f)[i]
               = IF i = 1 THEN ss[i] ELSE Extended(n, f)[i - 1] \o ss[i]
    <3>1. CASE i <= n
      <4>1. Extended(n, f)[i] = f[i]
        BY <3>1
      <4>3. i # 1 => Extended(n, f)[i - 1] = f[i - 1]
        <5> SUFFICES ASSUME i # 1 PROVE Extended(n, f)[i - 1] = f[i - 1]
          OBVIOUS
        <5>1. i - 1 \in 1..n + 1 /\ i - 1 <= n
          OBVIOUS
        <5> QED BY <5>1
      <4>2. f[i] = IF i = 1 THEN ss[i] ELSE f[i - 1] \o ss[i]
        <5>1. i \in 1..n
          BY <3>1
        <5> QED BY <5>1, <2>1, Zenon
      <4> QED BY <4>1, <4>2, <4>3
    <3>2. CASE ~(i <= n)
      <4>1. i # 1 => Extended(n, f)[i - 1] = f[i - 1]
        BY <3>2
      <4> QED BY <3>2, <4>1
    <3> QED BY <3>1, <3>2
  <2>3. Upto(n + 1, Extended(n, f))
    BY <2>2
  <2>4. n + 1 \in Nat
    OBVIOUS
  <2> HIDE DEF Upto, Extended
  <2> QED BY <2>3, <2>4
<1>3. Len(ss) \in T
  <2> HIDE DEF T
  <2> QED BY <1>1, <1>2, Induction
<1> QED BY <1>3 DEF Concats

LEMMA FlattenIs ==
  ASSUME NEW A, NEW ss \in Seq(A), ss # <<>>
  PROVE  \E f : Concats(ss, f) /\ FlattenSeq(ss) = f[Len(ss)]
<1> DEFINE h == CHOOSE f : f = [i \in 1..Len(ss) |-> IF i = 1 THEN ss[i] ELSE f[i - 1] \o ss[i]]
<1>1. FlattenSeq(ss) = h[Len(ss)]
  <2>1. Len(ss) # 0
    OBVIOUS
  <2> QED BY <2>1, Zenon DEF FlattenSeq
<1>2. Concats(ss, h)
  <2>1. \E f : Concats(ss, f)
    BY ConcatsExist
  <2>2. h = CHOOSE f : Concats(ss, f)
    BY Zenon DEF Concats
  <2> HIDE DEF h
  <2> QED BY <2>1, <2>2, Zenon
<1> QED BY <1>1, <1>2

\* The concatenation of sequences over A is one.
LEMMA FlattenType ==
  ASSUME NEW A, NEW ss \in Seq(Seq(A))
  PROVE  FlattenSeq(ss) \in Seq(A)
<1>1. CASE ss = <<>>
  BY <1>1 DEF FlattenSeq
<1>2. CASE ss # <<>>
  <2>1. PICK f : Concats(ss, f) /\ FlattenSeq(ss) = f[Len(ss)]
    BY <1>2, FlattenIs
  <2> DEFINE T == {n \in Nat : n \in 1..Len(ss) => f[n] \in Seq(A)}
  <2>2. 0 \in T
    OBVIOUS
  <2>3. ASSUME NEW n \in Nat, n \in T PROVE n + 1 \in T
    <3> SUFFICES ASSUME n + 1 \in 1..Len(ss) PROVE f[n + 1] \in Seq(A)
      OBVIOUS
    <3>1. f[n + 1] = IF n = 0 THEN ss[n + 1] ELSE f[n] \o ss[n + 1]
      BY <2>1, ConcatsStep
    <3>2. ss[n + 1] \in Seq(A)
      OBVIOUS
    <3>3. n # 0 => f[n] \in Seq(A)
      BY <2>3
    <3> QED BY <3>1, <3>2, <3>3
  <2>4. Len(ss) \in T
    <3> HIDE DEF T
    <3> QED BY <2>2, <2>3, Induction
  <2> QED BY <2>1, <2>4, <1>2
<1> QED BY <1>1, <1>2

LEMMA FlattenEmpty == FlattenSeq(<<>>) = <<>>
  BY DEF FlattenSeq

\* A sequence more is concatenated at the end.
LEMMA FlattenAppend ==
  ASSUME NEW A, NEW ss \in Seq(Seq(A)), NEW s \in Seq(A)
  PROVE  FlattenSeq(Append(ss, s)) = FlattenSeq(ss) \o s
<1> DEFINE tt == Append(ss, s)
<1>1. /\ tt \in Seq(Seq(A)) /\ tt # <<>> /\ Len(tt) = Len(ss) + 1 /\ Len(ss) \in Nat
      /\ tt[Len(tt)] = s /\ \A i \in 1..Len(ss) : tt[i] = ss[i]
  <2>1. Len(ss) \in Nat /\ s \in Seq(A) /\ ss \in Seq(Seq(A))
    OBVIOUS
  <2> QED BY <2>1, AppendProperties
<1>2. PICK g : Concats(tt, g) /\ FlattenSeq(tt) = g[Len(tt)]
  BY <1>1, FlattenIs
<1>3. CASE ss = <<>>
  BY <1>1, <1>2, <1>3, FlattenEmpty DEF Concats
<1>4. CASE ss # <<>>
  <2>1. PICK f : Concats(ss, f) /\ FlattenSeq(ss) = f[Len(ss)]
    BY <1>4, FlattenIs
  <2> DEFINE T == {n \in Nat : n \in 1..Len(ss) => g[n] = f[n]}
  <2>2. 0 \in T
    OBVIOUS
  <2>3. ASSUME NEW n \in Nat, n \in T PROVE n + 1 \in T
    <3> SUFFICES ASSUME n + 1 \in 1..Len(ss) PROVE g[n + 1] = f[n + 1]
      OBVIOUS
    <3> HIDE DEF tt
    <3>1. f[n + 1] = IF n = 0 THEN ss[n + 1] ELSE f[n] \o ss[n + 1]
      BY <2>1, ConcatsStep
    <3>2. g[n + 1] = IF n = 0 THEN tt[n + 1] ELSE g[n] \o tt[n + 1]
      <4>1. n + 1 \in 1..Len(tt) /\ Concats(tt, g)
        BY <1>1, <1>2
      <4> QED BY <4>1, ConcatsStep
    <3>3. n # 0 => f[n] = g[n]
      BY <2>3
    <3> QED BY <1>1, <3>1, <3>2, <3>3
  <2>4. Len(ss) \in T
    <3> HIDE DEF T
    <3> QED BY <1>1, <2>2, <2>3, Induction
  <2>5. Len(ss) \in 1..Len(ss) /\ Len(tt) \in 1..Len(tt) /\ Len(tt) # 1 /\ Len(tt) - 1 = Len(ss)
    BY <1>1, <1>4
  <2>6. g[Len(tt)] = g[Len(ss)] \o s
    <3> HIDE DEF tt
    <3> QED BY <1>1, <1>2, <2>5 DEF Concats
  <2> QED BY <1>2, <2>1, <2>4, <2>5, <2>6
<1> QED BY <1>3, <1>4

-----------------------------------------------------------------------------
(* Sequences *)

\* An induction over the sequences of S by their length.
LEMMA SeqInduction ==
  ASSUME NEW S, NEW T, <<>> \in T, \A s \in Seq(S), e \in S : s \in T => Append(s, e) \in T
  PROVE  \A s \in Seq(S) : s \in T
<1> DEFINE N == {n \in Nat : \A s \in Seq(S) : Len(s) = n => s \in T}
<1>1. 0 \in N
  <2>1. \A s \in Seq(S) : Len(s) = 0 => s = <<>>
    OBVIOUS
  <2> QED BY <2>1
<1>2. ASSUME NEW n \in Nat, n \in N PROVE n + 1 \in N
  <2>1. \A s \in Seq(S) : Len(s) = n => s \in T
    BY <1>2
  <2>2. ASSUME NEW s \in Seq(S), Len(s) = n + 1 PROVE s \in T
    <3> DEFINE r == SubSeq(s, 1, n)
               e == s[n + 1]
    <3>1. r \in Seq(S) /\ Len(r) = n /\ e \in S
      BY <2>2
    <3>2. s = Append(r, e)
      <4>1. Append(r, e) \in Seq(S) /\ Len(Append(r, e)) = n + 1
        BY <3>1
      <4>2. \A i \in 1..n + 1 : Append(r, e)[i] = s[i]
        <5> SUFFICES ASSUME NEW i \in 1..n + 1 PROVE Append(r, e)[i] = s[i]
          OBVIOUS
        <5>1. CASE i \in 1..n
          BY <2>2, <3>1, <5>1
        <5>2. CASE i = n + 1
          BY <3>1, <5>2
        <5> QED BY <5>1, <5>2
      <4> QED BY <2>2, <4>1, <4>2, SeqEqual
    <3>3. r \in T
      BY <2>1, <3>1
    <3> HIDE DEF r, e
    <3> QED BY <3>1, <3>2, <3>3
  <2> QED BY <2>2
<1> HIDE DEF N
<1>3. \A n \in Nat : n \in N
  BY <1>1, <1>2, Induction
<1>4. \A s \in Seq(S) : Len(s) \in Nat
  OBVIOUS
<1> QED BY <1>3, <1>4 DEF N

LEMMA ToSetAppend ==
  ASSUME NEW S, NEW s \in Seq(S), NEW e \in S
  PROVE  /\ ToSet(Append(s, e)) = ToSet(s) \union {e}
         /\ IsInjective(Append(s, e)) <=> IsInjective(s) /\ e \notin ToSet(s)
<1>1. /\ DOMAIN s = 1..Len(s) /\ DOMAIN Append(s, e) = 1..Len(s) + 1 /\ Len(s) \in Nat
      /\ \A i \in 1..Len(s) : Append(s, e)[i] = s[i]
      /\ Append(s, e)[Len(s) + 1] = e
  OBVIOUS
<1>2. \A i \in 1..Len(s) + 1 : i \in 1..Len(s) \/ i = Len(s) + 1
  BY <1>1
<1>3. 1..Len(s) \subseteq 1..Len(s) + 1 /\ Len(s) + 1 \in 1..Len(s) + 1 /\ Len(s) + 1 \notin 1..Len(s)
  BY <1>1
<1> DEFINE t == Append(s, e)
<1> HIDE DEF t
<1>4. ToSet(t) = ToSet(s) \union {e}
  BY <1>1, <1>2, <1>3 DEF ToSet, t
<1>5. IsInjective(t) => IsInjective(s) /\ e \notin ToSet(s)
  BY <1>1, <1>3 DEF IsInjective, ToSet, t
<1>6. IsInjective(s) /\ e \notin ToSet(s) => IsInjective(t)
  <2> SUFFICES ASSUME IsInjective(s), e \notin ToSet(s), NEW i \in 1..Len(s) + 1,
                      NEW j \in 1..Len(s) + 1, t[i] = t[j]
               PROVE  i = j
    BY <1>1 DEF IsInjective, t
  <2>1. \A k \in 1..Len(s) : s[k] # e
    BY <1>1 DEF ToSet
  <2>2. \A k \in 1..Len(s) : t[k] = s[k]
    BY <1>1 DEF t
  <2>3. t[Len(s) + 1] = e
    BY <1>1 DEF t
  <2>4. CASE i \in 1..Len(s) /\ j \in 1..Len(s)
    BY <1>1, <2>2, <2>4 DEF IsInjective
  <2>5. CASE i \in 1..Len(s) /\ j = Len(s) + 1
    BY <2>1, <2>2, <2>3, <2>5
  <2>6. CASE i = Len(s) + 1 /\ j \in 1..Len(s)
    BY <2>1, <2>2, <2>3, <2>6
  <2> QED BY <1>2, <2>4, <2>5, <2>6
<1> QED BY <1>4, <1>5, <1>6 DEF t

\* Concatenation adds no element and loses none.
LEMMA ConcatMembers ==
  ASSUME NEW A, NEW f \in Seq(A), NEW s \in Seq(A)
  PROVE  f \o s \in Seq(A) /\ ToSet(f \o s) = ToSet(f) \union ToSet(s)
<1> DEFINE g == f \o s
<1>1. /\ f \in Seq(A) /\ Len(f) \in Nat /\ Len(s) \in Nat /\ Len(g) = Len(f) + Len(s)
      /\ DOMAIN f = 1..Len(f) /\ DOMAIN s = 1..Len(s) /\ DOMAIN g = 1..Len(g)
      /\ \A i \in 1..Len(f) : g[i] = f[i]
      /\ \A i \in 1..Len(s) : g[Len(f) + i] = s[i]
      /\ g \in Seq(A)
  OBVIOUS
<1> HIDE DEF g
<1>2. \A i \in 1..Len(g) : i \in 1..Len(f) \/ (i - Len(f) \in 1..Len(s) /\ i = Len(f) + (i - Len(f)))
  BY <1>1
<1>3. /\ \A i \in 1..Len(f) : i \in 1..Len(g)
      /\ \A i \in 1..Len(s) : Len(f) + i \in 1..Len(g)
  BY <1>1
<1>4. ASSUME NEW i \in 1..Len(g) PROVE g[i] \in ToSet(f) \union ToSet(s)
  <2>1. CASE i \in 1..Len(f)
    BY <1>1, <2>1 DEF ToSet
  <2>2. CASE i - Len(f) \in 1..Len(s) /\ i = Len(f) + (i - Len(f))
    <3>1. g[i] = s[i - Len(f)]
      BY <1>1, <2>2
    <3> QED BY <1>1, <2>2, <3>1 DEF ToSet
  <2> QED BY <1>2, <2>1, <2>2
<1>5. \A i \in 1..Len(f) : f[i] \in ToSet(g)
  BY <1>1, <1>3 DEF ToSet
<1>6. \A i \in 1..Len(s) : s[i] \in ToSet(g)
  BY <1>1, <1>3 DEF ToSet
<1>7. ToSet(g) = ToSet(f) \union ToSet(s)
  BY <1>1, <1>4, <1>5, <1>6, ZenonT(40) DEF ToSet
<1> QED BY <1>1, <1>7 DEF g

\* The elements of a concatenation are the elements of what is concatenated.
LEMMA FlattenMembers ==
  ASSUME NEW A
  PROVE  \A ss \in Seq(Seq(A)) :
           /\ FlattenSeq(ss) \in Seq(A)
           /\ \A e : e \in ToSet(FlattenSeq(ss)) <=> \E i \in 1..Len(ss) : e \in ToSet(ss[i])
<1> DEFINE Members(ss) == \A e : e \in ToSet(FlattenSeq(ss)) <=> \E i \in 1..Len(ss) : e \in ToSet(ss[i])
           T == {ss \in Seq(Seq(A)) : Members(ss)}
<1>1. <<>> \in T
  <2>1. <<>> \in Seq(Seq(A)) /\ FlattenSeq(<<>>) = <<>>
    BY FlattenEmpty
  <2>2. ToSet(<<>>) = {} /\ Len(<<>>) = 0
    BY DEF ToSet
  <2>3. Members(<<>>)
    BY <2>1, <2>2
  <2> QED BY <2>1, <2>3
<1>2. ASSUME NEW ss \in Seq(Seq(A)), NEW s \in Seq(A), ss \in T PROVE Append(ss, s) \in T
  <2> DEFINE tt == Append(ss, s)
  <2>1. /\ tt \in Seq(Seq(A)) /\ Len(tt) = Len(ss) + 1 /\ Len(ss) \in Nat
        /\ tt[Len(ss) + 1] = s /\ \A i \in 1..Len(ss) : tt[i] = ss[i]
    BY AppendProperties
  <2> HIDE DEF tt
  <2>2. FlattenSeq(tt) = FlattenSeq(ss) \o s /\ FlattenSeq(ss) \in Seq(A)
    BY FlattenAppend, FlattenType DEF tt
  <2>3. ToSet(FlattenSeq(ss) \o s) = ToSet(FlattenSeq(ss)) \union ToSet(s)
    BY <2>2, ConcatMembers
  <2>4. Members(tt)
    <3>1. Members(ss)
      BY <1>2
    <3>2. \A i \in 1..Len(tt) : i \in 1..Len(ss) \/ i = Len(ss) + 1
      BY <2>1
    <3>3. /\ \A i \in 1..Len(ss) : i \in 1..Len(tt)
          /\ Len(ss) + 1 \in 1..Len(tt)
      BY <2>1
    <3> SUFFICES ASSUME NEW e
                 PROVE  e \in ToSet(FlattenSeq(tt)) <=> \E i \in 1..Len(tt) : e \in ToSet(tt[i])
      OBVIOUS
    <3>4. e \in ToSet(FlattenSeq(tt)) <=> (\E i \in 1..Len(ss) : e \in ToSet(ss[i])) \/ e \in ToSet(s)
      BY <2>2, <2>3, <3>1
    <3>5. (\E i \in 1..Len(tt) : e \in ToSet(tt[i]))
            <=> (\E i \in 1..Len(ss) : e \in ToSet(ss[i])) \/ e \in ToSet(s)
      BY <2>1, <3>2, <3>3
    <3> QED BY <3>4, <3>5
  <2> QED BY <2>1, <2>4 DEF tt
<1> HIDE DEF T
<1>3. \A ss \in Seq(Seq(A)) : ss \in T
  BY <1>1, <1>2, SeqInduction
<1>4. \A ss \in Seq(Seq(A)) : Members(ss)
  BY <1>3 DEF T
<1> QED BY <1>4, FlattenType
=============================================================================

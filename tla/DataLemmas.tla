------------------------------ MODULE DataLemmas ------------------------------
(***************************************************************************)
(* Lemmas about numbers, finite sets and the operators of Data, on which   *)
(* the proofs about the modules that decide rest.  Induction is by a least *)
(* counterexample.                                                         *)
(***************************************************************************)
EXTENDS Data, TLAPS, FiniteSetTheorems, WellFoundedInduction, SequenceTheorems

-----------------------------------------------------------------------------
(***************************************************************************)
(* Least members.                                                          *)
(***************************************************************************)
\* A set of finite sets has one that holds no other of them.
LEMMA SmallestSet ==
  ASSUME NEW B, NEW T, T # {}, \A X \in T : X \subseteq B /\ IsFiniteSet(X)
  PROVE  \E X \in T : \A Y \in T : Y \subseteq X => Y = X
<1>1. T \subseteq FiniteSubsetsOf(B)
  BY DEF FiniteSubsetsOf
<1>2. PICK X \in T : \A Y \in T : ~(<<Y, X>> \in StrictSubsetOrdering(B))
  BY <1>1, FS_StrictSubsetOrderingWellFounded, WFMin
<1>. QED  BY <1>2 DEF StrictSubsetOrdering

\* Of the parts of a finite set with something in common, one holds no other.
LEMMA SmallestPart ==
  ASSUME NEW S, IsFiniteSet(S), NEW D \in SUBSET SUBSET S, D # {}
  PROVE  \E X \in D : \A Y \in D : Y \subseteq X => Y = X
<1>1. D \subseteq FiniteSubsetsOf(S)
  BY FS_Subset DEF FiniteSubsetsOf
<1>2. PICK X \in D : \A Y \in D : ~(<<Y, X>> \in StrictSubsetOrdering(S))
  BY <1>1, FS_StrictSubsetOrderingWellFounded, WFMin
<1>3. \A Y \in D : Y \subseteq X => Y = X
  BY <1>2 DEF StrictSubsetOrdering
<1>. QED  BY <1>3

\* A set of numbers has a least.
LEMMA LeastNat ==
  ASSUME NEW S \in SUBSET Nat, S # {}
  PROVE  Min(S) \in S /\ \A n \in S : Min(S) <= n
<1> DEFINE T == {1..n : n \in S}
<1>1. \A X \in T : X \subseteq Nat /\ IsFiniteSet(X)
  <2>1. ASSUME NEW n \in S
        PROVE  1..n \subseteq Nat /\ IsFiniteSet(1..n)
    <3>1. n \in Int /\ 1..n \subseteq Nat
      OBVIOUS
    <3>. QED  BY <3>1, FS_Interval
  <2>. QED  BY <2>1
<1>2. T # {}
  OBVIOUS
<1> HIDE DEF T
<1>3. PICK X \in T : \A Y \in T : Y \subseteq X => Y = X
  <2>1. \E B : \A X \in T : X \subseteq B /\ IsFiniteSet(X)
    BY <1>1
  <2>. QED  BY <1>2, <2>1, SmallestSet
<1>4. PICK n \in S : X = 1..n
  BY <1>3 DEF T
<1>5. ASSUME NEW m \in S, m < n
      PROVE  FALSE
  <2>1. 1..m \subseteq X /\ n \in X /\ n \notin 1..m
    BY <1>4, <1>5
  <2>2. 1..m \in T
    BY DEF T
  <2>. QED  BY <1>3, <2>1, <2>2
<1>6. \A m \in S : n <= m
  BY <1>5
<1>. QED  BY <1>6 DEF Min

\* A set of numbers up to n has a greatest.
LEMMA GreatestUpTo ==
  ASSUME NEW n \in Nat, NEW S \in SUBSET (0..n), S # {}
  PROVE  \E m \in S : \A k \in S : k <= m
<1> DEFINE T == {k..n : k \in S}
<1>1. T \subseteq FiniteSubsetsOf(Nat)
  <2>1. ASSUME NEW k \in S
        PROVE  k..n \subseteq Nat /\ IsFiniteSet(k..n)
    <3>1. k \in Int /\ n \in Int /\ k..n \subseteq Nat
      OBVIOUS
    <3>. QED  BY <3>1, FS_Interval
  <2>. QED  BY <2>1 DEF FiniteSubsetsOf
<1>2. T # {}
  OBVIOUS
<1> HIDE DEF T
<1>3. PICK X \in T : \A Y \in T : ~(<<Y, X>> \in StrictSubsetOrdering(Nat))
  BY <1>1, <1>2, FS_StrictSubsetOrderingWellFounded, WFMin
<1>4. PICK m \in S : X = m..n
  BY <1>3 DEF T
<1>5. ASSUME NEW k \in S, m < k
      PROVE  FALSE
  <2>1. k..n \subseteq X /\ m \in X /\ m \notin k..n
    BY <1>4, <1>5
  <2>2. k..n \in T /\ X \subseteq Nat
    BY <1>1, <1>3 DEF T, FiniteSubsetsOf
  <2>. QED  BY <1>3, <2>1, <2>2 DEF StrictSubsetOrdering
<1>. QED  BY <1>5

\* Induction up to n, on a set of numbers.
LEMMA UpTo ==
  ASSUME NEW n \in Nat, NEW G, 0 \in G, \A i \in 0..(n - 1) : i \in G => i + 1 \in G
  PROVE  \A i \in 0..n : i \in G
<1> DEFINE Bad == {i \in 0..n : i \notin G}
<1>1. SUFFICES ASSUME Bad # {}
               PROVE  FALSE
  OBVIOUS
<1>2. Bad \subseteq Nat
  OBVIOUS
<1> DEFINE m == Min(Bad)
<1>3. m \in Bad /\ \A i \in Bad : m <= i
  BY <1>1, <1>2, LeastNat
<1> HIDE DEF m
<1>4. m \in 1..n
  BY <1>3
<1>5. m - 1 \in 0..(n - 1) /\ m - 1 \in G
  BY <1>3, <1>4
<1>6. (m - 1) + 1 = m
  BY <1>4
<1>. QED  BY <1>3, <1>5, <1>6

-----------------------------------------------------------------------------
(***************************************************************************)
(* Among.                                                                  *)
(***************************************************************************)
\* The recursion of Among has a solution, and Among is what it ends with.
LEMMA AmongSteps ==
  ASSUME NEW T, NEW seq \in Seq(T), NEW S
  PROVE  \E kept \in [0..Len(seq) -> Seq(T)] :
           /\ kept[0] = <<>>
           /\ \A i \in 1..Len(seq) :
                kept[i] = IF seq[i] \in S THEN Append(kept[i - 1], seq[i]) ELSE kept[i - 1]
           /\ Among(seq, S) = kept[Len(seq)]
<1> DEFINE n == Len(seq)
           F(before, i) == IF seq[i] \in S THEN Append(before, seq[i]) ELSE before
           R(g) == [i \in 0..n |->
                      IF i = 0 THEN <<>> ELSE IF seq[i] \in S THEN Append(g[i - 1], seq[i]) ELSE g[i - 1]]
           it == CHOOSE g : g = R(g)
           Solves(g, k) == g[0] = <<>> /\ \A i \in 1..k : g[i] = F(g[i - 1], i)
           G == {k \in 0..n : \E g \in [0..k -> Seq(T)] : Solves(g, k)}
<1>1. n \in Nat /\ \A i \in 1..n : seq[i] \in T
  BY ElementOfSeq
<1>2. Among(seq, S) = it[n]
  BY DEF Among
<1>3. \A before \in Seq(T), i \in 1..n : F(before, i) \in Seq(T)
  BY <1>1
<1> HIDE DEF n, F
<1>4. 0 \in G
  <2> DEFINE g == [i \in 0..0 |-> <<>>]
  <2>1. <<>> \in Seq(T) /\ 1..0 = {} /\ 0 \in 0..0
    OBVIOUS
  <2>2. g \in [0..0 -> Seq(T)] /\ g[0] = <<>>
    BY <2>1
  <2> HIDE DEF g
  <2>3. Solves(g, 0)
    BY <2>1, <2>2
  <2>4. 0 \in 0..n
    BY <1>1
  <2>. QED  BY <2>2, <2>3, <2>4
<1>5. ASSUME NEW k \in 0..(n - 1), k \in G
      PROVE  k + 1 \in G
  <2>1. PICK g \in [0..k -> Seq(T)] : Solves(g, k)
    BY <1>5
  <2> DEFINE h == [i \in 0..(k + 1) |-> IF i <= k THEN g[i] ELSE F(g[k], k + 1)]
  <2>2. k \in Nat /\ k + 1 \in 1..n /\ k + 1 \in 0..n
    BY <1>1
  <2>3. h \in [0..(k + 1) -> Seq(T)]
    BY <1>3, <2>1, <2>2
  <2>4. h[0] = <<>>
    BY <2>1, <2>2
  <2>5. ASSUME NEW i \in 1..(k + 1)
        PROVE  h[i] = F(h[i - 1], i)
    <3>1. CASE i <= k
      BY <3>1, <2>1, <2>2
    <3>2. CASE i = k + 1
      BY <3>2, <2>2
    <3>. QED  BY <3>1, <3>2, <2>2
  <2>. QED  BY <2>2, <2>3, <2>4, <2>5
<1>6. n \in G
  <2> HIDE DEF G
  <2>1. \A i \in 0..n : i \in G
    BY <1>1, <1>4, <1>5, UpTo
  <2>. QED  BY <2>1, <1>1
<1>7. PICK g \in [0..n -> Seq(T)] : Solves(g, n)
  BY <1>6
<1>8. g = R(g)
  <2>1. ASSUME NEW i \in 0..n
        PROVE  g[i] = R(g)[i]
    <3>1. CASE i = 0
      BY <3>1, <1>7
    <3>2. CASE i # 0
      <4>1. i \in 1..n
        BY <3>2, <1>1
      <4>2. g[i] = F(g[i - 1], i)
        BY <4>1, <1>7
      <4>. QED  BY <3>2, <4>2 DEF F
    <3>. QED  BY <3>1, <3>2
  <2> HIDE DEF R
  <2>2. \A i \in 0..n : g[i] = R(g)[i]
    BY <2>1
  <2> USE DEF R
  <2>. QED  BY <2>2, <1>7
<1>9. it = R(it)
  <2> HIDE DEF R
  <2>. QED  BY <1>8
<1> HIDE DEF it
<1>10. \A i \in 0..n : it[i] = g[i]
  <2> DEFINE H == {i \in 0..n : it[i] = g[i]}
  <2>1. 0 \in H
    BY <1>1, <1>7, <1>9
  <2>2. ASSUME NEW i \in 0..(n - 1), i \in H
        PROVE  i + 1 \in H
    <3>1. i + 1 \in 1..n /\ i + 1 \in 0..n /\ (i + 1) - 1 = i /\ i + 1 # 0
      BY <1>1
    <3>2. it[i + 1] = F(it[i], i + 1)
      BY <1>9, <3>1 DEF F
    <3>3. g[i + 1] = F(g[i], i + 1)
      BY <1>7, <3>1
    <3>. QED  BY <2>2, <3>1, <3>2, <3>3
  <2> HIDE DEF H
  <2>3. \A i \in 0..n : i \in H
    BY <1>1, <2>1, <2>2, UpTo
  <2>. QED  BY <2>3 DEF H
<1>11. Among(seq, S) = g[n]
  BY <1>1, <1>2, <1>10
<1>. QED  BY <1>7, <1>11 DEF n, F

\* Among keeps the members of a sequence that are in S; all of them, if all are.
LEMMA AmongFacts ==
  ASSUME NEW T, NEW seq \in Seq(T), NEW S
  PROVE  /\ Among(seq, S) \in Seq(T)
         /\ ToSet(Among(seq, S)) = ToSet(seq) \cap S
         /\ ToSet(seq) \subseteq S => Among(seq, S) = seq
<1> DEFINE n == Len(seq)
           among == Among(seq, S)
           First(k) == {seq[j] : j \in 1..k}
<1>1. n \in Nat /\ DOMAIN seq = 1..n /\ \A i \in 1..n : seq[i] \in T
  BY ElementOfSeq
<1>n. n = Len(seq) /\ among = Among(seq, S)
  OBVIOUS
<1> HIDE DEF n, among
<1>2. PICK kept \in [0..n -> Seq(T)] :
        /\ kept[0] = <<>>
        /\ \A i \in 1..n :
             kept[i] = IF seq[i] \in S THEN Append(kept[i - 1], seq[i]) ELSE kept[i - 1]
        /\ among = kept[n]
  BY <1>n, AmongSteps
<1> DEFINE G == {k \in 0..n : /\ ToSet(kept[k]) = First(k) \cap S
                              /\ ToSet(seq) \subseteq S => kept[k] = SubSeq(seq, 1, k)}
<1>3. 0 \in G
  <2>1. 0 \in 0..n /\ 1..0 = {}
    BY <1>1
  <2>2. kept[0] = <<>> /\ ToSet(kept[0]) = {}
    BY <1>2 DEF ToSet
  <2>3. SubSeq(seq, 1, 0) = <<>>
    BY SubSeqProperties
  <2>. QED  BY <2>1, <2>2, <2>3
<1>4. ASSUME NEW k \in 0..(n - 1), k \in G
      PROVE  k + 1 \in G
  <2> DEFINE j == k + 1
  <2>1. k \in Nat /\ j \in 1..n /\ j \in 0..n /\ j - 1 = k /\ 1..j = (1..k) \cup {j}
    BY <1>1
  <2>2. seq[j] \in T /\ kept[k] \in Seq(T)
    BY <1>1, <1>2, <2>1
  <2>3. kept[j] = IF seq[j] \in S THEN Append(kept[k], seq[j]) ELSE kept[k]
    BY <1>2, <2>1
  <2>4. First(j) = First(k) \cup {seq[j]}
    BY <2>1
  <2>5. ToSet(Append(kept[k], seq[j])) = ToSet(kept[k]) \cup {seq[j]}
    <3>1. DOMAIN Append(kept[k], seq[j]) = 1..(Len(kept[k]) + 1) /\ DOMAIN kept[k] = 1..Len(kept[k])
      BY <2>2, AppendProperties
    <3>2. \A i \in 1..Len(kept[k]) : Append(kept[k], seq[j])[i] = kept[k][i]
      BY <2>2, AppendProperties
    <3>3. Append(kept[k], seq[j])[Len(kept[k]) + 1] = seq[j]
      BY <2>2, AppendProperties
    <3>4. Len(kept[k]) \in Nat
      BY <2>2, LenProperties
    <3>. QED  BY ONLY <3>1, <3>2, <3>3, <3>4, SMTT(30) DEF ToSet
  <2>6. ToSet(kept[j]) = First(j) \cap S
    <3>1. ToSet(kept[k]) = First(k) \cap S
      BY <1>4
    <3> HIDE DEF First, j
    <3>. QED  BY <3>1, <2>3, <2>4, <2>5
  <2>7. ASSUME ToSet(seq) \subseteq S
        PROVE  kept[j] = SubSeq(seq, 1, j)
    <3>1. seq[j] \in S
      BY <2>7, <2>1, <1>1 DEF ToSet
    <3>2. kept[j] = Append(SubSeq(seq, 1, k), seq[j])
      BY <3>1, <2>3, <2>7, <1>4
    <3>3. SubSeq(seq, 1, j) = Append(SubSeq(seq, 1, j - 1), seq[j])
      BY <2>1, <1>1 DEF n
    <3>. QED  BY <3>2, <3>3, <2>1
  <2>. QED  BY <2>1, <2>6, <2>7
<1>5. n \in G
  <2> HIDE DEF G
  <2>1. \A k \in 0..n : k \in G
    BY <1>1, <1>3, <1>4, UpTo
  <2>. QED  BY <2>1, <1>1
<1>6. First(n) = ToSet(seq) /\ SubSeq(seq, 1, n) = seq
  BY <1>1 DEF ToSet, n
<1>7. kept[n] \in Seq(T) /\ Among(seq, S) = kept[n]
  BY <1>n, <1>1, <1>2
<1>8. ToSet(kept[n]) = ToSet(seq) \cap S
  BY <1>5, <1>6
<1>9. ToSet(seq) \subseteq S => kept[n] = seq
  BY <1>5, <1>6
<1> HIDE DEF G, First
<1>. QED  BY <1>7, <1>8, <1>9

-----------------------------------------------------------------------------
(***************************************************************************)
(* Enumerations.                                                           *)
(***************************************************************************)
\* SetToSeq lists each member of a finite set once.
LEMMA SetToSeqFacts ==
  ASSUME NEW S, IsFiniteSet(S)
  PROVE  /\ Cardinality(S) \in Nat
         /\ SetToSeq(S) \in Seq(S) /\ Len(SetToSeq(S)) = Cardinality(S)
         /\ SetToSeq(S) \in [1..Cardinality(S) -> S]
         /\ \A x \in S : \E i \in 1..Cardinality(S) : SetToSeq(S)[i] = x
         /\ \A i, j \in 1..Cardinality(S) : SetToSeq(S)[i] = SetToSeq(S)[j] => i = j
<1> DEFINE n == Cardinality(S)
           f == SetToSeq(S)
<1>1. n \in Nat /\ ExistsBijection(1..n, S)
  BY FS_CardinalityType
<1>2. f \in [1..n -> S] /\ IsInjective(f)
  <2>1. \E g : g \in [1..n -> S] /\ IsInjective(g)
    BY <1>1 DEF ExistsBijection, Bijection, Injection
  <2>. QED  BY <2>1 DEF SetToSeq
<1> HIDE DEF n, f
<1>3. f \in Injection(1..n, S)
  BY <1>2 DEF Injection
<1>4. f \in Surjection(1..n, S)
  <2>1. Cardinality(1..n) = n
    BY <1>1, FS_Interval
  <2>. QED  BY <1>3, <2>1, FS_Injection DEF n
<1>5. \A x \in S : \E i \in 1..n : f[i] = x
  BY <1>4 DEF Surjection
<1>6. \A i, j \in 1..n : f[i] = f[j] => i = j
  BY <1>2 DEF IsInjective
<1>. QED  BY <1>1, <1>2, <1>5, <1>6 DEF n, f

-----------------------------------------------------------------------------
(***************************************************************************)
(* Sums.                                                                   *)
(***************************************************************************)
\* The recursion of Total has a solution, and Total is what it gives for the
\* whole domain.
LEMMA TotalSteps ==
  ASSUME NEW S, IsFiniteSet(S), NEW f \in [S -> Int]
  PROVE  \E iter \in [SUBSET S -> Int] :
           /\ iter[{}] = 0
           /\ \A s \in SUBSET S : s # {} =>
                iter[s] = f[CHOOSE x \in s : TRUE] + iter[s \ {CHOOSE x \in s : TRUE}]
           /\ Total(f) = iter[S]
<1> DEFINE c(s) == CHOOSE x \in s : TRUE
           Solves(g, t) == /\ g \in [SUBSET t -> Int] /\ g[{}] = 0
                           /\ \A s \in SUBSET t : s # {} => g[s] = f[c(s)] + g[s \ {c(s)}]
           R(g) == [s \in SUBSET S |-> IF s = {} THEN 0 ELSE f[c(s)] + g[s \ {c(s)}]]
           it == CHOOSE g : g = R(g)
<1>1. Total(f) = it[S]
  <2>1. DOMAIN f = S
    OBVIOUS
  <2>. QED  BY <2>1 DEF Total, FoldFunction, FoldFunctionOnSet, MapThenFoldSet
<1>2. \A s : s # {} => c(s) \in s
  OBVIOUS
<1>3. \A s \in SUBSET S : IsFiniteSet(s)
  BY FS_Subset
<1> HIDE DEF c
<1>4. ASSUME NEW g, NEW h, NEW t \in SUBSET S, NEW u \in SUBSET S, Solves(g, t), Solves(h, u),
             NEW s \in SUBSET (t \cap u)
      PROVE  g[s] = h[s]
  <2> DEFINE D == {r \in SUBSET (t \cap u) : g[r] # h[r]}
  <2>1. SUFFICES ASSUME D # {}
                 PROVE  FALSE
    OBVIOUS
  <2>2. D \in SUBSET SUBSET S
    OBVIOUS
  <2>3. PICK r \in D : \A Y \in D : Y \subseteq r => Y = r
    <3> HIDE DEF D
    <3>. QED  BY <2>1, <2>2, SmallestPart
  <2>4. r # {} /\ r \in SUBSET t /\ r \in SUBSET u
    BY <1>4, <2>3
  <2>5. c(r) \in r /\ r \ {c(r)} \in SUBSET (t \cap u) /\ r \ {c(r)} # r /\ r \ {c(r)} \subseteq r
    BY <1>2, <2>4
  <2>6. g[r \ {c(r)}] = h[r \ {c(r)}]
    BY <2>3, <2>5
  <2>. QED  BY <1>4, <2>3, <2>4, <2>6
<1>5. \A t \in SUBSET S : \E g : Solves(g, t)
  <2> DEFINE D == {r \in SUBSET S : ~\E g : Solves(g, r)}
  <2>1. SUFFICES ASSUME D # {}
                 PROVE  FALSE
    OBVIOUS
  <2>2. D \in SUBSET SUBSET S
    OBVIOUS
  <2>3. PICK t \in D : \A Y \in D : Y \subseteq t => Y = t
    <3> HIDE DEF D
    <3>. QED  BY <2>1, <2>2, SmallestPart
  <2> DEFINE the(s) == CHOOSE g : Solves(g, s)
             h == [s \in SUBSET t |-> IF s = {} THEN 0
                                      ELSE f[c(s)] + the(s \ {c(s)})[s \ {c(s)}]]
  <2>4. \A s \in SUBSET t : s # t => Solves(the(s), s)
    <3>1. ASSUME NEW s \in SUBSET t, s # t
          PROVE  \E g : Solves(g, s)
      BY <3>1, <2>3
    <3> HIDE DEF Solves
    <3>. QED  BY <3>1
  <2> HIDE DEF the
  <2>5. \A s \in SUBSET t : s # {} =>
          /\ c(s) \in s /\ s \ {c(s)} \in SUBSET t /\ s \ {c(s)} # t
          /\ c(s) \in S /\ s \ {c(s)} \in SUBSET s
    BY <1>2
  <2>6. \A s \in SUBSET t : h[s] \in Int
    <3>1. ASSUME NEW s \in SUBSET t, s # {}
          PROVE  the(s \ {c(s)})[s \ {c(s)}] \in Int
      <4>1. Solves(the(s \ {c(s)}), s \ {c(s)})
        BY <3>1, <2>4, <2>5
      <4>. QED  BY <4>1
    <3>2. ASSUME NEW s \in SUBSET t, s # {}
          PROVE  f[c(s)] \in Int
      BY <3>2, <2>5
    <3>. QED  BY <3>1, <3>2
  <2>7. ASSUME NEW s \in SUBSET t, s # {}, s # t
        PROVE  h[s] = the(s)[s]
    <3> DEFINE r == s \ {c(s)}
    <3>1. r \in SUBSET s /\ r \in SUBSET t /\ r # t /\ s \in SUBSET S /\ r \in SUBSET S
      BY <2>5, <2>7
    <3>2. Solves(the(s), s) /\ Solves(the(r), r)
      BY <2>4, <2>7, <3>1
    <3>3. the(s)[s] = f[c(s)] + the(s)[r]
      BY <2>7, <3>2
    <3>4. the(s)[r] = the(r)[r]
      <4>1. r \in SUBSET (s \cap r)
        BY <3>1
      <4> HIDE DEF Solves, r
      <4>. QED  BY <1>4, <3>1, <3>2, <4>1
    <3>. QED  BY <2>7, <3>3, <3>4
  <2>8. Solves(h, t)
    <3>1. h[{}] = 0 /\ h \in [SUBSET t -> Int]
      BY <2>6
    <3>2. ASSUME NEW s \in SUBSET t, s # {}
          PROVE  h[s] = f[c(s)] + h[s \ {c(s)}]
      <4> DEFINE r == s \ {c(s)}
      <4>1. r \in SUBSET t /\ r # t
        BY <2>5, <3>2
      <4>2. h[s] = f[c(s)] + the(r)[r]
        BY <3>2
      <4>3. h[r] = the(r)[r]
        <5>1. CASE r = {}
          <6>1. Solves(the(r), r)
            BY <2>4, <4>1
          <6>. QED  BY <5>1, <6>1, <3>1
        <5>2. CASE r # {}
          <6> HIDE DEF r, h
          <6>. QED  BY <5>2, <4>1, <2>7
        <5>. QED  BY <5>1, <5>2
      <4>. QED  BY <4>2, <4>3
    <3> HIDE DEF h
    <3>. QED  BY <3>1, <3>2
  <2>. QED  BY <2>3, <2>8
<1>6. PICK g : Solves(g, S)
  BY <1>5
<1>7. g = R(g)
  <2>1. \A s \in SUBSET S : g[s] = R(g)[s]
    BY <1>6
  <2>2. g \in [SUBSET S -> Int]
    BY <1>6
  <2>. QED  BY <2>1, <2>2
<1>8. it = R(it)
  <2> HIDE DEF R
  <2>. QED  BY <1>7
<1> HIDE DEF it
<1>9. \A s \in SUBSET S : it[s] \in Int
  <2> DEFINE D == {r \in SUBSET S : it[r] \notin Int}
  <2>1. SUFFICES ASSUME D # {}
                 PROVE  FALSE
    OBVIOUS
  <2>2. D \in SUBSET SUBSET S
    OBVIOUS
  <2>3. PICK r \in D : \A Y \in D : Y \subseteq r => Y = r
    <3> HIDE DEF D
    <3>. QED  BY <2>1, <2>2, SmallestPart
  <2>4. it[r] = IF r = {} THEN 0 ELSE f[c(r)] + it[r \ {c(r)}]
    BY <1>8, <2>3
  <2>5. CASE r # {}
    <3>1. c(r) \in r /\ c(r) \in S /\ r \ {c(r)} \in SUBSET S /\ r \ {c(r)} # r /\ r \ {c(r)} \subseteq r
      BY <1>2, <2>3, <2>5
    <3>2. it[r \ {c(r)}] \in Int
      BY <2>3, <3>1
    <3>3. f[c(r)] \in Int
      BY <3>1
    <3>. QED  BY <2>3, <2>4, <2>5, <3>2, <3>3
  <2>. QED  BY <2>3, <2>4, <2>5
<1>10. it \in [SUBSET S -> Int]
  BY <1>8, <1>9
<1>11. it[{}] = 0 /\ \A s \in SUBSET S : s # {} => it[s] = f[c(s)] + it[s \ {c(s)}]
  BY <1>8
<1>. QED  BY <1>1, <1>10, <1>11 DEF c

\* Total does not depend on the order in which it is summed, and it is the sum
\* for each part of the domain.
LEMMA TotalFacts ==
  ASSUME NEW S, IsFiniteSet(S), NEW f \in [S -> Int]
  PROVE  \E sum \in [SUBSET S -> Int] :
           /\ sum[{}] = 0
           /\ \A s \in SUBSET S : \A x \in s : sum[s] = f[x] + sum[s \ {x}]
           /\ \A s \in SUBSET S : Total([x \in s |-> f[x]]) = sum[s]
           /\ Total(f) = sum[S]
<1> DEFINE c(s) == CHOOSE x \in s : TRUE
<1>1. PICK sum \in [SUBSET S -> Int] :
        /\ sum[{}] = 0
        /\ \A s \in SUBSET S : s # {} => sum[s] = f[c(s)] + sum[s \ {c(s)}]
        /\ Total(f) = sum[S]
  BY TotalSteps
<1>2. \A s : s # {} => c(s) \in s
  OBVIOUS
<1>3. \A s \in SUBSET S : IsFiniteSet(s)
  BY FS_Subset
<1>4. ASSUME NEW t \in SUBSET S
      PROVE  Total([x \in t |-> f[x]]) = sum[t]
  <2> DEFINE g == [x \in t |-> f[x]]
  <2>1. IsFiniteSet(t) /\ g \in [t -> Int] /\ \A x \in t : g[x] = f[x]
    BY <1>3
  <2>g. g = [x \in t |-> f[x]]
    OBVIOUS
  <2> HIDE DEF g
  <2>2. PICK part \in [SUBSET t -> Int] :
          /\ part[{}] = 0
          /\ \A s \in SUBSET t : s # {} => part[s] = g[c(s)] + part[s \ {c(s)}]
          /\ Total(g) = part[t]
    BY <2>1, TotalSteps
  <2> HIDE DEF c
  <2> DEFINE D == {r \in SUBSET t : part[r] # sum[r]}
  <2>3. D = {}
    <3>1. SUFFICES ASSUME D # {}
                   PROVE  FALSE
      OBVIOUS
    <3>2. D \in SUBSET SUBSET S
      OBVIOUS
    <3>3. PICK r \in D : \A Y \in D : Y \subseteq r => Y = r
      <4> HIDE DEF D
      <4>. QED  BY <3>1, <3>2, SmallestPart
    <3>4. r # {} /\ r \in SUBSET t /\ r \in SUBSET S
      BY <1>1, <2>2, <3>3
    <3>5. c(r) \in r /\ c(r) \in t /\ r \ {c(r)} \in SUBSET t /\ r \ {c(r)} # r /\ r \ {c(r)} \subseteq r
      BY <1>2, <3>4
    <3>6. part[r \ {c(r)}] = sum[r \ {c(r)}] /\ g[c(r)] = f[c(r)]
      BY <2>1, <3>3, <3>5
    <3>7. part[r] = g[c(r)] + part[r \ {c(r)}] /\ sum[r] = f[c(r)] + sum[r \ {c(r)}]
      BY <1>1, <2>2, <3>4
    <3>. QED  BY <3>3, <3>6, <3>7
  <2>4. part[t] = sum[t]
    BY <2>3
  <2>. QED  BY <2>2, <2>4, <2>g
<1> HIDE DEF c
<1>5. ASSUME NEW s \in SUBSET S, NEW x \in s
      PROVE  sum[s] = f[x] + sum[s \ {x}]
  <2> DEFINE D == {r \in SUBSET S : \E y \in r : sum[r] # f[y] + sum[r \ {y}]}
  <2>1. D = {}
    <3>1. SUFFICES ASSUME D # {}
                   PROVE  FALSE
      OBVIOUS
    <3>2. D \in SUBSET SUBSET S
      OBVIOUS
    <3>3. PICK r \in D : \A Y \in D : Y \subseteq r => Y = r
      <4> HIDE DEF D
      <4>. QED  BY <3>1, <3>2, SmallestPart
    <3>4. PICK y \in r : sum[r] # f[y] + sum[r \ {y}]
      BY <3>3
    <3> DEFINE z == c(r)
               ry == r \ {y}
               rz == r \ {z}
               ryz == r \ {y, z}
    <3>5. z \in r /\ r \in SUBSET S /\ sum[r] = f[z] + sum[rz]
      BY <1>1, <1>2, <3>3, <3>4
    <3>6. y # z
      BY <3>4, <3>5
    <3>7. /\ ry \in SUBSET S /\ rz \in SUBSET S /\ ryz \in SUBSET S
          /\ ry # r /\ rz # r /\ ry \subseteq r /\ rz \subseteq r
          /\ z \in ry /\ y \in rz /\ ry \ {z} = ryz /\ rz \ {y} = ryz
      BY <3>4, <3>5, <3>6
    <3>8. ry \notin D /\ rz \notin D
      <4> HIDE DEF ry, rz, D
      <4>. QED  BY <3>3, <3>7
    <3> HIDE DEF ry, rz, ryz, z
    <3>9. sum[ry] = f[z] + sum[ryz] /\ sum[rz] = f[y] + sum[ryz]
      BY <3>7, <3>8
    <3>10. f[y] \in Int /\ f[z] \in Int /\ sum[ryz] \in Int /\ sum[ry] \in Int /\ sum[rz] \in Int
      BY <1>1, <3>4, <3>5, <3>7
    <3>11. sum[r] = f[y] + sum[ry]
      BY <3>5, <3>9, <3>10
    <3>. QED  BY <3>4, <3>11 DEF ry
  <2>. QED  BY <2>1
<1>. QED  BY <1>1, <1>4, <1>5

\* A sum of integers is one.
LEMMA TotalInt ==
  ASSUME NEW S, IsFiniteSet(S), NEW f \in [S -> Int]
  PROVE  Total(f) \in Int
<1>1. PICK sum \in [SUBSET S -> Int] :
        /\ sum[{}] = 0
        /\ \A s \in SUBSET S : \A x \in s : sum[s] = f[x] + sum[s \ {x}]
        /\ \A s \in SUBSET S : Total([x \in s |-> f[x]]) = sum[s]
        /\ Total(f) = sum[S]
  BY TotalFacts
<1>2. S \in SUBSET S
  OBVIOUS
<1> HIDE DEF Total
<1>. QED  BY <1>1, <1>2

\* A sum of natural numbers is one, at least each of them, and a part of it is no
\* more than the whole.
LEMMA TotalNat ==
  ASSUME NEW S, IsFiniteSet(S), NEW f \in [S -> Nat]
  PROVE  /\ Total(f) \in Nat
         /\ \A x \in S : f[x] <= Total(f)
         /\ \A s \in SUBSET S : Total([x \in s |-> f[x]]) \in Nat /\ Total([x \in s |-> f[x]]) <= Total(f)
         /\ \A s \in SUBSET S : \A y \in S \ s :
              Total([x \in s |-> f[x]]) + f[y] <= Total(f)
<1>1. f \in [S -> Int] /\ \A x \in S : f[x] \in Nat
  OBVIOUS
<1>2. PICK sum \in [SUBSET S -> Int] :
        /\ sum[{}] = 0
        /\ \A s \in SUBSET S : \A x \in s : sum[s] = f[x] + sum[s \ {x}]
        /\ \A s \in SUBSET S : Total([x \in s |-> f[x]]) = sum[s]
        /\ Total(f) = sum[S]
  BY <1>1, TotalFacts
<1>3. \A s \in SUBSET S : IsFiniteSet(s)
  BY FS_Subset
<1>4. \A t, s \in SUBSET S : s \subseteq t => sum[s] <= sum[t]
  <2> DEFINE D == {t \in SUBSET S : \E s \in SUBSET t : ~(sum[s] <= sum[t])}
  <2>1. SUFFICES ASSUME D # {}
                 PROVE  FALSE
    OBVIOUS
  <2>2. D \in SUBSET SUBSET S
    OBVIOUS
  <2>3. PICK t \in D : \A Y \in D : Y \subseteq t => Y = t
    <3> HIDE DEF D
    <3>. QED  BY <2>1, <2>2, SmallestPart
  <2>4. PICK s \in SUBSET t : ~(sum[s] <= sum[t])
    BY <2>3
  <2>5. s # t /\ sum[s] \in Int /\ sum[t] \in Int /\ t \in SUBSET S
    BY <2>3, <2>4
  <2>6. PICK x \in t : x \notin s
    BY <2>5
  <2> DEFINE r == t \ {x}
  <2>7. r \in SUBSET S /\ s \in SUBSET r /\ r # t /\ r \subseteq t
    BY <2>5, <2>6
  <2>8. sum[s] <= sum[r]
    BY <2>3, <2>7
  <2>9. sum[t] = f[x] + sum[r] /\ f[x] \in Nat /\ sum[r] \in Int
    BY <1>1, <1>2, <2>5, <2>6, <2>7
  <2>. QED  BY <2>4, <2>5, <2>8, <2>9
<1>5. \A s \in SUBSET S : sum[s] \in Nat
  <2>1. \A s \in SUBSET S : 0 <= sum[s] /\ sum[s] \in Int
    BY <1>2, <1>4
  <2>. QED  BY <2>1
<1>6. ASSUME NEW s \in SUBSET S, NEW y \in S \ s
      PROVE  sum[s] + f[y] <= sum[S]
  <2> DEFINE t == s \cup {y}
  <2>1. t \in SUBSET S /\ y \in t /\ t \ {y} = s
    OBVIOUS
  <2>2. sum[t] = f[y] + sum[s]
    BY <1>2, <2>1
  <2>3. sum[t] <= sum[S]
    BY <1>4, <2>1
  <2>. QED  BY <1>1, <1>5, <2>1, <2>2, <2>3
<1>7. ASSUME NEW x \in S
      PROVE  f[x] <= sum[S]
  <2>1. {} \in SUBSET S /\ x \in S \ {}
    OBVIOUS
  <2>2. sum[{}] + f[x] <= sum[S]
    BY <2>1, <1>6
  <2>. QED  BY <1>1, <1>2, <2>2
<1>8. \A s \in SUBSET S : Total([x \in s |-> f[x]]) = sum[s]
  BY <1>2
<1>9. \A s \in SUBSET S : sum[s] <= sum[S]
  BY <1>4
<1>10. Total(f) = sum[S] /\ sum[S] \in Nat
  BY <1>2, <1>5
<1> HIDE DEF Total
<1>. QED  BY ONLY <1>5, <1>6, <1>7, <1>8, <1>9, <1>10

-----------------------------------------------------------------------------
(***************************************************************************)
(* Bounds, images and sizes.                                               *)
(***************************************************************************)
\* A finite set of integers has a greatest.
LEMMA GreatestInt ==
  ASSUME NEW S, S \subseteq Int, IsFiniteSet(S), S # {}
  PROVE  Max(S) \in S /\ \A x \in S : x <= Max(S)
<1> DEFINE Above(x) == {y \in S : y >= x}
           D == {Above(x) : x \in S}
<1>1. D \in SUBSET SUBSET S
  OBVIOUS
<1>n. D # {}
  OBVIOUS
<1> HIDE DEF D
<1>2. PICK X \in D : \A Y \in D : Y \subseteq X => Y = X
  BY ONLY <1>1, <1>n, IsFiniteSet(S), SmallestPart
<1>3. PICK m \in S : X = Above(m)
  BY <1>2 DEF D
<1>4. ASSUME NEW x \in S, ~(x <= m)
      PROVE  FALSE
  <2>1. x \in Int /\ m \in Int /\ x > m
    BY <1>4
  <2>2. Above(x) \subseteq Above(m) /\ m \in Above(m) /\ m \notin Above(x)
    <3>1. ASSUME NEW y \in Above(x)
          PROVE  y \in Above(m)
      <4>1. y \in S /\ y \in Int /\ y >= x
        BY <3>1
      <4>. QED  BY <2>1, <4>1
    <3>2. m \in Above(m) /\ m \notin Above(x)
      BY <2>1
    <3>. QED  BY <3>1, <3>2
  <2>3. Above(x) \in D
    BY DEF D
  <2>. QED  BY <1>2, <1>3, <2>2, <2>3
<1>5. \A x \in S : x <= m
  BY <1>4
<1>6. \A x \in S : m >= x
  BY <1>5
<1>7. Max(S) \in S /\ \A x \in S : Max(S) >= x
  BY <1>6 DEF Max
<1>. QED  BY <1>7

\* Of two numbers.
LEMMA PairBounds ==
  ASSUME NEW a \in Int, NEW b \in Int
  PROVE  Max({a, b}) = (IF a >= b THEN a ELSE b) /\ Min({a, b}) = (IF a <= b THEN a ELSE b)
BY DEF Max, Min

\* What a function gives for a finite set is finite.
LEMMA FiniteRange ==
  ASSUME NEW S, IsFiniteSet(S), NEW f
  PROVE  IsFiniteSet({f[x] : x \in S})
<1> DEFINE T == {f[x] : x \in S}
           g == [x \in S |-> f[x]]
<1>1. g \in Surjection(S, T)
  BY DEF Surjection
<1>. QED  BY <1>1, FS_Surjection

\* A part of a finite set that lacks a member is smaller.
LEMMA SmallerPart ==
  ASSUME NEW S, IsFiniteSet(S), NEW T \in SUBSET S, NEW x \in S, x \notin T
  PROVE  Cardinality(T) \in Nat /\ Cardinality(S) \in Nat /\ Cardinality(T) < Cardinality(S)
<1>1. IsFiniteSet(T) /\ Cardinality(T) <= Cardinality(S) /\ Cardinality(S) # Cardinality(T)
  BY FS_Subset
<1>2. Cardinality(T) \in Nat /\ Cardinality(S) \in Nat
  BY <1>1, FS_CardinalityType
<1>. QED  BY <1>1, <1>2

\* In a finite set with a strict order of all its members there is one before
\* which n others come, for each n that is less than their number.
LEMMA PositionsInOrder ==
  ASSUME NEW D, IsFiniteSet(D), NEW R,
         \A x \in D : <<x, x>> \notin R,
         \A x, y, z \in D : <<x, y>> \in R /\ <<y, z>> \in R => <<x, z>> \in R,
         \A x, y \in D : x # y => <<x, y>> \in R \/ <<y, x>> \in R
  PROVE  LET before == [x \in D |-> Cardinality({y \in D : <<y, x>> \in R})] IN
         /\ Cardinality(D) \in Nat
         /\ \A x \in D : before[x] \in 0..(Cardinality(D) - 1)
         /\ \A x, y \in D : before[x] < before[y] <=> <<x, y>> \in R
         /\ \A n \in 0..(Cardinality(D) - 1) : \E x \in D : before[x] = n
<1> DEFINE ahead(x) == {y \in D : <<y, x>> \in R}
           before == [x \in D |-> Cardinality(ahead(x))]
           n == Cardinality(D)
<1>1. n \in Nat
  BY FS_CardinalityType
<1>2. ASSUME NEW x \in D
      PROVE  IsFiniteSet(ahead(x)) /\ before[x] \in Nat /\ before[x] < n
  <2>1. ahead(x) \in SUBSET D /\ x \notin ahead(x)
    OBVIOUS
  <2>2. before[x] = Cardinality(ahead(x))
    OBVIOUS
  <2> HIDE DEF ahead, before
  <2>. QED  BY <2>1, <2>2, SmallerPart, FS_Subset
<1>3. ASSUME NEW x \in D, NEW y \in D, <<x, y>> \in R
      PROVE  before[x] < before[y]
  <2>1. ahead(x) \in SUBSET ahead(y) /\ x \in ahead(y) /\ x \notin ahead(x)
    BY <1>3
  <2>2. before[x] = Cardinality(ahead(x)) /\ before[y] = Cardinality(ahead(y)) /\ IsFiniteSet(ahead(y))
    BY <1>2
  <2> HIDE DEF ahead, before
  <2>. QED  BY <2>1, <2>2, SmallerPart
<1>4. ASSUME NEW x \in D, NEW y \in D, before[x] < before[y]
      PROVE  <<x, y>> \in R
  <2>1. before[x] \in Nat /\ before[y] \in Nat
    BY <1>2
  <2>2. x # y
    <3> HIDE DEF before
    <3>. QED  BY <1>4, <2>1
  <2>3. <<y, x>> \notin R
    <3> HIDE DEF before
    <3>. QED  BY <1>3, <1>4, <2>1
  <2>. QED  BY <2>2, <2>3
<1>c. \A x \in D : before[x] = Cardinality({y \in D : <<y, x>> \in R})
  OBVIOUS
<1>d. before \in [D -> 0..(n - 1)]
  <2>1. ASSUME NEW x \in D
        PROVE  before[x] \in 0..(n - 1)
    <3>1. before[x] \in Nat /\ before[x] < n
      BY <1>2
    <3> HIDE DEF before, n
    <3>. QED  BY ONLY <1>1, <3>1
  <2>. QED  BY <2>1
<1> HIDE DEF before, n, ahead
<1>5. before \in Injection(D, 0..(n - 1))
  <2>1. ASSUME NEW x \in D, NEW y \in D, before[x] = before[y]
        PROVE  x = y
    <3>1. before[x] \in Nat /\ before[y] \in Nat
      BY <1>2
    <3>2. <<x, y>> \notin R /\ <<y, x>> \notin R
      BY <1>3, <2>1, <3>1
    <3>. QED  BY <3>2
  <2>. QED  BY <1>d, <2>1 DEF Injection, IsInjective
<1>6. before \in Surjection(D, 0..(n - 1))
  <2>1. IsFiniteSet(0..(n - 1)) /\ Cardinality(0..(n - 1)) = n
    <3>1. 0 \in Int /\ n - 1 \in Int
      BY <1>1
    <3>2. /\ IsFiniteSet(0..(n - 1))
          /\ Cardinality(0..(n - 1)) = IF 0 > n - 1 THEN 0 ELSE (n - 1) - 0 + 1
      BY <3>1, FS_Interval
    <3>. QED  BY <1>1, <3>2
  <2>. QED  BY <1>5, <2>1, FS_Injection DEF n
<1>7. \A k \in 0..(n - 1) : \E x \in D : before[x] = k
  BY <1>6 DEF Surjection
<1>. QED  BY <1>1, <1>3, <1>4, <1>7, <1>d DEF before, n, ahead

\* The places at which a sequence sorted by keys has its members: each once, in the
\* order of their keys and of their places.
Sorting(seq, key, sorted, at) ==
  /\ \A i \in DOMAIN seq : sorted[i] = seq[at[i]]
  /\ \A i, j \in DOMAIN seq : i < j => Earlier(key, at[i], at[j])
  /\ \A i, j \in DOMAIN seq : at[i] = at[j] => i = j
  /\ \A k \in DOMAIN seq : \E i \in DOMAIN seq : at[i] = k

\* A sequence sorted by keys is a sorting of the sequence.
LEMMA SortedByFacts ==
  ASSUME NEW T, NEW seq \in Seq(T), NEW key, \A i \in DOMAIN seq : key[i] \in Int
  PROVE  /\ SortedBy(seq, key) \in Seq(T) /\ Len(SortedBy(seq, key)) = Len(seq)
         /\ \E at \in [DOMAIN seq -> DOMAIN seq] : Sorting(seq, key, SortedBy(seq, key), at)
<1> DEFINE n == Len(seq)
           D == 1..n
           R == {e \in D \X D : Earlier(key, e[1], e[2])}
           before == [x \in D |-> Cardinality({y \in D : <<y, x>> \in R})]
           place(i) == CHOOSE k \in D : Cardinality({j \in D : Earlier(key, j, k)}) = i - 1
           at == [i \in D |-> place(i)]
<1>1. n \in Nat /\ DOMAIN seq = D /\ D \subseteq Int /\ \A i \in D : key[i] \in Int
  OBVIOUS
<1>2. IsFiniteSet(D) /\ Cardinality(D) = n
  <2>1. IsFiniteSet(1..n) /\ Cardinality(1..n) = IF 1 > n THEN 0 ELSE n - 1 + 1
    BY <1>1, FS_Interval
  <2>. QED  BY <1>1, <2>1
<1> HIDE DEF D, n
<1>3. \A j, k \in D : <<j, k>> \in R <=> Earlier(key, j, k)
  OBVIOUS
<1>4. /\ \A x \in D : <<x, x>> \notin R
      /\ \A x, y, z \in D : <<x, y>> \in R /\ <<y, z>> \in R => <<x, z>> \in R
      /\ \A x, y \in D : x # y => <<x, y>> \in R \/ <<y, x>> \in R
  <2> HIDE DEF R
  <2>1. \A x \in D : <<x, x>> \notin R
    BY <1>1, <1>3 DEF Earlier
  <2>2. \A x, y, z \in D : <<x, y>> \in R /\ <<y, z>> \in R => <<x, z>> \in R
    BY <1>1, <1>3 DEF Earlier
  <2>3. \A x, y \in D : x # y => <<x, y>> \in R \/ <<y, x>> \in R
    BY <1>1, <1>3 DEF Earlier
  <2>. QED  BY <2>1, <2>2, <2>3
<1>c. \A k \in D : before[k] = Cardinality({j \in D : Earlier(key, j, k)})
  <2>1. ASSUME NEW k \in D
        PROVE  {y \in D : <<y, k>> \in R} = {j \in D : Earlier(key, j, k)}
    OBVIOUS
  <2>. QED  BY <2>1
<1> HIDE DEF R
<1>5. /\ \A x \in D : before[x] \in 0..(n - 1)
      /\ \A x, y \in D : before[x] < before[y] <=> <<x, y>> \in R
      /\ \A m \in 0..(n - 1) : \E x \in D : before[x] = m
  BY ONLY <1>2, <1>4, PositionsInOrder
<1> HIDE DEF before
<1>6. ASSUME NEW i \in D
      PROVE  at[i] \in D /\ before[at[i]] = i - 1
  <2>1. i - 1 \in 0..(n - 1)
    BY <1>1 DEF D
  <2>2. \E k \in D : Cardinality({j \in D : Earlier(key, j, k)}) = i - 1
    BY <1>5, <1>c, <2>1
  <2>3. place(i) \in D /\ Cardinality({j \in D : Earlier(key, j, place(i))}) = i - 1
    BY <2>2
  <2> HIDE DEF place
  <2>. QED  BY <1>c, <2>3
<1>7. at \in [D -> D]
  BY <1>6
<1>8. SortedBy(seq, key) = [i \in D |-> seq[at[i]]]
  BY <1>1 DEF SortedBy
<1> HIDE DEF at
<1>9. \A i, j \in D : i < j => Earlier(key, at[i], at[j])
  <2>1. ASSUME NEW i \in D, NEW j \in D, i < j
        PROVE  Earlier(key, at[i], at[j])
    <3>1. before[at[i]] < before[at[j]]
      BY <1>1, <1>6, <2>1
    <3>. QED  BY <1>3, <1>5, <1>6, <3>1
  <2>. QED  BY <2>1
<1>10. \A i, j \in D : at[i] = at[j] => i = j
  <2>1. ASSUME NEW i \in D, NEW j \in D, at[i] = at[j]
        PROVE  i = j
    <3>1. i - 1 = j - 1
      BY <1>6, <2>1
    <3>. QED  BY <1>1, <3>1
  <2>. QED  BY <2>1
<1>11. \A k \in D : \E i \in D : at[i] = k
  <2>1. at \in Injection(D, D)
    BY <1>7, <1>10 DEF Injection, IsInjective
  <2>2. at \in Surjection(D, D)
    BY <1>2, <2>1, FS_Injection
  <2>. QED  BY <2>2 DEF Surjection
<1>12. SortedBy(seq, key) \in Seq(T) /\ Len(SortedBy(seq, key)) = n
  <2>1. \A i \in D : seq[at[i]] \in T
    BY <1>1, <1>7
  <2>2. DOMAIN SortedBy(seq, key) = 1..n /\ \A i \in 1..n : SortedBy(seq, key)[i] \in T
    BY <1>8, <2>1 DEF D
  <2>3. SortedBy(seq, key) \in [1..n -> T]
    BY <1>8, <2>2 DEF D
  <2>. QED  BY <1>1, <2>3
<1>13. \A i \in D : SortedBy(seq, key)[i] = seq[at[i]]
  BY <1>8
<1>14. at \in [DOMAIN seq -> DOMAIN seq] /\ Sorting(seq, key, SortedBy(seq, key), at)
  BY <1>1, <1>7, <1>9, <1>10, <1>11, <1>13 DEF Sorting
<1>. QED  BY <1>12, <1>14 DEF n

\* Sums of two functions, and of one that is nowhere more than another.
LEMMA TotalOrder ==
  ASSUME NEW S, IsFiniteSet(S), NEW f \in [S -> Int], NEW g \in [S -> Int]
  PROVE  /\ Total([x \in S |-> f[x] + g[x]]) = Total(f) + Total(g)
         /\ (\A x \in S : f[x] <= g[x]) => Total(f) <= Total(g)
<1> DEFINE h == [x \in S |-> f[x] + g[x]]
<1>1. h \in [S -> Int]
  OBVIOUS
<1>2. PICK sf \in [SUBSET S -> Int] :
        /\ sf[{}] = 0
        /\ \A s \in SUBSET S : \A x \in s : sf[s] = f[x] + sf[s \ {x}]
        /\ \A s \in SUBSET S : Total([x \in s |-> f[x]]) = sf[s]
        /\ Total(f) = sf[S]
  BY TotalFacts
<1>3. PICK sg \in [SUBSET S -> Int] :
        /\ sg[{}] = 0
        /\ \A s \in SUBSET S : \A x \in s : sg[s] = g[x] + sg[s \ {x}]
        /\ \A s \in SUBSET S : Total([x \in s |-> g[x]]) = sg[s]
        /\ Total(g) = sg[S]
  BY TotalFacts
<1>4. PICK sh \in [SUBSET S -> Int] :
        /\ sh[{}] = 0
        /\ \A s \in SUBSET S : \A x \in s : sh[s] = h[x] + sh[s \ {x}]
        /\ \A s \in SUBSET S : Total([x \in s |-> h[x]]) = sh[s]
        /\ Total(h) = sh[S]
  <2> HIDE DEF h
  <2>. QED  BY <1>1, TotalFacts
<1> DEFINE ordered == \A x \in S : f[x] <= g[x]
           Wrong == {s \in SUBSET S : sh[s] # sf[s] + sg[s] \/ (ordered /\ ~(sf[s] <= sg[s]))}
<1>5. Wrong = {}
  <2>1. SUFFICES ASSUME Wrong # {}
                 PROVE  FALSE
    OBVIOUS
  <2>2. Wrong \in SUBSET SUBSET S
    OBVIOUS
  <2>3. PICK s \in Wrong : \A t \in Wrong : t \subseteq s => t = s
    <3> HIDE DEF Wrong
    <3>. QED  BY <2>1, <2>2, SmallestPart
  <2>4. s \in SUBSET S
    OBVIOUS
  <2>5. CASE s = {}
    BY <1>2, <1>3, <1>4, <2>5
  <2>6. CASE s # {}
    <3>1. PICK x \in s : TRUE
      BY <2>6
    <3>2. s \ {x} \in SUBSET S /\ s \ {x} \subseteq s /\ s \ {x} # s
      BY <2>4, <3>1
    <3>3. s \ {x} \notin Wrong
      BY <2>3, <3>2
    <3>4. /\ sh[s \ {x}] = sf[s \ {x}] + sg[s \ {x}]
          /\ ordered => sf[s \ {x}] <= sg[s \ {x}]
      BY <3>2, <3>3
    <3>5. /\ sh[s] = h[x] + sh[s \ {x}] /\ sf[s] = f[x] + sf[s \ {x}] /\ sg[s] = g[x] + sg[s \ {x}]
      BY <1>2, <1>3, <1>4, <2>4
    <3>6. /\ h[x] = f[x] + g[x] /\ f[x] \in Int /\ g[x] \in Int /\ ordered => f[x] <= g[x]
          /\ sf[s \ {x}] \in Int /\ sg[s \ {x}] \in Int
      BY <2>4, <3>2
    <3>7. s \in Wrong
      OBVIOUS
    <3>8. x \in S /\ f[x] \in Int /\ g[x] \in Int /\ h[x] = f[x] + g[x] /\ (ordered => f[x] <= g[x])
      BY <2>4
    <3>9. sf[s \ {x}] \in Int /\ sg[s \ {x}] \in Int
      BY <3>2
    <3>10. sh[s] = sf[s] + sg[s] /\ (ordered => sf[s] <= sg[s])
      <4> HIDE DEF ordered, h
      <4>. QED  BY <3>4, <3>5, <3>8, <3>9
    <3>. QED  BY <3>7, <3>10
  <2>. QED  BY <2>5, <2>6
<1>6. S \in SUBSET S
  OBVIOUS
<1>7. sh[S] = sf[S] + sg[S] /\ (ordered => sf[S] <= sg[S])
  BY <1>5, <1>6
<1>. QED  BY <1>2, <1>3, <1>4, <1>7

\* Among keeps the order of the members of a sequence.
LEMMA AmongOrder ==
  ASSUME NEW T, NEW seq \in Seq(T), NEW S, NEW R,
         \A i, j \in 1..Len(seq) : i < j => <<seq[i], seq[j]>> \in R
  PROVE  \A i, j \in 1..Len(Among(seq, S)) : i < j => <<Among(seq, S)[i], Among(seq, S)[j]>> \in R
<1> DEFINE n == Len(seq)
           First(k) == {seq[j] : j \in 1..k}
<1>1. n \in Nat /\ DOMAIN seq = 1..n /\ \A i \in 1..n : seq[i] \in T
  BY ElementOfSeq
<1>2. PICK kept \in [0..n -> Seq(T)] :
        /\ kept[0] = <<>>
        /\ \A i \in 1..n : kept[i] = IF seq[i] \in S THEN Append(kept[i - 1], seq[i]) ELSE kept[i - 1]
        /\ Among(seq, S) = kept[n]
  BY AmongSteps, SMTT(30)
<1> DEFINE Ordered(s) == \A i, j \in 1..Len(s) : i < j => <<s[i], s[j]>> \in R
           Within(s, k) == \A i \in 1..Len(s) : s[i] \in First(k)
           G == {k \in 0..n : Ordered(kept[k]) /\ Within(kept[k], k)}
<1>3. 0 \in G
  <2>1. Len(<<>>) = 0 /\ 1..0 = {} /\ 0 \in 0..n
    BY <1>1
  <2>. QED  BY <1>2, <2>1
<1>4. ASSUME NEW k \in 0..(n - 1), k \in G
      PROVE  k + 1 \in G
  <2> DEFINE x == seq[k + 1]
             s == kept[k]
             t == kept[k + 1]
  <2>1. k \in Nat /\ k + 1 \in 1..n /\ (k + 1) - 1 = k /\ k \in 0..n /\ k + 1 \in 0..n
    BY <1>1
  <2>2. t = IF x \in S THEN Append(s, x) ELSE s
    BY <1>2, <2>1
  <2>3. s \in Seq(T) /\ x \in T /\ Ordered(s) /\ Within(s, k)
    BY <1>1, <1>2, <1>4, <2>1
  <2>4. First(k) \subseteq First(k + 1) /\ x \in First(k + 1)
    BY <2>1
  <2>5. ASSUME NEW y \in First(k)
        PROVE  <<y, x>> \in R
    <3>1. PICK j \in 1..k : y = seq[j]
      OBVIOUS
    <3>2. j \in 1..n /\ j < k + 1
      BY <1>1, <2>1
    <3>. QED  BY <2>1, <3>1, <3>2
  <2> HIDE DEF x, s, t, First, n
  <2>6. CASE x \notin S
    BY <2>1, <2>2, <2>3, <2>4, <2>6 DEF s, t
  <2>7. CASE x \in S
    <3>1. t = Append(s, x) /\ Len(t) = Len(s) + 1 /\ Len(s) \in Nat
      BY <2>2, <2>3, <2>7
    <3>2. \A i \in 1..Len(s) : t[i] = s[i]
      BY <2>3, <3>1
    <3>3. t[Len(s) + 1] = x
      BY <2>3, <3>1
    <3>4. ASSUME NEW i \in 1..Len(t)
          PROVE  i \in 1..Len(s) \/ i = Len(s) + 1
      BY <3>1
    <3>5. Within(t, k + 1)
      BY <2>3, <2>4, <3>2, <3>3, <3>4
    <3>6. ASSUME NEW i \in 1..Len(t), NEW j \in 1..Len(t), i < j
          PROVE  <<t[i], t[j]>> \in R
      <4>1. i \in 1..Len(s)
        BY <3>1, <3>6
      <4>2. CASE j \in 1..Len(s)
        BY <2>3, <3>2, <3>6, <4>1, <4>2
      <4>3. CASE j = Len(s) + 1
        BY <2>3, <2>5, <3>2, <3>3, <4>1, <4>3
      <4>. QED  BY <3>4, <4>2, <4>3
    <3>. QED  BY <2>1, <3>5, <3>6 DEF t
  <2>. QED  BY <2>6, <2>7
<1> HIDE DEF G
<1>5. \A k \in 0..n : k \in G
  BY <1>1, <1>3, <1>4, UpTo
<1>6. n \in G
  BY <1>1, <1>5
<1>. QED  BY <1>2, <1>6 DEF G

\* As many ones as there are members.
LEMMA TotalOnes ==
  ASSUME NEW S, IsFiniteSet(S)
  PROVE  Total([x \in S |-> 1]) = Cardinality(S)
<1> DEFINE f == [x \in S |-> 1]
<1>1. f \in [S -> Int]
  OBVIOUS
<1>2. PICK sum \in [SUBSET S -> Int] :
        /\ sum[{}] = 0
        /\ \A s \in SUBSET S : \A x \in s : sum[s] = f[x] + sum[s \ {x}]
        /\ \A s \in SUBSET S : Total([x \in s |-> f[x]]) = sum[s]
        /\ Total(f) = sum[S]
  <2> HIDE DEF f
  <2>. QED  BY <1>1, TotalFacts
<1> DEFINE Wrong == {s \in SUBSET S : sum[s] # Cardinality(s)}
<1>3. Wrong = {}
  <2>1. SUFFICES ASSUME Wrong # {}
                 PROVE  FALSE
    OBVIOUS
  <2>2. Wrong \in SUBSET SUBSET S
    OBVIOUS
  <2>3. PICK s \in Wrong : \A t \in Wrong : t \subseteq s => t = s
    <3> HIDE DEF Wrong
    <3>. QED  BY <2>1, <2>2, SmallestPart
  <2>4. s \in SUBSET S /\ IsFiniteSet(s)
    BY FS_Subset
  <2>5. CASE s = {}
    BY <1>2, <2>5, FS_EmptySet
  <2>6. CASE s # {}
    <3>1. PICK x \in s : TRUE
      BY <2>6
    <3>2. s \ {x} \in SUBSET S /\ s \ {x} \subseteq s /\ s \ {x} # s
      BY <2>4, <3>1
    <3>3. sum[s \ {x}] = Cardinality(s \ {x})
      BY <2>3, <3>2
    <3>4. sum[s] = 1 + sum[s \ {x}]
      BY <1>2, <2>4
    <3>5. Cardinality(s \ {x}) = Cardinality(s) - 1 /\ Cardinality(s) \in Nat
      BY <2>4, <3>1, FS_RemoveElement, FS_CardinalityType
    <3>6. sum[s] = Cardinality(s)
      BY <3>3, <3>4, <3>5
    <3>7. s \in Wrong
      OBVIOUS
    <3>. QED  BY <3>6, <3>7
  <2>. QED  BY <2>5, <2>6
<1>4. S \in SUBSET S
  OBVIOUS
<1>. QED  BY <1>2, <1>3, <1>4
=============================================================================

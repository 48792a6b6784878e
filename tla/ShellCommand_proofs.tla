------------------------ MODULE ShellCommand_proofs ------------------------
(***************************************************************************)
(* Theorems about ShellCommand for any output of a process, any division   *)
(* of it into data events, any size of the buffer and of the answer, and   *)
(* every order of the events, the timers and the abort: what the agent is  *)
(* told of a command that ended by itself is what it wrote.                *)
(***************************************************************************)
EXTENDS ShellCommand, SequenceTheorems, FiniteSetTheorems, WellFoundedInduction, TLAPS

-----------------------------------------------------------------------------
(* Lists of halves: sequences that rise.                                    *)

Rises(t) == \A i, j \in 1..Len(t) : i < j => t[i] < t[j]

\* t lists the elements of S in their order.
Lists(t, S) ==
    /\ t \in Seq(Nat)
    /\ Rises(t)
    /\ \A i \in 1..Len(t) : t[i] \in S
    /\ \A h \in S : \E i \in 1..Len(t) : t[i] = h

(* The least element of a set of naturals. *)
LEMMA LeastNatural ==
    ASSUME NEW N \in SUBSET Nat, N # {}
    PROVE  \E n \in N : \A m \in N : n <= m
<1>1. PICK n \in N : \A m \in N : <<m, n>> \notin OpToRel(<, Nat)
  BY NatLessThanWellFounded, WFMin
<1>2. \A m \in N : ~ (m < n)
  BY <1>1 DEF OpToRel
<1> QED BY <1>2

(* What is listed is finite, and as large as the list is long. *)
LEMMA ListsLen ==
    ASSUME NEW S, NEW t, Lists(t, S)
    PROVE  IsFiniteSet(S) /\ Cardinality(S) = Len(t)
<1> DEFINE f == [i \in 1..Len(t) |-> t[i]]
<1>1. /\ t \in Seq(Nat) /\ Len(t) \in Nat
      /\ \A i, j \in 1..Len(t) : i < j => t[i] < t[j]
      /\ \A i \in 1..Len(t) : t[i] \in S /\ t[i] \in Nat
      /\ \A h \in S : \E i \in 1..Len(t) : t[i] = h
  BY DEF Lists, Rises
<1>2. f \in Surjection(1..Len(t), S)
  BY <1>1 DEF Surjection
<1>3. f \in Injection(1..Len(t), S)
  <2>1. ASSUME NEW i \in 1..Len(t), NEW j \in 1..Len(t), i # j PROVE t[i] # t[j]
    <3>1. i < j \/ j < i
      BY <1>1, <2>1
    <3> QED BY <1>1, <3>1
  <2>2. f \in [1..Len(t) -> S]
    BY <1>1
  <2>3. \A i, j \in 1..Len(t) : f[i] = f[j] => i = j
    BY <2>1
  <2> HIDE DEF f
  <2> QED BY <2>2, <2>3 DEF Injection, IsInjective
<1>4. ExistsBijection(1..Len(t), S)
  BY <1>2, <1>3 DEF ExistsBijection, Bijection
<1> HIDE DEF f
<1>5. Cardinality(S) = Len(t)
  BY <1>1, <1>4, FS_CountingElements
<1> QED BY <1>1, <1>4, <1>5, FS_NatBijection

(* A set has one list. *)
LEMMA ListsEqual ==
    ASSUME NEW S, NEW t, NEW u, Lists(t, S), Lists(u, S)
    PROVE  t = u
<1>1. /\ t \in Seq(Nat) /\ u \in Seq(Nat) /\ Len(t) \in Nat
      /\ \A i, j \in 1..Len(t) : i < j => t[i] < t[j]
      /\ \A i, j \in 1..Len(u) : i < j => u[i] < u[j]
      /\ \A i \in 1..Len(t) : t[i] \in S /\ t[i] \in Nat
      /\ \A i \in 1..Len(u) : u[i] \in S /\ u[i] \in Nat
      /\ \A h \in S : \E i \in 1..Len(t) : t[i] = h
      /\ \A h \in S : \E i \in 1..Len(u) : u[i] = h
  BY DEF Lists, Rises
<1>2. Len(u) = Len(t)
  BY ListsLen
<1> DEFINE Bad == {i \in 1..Len(t) : t[i] # u[i]}
<1>3. Bad = {}
  <2>1. SUFFICES ASSUME Bad # {} PROVE FALSE
    OBVIOUS
  <2>2. Bad \in SUBSET Nat
    BY <1>1
  <2>3. PICK k \in Bad : \A m \in Bad : k <= m
    <3> HIDE DEF Bad
    <3> QED BY <2>1, <2>2, LeastNatural
  <2>4. k \in 1..Len(t) /\ t[k] # u[k] /\ t[k] \in Nat /\ u[k] \in Nat
    BY <1>1, <1>2, <2>3
  <2>5. \A i \in 1..Len(t) : i < k => t[i] = u[i]
    <3> SUFFICES ASSUME NEW i \in 1..Len(t), i < k, t[i] # u[i] PROVE FALSE
      OBVIOUS
    <3>1. i \in Bad
      OBVIOUS
    <3> QED BY <1>1, <2>3, <2>4, <3>1
  <2> HIDE DEF Bad
  <2>6. CASE t[k] < u[k]
    <3>1. PICK i \in 1..Len(t) : u[i] = t[k]
      BY <1>1, <1>2, <2>4
    <3>2. u[k] < u[i] \/ i = k \/ i < k
      BY <1>1, <1>2, <2>4
    <3>3. i < k
      BY <2>4, <2>6, <3>1, <3>2
    <3> QED BY <1>1, <2>4, <2>5, <3>1, <3>3
  <2>7. CASE u[k] < t[k]
    <3>1. PICK i \in 1..Len(t) : t[i] = u[k]
      BY <1>1, <1>2, <2>4
    <3>2. t[k] < t[i] \/ i = k \/ i < k
      BY <1>1, <2>4
    <3>3. i < k
      BY <2>4, <2>7, <3>1, <3>2
    <3> QED BY <1>1, <1>2, <2>4, <2>5, <3>1, <3>3
  <2> QED BY <2>4, <2>6, <2>7
<1>4. \A i \in 1..Len(t) : t[i] = u[i]
  BY <1>3
<1>5. t \in Seq(Nat) /\ u \in Seq(Nat)
  BY <1>1
<1> HIDE DEF Bad
<1> QED BY <1>2, <1>4, <1>5

(* A list of larger elements may follow. *)
LEMMA ListsConcat ==
    ASSUME NEW S, NEW T, NEW t, NEW u, Lists(t, S), Lists(u, T),
           \A g \in S : \A h \in T : g < h
    PROVE  Lists(t \o u, S \cup T)
<1>1. /\ t \in Seq(Nat) /\ u \in Seq(Nat) /\ Len(t) \in Nat /\ Len(u) \in Nat
      /\ \A i, j \in 1..Len(t) : i < j => t[i] < t[j]
      /\ \A i, j \in 1..Len(u) : i < j => u[i] < u[j]
      /\ \A i \in 1..Len(t) : t[i] \in S
      /\ \A i \in 1..Len(u) : u[i] \in T
      /\ \A h \in S : \E i \in 1..Len(t) : t[i] = h
      /\ \A h \in T : \E i \in 1..Len(u) : u[i] = h
  BY DEF Lists, Rises
<1> DEFINE w == t \o u
<1>2. /\ w \in Seq(Nat) /\ Len(w) = Len(t) + Len(u)
      /\ \A i \in 1..Len(t) : i \in 1..Len(w) /\ w[i] = t[i]
      /\ \A i \in 1..Len(u) : Len(t) + i \in 1..Len(w) /\ w[Len(t) + i] = u[i]
  BY <1>1
<1>3. \A i \in 1..Len(w) : i \in 1..Len(t) \/ (i > Len(t) /\ i - Len(t) \in 1..Len(u) /\ w[i] = u[i - Len(t)])
  BY <1>1, <1>2
<1> HIDE DEF w
<1>4. Rises(w)
  <2> SUFFICES ASSUME NEW i \in 1..Len(w), NEW j \in 1..Len(w), i < j PROVE w[i] < w[j]
    BY DEF Rises
  <2>1. CASE j \in 1..Len(t)
    <3>1. i \in 1..Len(t)
      BY <1>1, <1>2, <2>1
    <3> QED BY <1>1, <1>2, <2>1, <3>1
  <2>2. CASE i \in 1..Len(t) /\ j \notin 1..Len(t)
    <3>1. w[i] \in S /\ w[j] \in T
      BY <1>1, <1>2, <1>3, <2>2
    <3> QED BY <3>1
  <2>3. CASE i \notin 1..Len(t) /\ j \notin 1..Len(t)
    <3>1. i - Len(t) < j - Len(t)
      BY <1>1, <1>2
    <3> QED BY <1>1, <1>3, <2>3, <3>1
  <2> QED BY <2>1, <2>2, <2>3
<1>5. \A i \in 1..Len(w) : w[i] \in S \cup T
  BY <1>1, <1>2, <1>3
<1>6. \A h \in S \cup T : \E i \in 1..Len(w) : w[i] = h
  BY <1>1, <1>2
<1>7. Lists(w, S \cup T)
  BY <1>2, <1>4, <1>5, <1>6 DEF Lists
<1> QED BY <1>7 DEF w

\* The elements up to k.
UpTo(S, k) == {m \in S : m <= k}

(* How many there are. *)
LEMMA UpToFinite ==
    ASSUME NEW n \in Nat, NEW S \in SUBSET (1..n)
    PROVE  /\ IsFiniteSet(S) /\ Cardinality(S) \in Nat
           /\ \A k \in Nat : IsFiniteSet(UpTo(S, k)) /\ Cardinality(UpTo(S, k)) \in Nat
           /\ Cardinality(UpTo(S, 0)) = 0
           /\ Cardinality(UpTo(S, n)) = Cardinality(S)
           /\ \A k \in S : Cardinality(UpTo(S, k)) \in 1..Cardinality(S)
<1>0. \A m \in S : m \in 1..n /\ m \in Nat
  OBVIOUS
<1>1. IsFiniteSet(S) /\ Cardinality(S) \in Nat
  <2>1. IsFiniteSet(1..n)
    BY FS_Interval
  <2>2. IsFiniteSet(S)
    BY <2>1, FS_Subset
  <2> QED BY <2>2, FS_CardinalityType
<1>2. ASSUME NEW k \in Nat
      PROVE  /\ IsFiniteSet(UpTo(S, k)) /\ Cardinality(UpTo(S, k)) \in Nat
             /\ Cardinality(UpTo(S, k)) <= Cardinality(S)
  <2>1. UpTo(S, k) \in SUBSET S
    BY DEF UpTo
  <2> QED BY <1>1, <2>1, FS_Subset, FS_CardinalityType
<1>3. UpTo(S, 0) = {} /\ UpTo(S, n) = S
  <2>1. \A m \in S : ~(m <= 0) /\ m <= n
    BY <1>0
  <2> QED BY <2>1 DEF UpTo
<1>4. ASSUME NEW k \in S
      PROVE  Cardinality(UpTo(S, k)) # 0
  <2>1. UpTo(S, k) # {} /\ k \in Nat
    BY <1>0 DEF UpTo
  <2> QED BY <1>2, <2>1, FS_EmptySet
<1> QED BY <1>1, <1>2, <1>3, <1>4, FS_EmptySet

(* What one more place adds. *)
LEMMA UpToNext ==
    ASSUME NEW n \in Nat, NEW S \in SUBSET (1..n), NEW k \in Nat
    PROVE  Cardinality(UpTo(S, k + 1)) =
               IF k + 1 \in S THEN Cardinality(UpTo(S, k)) + 1 ELSE Cardinality(UpTo(S, k))
<1>0. \A m \in S : m \in Nat
  OBVIOUS
<1>1. IsFiniteSet(UpTo(S, k)) /\ k + 1 \notin UpTo(S, k)
  <2>1. k + 1 \notin UpTo(S, k)
    BY DEF UpTo
  <2> QED BY <2>1, UpToFinite
<1>2. CASE k + 1 \in S
  <2>1. \A m \in S : m <= k + 1 <=> m <= k \/ m = k + 1
    BY <1>0
  <2>2. UpTo(S, k + 1) = UpTo(S, k) \cup {k + 1}
    BY <1>2, <2>1 DEF UpTo
  <2> QED BY <1>1, <1>2, <2>2, FS_AddElement
<1>3. CASE k + 1 \notin S
  <2>1. \A m \in S : m <= k + 1 <=> m <= k
    BY <1>0, <1>3
  <2>2. UpTo(S, k + 1) = UpTo(S, k)
    BY <2>1 DEF UpTo
  <2> QED BY <1>3, <2>2
<1> QED BY <1>2, <1>3

(* A later element has more elements up to it. *)
LEMMA UpToRises ==
    ASSUME NEW n \in Nat, NEW S \in SUBSET (1..n), NEW k \in Nat, NEW l \in S, k < l
    PROVE  Cardinality(UpTo(S, k)) < Cardinality(UpTo(S, l))
<1>0. \A m \in S : m \in Nat
  OBVIOUS
<1>1. l \in Nat /\ UpTo(S, k) \in SUBSET UpTo(S, l)
  <2>1. l \in Nat
    BY <1>0
  <2>2. \A m \in S : m <= k => m <= l
    BY <1>0, <2>1
  <2> QED BY <2>1, <2>2 DEF UpTo
<1>2. l \in UpTo(S, l) /\ l \notin UpTo(S, k)
  BY DEF UpTo
<1>3. UpTo(S, k) # UpTo(S, l)
  BY <1>2
<1>4. /\ IsFiniteSet(UpTo(S, l))
      /\ Cardinality(UpTo(S, k)) \in Nat /\ Cardinality(UpTo(S, l)) \in Nat
  BY <1>1, UpToFinite
<1>5. /\ Cardinality(UpTo(S, k)) <= Cardinality(UpTo(S, l))
      /\ Cardinality(UpTo(S, l)) # Cardinality(UpTo(S, k))
  BY <1>1, <1>3, <1>4, FS_Subset
<1> QED BY <1>4, <1>5

(* Nth is the element with so many up to it. *)
LEMMA NthFound ==
    ASSUME NEW n \in Nat, NEW S \in SUBSET (1..n), NEW i \in 1..Cardinality(S)
    PROVE  Nth(S, i) \in S /\ Cardinality(UpTo(S, Nth(S, i))) = i
<1> DEFINE c(k) == Cardinality(UpTo(S, k))
           N == {k \in Nat : c(k) >= i}
<1>1. /\ Cardinality(S) \in Nat /\ c(0) = 0 /\ c(n) = Cardinality(S)
      /\ \A k \in Nat : c(k) \in Nat
  BY UpToFinite
<1>2. \A k \in Nat : c(k + 1) = IF k + 1 \in S THEN c(k) + 1 ELSE c(k)
  BY UpToNext
<1>3. N \in SUBSET Nat /\ N # {}
  <2>1. n \in N
    BY <1>1
  <2> QED BY <2>1
<1>4. PICK k \in N : \A m \in N : k <= m
  <2> HIDE DEF N
  <2> QED BY <1>3, LeastNatural
<1>5. k \in Nat /\ k # 0 /\ k - 1 \in Nat /\ (k - 1) + 1 = k /\ c(k) >= i
  BY <1>1, <1>4
<1>6. c(k - 1) < i
  <2>1. k - 1 \notin N
    BY <1>4, <1>5
  <2> QED BY <1>1, <1>5, <2>1
<1>7. c(k) = IF k \in S THEN c(k - 1) + 1 ELSE c(k - 1)
  BY <1>2, <1>5
<1>8. k \in S /\ c(k) = i
  <2>1. c(k - 1) \in Nat /\ c(k) \in Nat
    BY <1>1, <1>5
  <2> HIDE DEF c
  <2> QED BY <1>5, <1>6, <1>7, <2>1
<1>9. \E l \in S : Cardinality({m \in S : m <= l}) = i
  BY <1>8 DEF UpTo
<1> QED BY <1>9 DEF Nth, UpTo

(* Nth goes through all of them in their order. *)
LEMMA NthRises ==
    ASSUME NEW n \in Nat, NEW S \in SUBSET (1..n)
    PROVE  /\ \A i, j \in 1..Cardinality(S) : i < j => Nth(S, i) < Nth(S, j)
           /\ \A k \in S : \E i \in 1..Cardinality(S) : Nth(S, i) = k
<1>0. \A m \in S : m \in Nat
  OBVIOUS
<1>1. Cardinality(S) \in Nat /\ \A k \in S : Cardinality(UpTo(S, k)) \in 1..Cardinality(S)
  BY UpToFinite
<1>2. ASSUME NEW i \in 1..Cardinality(S), NEW j \in 1..Cardinality(S), i < j
      PROVE  Nth(S, i) < Nth(S, j)
  <2>1. /\ Nth(S, i) \in S /\ Cardinality(UpTo(S, Nth(S, i))) = i
        /\ Nth(S, j) \in S /\ Cardinality(UpTo(S, Nth(S, j))) = j
    BY NthFound
  <2>2. Nth(S, i) # Nth(S, j)
    BY <1>2, <2>1
  <2>3. ~ (Nth(S, j) < Nth(S, i))
    <3> SUFFICES ASSUME Nth(S, j) < Nth(S, i) PROVE FALSE
      OBVIOUS
    <3>1. Nth(S, j) \in Nat
      BY <1>0, <2>1
    <3>2. Cardinality(UpTo(S, Nth(S, j))) < Cardinality(UpTo(S, Nth(S, i)))
      BY <2>1, <3>1, UpToRises
    <3> QED BY <1>1, <1>2, <2>1, <3>2
  <2>4. Nth(S, i) \in Nat /\ Nth(S, j) \in Nat
    BY <1>0, <2>1
  <2> QED BY <2>2, <2>3, <2>4
<1>3. ASSUME NEW k \in S
      PROVE  \E i \in 1..Cardinality(S) : Nth(S, i) = k
  <2> DEFINE i == Cardinality(UpTo(S, k))
             l == Nth(S, i)
  <2>1. i \in 1..Cardinality(S)
    BY <1>1
  <2>2. l \in S /\ Cardinality(UpTo(S, l)) = i
    BY <2>1, NthFound
  <2>3. l \in Nat /\ k \in Nat /\ i \in Nat
    <3> HIDE DEF l, i
    <3> QED BY <1>0, <1>1, <2>1, <2>2
  <2>4. ~ (l < k)
    <3> SUFFICES ASSUME l < k PROVE FALSE
      OBVIOUS
    <3>1. Cardinality(UpTo(S, l)) < i
      BY <2>3, UpToRises
    <3> QED BY <2>2, <2>3, <3>1
  <2>5. ~ (k < l)
    <3> SUFFICES ASSUME k < l PROVE FALSE
      OBVIOUS
    <3>1. i < Cardinality(UpTo(S, l))
      BY <2>2, <2>3, UpToRises
    <3> QED BY <2>2, <2>3, <3>1
  <2> HIDE DEF l, i
  <2>6. l = k
    BY <2>3, <2>4, <2>5
  <2> QED BY <2>1, <2>6 DEF l
<1> QED BY <1>2, <1>3

(* InOrder lists a set. *)
LEMMA InOrderLists ==
    ASSUME NEW n \in Nat, NEW S \in SUBSET (1..n)
    PROVE  Lists(InOrder(S), S)
<1> DEFINE t == InOrder(S)
           c == Cardinality(S)
<1>1. c \in Nat /\ \A i \in 1..c : Nth(S, i) \in S
  BY UpToFinite, NthFound
<1>2. /\ \A i, j \in 1..c : i < j => Nth(S, i) < Nth(S, j)
      /\ \A k \in S : \E i \in 1..c : Nth(S, i) = k
  BY NthRises
<1>3. t \in Seq(Nat) /\ Len(t) = c /\ \A i \in 1..c : t[i] = Nth(S, i)
  <2>1. \A i \in 1..c : Nth(S, i) \in Nat
    <3>1. \A m \in S : m \in Nat
      OBVIOUS
    <3> HIDE DEF c
    <3> QED BY <1>1, <3>1
  <2>2. t = [i \in 1..c |-> Nth(S, i)]
    BY DEF InOrder
  <2> HIDE DEF t
  <2> QED BY <1>1, <2>1, <2>2
<1> HIDE DEF t, c
<1>4. Lists(t, S)
  BY <1>1, <1>2, <1>3 DEF Lists, Rises
<1> QED BY <1>4 DEF t

(* AtPlaces of consecutive halves lists the halves at these places. *)
LEMMA AtPlacesLists ==
    ASSUME NEW a \in Nat, NEW b \in Nat, a <= b, NEW S \in SUBSET (1..(b - a))
    PROVE  Lists(AtPlaces(Halves(a, b), S), {h \in (a + 1)..b : h - a \in S})
<1> DEFINE t == AtPlaces(Halves(a, b), S)
           c == Cardinality(S)
           T == {h \in (a + 1)..b : h - a \in S}
<1>1. b - a \in Nat
  OBVIOUS
<1>2. c \in Nat /\ \A i \in 1..c : Nth(S, i) \in S
  BY <1>1, UpToFinite, NthFound
<1>3. /\ \A i, j \in 1..c : i < j => Nth(S, i) < Nth(S, j)
      /\ \A k \in S : \E i \in 1..c : Nth(S, i) = k
  BY <1>1, NthRises
<1>4. \A i \in 1..c : Nth(S, i) \in 1..(b - a)
  BY <1>2
<1>5. \A i \in 1..c : Halves(a, b)[Nth(S, i)] = a + Nth(S, i)
  BY <1>4 DEF Halves
<1>6. t = [i \in 1..c |-> a + Nth(S, i)]
  BY <1>5 DEF AtPlaces
<1>7. t \in Seq(Nat) /\ Len(t) = c /\ \A i \in 1..c : t[i] = a + Nth(S, i)
  <2> HIDE DEF t
  <2> QED BY <1>2, <1>4, <1>6
<1> HIDE DEF t, c
<1>8. Rises(t)
  <2> SUFFICES ASSUME NEW i \in 1..c, NEW j \in 1..c, i < j PROVE t[i] < t[j]
    BY <1>7 DEF Rises
  <2>1. Nth(S, i) < Nth(S, j)
    BY <1>3
  <2> QED BY <1>4, <1>7, <2>1
<1>9. \A i \in 1..c : t[i] \in T
  <2> SUFFICES ASSUME NEW i \in 1..c PROVE t[i] \in T
    OBVIOUS
  <2>1. t[i] - a = Nth(S, i) /\ t[i] \in (a + 1)..b
    BY <1>1, <1>4, <1>7
  <2> QED BY <1>2, <2>1
<1>10. \A h \in T : \E i \in 1..c : t[i] = h
  <2> SUFFICES ASSUME NEW h \in T PROVE \E i \in 1..c : t[i] = h
    OBVIOUS
  <2>1. PICK i \in 1..c : Nth(S, i) = h - a
    BY <1>3
  <2> QED BY <1>7, <2>1
<1>11. Lists(t, T)
  <2> HIDE DEF T
  <2> QED BY <1>7, <1>8, <1>9, <1>10 DEF Lists
<1> QED BY <1>11 DEF t

(* Two elements of a list that are consecutive are next to each other in it. *)
LEMMA ListsNext ==
    ASSUME NEW S, NEW t, Lists(t, S), NEW i \in 1..Len(t), t[i] + 1 \in S
    PROVE  i < Len(t) /\ t[i + 1] = t[i] + 1
<1>1. /\ t \in Seq(Nat) /\ Len(t) \in Nat
      /\ \A k, l \in 1..Len(t) : k < l => t[k] < t[l]
      /\ \A k \in 1..Len(t) : t[k] \in Nat
  BY DEF Lists, Rises
<1>2. PICK j \in 1..Len(t) : t[j] = t[i] + 1
  BY DEF Lists
<1>3. i < j
  <2>1. ~(j = i) /\ ~(j < i)
    BY <1>1, <1>2
  <2> QED BY <1>1, <2>1
<1>4. j = i + 1
  <2> SUFFICES ASSUME i + 1 < j PROVE FALSE
    BY <1>1, <1>3
  <2>1. i + 1 \in 1..Len(t) /\ i < i + 1
    BY <1>1
  <2>2. t[i] < t[i + 1] /\ t[i + 1] < t[j] /\ t[i + 1] \in Nat /\ t[i] \in Nat
    BY <1>1, <2>1
  <2> QED BY <1>2, <2>2
<1> QED BY <1>1, <1>2, <1>3, <1>4

-----------------------------------------------------------------------------
(* The inductive invariant. Halves that are read are kept, reported or pending. *)

\* Of the first r halves those of lines that are ended.
Ended(r) == r - (r % 2)

TextTo(e)  == {h \in 1..e : ~IsBeat(h)}
BeatsTo(e) == {h \in 1..e : IsBeat(h) /\ Begins(h)}

\* t is kept of the first e halves: some text, all of it if it fits, and of
\* each line, but for the last if it is not ended, both halves or neither.
Kept(t, e) ==
    /\ t \in Seq(Nat)
    /\ Rises(t)
    /\ Len(t) <= MaxBuffer
    /\ \A i \in 1..Len(t) : t[i] \in TextTo(e)
    /\ \A i \in 1..Len(t) : Begins(t[i]) /\ t[i] # e => i < Len(t) /\ t[i + 1] = t[i] + 1
    /\ Cardinality(TextTo(e)) <= MaxBuffer => Lists(t, TextTo(e))

\* What runCommand gives, and what the agent is told.
Ends     == {"none", "unborn", "zero", "nonzero", "signal"}
Codes    == Ends \cup {"blocked", "started", "aborted", "error", "timedOut"}
Outcomes == [code : Codes, text : Seq(Nat), errors : Nat]
Replies  == [code : Codes, whole : BOOLEAN, saved : BOOLEAN, inline : Nat]

\* A reply fits the cap, and is whole or points to the file.
ReplyOK(r) ==
    /\ r.inline <= MaxInline \/ r.inline \in Headers
    /\ ~r.whole => r.saved \/ "noSave" \in Env

Typed ==
    /\ written \in Nat /\ read \in 0..written
    /\ errors \in Nat /\ out \in Seq(Nat) /\ exit \in Ends
    /\ result \in Outcomes
    /\ answers \in Seq(Replies)

EndsItself == result.code \in {"zero", "nonzero"}

Foreground == at \in {"called", "running", "answered"}

Reading ==
    proc # "closed" =>
        /\ ~EndsItself
        /\ pending = Halves(Ended(read), read)
        /\ Kept(out, Ended(read))
        /\ Foreground => Lists(beats, BeatsTo(Ended(read)))

Done ==
    proc = "closed" /\ EndsItself /\ exit # "unborn" =>
        /\ Kept(result.text, written)
        /\ Foreground => Lists(beats, BeatsTo(Ended(written)))

Replied == \A i \in 1..Len(answers) : ReplyOK(answers[i])

IInv ==
    /\ Typed
    /\ at = "called" => proc = "none"
    /\ Reading
    /\ Done
    /\ Replied

-----------------------------------------------------------------------------
(* The text of a data event, and what is complete of it.                    *)

LEMMA EndedOf ==
    ASSUME NEW r \in Nat
    PROVE  /\ Ended(r) \in Nat /\ Ended(r) <= r /\ r <= Ended(r) + 1
           /\ Ended(r) % 2 = 0
           /\ \A q \in Nat : q % 2 = 0 /\ q <= r => q <= Ended(r)
           /\ \A q \in Nat : r <= q => Ended(r) <= Ended(q)
           /\ r % 2 = 0 => Ended(r) = r
  BY DEF Ended

LEMMA HalvesSeq ==
    ASSUME NEW a \in Nat, NEW b \in Nat, a <= b
    PROVE  /\ Halves(a, b) \in Seq(Nat) /\ Len(Halves(a, b)) = b - a
           /\ DOMAIN Halves(a, b) = 1..(b - a)
           /\ \A i \in 1..(b - a) : Halves(a, b)[i] = a + i
  BY DEF Halves

(* A sequence of so many halves is what Halves says. *)
LEMMA IsHalves ==
    ASSUME NEW a \in Nat, NEW b \in Nat, a <= b, NEW t \in Seq(Nat), Len(t) = b - a,
           \A i \in 1..(b - a) : t[i] = a + i
    PROVE  t = Halves(a, b)
<1>1. Halves(a, b) \in Seq(Nat) /\ Len(Halves(a, b)) = b - a
  BY HalvesSeq
<1>2. \A i \in 1..(b - a) : t[i] = Halves(a, b)[i]
  BY HalvesSeq
<1> QED BY <1>1, <1>2

LEMMA HalvesConcat ==
    ASSUME NEW a \in Nat, NEW b \in Nat, NEW c \in Nat, a <= b, b <= c
    PROVE  /\ Halves(a, b) \o Halves(b, c) = Halves(a, c)
           /\ SubSeq(Halves(a, c), 1, b - a) = Halves(a, b)
           /\ SubSeq(Halves(a, c), (b - a) + 1, c - a) = Halves(b, c)
<1> DEFINE s == Halves(a, b)
           t == Halves(b, c)
           w == Halves(a, c)
<1>0. a <= c
  OBVIOUS
<1>1. /\ s \in Seq(Nat) /\ Len(s) = b - a /\ \A i \in 1..(b - a) : s[i] = a + i
      /\ t \in Seq(Nat) /\ Len(t) = c - b /\ \A i \in 1..(c - b) : t[i] = b + i
      /\ w \in Seq(Nat) /\ Len(w) = c - a /\ \A i \in 1..(c - a) : w[i] = a + i
  BY <1>0, HalvesSeq
<1> HIDE DEF s, t, w
<1>2. s \o t = Halves(a, c)
  <2> DEFINE u == s \o t
  <2>1. /\ u \in Seq(Nat) /\ Len(u) = Len(s) + Len(t)
        /\ \A i \in 1..(Len(s) + Len(t)) : u[i] = IF i <= Len(s) THEN s[i] ELSE t[i - Len(s)]
    BY <1>1, ConcatProperties
  <2> HIDE DEF u
  <2>2. Len(u) = c - a
    BY <1>1, <2>1
  <2>3. \A i \in 1..(c - a) : u[i] = a + i
    <3> SUFFICES ASSUME NEW i \in 1..(c - a) PROVE u[i] = a + i
      OBVIOUS
    <3>1. CASE i <= b - a
      <4>1. i \in 1..(b - a)
        BY <3>1
      <4> QED BY <1>1, <2>1, <3>1, <4>1
    <3>2. CASE i > b - a
      <4>1. i - (b - a) \in 1..(c - b) /\ b + (i - (b - a)) = a + i
        BY <3>2
      <4>2. u[i] = t[i - (b - a)]
        BY <1>1, <2>1, <3>2
      <4> QED BY <1>1, <4>1, <4>2
    <3> QED BY <3>1, <3>2
  <2>4. u = Halves(a, c)
    BY <1>0, <2>1, <2>2, <2>3, IsHalves
  <2> QED BY <2>4 DEF u
<1>3. SubSeq(w, 1, b - a) = Halves(a, b)
  <2> DEFINE u == SubSeq(w, 1, b - a)
  <2>0. \A i \in 1..(b - a) : w[i] \in Nat /\ w[i] = a + i
    <3>1. \A i \in 1..(b - a) : i \in 1..(c - a) /\ a + i \in Nat
      OBVIOUS
    <3>2. \A i \in 1..(c - a) : w[i] = a + i
      BY <1>1
    <3> QED BY <3>1, <3>2
  <2>1. /\ u \in Seq(Nat) /\ Len(u) = IF 1 <= b - a THEN (b - a) - 1 + 1 ELSE 0
        /\ \A i \in 1..((b - a) - 1 + 1) : u[i] = w[1 + i - 1]
    BY <2>0, SubSeqProperties
  <2> HIDE DEF u
  <2>2. Len(u) = b - a /\ \A i \in 1..(b - a) : u[i] = a + i
    BY <2>0, <2>1
  <2>3. u = Halves(a, b)
    BY <2>1, <2>2, IsHalves
  <2> QED BY <2>3 DEF u
<1>4. SubSeq(w, (b - a) + 1, c - a) = Halves(b, c)
  <2> DEFINE u == SubSeq(w, (b - a) + 1, c - a)
             m == (b - a) + 1
  <2>0. \A i \in m..(c - a) : w[i] \in Nat /\ w[i] = a + i
    <3>1. \A i \in m..(c - a) : i \in 1..(c - a) /\ a + i \in Nat
      OBVIOUS
    <3>2. \A i \in 1..(c - a) : w[i] = a + i
      BY <1>1
    <3> HIDE DEF m
    <3> QED BY <3>1, <3>2
  <2>1. /\ u \in Seq(Nat) /\ Len(u) = IF m <= c - a THEN (c - a) - m + 1 ELSE 0
        /\ \A i \in 1..((c - a) - m + 1) : u[i] = w[m + i - 1]
    BY <2>0, SubSeqProperties
  <2> HIDE DEF u
  <2>2. Len(u) = c - b /\ \A i \in 1..(c - b) : u[i] = b + i
    <3>1. Len(u) = c - b /\ (c - a) - m + 1 = c - b
      BY <2>1
    <3>2. ASSUME NEW i \in 1..(c - b) PROVE u[i] = b + i
      <4>1. m + i - 1 \in m..(c - a) /\ a + (m + i - 1) = b + i
        OBVIOUS
      <4>2. u[i] = w[m + i - 1]
        BY <2>1, <3>1
      <4> QED BY <2>0, <4>1, <4>2
    <3> QED BY <3>1, <3>2
  <2> HIDE DEF u
  <2>3. u = Halves(b, c)
    BY <2>1, <2>2, IsHalves
  <2> QED BY <2>3 DEF u
<1> QED BY <1>2, <1>3, <1>4 DEF s, t, w

LEMMA MaxIs ==
    ASSUME NEW S \in SUBSET Int, NEW m \in S, \A k \in S : m >= k
    PROVE  Max(S) = m
<1>1. \E x \in S : \A y \in S : x >= y
  OBVIOUS
<1>2. Max(S) \in S /\ \A y \in S : Max(S) >= y
  BY <1>1 DEF Max
<1>3. Max(S) \in Int /\ m \in Int /\ Max(S) >= m /\ m >= Max(S)
  BY <1>2
<1> QED BY <1>3

LEMMA MinOfTwo ==
    ASSUME NEW a \in Int, NEW b \in Int
    PROVE  Min({a, b}) \in Int /\ Min({a, b}) <= a /\ Min({a, b}) <= b /\ Min({a, b}) \in {a, b}
<1>1. \E x \in {a, b} : \A y \in {a, b} : x =< y
  OBVIOUS
<1> QED BY <1>1 DEF Min

(* What is complete of consecutive halves that begin a line. *)
LEMMA CompleteOf ==
    ASSUME NEW e \in Nat, e % 2 = 0, NEW r \in Nat, e <= r
    PROVE  Complete(Halves(e, r)) = Halves(e, Ended(r))
<1> DEFINE text == Halves(e, r)
           S == {0} \cup {i \in DOMAIN text : ~Begins(text[i])}
           m == Ended(r) - e
<1>1. /\ Ended(r) \in Nat /\ Ended(r) <= r /\ Ended(r) % 2 = 0 /\ e <= Ended(r)
      /\ \A q \in Nat : q % 2 = 0 /\ q <= r => q <= Ended(r)
  BY EndedOf
<1>2. DOMAIN text = 1..(r - e) /\ \A i \in 1..(r - e) : text[i] = e + i
  BY HalvesSeq
<1>3. S \in SUBSET Int
  BY <1>2
<1>4. m \in S
  <2>1. CASE m = 0
    BY <2>1
  <2>2. CASE m # 0
    <3>1. m \in 1..(r - e) /\ text[m] = Ended(r)
      BY <1>1, <1>2, <2>2
    <3>2. ~Begins(text[m])
      BY <1>1, <3>1 DEF Begins
    <3> QED BY <1>2, <3>1, <3>2
  <2> QED BY <2>1, <2>2
<1>5. \A i \in S : m >= i
  <2> SUFFICES ASSUME NEW i \in 1..(r - e), ~Begins(e + i) PROVE m >= i
    BY <1>1, <1>2
  <2>1. e + i \in Nat /\ (e + i) % 2 = 0 /\ e + i <= r
    BY DEF Begins
  <2>2. e + i <= Ended(r)
    BY <1>1, <2>1
  <2> QED BY <1>1, <2>2
<1> HIDE DEF S
<1>6. Max(S) = m
  BY <1>3, <1>4, <1>5, MaxIs
<1>7. Complete(text) = SubSeq(text, 1, Max(S))
  BY DEF Complete, S
<1>8. SubSeq(Halves(e, r), 1, Ended(r) - e) = Halves(e, Ended(r))
  BY <1>1, HalvesConcat
<1> QED BY <1>6, <1>7, <1>8

(* A line is matched in consecutive halves that begin a line. *)
LEMMA MatchedIs ==
    ASSUME NEW e \in Nat, e % 2 = 0, NEW r \in Nat, e <= r, NEW i \in 1..(r - e)
    PROVE  Matched(Halves(e, r), e + i) <=> IsBeat(e + i)
<1> DEFINE text == Halves(e, r)
           b == 2 * Line(e + i) - 1
<1>1. DOMAIN text = 1..(r - e) /\ \A k \in 1..(r - e) : text[k] = e + k
  BY HalvesSeq
<1>2. b - e \in 1..(r - e) /\ b = e + (b - e)
  <2>1. (e + i) % 2 = 1 => b = e + i
    BY DEF Line
  <2>2. (e + i) % 2 = 0 => b = e + (i - 1) /\ i # 1
    BY DEF Line
  <2>3. (e + i) % 2 \in {0, 1}
    OBVIOUS
  <2> HIDE DEF b
  <2> QED BY <2>1, <2>2, <2>3
<1>3. b \in {text[k] : k \in DOMAIN text}
  <2> HIDE DEF b
  <2> QED BY <1>1, <1>2
<1> QED BY <1>3 DEF Matched

(* The heartbeats are left out of the text, and reported. *)
LEMMA FilteredLists ==
    ASSUME NEW e \in Nat, e % 2 = 0, NEW r \in Nat, e <= r
    PROVE  /\ Lists(Filtered(Halves(e, r)), {h \in (e + 1)..r : ~IsBeat(h)})
           /\ Lists(Heartbeats(Halves(e, r)), {h \in (e + 1)..r : IsBeat(h) /\ Begins(h)})
<1> DEFINE text == Halves(e, r)
           S == {i \in DOMAIN text : ~Matched(text, text[i])}
           T == {i \in DOMAIN text : IsBeat(text[i]) /\ Begins(text[i])}
<1>1. DOMAIN text = 1..(r - e) /\ \A i \in 1..(r - e) : text[i] = e + i
  BY HalvesSeq
<1>2. \A i \in 1..(r - e) : Matched(text, text[i]) <=> IsBeat(e + i)
  BY <1>1, MatchedIs
<1>3. S = {i \in 1..(r - e) : ~IsBeat(e + i)}
  BY <1>1, <1>2
<1>4. T = {i \in 1..(r - e) : IsBeat(e + i) /\ Begins(e + i)}
  BY <1>1
<1>5. \A h \in (e + 1)..r : h - e \in 1..(r - e) /\ e + (h - e) = h
  OBVIOUS
<1> HIDE DEF S, T
<1>6. {h \in (e + 1)..r : h - e \in S} = {h \in (e + 1)..r : ~IsBeat(h)}
  BY <1>3, <1>5
<1>7. {h \in (e + 1)..r : h - e \in T} = {h \in (e + 1)..r : IsBeat(h) /\ Begins(h)}
  BY <1>4, <1>5
<1>8. S \in SUBSET (1..(r - e)) /\ T \in SUBSET (1..(r - e))
  BY <1>3, <1>4
<1>9. /\ Lists(AtPlaces(text, S), {h \in (e + 1)..r : h - e \in S})
      /\ Lists(AtPlaces(text, T), {h \in (e + 1)..r : h - e \in T})
  BY <1>8, AtPlacesLists
<1>10. Filtered(text) = AtPlaces(text, S) /\ Heartbeats(text) = AtPlaces(text, T)
  BY DEF Filtered, Heartbeats, S, T
<1> QED BY <1>6, <1>7, <1>9, <1>10

-----------------------------------------------------------------------------
(* What is kept and reported after a data event, and at the close.          *)

\* The elements of a sequence.
Elems(t) == {t[i] : i \in 1..Len(t)}

(* Text and heartbeats of more halves. *)
LEMMA TextToMore ==
    ASSUME NEW e \in Nat, NEW r \in Nat, e <= r
    PROVE  /\ TextTo(r) = TextTo(e) \cup {h \in (e + 1)..r : ~IsBeat(h)}
           /\ BeatsTo(r) = BeatsTo(e) \cup {h \in (e + 1)..r : IsBeat(h) /\ Begins(h)}
           /\ IsFiniteSet(TextTo(r)) /\ Cardinality(TextTo(r)) \in Nat
           /\ Cardinality(TextTo(e)) \in Nat /\ Cardinality(TextTo(e)) <= Cardinality(TextTo(r))
<1>1. 1..r = (1..e) \cup ((e + 1)..r)
  OBVIOUS
<1>2. /\ TextTo(r) = TextTo(e) \cup {h \in (e + 1)..r : ~IsBeat(h)}
      /\ BeatsTo(r) = BeatsTo(e) \cup {h \in (e + 1)..r : IsBeat(h) /\ Begins(h)}
  BY <1>1 DEF TextTo, BeatsTo
<1>3. ASSUME NEW n \in Nat PROVE IsFiniteSet(TextTo(n)) /\ Cardinality(TextTo(n)) \in Nat
  <2>1. TextTo(n) \in SUBSET (1..n)
    BY DEF TextTo
  <2> QED BY <2>1, UpToFinite
<1>4. TextTo(e) \in SUBSET TextTo(r)
  BY <1>2
<1>5. Cardinality(TextTo(e)) <= Cardinality(TextTo(r))
  BY <1>3, <1>4, FS_Subset
<1> QED BY <1>2, <1>3, <1>5

(* The text of more halves is appended, or dropped as a whole. *)
LEMMA KeepMore ==
    ASSUME NEW e \in Nat, e % 2 = 0, NEW r \in Nat, e <= r, NEW t, Kept(t, e)
    PROVE  Kept(Accepted(t, Filtered(Halves(e, r))), r)
<1> USE ShellAssumption
<1> DEFINE F == Filtered(Halves(e, r))
           T == {h \in (e + 1)..r : ~IsBeat(h)}
           w == t \o F
<1>1. Lists(F, T)
  BY FilteredLists
<1>2. /\ t \in Seq(Nat) /\ Len(t) \in Nat /\ Len(t) <= MaxBuffer
      /\ Rises(t)
      /\ \A i \in 1..Len(t) : t[i] \in TextTo(e)
      /\ \A i \in 1..Len(t) : Begins(t[i]) /\ t[i] # e => i < Len(t) /\ t[i + 1] = t[i] + 1
      /\ Cardinality(TextTo(e)) <= MaxBuffer => Lists(t, TextTo(e))
  BY DEF Kept
<1>3. /\ TextTo(r) = TextTo(e) \cup T
      /\ Cardinality(TextTo(r)) \in Nat /\ Cardinality(TextTo(e)) \in Nat
      /\ Cardinality(TextTo(e)) <= Cardinality(TextTo(r))
  BY TextToMore
<1>4. \A g \in TextTo(e) : \A h \in T : g < h
  BY DEF TextTo
<1>5. F \in Seq(Nat) /\ Len(F) \in Nat
  BY <1>1 DEF Lists
<1> HIDE DEF F, T
<1>6. Cardinality(TextTo(r)) <= MaxBuffer => Lists(w, TextTo(r)) /\ Len(w) <= MaxBuffer
  <2> SUFFICES ASSUME Cardinality(TextTo(r)) <= MaxBuffer
               PROVE  Lists(w, TextTo(r)) /\ Len(w) <= MaxBuffer
    OBVIOUS
  <2>1. Lists(t, TextTo(e))
    BY <1>2, <1>3
  <2> HIDE DEF w
  <2>2. Lists(w, TextTo(e) \cup T)
    BY <1>1, <1>4, <2>1, ListsConcat DEF w
  <2>3. Lists(w, TextTo(r))
    BY <1>3, <2>2
  <2> QED BY <2>3, ListsLen
<1>7. \A i \in 1..Len(t) : Begins(t[i]) => t[i] # e
  BY DEF Begins
<1>8. Len(w) = Len(t) + Len(F) /\ w \in Seq(Nat)
  BY <1>2, <1>5
<1>9. CASE Len(t) + Len(F) <= MaxBuffer
  <2>1. Accepted(t, F) = w
    BY <1>9 DEF Accepted
  <2> HIDE DEF w
  <2>2. Lists(t, Elems(t))
    BY <1>2 DEF Lists, Elems
  <2>3. Elems(t) \subseteq TextTo(e)
    BY <1>2 DEF Elems
  <2>4. Lists(w, Elems(t) \cup T)
    <3>1. \A g \in Elems(t) : \A h \in T : g < h
      BY <1>4, <2>3
    <3> QED BY <1>1, <2>2, <3>1, ListsConcat DEF w
  <2>5. /\ Rises(w) /\ \A i \in 1..Len(w) : w[i] \in Elems(t) \cup T
    BY <2>4 DEF Lists
  <2>6. ASSUME NEW i \in 1..Len(w), Begins(w[i]), w[i] # r
        PROVE  w[i] + 1 \in Elems(t) \cup T
    <3>1. CASE w[i] \in Elems(t)
      <4>1. PICK j \in 1..Len(t) : t[j] = w[i]
        BY <3>1 DEF Elems
      <4>2. j < Len(t) /\ t[j + 1] = t[j] + 1
        BY <1>2, <1>7, <2>6, <4>1
      <4>3. j + 1 \in 1..Len(t)
        <5>1. Len(t) \in Nat
          BY <1>2
        <5> QED BY <4>2, <5>1
      <4> QED BY <4>1, <4>2, <4>3 DEF Elems
    <3>2. CASE w[i] \in T
      <4> DEFINE h == w[i]
      <4>1. h \in (e + 1)..r /\ ~IsBeat(h)
        BY <3>2 DEF T
      <4>2. h % 2 = 1 /\ h # r
        BY <2>6 DEF Begins
      <4> HIDE DEF h
      <4>3. h + 1 \in (e + 1)..r
        BY <4>1, <4>2
      <4>4. Line(h + 1) = Line(h)
        <5>1. h \in Nat
          BY <4>1
        <5> QED BY <4>2, <5>1 DEF Line
      <4>5. ~IsBeat(h + 1)
        BY <4>1, <4>4 DEF IsBeat
      <4> QED BY <4>3, <4>5 DEF T, h
    <3> QED BY <2>5, <3>1, <3>2
  <2>7. \A i \in 1..Len(w) : Begins(w[i]) /\ w[i] # r => i < Len(w) /\ w[i + 1] = w[i] + 1
    <3> SUFFICES ASSUME NEW i \in 1..Len(w), Begins(w[i]), w[i] # r
                 PROVE  i < Len(w) /\ w[i + 1] = w[i] + 1
      OBVIOUS
    <3>1. w[i] + 1 \in Elems(t) \cup T
      BY <2>6
    <3> QED BY <2>4, <3>1, ListsNext
  <2>8. \A i \in 1..Len(w) : w[i] \in TextTo(r)
    BY <1>3, <2>3, <2>5
  <2>9. Kept(w, r)
    BY <1>6, <1>8, <1>9, <2>5, <2>7, <2>8 DEF Kept
  <2> QED BY <2>1, <2>9 DEF F
<1>10. CASE ~(Len(t) + Len(F) <= MaxBuffer)
  <2>1. Accepted(t, F) = t
    BY <1>10 DEF Accepted
  <2>2. ~(Cardinality(TextTo(r)) <= MaxBuffer)
    BY <1>6, <1>8, <1>10
  <2> HIDE DEF w
  <2>3. \A i \in 1..Len(t) : t[i] \in TextTo(r)
    BY <1>2, <1>3
  <2>4. \A i \in 1..Len(t) : Begins(t[i]) /\ t[i] # r => i < Len(t) /\ t[i + 1] = t[i] + 1
    BY <1>2, <1>7
  <2>5. Kept(t, r)
    BY <1>2, <2>2, <2>3, <2>4 DEF Kept
  <2> QED BY <2>1, <2>5 DEF F
<1> QED BY <1>9, <1>10

(* The heartbeats of more halves are reported after those before. *)
LEMMA BeatsMore ==
    ASSUME NEW e \in Nat, e % 2 = 0, NEW r \in Nat, e <= r, NEW t, Lists(t, BeatsTo(e))
    PROVE  Lists(t \o Heartbeats(Halves(e, r)), BeatsTo(r))
<1> DEFINE F == Heartbeats(Halves(e, r))
           T == {h \in (e + 1)..r : IsBeat(h) /\ Begins(h)}
<1>1. Lists(F, T)
  BY FilteredLists
<1>2. BeatsTo(r) = BeatsTo(e) \cup T
  BY TextToMore
<1>3. \A g \in BeatsTo(e) : \A h \in T : g < h
  BY DEF BeatsTo
<1> HIDE DEF F, T
<1>4. Lists(t \o F, BeatsTo(e) \cup T)
  BY <1>1, <1>3, ListsConcat
<1> QED BY <1>2, <1>4 DEF F

-----------------------------------------------------------------------------
(* The capped answer.                                                       *)

LEMMA ShrunkFits ==
    ASSUME NEW len \in Nat, NEW room \in Int
    PROVE  Shrunk(len, room) \in 0..len /\ (Shrunk(len, room) = 0 \/ Shrunk(len, room) <= room)
<1> DEFINE S == {0} \cup {n \in 0..len : n <= room /\ \E k \in 0..len : n = len \div 2^k}
           D == {d \in 0..len : len - d \in S}
<1>1. \A n \in S : n \in 0..len /\ (n = 0 \/ n <= room)
  OBVIOUS
<1>2. 0 \in S
  OBVIOUS
<1>3. Shrunk(len, room) = Max(S)
  BY DEF Shrunk
<1> HIDE DEF S
<1>4. PICK d \in D : \A m \in D : d <= m
  <2>1. D \in SUBSET Nat
    OBVIOUS
  <2>2. len \in D
    BY <1>2
  <2> HIDE DEF D
  <2> QED BY <2>1, <2>2, LeastNatural
<1>5. \A n \in S : len - d >= n
  <2> SUFFICES ASSUME NEW n \in S PROVE len - d >= n
    OBVIOUS
  <2>1. n \in 0..len
    BY <1>1
  <2>2. len - n \in 0..len /\ len - (len - n) = n
    BY <2>1
  <2>3. len - n \in D
    BY <2>2
  <2>4. d <= len - n /\ d \in 0..len
    BY <1>4, <2>3
  <2> QED BY <2>1, <2>4
<1>6. len - d \in S
  BY <1>4
<1>7. S \in SUBSET Int
  BY <1>1
<1>8. Max(S) = len - d
  <2> DEFINE m == len - d
  <2>1. m \in S /\ \A n \in S : m >= n
    BY <1>5, <1>6
  <2> HIDE DEF m
  <2>2. Max(S) = m
    BY <1>7, <2>1, MaxIs
  <2> QED BY <2>2 DEF m
<1> QED BY <1>1, <1>3, <1>6, <1>8

LEMMA MinOfThree ==
    ASSUME NEW a \in Int, NEW b \in Int, NEW c \in Int
    PROVE  Min({a, b, c}) \in {a, b, c} /\ \A x \in {a, b, c} : Min({a, b, c}) <= x
<1>1. \E x \in {a, b, c} : \A y \in {a, b, c} : x =< y
  OBVIOUS
<1> QED BY <1>1 DEF Min

LEMMA MaxOfTwo ==
    ASSUME NEW a \in Int, NEW b \in Int
    PROVE  Max({a, b}) \in Int /\ Max({a, b}) >= a /\ Max({a, b}) >= b /\ Max({a, b}) \in {a, b}
<1>1. \E x \in {a, b} : \A y \in {a, b} : x >= y
  OBVIOUS
<1> QED BY <1>1 DEF Max

(* The preview fits with the header, unless there is no room for any. *)
LEMMA PreviewFits ==
    ASSUME NEW size \in Nat, NEW header \in Nat
    PROVE  LET view == Preview(size, header)
           IN  /\ view.head \in Nat /\ view.tail \in Nat
               /\ \/ view.head = 0 /\ view.tail = 0
                  \/ header + view.head + view.tail <= MaxInline
<1> USE ShellAssumption
<1> DEFINE budget == Max({0, MaxInline - HeaderReserve})
           part == (budget * 4) \div 5
           most == Min({PreviewHead, part})
           rest == budget - most
           head == Min({size, PreviewHead, part})
           tail == Min({size, PreviewTail, rest})
           h == Shrunk(head, MaxInline - header - tail)
           t == Shrunk(tail, MaxInline - header - h)
<1>0. PreviewHead \in Nat /\ PreviewTail \in Nat /\ MaxInline \in Nat /\ HeaderReserve \in Nat
  OBVIOUS
<1>1. budget \in Nat
  <2>1. MaxInline - HeaderReserve \in Int
    BY <1>0
  <2> HIDE ShellAssumption
  <2> QED BY <2>1, MaxOfTwo
<1>2. part \in Nat /\ part <= budget
  <2> HIDE DEF budget
  <2> QED BY <1>1
<1>3. most \in Int /\ most <= part
  <2> HIDE DEF part
  <2> QED BY <1>0, <1>2, MinOfTwo
<1>4. rest \in Nat
  <2> HIDE DEF most, part, budget
  <2> QED BY <1>1, <1>2, <1>3
<1>5. head \in Nat
  <2> HIDE DEF part
  <2>0. size \in Int /\ PreviewHead \in Int /\ part \in Int
    BY <1>0, <1>2
  <2> HIDE ShellAssumption
  <2>1. head \in {size, PreviewHead, part}
    BY <2>0, MinOfThree
  <2> QED BY <1>0, <1>2, <2>1
<1>6. tail \in Nat
  <2> HIDE DEF rest
  <2>0. size \in Int /\ PreviewTail \in Int /\ rest \in Int
    BY <1>0, <1>4
  <2> HIDE ShellAssumption
  <2>1. tail \in {size, PreviewTail, rest}
    BY <2>0, MinOfThree
  <2> QED BY <1>0, <1>4, <2>1
<1>7. Preview(size, header) = [head |-> h, tail |-> t]
  BY DEF Preview
<1> HIDE DEF head, tail
<1>8. h \in Nat /\ (h = 0 \/ h <= MaxInline - header - tail)
  <2> DEFINE room == MaxInline - header - tail
  <2>1. room \in Int
    BY <1>0, <1>6
  <2> HIDE ShellAssumption
  <2> HIDE DEF room
  <2>2. Shrunk(head, room) \in 0..head /\ (Shrunk(head, room) = 0 \/ Shrunk(head, room) <= room)
    BY <1>5, <2>1, ShrunkFits
  <2> QED BY <2>2 DEF room
<1> HIDE DEF h
<1>9. t \in Nat /\ (t = 0 \/ t <= MaxInline - header - h)
  <2> DEFINE room == MaxInline - header - h
  <2>1. room \in Int
    BY <1>0, <1>8
  <2> HIDE ShellAssumption
  <2> HIDE DEF room
  <2>2. Shrunk(tail, room) \in 0..tail /\ (Shrunk(tail, room) = 0 \/ Shrunk(tail, room) <= room)
    BY <1>6, <2>1, ShrunkFits
  <2> QED BY <2>2 DEF room
<1> HIDE DEF t
<1>10. (h = 0 /\ t = 0) \/ header + h + t <= MaxInline
  BY <1>0, <1>6, <1>8, <1>9
<1> QED BY <1>7, <1>8, <1>9, <1>10

(* So does the answer. *)
LEMMA CappedOK ==
    ASSUME NEW r \in Outcomes, NEW header \in Headers,
           NEW saved \in {TRUE} \cup {~("noSave" \in Env)}
    PROVE  CappedOutput(r, saved, header) \in Replies /\ ReplyOK(CappedOutput(r, saved, header))
<1> USE ShellAssumption
<1> DEFINE size == Len(r.text) + r.errors
           view == Preview(size, header)
<1>1. r.code \in Codes /\ r.text \in Seq(Nat) /\ r.errors \in Nat
  BY DEF Outcomes
<1>2. size \in Nat /\ header \in Nat
  BY <1>1
<1>3. saved \in BOOLEAN /\ (saved \/ "noSave" \in Env)
  OBVIOUS
<1> HIDE DEF size
<1>4. /\ view.head \in Nat /\ view.tail \in Nat
      /\ (view.head = 0 /\ view.tail = 0) \/ header + view.head + view.tail <= MaxInline
  BY <1>2, PreviewFits
<1> HIDE DEF view
<1>5. CASE size <= MaxInline
  <2>1. CappedOutput(r, saved, header) =
            [code |-> r.code, whole |-> TRUE, saved |-> FALSE, inline |-> size]
    BY <1>5 DEF CappedOutput, size
  <2> QED BY <1>1, <1>2, <1>5, <2>1 DEF Replies, ReplyOK
<1>6. CASE ~(size <= MaxInline)
  <2> DEFINE total1 == header + view.head + view.tail
  <2>1. CappedOutput(r, saved, header) =
            [code |-> r.code, whole |-> FALSE, saved |-> saved, inline |-> total1]
    BY <1>6 DEF CappedOutput, size, view
  <2>2. total1 \in Nat /\ (total1 <= MaxInline \/ total1 \in Headers)
    BY <1>2, <1>4
  <2> HIDE DEF total1
  <2> QED BY <1>1, <1>3, <2>1, <2>2 DEF Replies, ReplyOK
<1> QED BY <1>5, <1>6

LEMMA ToldOK ==
    ASSUME NEW code \in Codes
    PROVE  Told(code) \in Replies /\ ReplyOK(Told(code))
  BY ShellAssumption DEF Told, Replies, ReplyOK

(* One more reply. *)
LEMMA RepliedMore ==
    ASSUME answers \in Seq(Replies), Replied, NEW r \in Replies, ReplyOK(r),
           answers' = Append(answers, r)
    PROVE  answers' \in Seq(Replies) /\ Replied'
<1>1. answers' \in Seq(Replies) /\ Len(answers') = Len(answers) + 1
  BY AppendProperties
<1>2. \A i \in 1..Len(answers') : 
          (i \in 1..Len(answers) /\ answers'[i] = answers[i]) \/ answers'[i] = r
  BY AppendProperties
<1>3. \A i \in 1..Len(answers') : ReplyOK(answers'[i])
  BY <1>2 DEF Replied
<1> QED BY <1>1, <1>3 DEF Replied, ReplyOK

-----------------------------------------------------------------------------
(* The steps.                                                               *)

(* What is kept and reported stays so while the output stays. *)
LEMMA KeptNow ==
    ASSUME NEW t, NEW e, Kept(t, e), kinds' = kinds
    PROVE  /\ out' = t /\ Ended(read)' = e => Kept(out, Ended(read))'
           /\ result'.text = t /\ written' = e => Kept(result.text, written)'
  BY DEF Kept, Lists, Rises, TextTo, IsBeat, Line, Begins

LEMMA BeatsNow ==
    ASSUME NEW t, NEW e, Lists(t, BeatsTo(e)), kinds' = kinds
    PROVE  /\ beats' = t /\ Ended(read)' = e => Lists(beats, BeatsTo(Ended(read)))'
           /\ beats' = t /\ Ended(written)' = e => Lists(beats, BeatsTo(Ended(written)))'
  BY DEF Lists, Rises, BeatsTo, IsBeat, Line, Begins

(* A step that neither reads nor closes keeps what is known of the output. *)
LEMMA OutputStays ==
    ASSUME IInv, UNCHANGED <<kinds, read, pending, out, beats>>,
           proc' = "closed" <=> proc = "closed",
           proc = "closed" => exit' = exit /\ written' = written,
           EndsItself' => result' = result,
           Foreground' => Foreground
    PROVE  Reading' /\ Done'
<1>1. Ended(read)' = Ended(read)
  BY DEF Ended
<1>2. Reading'
  <2> SUFFICES ASSUME proc' # "closed"
               PROVE  /\ ~EndsItself'
                      /\ pending' = Halves(Ended(read), read)'
                      /\ Kept(out, Ended(read))'
                      /\ Foreground' => Lists(beats, BeatsTo(Ended(read)))'
    BY DEF Reading
  <2>1. /\ ~EndsItself /\ pending = Halves(Ended(read), read) /\ Kept(out, Ended(read))
        /\ Foreground => Lists(beats, BeatsTo(Ended(read)))
    BY DEF IInv, Reading
  <2>2. ~EndsItself'
    BY <2>1 DEF EndsItself
  <2>3. Kept(out, Ended(read))'
    BY <1>1, <2>1, KeptNow
  <2>4. Foreground' => Lists(beats, BeatsTo(Ended(read)))'
    BY <1>1, <2>1, BeatsNow
  <2>5. pending' = Halves(Ended(read), read)'
    BY <2>1 DEF Halves, Ended
  <2> QED BY <2>2, <2>3, <2>4, <2>5
<1>3. Done'
  <2> SUFFICES ASSUME proc' = "closed" /\ EndsItself' /\ exit' # "unborn"
               PROVE  /\ Kept(result.text, written)'
                      /\ Foreground' => Lists(beats, BeatsTo(Ended(written)))'
    BY DEF Done
  <2>1. result' = result /\ written' = written /\ exit' = exit /\ proc = "closed"
    OBVIOUS
  <2>2. EndsItself
    BY <2>1 DEF EndsItself
  <2>3. /\ Kept(result.text, written)
        /\ Foreground => Lists(beats, BeatsTo(Ended(written)))
    BY <2>1, <2>2 DEF IInv, Done
  <2>4. Kept(result.text, written)'
    BY <2>1, <2>3, KeptNow
  <2>5. Ended(written)' = Ended(written)
    BY <2>1 DEF Ended
  <2>6. Foreground' => Lists(beats, BeatsTo(Ended(written)))'
    BY <2>3, <2>5, BeatsNow
  <2> QED BY <2>4, <2>6
<1> QED BY <1>2, <1>3

LEMMA InitInv == Init => IInv
<1> SUFFICES ASSUME Init PROVE IInv
  OBVIOUS
<1> USE ShellAssumption
<1>1. /\ proc = "none" /\ exit = "none" /\ written = 0 /\ read = 0 /\ errors = 0
      /\ pending = <<>> /\ out = <<>> /\ beats = <<>> /\ answers = <<>>
      /\ result = [code |-> "none", text |-> <<>>, errors |-> 0] /\ at = "called"
  BY DEF Init, NoResult
<1>2. <<>> \in Seq(Nat) /\ <<>> \in Seq(Replies) /\ Len(<<>>) = 0
  OBVIOUS
<1>3. Typed
  <2>1. result \in Outcomes
    <3> HIDE ShellAssumption
    <3>1. "none" \in Codes
      BY DEF Codes, Ends
    <3>2. <<>> \in Seq(Nat) /\ 0 \in Nat
      BY <1>2
    <3> QED BY <1>1, <3>1, <3>2 DEF Outcomes
  <2>2. read \in 0..written
    BY <1>1
  <2>3. exit \in Ends
    BY <1>1 DEF Ends
  <2> QED BY <1>1, <1>2, <2>1, <2>2, <2>3 DEF Typed
<1>4. Ended(read) = 0
  BY <1>1 DEF Ended
<1>5. TextTo(0) = {} /\ BeatsTo(0) = {}
  BY DEF TextTo, BeatsTo
<1>6. Lists(<<>>, {}) /\ Rises(<<>>)
  BY <1>2 DEF Lists, Rises
<1>7. Kept(<<>>, 0)
  <2>1. \A i \in 1..Len(<<>>) : FALSE
    BY <1>2
  <2>2. Len(<<>>) <= MaxBuffer
    BY <1>2
  <2>3. Lists(<<>>, TextTo(0))
    BY <1>5, <1>6
  <2> QED BY <1>2, <1>6, <2>1, <2>2, <2>3 DEF Kept
<1>8. <<>> = Halves(0, 0)
  <2> DEFINE t == <<>>
             z == 0
  <2>1. /\ z \in Nat /\ z <= z
        /\ t \in Seq(Nat) /\ Len(t) = z - z /\ \A i \in 1..(z - z) : t[i] = z + i
    BY <1>2
  <2> HIDE DEF t, z
  <2>2. t = Halves(z, z)
    BY <2>1, IsHalves
  <2> QED BY <2>2 DEF t, z
<1>9. Reading
  <2>1. ~EndsItself
    BY <1>1 DEF EndsItself
  <2>2. Lists(beats, BeatsTo(Ended(read)))
    BY <1>1, <1>4, <1>5, <1>6
  <2>3. Kept(out, Ended(read)) /\ pending = Halves(Ended(read), read)
    BY <1>1, <1>4, <1>7, <1>8
  <2> QED BY <2>1, <2>2, <2>3 DEF Reading
<1>10. Done /\ Replied
  BY <1>1, <1>2 DEF Done, Replied
<1> QED BY <1>1, <1>3, <1>9, <1>10 DEF IInv

(* A data event. *)
LEMMA DataInv ==
    ASSUME IInv, Data
    PROVE  IInv'
<1>1. /\ Typed /\ Reading /\ Replied
      /\ at = "called" => proc = "none"
  BY DEF IInv
<1>2. /\ proc \in {"running", "exited"}
      /\ UNCHANGED <<kinds, proc, killed, exit, written, errors, at, result, answers>>
  BY DEF Data, process, call
<1>3. /\ read \in Nat /\ written \in Nat /\ read <= written
      /\ errors \in Nat /\ out \in Seq(Nat) /\ exit \in Ends
      /\ result \in Outcomes /\ answers \in Seq(Replies)
  BY <1>1 DEF Typed
<1>4. PICK n \in 1..Min({MaxChunk, written - read}) :
          /\ read' = read + n
          /\ LET text     == pending \o Halves(read, read + n)
                 complete == Complete(text)
             IN  /\ pending' = SubSeq(text, Len(complete) + 1, Len(text))
                 /\ out' = Accepted(out, Filtered(complete))
                 /\ beats' = IF IsForeground THEN beats \o Heartbeats(complete) ELSE beats
  BY DEF Data
<1>5. n \in Nat /\ read + n \in Nat /\ read + n <= written
  <2>1. MaxChunk \in Int /\ written - read \in Int
    BY <1>3, ShellAssumption
  <2>2. Min({MaxChunk, written - read}) \in Int /\ Min({MaxChunk, written - read}) <= written - read
    BY <2>1, MinOfTwo
  <2> QED BY <1>3, <2>2
<1> DEFINE e == Ended(read)
           r == read + n
           f == Ended(r)
<1>6. /\ e \in Nat /\ e <= read /\ e % 2 = 0 /\ e <= f
      /\ f \in Nat /\ f <= r /\ f % 2 = 0 /\ e <= r
  <2>1. read <= r /\ r \in Nat
    BY <1>3, <1>5
  <2>2. e \in Nat /\ e <= read /\ e % 2 = 0 /\ e <= f
    BY <1>3, <2>1, EndedOf
  <2>3. f \in Nat /\ f <= r /\ f % 2 = 0
    BY <2>1, EndedOf
  <2> HIDE DEF e, f, r
  <2> QED BY <1>3, <2>1, <2>2, <2>3
<1>7. /\ ~EndsItself /\ pending = Halves(e, read) /\ Kept(out, e)
      /\ Foreground => Lists(beats, BeatsTo(e))
  BY <1>1, <1>2 DEF Reading
<1>8. pending \o Halves(read, r) = Halves(e, r)
  <2>1. r \in Nat /\ read \in Nat /\ read <= r
    BY <1>3, <1>5
  <2> HIDE DEF e, f, r
  <2>2. e \in Nat /\ e <= read
    BY <1>6
  <2>3. Halves(e, read) \o Halves(read, r) = Halves(e, r)
    BY <2>1, <2>2, HalvesConcat
  <2> QED BY <1>7, <2>3
<1>9. Complete(Halves(e, r)) = Halves(e, f)
  BY <1>5, <1>6, CompleteOf
<1>10. /\ Len(Halves(e, f)) = f - e /\ Len(Halves(e, r)) = r - e
  BY <1>5, <1>6, HalvesSeq
<1>11. SubSeq(Halves(e, r), (f - e) + 1, r - e) = Halves(f, r)
  BY <1>5, <1>6, HalvesConcat
<1>12. /\ pending' = Halves(f, r)
       /\ out' = Accepted(out, Filtered(Halves(e, f)))
       /\ beats' = IF IsForeground THEN beats \o Heartbeats(Halves(e, f)) ELSE beats
  BY <1>4, <1>8, <1>9, <1>10, <1>11
<1>13. Ended(read)' = f /\ read' = r
  BY <1>4 DEF Ended
<1>14. Kept(out', f)
  BY <1>6, <1>7, <1>12, KeepMore
<1>15. Foreground => Lists(beats', BeatsTo(f))
  <2> SUFFICES ASSUME Foreground PROVE Lists(beats', BeatsTo(f))
    OBVIOUS
  <2>1. IsForeground
    BY <1>1, <1>2 DEF Foreground, IsForeground
  <2>2. beats' = beats \o Heartbeats(Halves(e, f))
    BY <1>12, <2>1
  <2> HIDE DEF e, f
  <2>3. Lists(beats \o Heartbeats(Halves(e, f)), BeatsTo(f))
    BY <1>6, <1>7, BeatsMore
  <2> QED BY <2>2, <2>3
<1> HIDE DEF e, f, r
<1>16. Reading'
  <2>1. ~EndsItself'
    BY <1>2, <1>7 DEF EndsItself
  <2>2. pending' = Halves(Ended(read), read)'
    BY <1>12, <1>13 DEF Halves
  <2>3. Kept(out, Ended(read))'
    BY <1>2, <1>13, <1>14, KeptNow
  <2>4. Foreground' => Lists(beats, BeatsTo(Ended(read)))'
    <3>1. Foreground' => Foreground
      BY <1>2 DEF Foreground
    <3> QED BY <1>2, <1>13, <1>15, <3>1, BeatsNow
  <2> QED BY <2>1, <2>2, <2>3, <2>4 DEF Reading
<1>17. Done'
  BY <1>2 DEF Done
<1>18. Typed'
  <2>1. out' \in Seq(Nat)
    BY <1>14 DEF Kept
  <2>2. read' \in 0..written'
    BY <1>2, <1>3, <1>4, <1>5
  <2> QED BY <1>2, <1>3, <2>1, <2>2 DEF Typed
<1>19. Replied'
  BY <1>1, <1>2 DEF Replied, ReplyOK
<1> QED BY <1>1, <1>2, <1>16, <1>17, <1>18, <1>19 DEF IInv

(* The first outcome counts. *)
LEMMA SettleTyped ==
    ASSUME Typed, NEW code \in Codes, NEW text \in Seq(Nat), SettleWith(code, text)
    PROVE  /\ result' \in Outcomes
           /\ result' = result \/ (result'.code = code /\ result'.text = text)
<1>1. CASE Settled
  BY <1>1 DEF SettleWith, Typed
<1>2. CASE ~Settled
  <2>1. result' = [code |-> code, text |-> text, errors |-> errors]
    BY <1>2 DEF SettleWith, Outcome
  <2> QED BY <2>1 DEF Outcomes, Typed
<1> QED BY <1>1, <1>2

(* A step that neither reads nor closes. *)
LEMMA OtherInv ==
    ASSUME IInv,
           UNCHANGED <<kinds, read, pending, out, beats>>,
           proc' = "closed" <=> proc = "closed",
           proc = "closed" => exit' = exit /\ written' = written,
           written' \in Nat, written <= written', errors' \in Nat, exit' \in Ends,
           result' \in Outcomes, EndsItself' => result' = result,
           Foreground' => Foreground,
           answers' \in Seq(Replies), Replied',
           at' = "called" => proc' = "none"
    PROVE  IInv'
<1>1. Reading' /\ Done'
  BY OutputStays
<1>2. Typed'
  <2>1. written \in Nat /\ read \in 0..written /\ out \in Seq(Nat)
    BY DEF IInv, Typed
  <2>2. read' \in 0..written'
    BY <2>1
  <2> QED BY <2>1, <2>2 DEF Typed
<1> QED BY <1>1, <1>2 DEF IInv

\* What the actions have in common.
Facts ==
    /\ written \in Nat /\ errors \in Nat /\ exit \in Ends /\ result \in Outcomes
    /\ out \in Seq(Nat) /\ answers \in Seq(Replies) /\ Replied
    /\ at = "called" => proc = "none"

LEMMA IInvFacts == IInv => Facts
  BY DEF IInv, Typed, Facts

(* The answers stay, or there is one more. *)
LEMMA RepliesNow ==
    ASSUME IInv
    PROVE  /\ answers' = answers => answers' \in Seq(Replies) /\ Replied'
           /\ \A code \in Codes : answers' = <<Told(code)>> => answers' \in Seq(Replies) /\ Replied'
           /\ \A r \in Replies : ReplyOK(r) /\ answers' = Append(answers, r) =>
                  answers' \in Seq(Replies) /\ Replied'
<1>1. answers \in Seq(Replies) /\ Replied
  BY IInvFacts DEF Facts
<1>2. answers' = answers => Replied'
  BY <1>1 DEF Replied, ReplyOK
<1>3. ASSUME NEW code \in Codes, answers' = <<Told(code)>>
      PROVE  answers' \in Seq(Replies) /\ Replied'
  <2>1. Told(code) \in Replies /\ ReplyOK(Told(code))
    BY ToldOK
  <2>2. answers' \in Seq(Replies) /\ \A i \in 1..Len(answers') : answers'[i] = Told(code)
    BY <1>3, <2>1
  <2>3. \A i \in 1..Len(answers') : ReplyOK(answers'[i])
    BY <2>1, <2>2
  <2> QED BY <2>2, <2>3 DEF Replied, ReplyOK
<1>4. ASSUME NEW r \in Replies, ReplyOK(r), answers' = Append(answers, r)
      PROVE  answers' \in Seq(Replies) /\ Replied'
  BY <1>1, <1>4, RepliedMore
<1> QED BY <1>1, <1>2, <1>3, <1>4

(* The call begins. *)
LEMMA RefuseInv == ASSUME IInv, Refuse PROVE IInv'
<1>1. Facts
  BY IInvFacts
<1>2. /\ at = "called" /\ at' = "answered" /\ answers' = <<Told("blocked")>>
      /\ UNCHANGED <<kinds, proc, exit, written, read, pending, out, errors, beats, result>>
  BY DEF Refuse, process, stream
<1>3. answers' \in Seq(Replies) /\ Replied'
  <2>1. "blocked" \in Codes
    BY DEF Codes
  <2> QED BY <1>2, <2>1, RepliesNow
<1>4. Foreground' => Foreground
  BY <1>2 DEF Foreground
<1> QED BY <1>1, <1>2, <1>3, <1>4, OtherInv DEF Facts

LEMMA StartBackgroundInv == ASSUME IInv, StartBackground PROVE IInv'
<1>1. Facts
  BY IInvFacts
<1>2. /\ at = "called" /\ at' = "background" /\ answers' = <<Told("started")>>
      /\ proc' \in {"running", "unborn"}
      /\ UNCHANGED <<kinds, exit, written, read, pending, out, errors, beats, result>>
  BY DEF StartBackground, Spawned, stream
<1>3. answers' \in Seq(Replies) /\ Replied'
  <2>1. "started" \in Codes
    BY DEF Codes
  <2> QED BY <1>2, <2>1, RepliesNow
<1>4. Foreground' => Foreground
  BY <1>2 DEF Foreground
<1>5. proc # "closed" /\ proc' # "closed"
  BY <1>1, <1>2 DEF Facts
<1> QED BY <1>1, <1>2, <1>3, <1>4, <1>5, OtherInv DEF Facts

LEMMA StartForegroundInv == ASSUME IInv, StartForeground PROVE IInv'
<1>1. Facts
  BY IInvFacts
<1>2. /\ at = "called" /\ at' = "running" /\ proc' \in {"running", "unborn"}
      /\ UNCHANGED <<kinds, exit, written, read, pending, out, errors, beats, result, answers>>
  BY DEF StartForeground, Spawned, stream
<1>3. answers' \in Seq(Replies) /\ Replied'
  BY <1>2, RepliesNow
<1>4. Foreground' => Foreground
  BY <1>2 DEF Foreground
<1>5. proc # "closed" /\ proc' # "closed"
  BY <1>1, <1>2 DEF Facts
<1> QED BY <1>1, <1>2, <1>3, <1>4, <1>5, OtherInv DEF Facts

LEMMA StartAbortedInv == ASSUME IInv, StartAborted PROVE IInv'
<1>1. Facts
  BY IInvFacts
<1>2. /\ at = "called" /\ at' = "running" /\ proc' \in {"running", "unborn"}
      /\ result' = [NoResult EXCEPT !.code = "aborted"]
      /\ UNCHANGED <<kinds, exit, written, read, pending, out, errors, beats, answers>>
  BY DEF StartAborted, Spawned, stream
<1>3. answers' \in Seq(Replies) /\ Replied'
  BY <1>2, RepliesNow
<1>4. Foreground' => Foreground
  BY <1>2 DEF Foreground
<1>5. proc # "closed" /\ proc' # "closed"
  BY <1>1, <1>2 DEF Facts
<1>6. result' \in Outcomes /\ ~EndsItself'
  <2>1. result' = [code |-> "aborted", text |-> <<>>, errors |-> 0]
    BY <1>2 DEF NoResult
  <2>2. "aborted" \in Codes /\ <<>> \in Seq(Nat)
    BY DEF Codes
  <2> QED BY <2>1, <2>2 DEF Outcomes, EndsItself
<1> QED BY <1>1, <1>2, <1>3, <1>4, <1>5, <1>6, OtherInv DEF Facts

(* The answer is given. *)
LEMMA CapInv == ASSUME IInv, Cap PROVE IInv'
<1>1. Facts
  BY IInvFacts
<1>2. /\ at \in {"running", "background"}
      /\ at' = IF at = "running" THEN "answered" ELSE "gone"
      /\ UNCHANGED <<kinds, proc, exit, written, read, pending, out, errors, beats, result>>
  BY DEF Cap, process, stream
<1>3. answers' \in Seq(Replies) /\ Replied'
  <2>1. PICK header \in Headers, saved \in {TRUE} \cup {~("noSave" \in Env)} :
            answers' = Append(answers, CappedOutput(result, saved, header))
    BY DEF Cap
  <2>2. result \in Outcomes
    BY <1>1 DEF Facts
  <2>3. /\ CappedOutput(result, saved, header) \in Replies
        /\ ReplyOK(CappedOutput(result, saved, header))
    BY <2>2, CappedOK
  <2> QED BY <2>1, <2>3, RepliesNow
<1>4. Foreground' => Foreground
  BY <1>2 DEF Foreground
<1>5. at' # "called"
  BY <1>2
<1> QED BY <1>1, <1>2, <1>3, <1>4, <1>5, OtherInv DEF Facts

(* The process goes on, or ends. *)
LEMMA ExitInv == ASSUME IInv, Exit PROVE IInv'
<1>1. Facts
  BY IInvFacts
<1>2. /\ proc = "running" /\ proc' = "exited" /\ exit' \in Ends
      /\ UNCHANGED <<kinds, written, read, pending, out, errors, beats, at, result, answers>>
  BY DEF Exit, Ends, stream, call
<1>3. answers' \in Seq(Replies) /\ Replied'
  BY <1>2, RepliesNow
<1>4. Foreground' => Foreground
  BY <1>2 DEF Foreground
<1> QED BY <1>1, <1>2, <1>3, <1>4, OtherInv DEF Facts

LEMMA WriteInv == ASSUME IInv, Write PROVE IInv'
<1>1. Facts
  BY IInvFacts
<1>2. /\ proc = "running" /\ written' = written + 1
      /\ UNCHANGED <<kinds, proc, exit, read, pending, out, errors, beats, at, result, answers>>
  BY DEF Write, stream, call
<1>3. answers' \in Seq(Replies) /\ Replied'
  BY <1>2, RepliesNow
<1>4. Foreground' => Foreground
  BY <1>2 DEF Foreground
<1> QED BY <1>1, <1>2, <1>3, <1>4, OtherInv DEF Facts

LEMMA ErrorDataInv == ASSUME IInv, ErrorData PROVE IInv'
<1>1. Facts
  BY IInvFacts
<1>2. /\ errors' = Min({errors + 1, MaxErrors})
      /\ UNCHANGED <<kinds, proc, exit, written, read, pending, out, beats, at, result, answers>>
  BY DEF ErrorData, process, call
<1>3. answers' \in Seq(Replies) /\ Replied'
  BY <1>2, RepliesNow
<1>4. Foreground' => Foreground
  BY <1>2 DEF Foreground
<1>5. errors' \in Nat
  <2>1. errors + 1 \in Nat /\ MaxErrors \in Nat
    BY <1>1, ShellAssumption DEF Facts
  <2>2. Min({errors + 1, MaxErrors}) \in {errors + 1, MaxErrors}
    <3> DEFINE a == errors + 1
    <3>1. a \in Int /\ MaxErrors \in Int
      BY <2>1
    <3> HIDE DEF a
    <3>2. Min({a, MaxErrors}) \in {a, MaxErrors}
      BY <3>1, MinOfTwo
    <3> QED BY <3>2 DEF a
  <2> QED BY <1>2, <2>1, <2>2
<1> QED BY <1>1, <1>2, <1>3, <1>4, <1>5, OtherInv DEF Facts

(* A timer or the abort settles the call, or the process could not be started. *)
LEMMA SettledOther ==
    ASSUME Facts, Typed, NEW code \in {"error", "timedOut", "aborted"},
           SettleWith(code, out) \/ UNCHANGED result
    PROVE  result' \in Outcomes /\ (EndsItself' => result' = result)
<1>1. CASE UNCHANGED result
  BY <1>1 DEF Facts
<1>2. CASE SettleWith(code, out)
  <2>1. code \in Codes /\ out \in Seq(Nat)
    BY DEF Codes, Facts
  <2>2. result' \in Outcomes /\ (result' = result \/ result'.code = code)
    BY <1>2, <2>1, SettleTyped
  <2> QED BY <2>2 DEF EndsItself
<1> QED BY <1>1, <1>2

LEMMA SpawnErrorInv == ASSUME IInv, SpawnError PROVE IInv'
<1>1. Facts /\ Typed
  BY IInvFacts DEF IInv
<1>2. /\ proc = "unborn" /\ proc' = "exited" /\ exit' = "unborn"
      /\ IF at = "background"
         THEN answers' = Append(answers, Told("error")) /\ UNCHANGED <<result, clock>>
         ELSE SettleWith("error", out) /\ UNCHANGED answers
      /\ UNCHANGED <<kinds, written, read, pending, out, errors, beats, at>>
  BY DEF SpawnError, stream
<1>3. answers' \in Seq(Replies) /\ Replied'
  <2>1. "error" \in Codes
    BY DEF Codes
  <2>2. Told("error") \in Replies /\ ReplyOK(Told("error"))
    BY <2>1, ToldOK
  <2> QED BY <1>2, <2>2, RepliesNow
<1>4. Foreground' => Foreground
  BY <1>2 DEF Foreground
<1>5. result' \in Outcomes /\ (EndsItself' => result' = result)
  BY <1>1, <1>2, SettledOther
<1>6. exit' \in Ends
  BY <1>2 DEF Ends
<1>7. at' # "called"
  BY <1>1, <1>2 DEF Facts
<1> QED BY <1>1, <1>2, <1>3, <1>4, <1>5, <1>6, <1>7, OtherInv DEF Facts

LEMMA TickInv == ASSUME IInv, Tick PROVE IInv'
<1>1. Facts
  BY IInvFacts
<1>2. UNCHANGED <<kinds, proc, exit, written, read, pending, out, errors, beats, at, result, answers>>
  BY DEF Tick, process, stream, call
<1>3. answers' \in Seq(Replies) /\ Replied'
  BY <1>2, RepliesNow
<1>4. Foreground' => Foreground
  BY <1>2 DEF Foreground
<1> QED BY <1>1, <1>2, <1>3, <1>4, OtherInv DEF Facts

LEMMA TimerInv == ASSUME IInv, InactivityFires \/ TotalFires PROVE IInv'
<1>1. Facts /\ Typed
  BY IInvFacts DEF IInv
<1>2. /\ SettleWith("timedOut", out) \/ UNCHANGED result
      /\ UNCHANGED <<kinds, proc, exit, written, read, pending, out, errors, beats, at, answers>>
  BY DEF InactivityFires, TotalFires, stream
<1>3. answers' \in Seq(Replies) /\ Replied'
  BY <1>2, RepliesNow
<1>4. Foreground' => Foreground
  BY <1>2 DEF Foreground
<1>5. result' \in Outcomes /\ (EndsItself' => result' = result)
  BY <1>1, <1>2, SettledOther
<1> QED BY <1>1, <1>2, <1>3, <1>4, <1>5, OtherInv DEF Facts

LEMMA AbortInv == ASSUME IInv, Abort PROVE IInv'
<1>1. Facts /\ Typed
  BY IInvFacts DEF IInv
<1>2. /\ SettleWith("aborted", out) \/ UNCHANGED result
      /\ UNCHANGED <<kinds, proc, exit, written, read, pending, out, errors, beats, at, answers>>
  BY DEF Abort, stream
<1>3. answers' \in Seq(Replies) /\ Replied'
  BY <1>2, RepliesNow
<1>4. Foreground' => Foreground
  BY <1>2 DEF Foreground
<1>5. result' \in Outcomes /\ (EndsItself' => result' = result)
  BY <1>1, <1>2, SettledOther
<1> QED BY <1>1, <1>2, <1>3, <1>4, <1>5, OtherInv DEF Facts

(* The process has ended, and all it wrote was read. *)
LEMMA CloseInv == ASSUME IInv, Close PROVE IInv'
<1>1. Facts /\ Typed /\ Reading
  BY IInvFacts DEF IInv
<1>2. PICK text \in {Accepted(out, Flushed(pending))} :
          /\ out' = text
          /\ pending' = <<>>
          /\ SettleWith(IF exit = "unborn" THEN "nonzero" ELSE ExitCode, text)
  BY DEF Close
<1>3. /\ proc = "exited" /\ proc' = "closed" /\ (exit = "unborn" \/ read = written)
      /\ UNCHANGED <<kinds, exit, written, read, errors, beats, at, answers>>
  BY DEF Close
<1>4. at # "called"
  BY <1>1, <1>3 DEF Facts
<1>5. answers' \in Seq(Replies) /\ Replied'
  BY <1>3, RepliesNow
<1> DEFINE e == Ended(read)
           code == IF exit = "unborn" THEN "nonzero" ELSE ExitCode
<1>6. read \in Nat /\ written \in Nat /\ read <= written
  BY <1>1 DEF Typed
<1>7. e \in Nat /\ e <= read /\ e % 2 = 0
  BY <1>6, EndedOf
<1>8. /\ ~EndsItself /\ pending = Halves(e, read) /\ Kept(out, e)
      /\ Foreground => Lists(beats, BeatsTo(e))
  BY <1>1, <1>3 DEF Reading
<1>9. Kept(text, read)
  <2>1. text = Accepted(out, Filtered(Halves(e, read)))
    BY <1>2, <1>8 DEF Flushed
  <2> HIDE DEF e
  <2> QED BY <1>6, <1>7, <1>8, <2>1, KeepMore
<1>10. text \in Seq(Nat)
  BY <1>9 DEF Kept
<1>11. code \in Codes
  BY <1>1 DEF Facts, Codes, Ends, ExitCode
<1>12. result' \in Outcomes /\ (result' = result \/ result'.text = text)
  <2> HIDE DEF code
  <2>1. SettleWith(code, text)
    BY <1>2 DEF code
  <2> QED BY <1>1, <1>10, <1>11, <2>1, SettleTyped
<1>13. Typed'
  BY <1>1, <1>2, <1>3, <1>5, <1>10, <1>12 DEF Typed
<1>14. Reading'
  BY <1>3 DEF Reading
<1>15. Done'
  <2> SUFFICES ASSUME EndsItself', exit' # "unborn"
               PROVE  /\ Kept(result.text, written)'
                      /\ Foreground' => Lists(beats, BeatsTo(Ended(written)))'
    BY DEF Done
  <2>1. read = written
    BY <1>3
  <2>2. result' # result
    BY <1>8 DEF EndsItself
  <2>3. result'.text = text
    BY <1>12, <2>2
  <2>4. Kept(result.text, written)'
    BY <1>3, <1>9, <2>1, <2>3, KeptNow
  <2>5. Ended(written)' = e
    BY <1>3, <2>1 DEF Ended
  <2>6. Foreground' => Foreground
    BY <1>3 DEF Foreground
  <2>7. Foreground' => Lists(beats, BeatsTo(Ended(written)))'
    BY <1>3, <1>8, <2>5, <2>6, BeatsNow
  <2> QED BY <2>4, <2>7
<1> QED BY <1>3, <1>4, <1>5, <1>13, <1>14, <1>15 DEF IInv

(* Every step keeps the invariant. *)
LEMMA NextInv == IInv /\ [Next]_vars => IInv'
<1> SUFFICES ASSUME IInv, [Next]_vars PROVE IInv'
  OBVIOUS
<1>1. CASE Refuse \/ StartBackground \/ StartForeground \/ StartAborted \/ Cap
  BY <1>1, RefuseInv, StartBackgroundInv, StartForegroundInv, StartAbortedInv, CapInv
<1>2. CASE Write \/ Exit \/ Data \/ ErrorData \/ Close \/ SpawnError
  BY <1>2, WriteInv, ExitInv, DataInv, ErrorDataInv, CloseInv, SpawnErrorInv
<1>3. CASE Tick \/ InactivityFires \/ TotalFires \/ Abort
  BY <1>3, TickInv, TimerInv, AbortInv
<1>4. CASE UNCHANGED vars
  <2>1. Facts
    BY IInvFacts
  <2>2. UNCHANGED <<kinds, proc, exit, written, read, pending, out, errors, beats, at, result, answers>>
    BY <1>4 DEF vars, process, stream, call
  <2>3. answers' \in Seq(Replies) /\ Replied'
    BY <2>2, RepliesNow
  <2>4. Foreground' => Foreground
    BY <2>2 DEF Foreground
  <2> QED BY <2>1, <2>2, <2>3, <2>4, OtherInv DEF Facts
<1> QED BY <1>1, <1>2, <1>3, <1>4 DEF Next

(* What is kept is the text, and what is reported the heartbeats. *)
LEMMA InvOutput == IInv => OutputWhole
<1> SUFFICES ASSUME IInv PROVE OutputWhole
  OBVIOUS
<1>1. written \in Nat /\ answers \in Seq(Replies) /\ Replied
  BY DEF IInv, Typed
<1> DEFINE S == {h \in 1..written : ~IsBeat(h)}
           B == {h \in 1..written : IsBeat(h) /\ Begins(h) /\ h # written}
<1>2. S = TextTo(written) /\ S \in SUBSET (1..written)
  BY DEF TextTo
<1>3. B = BeatsTo(Ended(written)) /\ B \in SUBSET (1..written)
  <2>1. /\ Ended(written) \in Nat /\ Ended(written) <= written
        /\ written <= Ended(written) + 1 /\ Ended(written) % 2 = 0
        /\ written % 2 = 0 => Ended(written) = written
    BY <1>1, EndedOf
  <2>2. \A h \in 1..written : Begins(h) => (h # written <=> h <= Ended(written))
    <3> SUFFICES ASSUME NEW h \in 1..written, h % 2 = 1
                 PROVE  h # written <=> h <= Ended(written)
      BY DEF Begins
    <3>1. CASE written % 2 = 0
      BY <1>1, <2>1, <3>1
    <3>2. CASE written % 2 # 0
      BY <1>1, <2>1, <3>2
    <3> QED BY <3>1, <3>2
  <2>3. \A h \in 1..Ended(written) : h \in 1..written
    BY <1>1, <2>1
  <2>4. \A h \in 1..written : h <= Ended(written) => h \in 1..Ended(written)
    BY <1>1, <2>1
  <2>5. \A h \in 1..Ended(written) : h <= Ended(written)
    BY <2>1
  <2> QED BY <2>2, <2>3, <2>4, <2>5 DEF BeatsTo
<1>4. Lists(Text, S) /\ Lists(Beats, B)
  BY <1>1, <1>2, <1>3, InOrderLists DEF Text, Beats
<1> HIDE DEF S, B
<1>5. ASSUME proc = "closed" /\ result.code \in {"zero", "nonzero"} /\ exit # "unborn"
      PROVE  /\ Len(Text) <= MaxBuffer => result.text = Text
             /\ Len(result.text) <= MaxBuffer
             /\ \A i \in DOMAIN result.text : ~IsBeat(result.text[i])
             /\ WholeLines(result.text)
             /\ at = "running" => beats = Beats
  <2>1. /\ Kept(result.text, written)
        /\ Foreground => Lists(beats, BeatsTo(Ended(written)))
    BY <1>5 DEF IInv, Done, EndsItself
  <2>2. result.text \in Seq(Nat) /\ DOMAIN result.text = 1..Len(result.text)
    BY <2>1 DEF Kept
  <2>3. Len(Text) <= MaxBuffer => result.text = Text
    <3> SUFFICES ASSUME Len(Text) <= MaxBuffer PROVE result.text = Text
      OBVIOUS
    <3>1. Cardinality(S) = Len(Text)
      BY <1>4, ListsLen
    <3>2. Lists(result.text, S)
      BY <1>2, <2>1, <3>1 DEF Kept
    <3> QED BY <1>4, <3>2, ListsEqual
  <2>4. \A i \in DOMAIN result.text : ~IsBeat(result.text[i])
    BY <2>1, <2>2 DEF Kept, TextTo
  <2>5. WholeLines(result.text)
    BY <2>1, <2>2 DEF Kept, WholeLines
  <2>6. at = "running" => beats = Beats
    BY <1>3, <1>4, <2>1, ListsEqual DEF Foreground
  <2> QED BY <2>1, <2>3, <2>4, <2>5, <2>6 DEF Kept
<1>6. \A i \in DOMAIN answers :
          /\ answers[i].inline <= MaxInline \/ answers[i].inline \in Headers
          /\ ~answers[i].whole => answers[i].saved \/ "noSave" \in Env
  BY <1>1 DEF Replied, ReplyOK
<1> QED BY <1>5, <1>6 DEF OutputWhole

(* Whatever a process writes, however its output is divided into data events,
   and whatever the sizes of the buffer, the cap and the preview: a command that
   ends by itself leaves its whole text and no part of a heartbeat, each ended
   heartbeat is reported once and in order, a text larger than the buffer loses
   whole lines, and every reply fits the cap or is a header alone, and is whole
   or points to the file (bash.ts, runCommand and capOutputForInline). *)
THEOREM OutputOfCommand == Spec => []OutputWhole
<1>1. Init => IInv
  BY InitInv
<1>2. IInv /\ [Next]_vars => IInv'
  BY NextInv
<1>3. IInv => OutputWhole
  BY InvOutput
<1> QED BY <1>1, <1>2, <1>3, PTL DEF Spec
=============================================================================

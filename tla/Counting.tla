------------------------------ MODULE Counting ------------------------------
(***************************************************************************)
(* Lemmas about counting.  A sum whose terms belong to the members of a    *)
(* set is written as the size of a set with one column of elements for     *)
(* each member; and induction over the natural numbers is written for sets *)
(* of numbers, so that it can be cited for a formula about a state.        *)
(***************************************************************************)
EXTENDS Integers, FiniteSets, FiniteSetTheorems, WellFoundedInduction, TLAPS

(* A set of natural numbers has a least element.                           *)
LEMMA Least ==
  ASSUME NEW S, S \subseteq Nat, S # {}
  PROVE  \E n \in S : \A m \in S : n <= m
  <1> DEFINE R == OpToRel(<, Nat)
  <1>1. IsWellFoundedOn(R, Nat)
    BY NatLessThanWellFounded
  <1>2. \A x, y \in Nat : <<y, x>> \in R <=> y < x
    BY DEF OpToRel
  <1> HIDE DEF R
  <1>3. PICK n \in S : \A y \in S : ~ (<<y, n>> \in R)
    BY <1>1, WFMin
  <1>4. ASSUME NEW m \in S
        PROVE  n <= m
    <2>1. m \in Nat /\ n \in Nat
      OBVIOUS
    <2>2. ~ (<<m, n>> \in R)
      BY <1>3
    <2>3. ~ (m < n)
      BY <1>2, <2>1, <2>2
    <2> QED  BY <2>1, <2>3
  <1> QED  BY <1>4

(* A set with 0, and with the successor of each of its numbers, has all.   *)
LEMMA SetInduction ==
  ASSUME NEW S, 0 \in S, \A n \in Nat : n \in S => n + 1 \in S
  PROVE  Nat \subseteq S
  <1> SUFFICES ASSUME Nat \ S # {}
               PROVE  FALSE
    OBVIOUS
  <1>1. PICK n \in Nat \ S : \A m \in Nat \ S : n <= m
    BY Least
  <1>2. n - 1 \in Nat
    BY <1>1
  <1>3. n - 1 \in S
    BY <1>1, <1>2
  <1> QED  BY <1>1, <1>2, <1>3

(* A column of d elements has d elements.                                  *)
LEMMA ColumnSize ==
  ASSUME NEW c, NEW d \in Nat
  PROVE  IsFiniteSet({c} \X (1 .. d)) /\ Cardinality({c} \X (1 .. d)) = d
  <1> DEFINE J == 1 .. d
  <1>1. IsFiniteSet({c}) /\ Cardinality({c}) = 1
    BY FS_Singleton
  <1>2. IsFiniteSet(J) /\ Cardinality(J) = d
    BY FS_Interval
  <1> HIDE DEF J
  <1>3. IsFiniteSet({c} \X J) /\ Cardinality({c} \X J) = Cardinality({c}) * Cardinality(J)
    BY <1>1, <1>2, FS_Product, Zenon
  <1>4. Cardinality({c} \X J) = d
    BY <1>1, <1>2, <1>3
  <1> QED  BY <1>3, <1>4 DEF J

LEMMA DisjointSize ==
  ASSUME NEW A, IsFiniteSet(A), NEW B, IsFiniteSet(B), A \cap B = {}
  PROVE  /\ IsFiniteSet(A \cup B)
         /\ Cardinality(A) \in Nat /\ Cardinality(B) \in Nat
         /\ Cardinality(A \cup B) = Cardinality(A) + Cardinality(B)
  <1>1. /\ IsFiniteSet(A \cup B)
        /\ Cardinality(A \cup B) = Cardinality(A) + Cardinality(B) - Cardinality(A \cap B)
    BY FS_Union
  <1>2. Cardinality(A) \in Nat /\ Cardinality(B) \in Nat /\ Cardinality({}) = 0
    BY FS_CardinalityType, FS_EmptySet
  <1>3. Cardinality(A \cap B) = 0
    BY <1>2, Zenon
  <1> QED  BY <1>1, <1>2, <1>3

(* A sum grows by the column it gains.                                     *)
LEMMA GainsColumn ==
  ASSUME NEW A, IsFiniteSet(A), NEW c, NEW d \in Nat, A \cap ({c} \X (1 .. d)) = {}
  PROVE  /\ IsFiniteSet(A \cup ({c} \X (1 .. d))) /\ Cardinality(A) \in Nat
         /\ Cardinality(A \cup ({c} \X (1 .. d))) = Cardinality(A) + d
  <1> DEFINE D == {c} \X (1 .. d)
  <1>1. IsFiniteSet(D) /\ Cardinality(D) = d
    BY ColumnSize
  <1>2. A \cap D = {}
    OBVIOUS
  <1> HIDE DEF D
  <1>3. /\ IsFiniteSet(A \cup D) /\ Cardinality(A) \in Nat
        /\ Cardinality(A \cup D) = Cardinality(A) + Cardinality(D)
    BY <1>1, <1>2, DisjointSize
  <1> QED  BY <1>1, <1>3 DEF D

(* One column of as many elements as f has there, for each member of S.    *)
Columns(f, S) == UNION {{c} \X (1 .. f[c]) : c \in S}

(* A sum of which one term changes.                                        *)
LEMMA ColumnChanges ==
  ASSUME NEW S, NEW f \in [S -> Nat], IsFiniteSet(Columns(f, S)), NEW c \in S,
         NEW g \in [S -> Nat], \A x \in S \ {c} : g[x] = f[x]
  PROVE  /\ IsFiniteSet(Columns(g, S))
         /\ Cardinality(Columns(f, S)) \in Nat /\ Cardinality(Columns(g, S)) \in Nat
         /\ Cardinality(Columns(g, S)) = Cardinality(Columns(f, S)) - f[c] + g[c]
  <1> DEFINE B == Columns(f, S \ {c})
             F == {c} \X (1 .. f[c])
             G == {c} \X (1 .. g[c])
  <1>1. Columns(f, S) = B \cup F /\ B \cap F = {}
    BY DEF Columns
  <1>2. Columns(g, S) = B \cup G /\ B \cap G = {}
    BY DEF Columns
  <1>3. IsFiniteSet(B)
    BY <1>1, FS_Subset
  <1>4. f[c] \in Nat /\ g[c] \in Nat
    OBVIOUS
  <1> HIDE DEF B
  <1>5. IsFiniteSet(B \cup F) /\ Cardinality(B) \in Nat /\ Cardinality(B \cup F) = Cardinality(B) + f[c]
    BY <1>1, <1>3, <1>4, GainsColumn
  <1>6. IsFiniteSet(B \cup G) /\ Cardinality(B \cup G) = Cardinality(B) + g[c]
    BY <1>2, <1>3, <1>4, GainsColumn
  <1> HIDE DEF F, G
  <1> QED  BY <1>1, <1>2, <1>4, <1>5, <1>6

(* A set whose elements all carry the same tag.                            *)
LEMMA TaggedSize ==
  ASSUME NEW t, NEW S, IsFiniteSet(S)
  PROVE  IsFiniteSet({t} \X S) /\ Cardinality({t} \X S) = Cardinality(S)
  <1> DEFINE f == [s \in S |-> <<t, s>>]
  <1>1. f \in Bijection(S, {t} \X S)
    BY DEF Bijection, Injection, Surjection, IsInjective
  <1>2. ExistsBijection(S, {t} \X S)
    BY <1>1 DEF ExistsBijection
  <1> QED  BY <1>2, FS_Bijection

(* Families of as many sets of the same sizes hold as much together, when  *)
(* what each set holds carries the tag of the set.                         *)
Tagged(D, A) == UNION {{i} \X A[i] : i \in D}
LEMMA SameSizes ==
  ASSUME NEW D, IsFiniteSet(D), NEW A, NEW B,
         \A i \in D : IsFiniteSet(A[i]) /\ IsFiniteSet(B[i]) /\ Cardinality(A[i]) = Cardinality(B[i])
  PROVE  Cardinality(Tagged(D, A)) = Cardinality(Tagged(D, B))
  <1> DEFINE F == {{i} \X A[i] : i \in D}
             S == UNION F
             T == UNION {{i} \X B[i] : i \in D}
             G == [i \in D |-> CHOOSE g : g \in Bijection(A[i], B[i])]
             f == [p \in S |-> <<p[1], G[p[1]][p[2]]>>]
  <1>1. IsFiniteSet(S)
    <2>1. [i \in D |-> {i} \X A[i]] \in Surjection(D, F)
      BY DEF Surjection
    <2>2. IsFiniteSet(F)
      BY <2>1, FS_Surjection
    <2>3. \A i \in D : IsFiniteSet({i} \X A[i])
      BY TaggedSize
    <2>4. \A X \in F : IsFiniteSet(X)
      BY <2>3
    <2> HIDE DEF F
    <2> QED  BY <2>2, <2>4, FS_UNION
  <1>2. \A i \in D : G[i] \in Bijection(A[i], B[i])
    <2>1. ASSUME NEW i \in D
          PROVE  \E g : g \in Bijection(A[i], B[i])
      <3>1. ExistsBijection(A[i], B[i])
        BY FS_SameCardinalityBij
      <3> QED  BY <3>1 DEF ExistsBijection
    <2> QED  BY <2>1
  <1> HIDE DEF G
  <1>3. \A i \in D : /\ G[i] \in [A[i] -> B[i]]
                     /\ \A x, y \in A[i] : G[i][x] = G[i][y] => x = y
                     /\ \A y \in B[i] : \E x \in A[i] : G[i][x] = y
    BY <1>2 DEF Bijection, Injection, Surjection, IsInjective
  <1>4. /\ \A p : p \in S <=> \E i \in D : \E x \in A[i] : p = <<i, x>>
        /\ \A p : p \in T <=> \E i \in D : \E x \in B[i] : p = <<i, x>>
    OBVIOUS
  <1> HIDE DEF F, S, T
  <1>5. f \in [S -> T]
    BY <1>3, <1>4
  <1>6. ASSUME NEW p \in S, NEW q \in S, f[p] = f[q]
        PROVE  p = q
    <2>1. PICK i \in D : \E x \in A[i] : p = <<i, x>>
      BY <1>4
    <2>2. PICK j \in D : \E y \in A[j] : q = <<j, y>>
      BY <1>4
    <2>3. PICK x \in A[i] : p = <<i, x>>
      BY <2>1
    <2>4. PICK y \in A[j] : q = <<j, y>>
      BY <2>2
    <2>5. <<i, G[i][x]>> = <<j, G[j][y]>>
      BY <1>6, <2>3, <2>4
    <2>6. i = j /\ G[i][x] = G[j][y]
      BY <2>5
    <2> QED  BY <1>3, <2>3, <2>4, <2>6
  <1>7. ASSUME NEW q \in T
        PROVE  \E p \in S : f[p] = q
    <2>1. PICK i \in D : \E y \in B[i] : q = <<i, y>>
      BY <1>4
    <2>2. PICK y \in B[i] : q = <<i, y>>
      BY <2>1
    <2>3. PICK x \in A[i] : G[i][x] = y
      BY <1>3
    <2>4. <<i, x>> \in S /\ f[<<i, x>>] = q
      BY <1>4, <2>2, <2>3
    <2> QED  BY <2>4
  <1> HIDE DEF f
  <1>8. f \in Bijection(S, T)
    BY <1>5, <1>6, <1>7 DEF Bijection, Injection, Surjection, IsInjective
  <1>9. Cardinality(S) = Cardinality(T)
    BY <1>1, <1>8, FS_Bijection DEF ExistsBijection
  <1> QED  BY <1>9 DEF Tagged, S, T, F
=============================================================================

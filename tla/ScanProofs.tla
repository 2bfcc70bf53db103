----------------------------- MODULE ScanProofs -----------------------------
(***************************************************************************)
(* Proofs about Glob and Scan, for any characters, patterns, keys, counts  *)
(* and number of writes: that the regular expression a pattern is          *)
(* converted to matches what the pattern means, and that an iteration      *)
(* misses a key that was there all the time only for a write that moved    *)
(* keys.                                                                   *)
(***************************************************************************)
EXTENDS Scan, Counting, SequenceTheorems

(* Where a text may end after one more atom of a regular expression.       *)
After(t, ends, atom) ==
  IF atom.many THEN {n \in 0 .. Len(t) : \E e \in ends : e <= n /\ \A q \in e + 1 .. n : t[q] \in atom.chars}
  ELSE {e + 1 : e \in {n \in ends : n < Len(t) /\ t[n + 1] \in atom.chars}}

LEMMA MaxIs ==
  ASSUME NEW S, S \subseteq Int, NEW m \in S, \A n \in S : n <= m
  PROVE  Max(S) = m
  <1>1. \A x \in S : (\A y \in S : x >= y) <=> x = m
    BY Z3
  <1> QED  BY <1>1, Zenon DEF Max

LEMMA MinIs ==
  ASSUME NEW S, S \subseteq Int, NEW m \in S, \A n \in S : m <= n
  PROVE  Min(S) = m
  <1>1. \A x \in S : (\A y \in S : x =< y) <=> x = m
    BY Z3
  <1> QED  BY <1>1, Zenon DEF Min

(* A test goes through the atoms in their order.                           *)
LEMMA TestIsWalk ==
  ASSUME NEW t, NEW r \in Seq([many : BOOLEAN, chars : SUBSET Chars])
  PROVE  \E ends : /\ ends[0] = {0}
                   /\ \A m \in 1 .. Len(r) : ends[m] = After(t, ends[m - 1], r[m])
                   /\ Test(r, t) <=> Len(t) \in ends[Len(r)]
  <1> DEFINE n == Len(r)
             F(g, m) == g = [s \in SUBSET (1 .. m) |-> IF s = {} THEN {0} ELSE After(t, g[s \ {Max(s)}], r[Max(s)])]
             G == {m \in Nat : m <= n => \E g : F(g, m)}
  <1>1. 0 \in G
    <2>1. SUBSET (1 .. 0) = {{}}
      BY Z3
    <2> DEFINE g == [s \in SUBSET (1 .. 0) |-> {0}]
    <2>2. F(g, 0)
      BY <2>1
    <2> QED  BY <2>2
  <1>2. ASSUME NEW m \in Nat, m \in G
        PROVE  m + 1 \in G
    <2> SUFFICES ASSUME m + 1 <= n
                 PROVE  \E g : F(g, m + 1)
      <3> HIDE DEF F
      <3> QED  OBVIOUS
    <2>1. PICK g : F(g, m)
      <3> HIDE DEF F
      <3> QED  BY <1>2
    <2> DEFINE D == SUBSET (1 .. m + 1)
               h == [s \in D |-> IF m + 1 \in s THEN After(t, g[s \ {m + 1}], r[m + 1]) ELSE g[s]]
    <2>2. ASSUME NEW s \in D, s # {}
          PROVE  h[s] = After(t, h[s \ {Max(s)}], r[Max(s)])
      <3>1. CASE m + 1 \in s
        <4>1. Max(s) = m + 1
          <5>1. s \subseteq Int /\ \A q \in s : q <= m + 1
            BY Z3
          <5> QED  BY <3>1, <5>1, MaxIs, Zenon
        <4>2. s \ {m + 1} \in D /\ m + 1 \notin s \ {m + 1} /\ s \ {m + 1} \in SUBSET (1 .. m)
          BY Z3
        <4> QED  BY <3>1, <4>1, <4>2
      <3>2. CASE m + 1 \notin s
        <4>1. s \in SUBSET (1 .. m)
          BY <3>2, Z3
        <4>2. s \ {Max(s)} \in SUBSET (1 .. m) /\ s \ {Max(s)} \in D /\ m + 1 \notin s \ {Max(s)}
          BY <3>2, <4>1
        <4>3. g[s] = After(t, g[s \ {Max(s)}], r[Max(s)])
          BY <2>1, <2>2, <4>1
        <4> QED  BY <3>2, <4>2, <4>3
      <3> QED  BY <3>1, <3>2
    <2>3. h[{}] = {0}
      <3>1. g[{}] = {0}
        BY <2>1
      <3> QED  BY <3>1
    <2>4. \A s \in D : h[s] = IF s = {} THEN {0} ELSE After(t, h[s \ {Max(s)}], r[Max(s)])
      BY <2>2, <2>3, Zenon
    <2>5. h = [s \in D |-> h[s]]
      OBVIOUS
    <2> HIDE DEF h
    <2>6. F(h, m + 1)
      BY <2>4, <2>5, Zenon
    <2> QED  BY <2>6
  <1>3. n \in G
    <2> HIDE DEF G
    <2> QED  BY <1>1, <1>2, SetInduction
  <1> DEFINE I == CHOOSE g : F(g, n)
  <1>4. DOMAIN r = 1 .. n
    OBVIOUS
  <1>5. F(I, n)
    <2> HIDE DEF F
    <2> QED  BY <1>3, <1>4
  <1>6. Test(r, t) <=> Len(t) \in I[DOMAIN r]
    BY <1>4 DEF Test, FoldLeft, MapThenFoldSet, After
  <1> HIDE DEF I
  <1> DEFINE ends == [m \in 0 .. n |-> I[1 .. m]]
  <1>7. ends[0] = {0}
    <2>1. 1 .. 0 = {} /\ {} \in SUBSET (1 .. n)
      BY Z3
    <2> QED  BY <1>5, <2>1
  <1>8. ASSUME NEW m \in 1 .. n
        PROVE  ends[m] = After(t, ends[m - 1], r[m])
    <2>1. /\ 1 .. m \in SUBSET (1 .. n) /\ 1 .. m # {} /\ (1 .. m) \ {m} = 1 .. m - 1
          /\ m \in 0 .. n /\ m - 1 \in 0 .. n
      <3>1. n \in Nat /\ m \in Nat /\ 1 <= m /\ m <= n
        OBVIOUS
      <3> HIDE DEF n
      <3>2. m \in 1 .. m /\ 1 .. m \subseteq 1 .. n
        BY <3>1
      <3>3. (1 .. m) \ {m} = 1 .. m - 1
        BY <3>1
      <3>4. m \in 0 .. n /\ m - 1 \in 0 .. n
        BY <3>1
      <3> QED  BY <3>2, <3>3, <3>4, Zenon
    <2>2. Max(1 .. m) = m
      <3>1. 1 .. m \subseteq Int /\ m \in 1 .. m /\ \A q \in 1 .. m : q <= m
        BY Z3
      <3> QED  BY <3>1, MaxIs, Zenon
    <2>3. I[1 .. m] = After(t, I[(1 .. m) \ {Max(1 .. m)}], r[Max(1 .. m)])
      BY <1>5, <2>1
    <2> QED  BY <2>1, <2>2, <2>3
  <1>9. Test(r, t) <=> Len(t) \in ends[n]
    BY <1>4, <1>6
  <1> HIDE DEF ends
  <1> QED  BY <1>7, <1>8, <1>9
----------------------------------------------------------------------------
(* The regular expression of a pattern, from the atom at position i on. *)

Atoms == [many : BOOLEAN, chars : SUBSET Chars]
HasClass(p, i) == p[i] = "[" /\ Closings(p, i) # {}
AtomAt(p, i) ==
  IF p[i] = "*" THEN Many(Chars)
  ELSE IF p[i] = "?" THEN One(Chars)
  ELSE IF HasClass(p, i) THEN One(ClassOf(p, i, Min(Closings(p, i))))
  ELSE One({p[i]})
NextAt(p, i) == IF HasClass(p, i) THEN Min(Closings(p, i)) + 1 ELSE i + 1

LEMMA ClosingIs ==
  ASSUME NEW p \in Texts, NEW i \in 1 .. Len(p), Closings(p, i) # {}
  PROVE  /\ Min(Closings(p, i)) \in i + 1 .. Len(p) /\ p[Min(Closings(p, i))] = "]"
         /\ \A j \in i + 1 .. Min(Closings(p, i)) - 1 : p[j] # "]"
  <1> DEFINE C == Closings(p, i)
  <1>2. Len(p) \in Nat /\ i \in Nat
    BY DEF Texts
  <1>1. C \subseteq Nat /\ \A j : j \in C <=> j \in i + 1 .. Len(p) /\ p[j] = "]"
    <2>1. i + 1 .. Len(p) \subseteq Nat
      BY <1>2
    <2> QED  BY <2>1 DEF Closings
  <1>0. C # {}
    OBVIOUS
  <1> HIDE DEF C
  <1>3. PICK m \in C : \A j \in C : m <= j
    BY <1>0, <1>1, Least
  <1>4. C \subseteq Int /\ Min(C) = m
    BY <1>1, <1>3, MinIs
  <1>5. m \in i + 1 .. Len(p) /\ p[m] = "]"
    BY <1>1, <1>3
  <1>6. ASSUME NEW j \in i + 1 .. m - 1
        PROVE  p[j] # "]"
    <2>1. j \in i + 1 .. Len(p) /\ ~ (m <= j)
      BY <1>2, <1>5
    <2> QED  BY <1>1, <1>3, <2>1
  <1> QED  BY <1>4, <1>5, <1>6 DEF C

LEMMA AtomIsTyped ==
  ASSUME NEW p \in Texts, NEW i \in 1 .. Len(p)
  PROVE  AtomAt(p, i) \in Atoms /\ NextAt(p, i) \in i + 1 .. Len(p) + 1
  <1>1. \A j \in 1 .. Len(p) : p[j] \in Chars
    BY DEF Texts
  <1>2. Len(p) \in Nat /\ i \in Nat
    BY DEF Texts
  <1>3. NextAt(p, i) \in i + 1 .. Len(p) + 1
    <2>1. CASE HasClass(p, i)
      BY <1>2, <2>1, ClosingIs DEF NextAt, HasClass
    <2>2. CASE ~ HasClass(p, i)
      BY <1>2, <2>2 DEF NextAt
    <2> QED  BY <2>1, <2>2
  <1>4. HasClass(p, i) => ClassOf(p, i, Min(Closings(p, i))) \in SUBSET Chars
    <2> SUFFICES ASSUME HasClass(p, i)
                 PROVE  ClassOf(p, i, Min(Closings(p, i))) \in SUBSET Chars
      OBVIOUS
    <2> DEFINE j == Min(Closings(p, i))
    <2>1. j \in i + 1 .. Len(p)
      BY ClosingIs DEF HasClass
    <2> HIDE DEF j
    <2>2. \A q \in i + 1 .. j - 1 : q \in 1 .. Len(p)
      BY <1>2, <2>1
    <2>3. {p[q] : q \in i + 1 .. j - 1} \subseteq Chars
      BY <1>1, <2>2
    <2> QED  BY <2>3 DEF ClassOf, j
  <1>5. AtomAt(p, i) \in Atoms
    <2>1. \A S \in SUBSET Chars : One(S) \in Atoms /\ Many(S) \in Atoms
      BY DEF One, Many, Atoms
    <2>2. {p[i]} \in SUBSET Chars /\ Chars \in SUBSET Chars
      BY <1>1
    <2> QED  BY <1>4, <2>1, <2>2, Zenon DEF AtomAt
  <1> QED  BY <1>3, <1>5

(* The loop of PatternToRegex.                                             *)
LEMMA RegexIsWalk ==
  ASSUME NEW p \in Texts
  PROVE  \E from : /\ PatternToRegex(p) = from[1] /\ from[Len(p) + 1] = <<>>
                   /\ \A i \in 1 .. Len(p) + 1 : from[i] \in Seq(Atoms)
                   /\ \A i \in 1 .. Len(p) : from[i] = <<AtomAt(p, i)>> \o from[NextAt(p, i)]
  <1> DEFINE n == Len(p)
             Body(f, i) == IF i > n THEN <<>> ELSE <<AtomAt(p, i)>> \o f[NextAt(p, i)]
             F(f, m) == f = [i \in n + 1 - m .. n + 1 |-> Body(f, i)]
             G == {m \in Nat : m <= n => \E f : F(f, m)}
  <1>0. n \in Nat
    BY DEF Texts
  <1>1. 0 \in G
    <2>1. n + 1 - 0 .. n + 1 = {n + 1} /\ n + 1 > n
      BY <1>0
    <2> DEFINE f == [i \in n + 1 - 0 .. n + 1 |-> <<>>]
    <2>2. F(f, 0)
      BY <2>1
    <2> HIDE DEF F
    <2> QED  BY <2>2
  <1>2. ASSUME NEW m \in Nat, m \in G
        PROVE  m + 1 \in G
    <2> SUFFICES ASSUME m + 1 <= n
                 PROVE  \E f : F(f, m + 1)
      <3> HIDE DEF F
      <3> QED  OBVIOUS
    <2>1. PICK f : F(f, m)
      <3> HIDE DEF F
      <3> QED  BY <1>0, <1>2
    <2> DEFINE e == n + 1 - (m + 1)
               h == [i \in e .. n + 1 |-> IF i = e THEN <<AtomAt(p, e)>> \o f[NextAt(p, e)] ELSE f[i]]
    <2>2. /\ e \in 1 .. n /\ e .. n + 1 = {e} \cup (n + 1 - m .. n + 1) /\ e \notin n + 1 - m .. n + 1
          /\ \A i \in e .. n : i + 1 .. n + 1 \subseteq n + 1 - m .. n + 1
          /\ \A i \in e .. n + 1 : i \in 1 .. n + 1 /\ (i > n <=> i = n + 1)
      BY <1>0
    <2> HIDE DEF n, e
    <2>3. \A i \in e .. n : NextAt(p, i) \in n + 1 - m .. n + 1
      <3>1. \A i \in 1 .. n : NextAt(p, i) \in i + 1 .. n + 1
        BY AtomIsTyped DEF n
      <3>2. \A i \in e .. n : i \in 1 .. n
        BY <1>0, <2>2
      <3> QED  BY <2>2, <3>1, <3>2
    <2>4. \A i \in n + 1 - m .. n + 1 : h[i] = f[i] /\ i \in e .. n + 1
      BY <2>2
    <2>5. \A i \in e .. n + 1 : h[i] = Body(h, i)
      <3> TAKE i \in e .. n + 1
      <3>1. CASE i = e
        <4>1. e \in e .. n /\ ~ (e > n)
          BY <1>0, <2>2
        <4>2. h[NextAt(p, e)] = f[NextAt(p, e)]
          BY <2>3, <2>4, <4>1
        <4> QED  BY <3>1, <4>1, <4>2
      <3>2. CASE i # e
        <4>1. i \in n + 1 - m .. n + 1
          BY <2>2, <3>2
        <4>2. f[i] = Body(f, i)
          BY <2>1, <4>1
        <4>3. ~ (i > n) => h[NextAt(p, i)] = f[NextAt(p, i)]
          <5>1. ~ (i > n) => i \in e .. n
            BY <1>0, <2>2
          <5> QED  BY <2>3, <2>4, <5>1
        <4> QED  BY <2>4, <4>1, <4>2, <4>3
      <3> QED  BY <3>1, <3>2
    <2>6. F(h, m + 1)
      <3>1. h = [i \in e .. n + 1 |-> h[i]]
        OBVIOUS
      <3> HIDE DEF h, Body
      <3>2. h = [i \in e .. n + 1 |-> Body(h, i)]
        BY <2>5, <3>1, Zenon
      <3> QED  BY <3>2 DEF e
    <2> HIDE DEF F
    <2> QED  BY <2>6
  <1>3. n \in G
    <2> HIDE DEF G
    <2> QED  BY <1>0, <1>1, <1>2, SetInduction
  <1> DEFINE I == CHOOSE f : f = [i \in 1 .. n + 1 |-> Body(f, i)]
  <1>4. PICK f : f = [i \in 1 .. n + 1 |-> Body(f, i)]
    <2>1. n + 1 - n = 1
      BY <1>0
    <2> HIDE DEF Body
    <2> QED  BY <1>0, <1>3, <2>1
  <1>5. I = [i \in 1 .. n + 1 |-> Body(I, i)]
    <2> HIDE DEF Body
    <2> QED  BY <1>4, Zenon
  <1>6. PatternToRegex(p) = I[1]
    BY DEF PatternToRegex, AtomAt, NextAt, HasClass
  <1> HIDE DEF I
  <1>7. I[n + 1] = <<>> /\ \A i \in 1 .. n : I[i] = <<AtomAt(p, i)>> \o I[NextAt(p, i)]
    <2>1. n + 1 \in 1 .. n + 1 /\ n + 1 > n /\ \A i \in 1 .. n : i \in 1 .. n + 1 /\ ~ (i > n)
      BY <1>0
    <2> QED  BY <1>5, <2>1
  <1> DEFINE H == {m \in Nat : m <= n => \A i \in n + 1 - m .. n + 1 : I[i] \in Seq(Atoms)}
  <1>8. 0 \in H
    <2>1. \A i \in n + 1 - 0 .. n + 1 : i = n + 1
      BY <1>0
    <2>2. I[n + 1] \in Seq(Atoms)
      BY <1>7
    <2> HIDE DEF n
    <2> QED  BY <2>1, <2>2
  <1>9. ASSUME NEW m \in Nat, m \in H
        PROVE  m + 1 \in H
    <2> SUFFICES ASSUME m + 1 <= n, NEW i \in n + 1 - (m + 1) .. n + 1
                 PROVE  I[i] \in Seq(Atoms)
      OBVIOUS
    <2> HIDE DEF n
    <2>1. CASE i = n - m
      <3>1. i \in 1 .. n
        BY <1>0, <2>1
      <3>2. AtomAt(p, i) \in Atoms /\ NextAt(p, i) \in i + 1 .. n + 1
        BY <3>1, AtomIsTyped DEF n
      <3>3. NextAt(p, i) \in n + 1 - m .. n + 1
        BY <1>0, <2>1, <3>2
      <3>4. I[NextAt(p, i)] \in Seq(Atoms)
        BY <1>0, <1>9, <3>3
      <3>5. \A a \in Atoms, q \in Seq(Atoms) : <<a>> \o q \in Seq(Atoms)
        OBVIOUS
      <3> QED  BY <1>7, <3>1, <3>2, <3>4, <3>5
    <2>2. CASE i # n - m
      <3>1. i \in n + 1 - m .. n + 1 /\ m <= n
        BY <1>0, <2>2
      <3> QED  BY <1>9, <3>1
    <2> QED  BY <2>1, <2>2
  <1>10. n \in H
    <2> HIDE DEF H
    <2> QED  BY <1>0, <1>8, <1>9, SetInduction
  <1>11. \A i \in 1 .. n + 1 : I[i] \in Seq(Atoms)
    <2>1. n + 1 - n = 1 /\ n <= n
      BY <1>0
    <2> QED  BY <1>10, <2>1
  <1> QED  BY <1>6, <1>7, <1>11
----------------------------------------------------------------------------
(* What a pattern means is given by a recursion that ends. *)

Class(p) == SubSeq(p, 2, SelectInSeq(p, LAMBDA c : c = "]") - 1)
BehindClass(p) == SubSeq(p, SelectInSeq(p, LAMBDA c : c = "]") + 1, Len(p))
InClass(c, class) == IF class # <<>> /\ class[1] = "^" THEN ~Contains(Tail(class), c) ELSE Contains(class, c)

LikeBody(f, p, t) ==
  IF p = <<>> THEN t = <<>>
  ELSE IF p[1] = "*" THEN \E n \in 0 .. Len(t) : f[Tail(p)][SubSeq(t, n + 1, Len(t))]
  ELSE /\ t # <<>>
       /\ \/ p[1] = "?" /\ f[Tail(p)][Tail(t)]
          \/ /\ p[1] \notin {"*", "?"} /\ (p[1] = "[" => ~Contains(p, "]"))
             /\ t[1] = p[1] /\ f[Tail(p)][Tail(t)]
          \/ /\ p[1] = "[" /\ Contains(p, "]")
             /\ InClass(t[1], Class(p)) /\ f[BehindClass(p)][Tail(t)]

LEMMA LikeIsChosen ==
  Like = CHOOSE f : f = [p \in Texts |-> [t \in Texts |-> LikeBody(f, p, t)]]
  BY DEF Like, LikeBody, Class, BehindClass, InClass

LEMMA SelectsFirst ==
  ASSUME NEW p \in Texts, Contains(p, "]")
  PROVE  LET j == SelectInSeq(p, LAMBDA c : c = "]")
         IN  j \in 1 .. Len(p) /\ p[j] = "]" /\ \A i \in 1 .. j - 1 : p[i] # "]"
  <1> DEFINE I == {i \in 1 .. Len(p) : p[i] = "]"}
  <1>1. Len(p) \in Nat
    BY DEF Texts
  <1>2. I # {} /\ I \subseteq Nat /\ \A i : i \in I <=> i \in 1 .. Len(p) /\ p[i] = "]"
    <2>1. 1 .. Len(p) \subseteq Nat
      BY <1>1
    <2> QED  BY <2>1 DEF Contains
  <1>3. SelectInSeq(p, LAMBDA c : c = "]") = Min(I)
    BY <1>2 DEF SelectInSeq
  <1> HIDE DEF I
  <1>4. PICK m \in I : \A i \in I : m <= i
    BY <1>2, Least
  <1>5. Min(I) = m
    BY <1>2, <1>4, MinIs
  <1>6. ASSUME NEW i \in 1 .. m - 1
        PROVE  p[i] # "]"
    <2>1. m \in 1 .. Len(p)
      BY <1>2
    <2>2. i \in 1 .. Len(p) /\ ~ (m <= i)
      BY <1>1, <2>1
    <2> QED  BY <1>2, <1>4, <2>2
  <1> QED  BY <1>2, <1>3, <1>5, <1>6

LEMMA LengthIs ==
  ASSUME NEW t \in Texts
  PROVE  t \in Seq(Chars) /\ Len(t) \in Nat /\ \A i \in 1 .. Len(t) : t[i] \in Chars
  BY DEF Texts

(* What is left of a text without its first n characters.                  *)
Suffix(t, n) == SubSeq(t, n + 1, Len(t))

LEMMA SuffixIs ==
  ASSUME NEW t \in Texts, NEW n \in 0 .. Len(t)
  PROVE  /\ Len(t) \in Nat /\ Suffix(t, n) \in Texts /\ Len(Suffix(t, n)) = Len(t) - n
         /\ \A i \in 1 .. Len(t) - n : Suffix(t, n)[i] = t[n + i]
  <1> t \in Seq(Chars)
    BY DEF Texts
  <1> QED  BY DEF Suffix, Texts

LEMMA TailIs ==
  ASSUME NEW t \in Texts, t # <<>>
  PROVE  /\ 1 \in 0 .. Len(t) /\ Tail(t) = Suffix(t, 1)
         /\ Tail(t) \in Texts /\ Len(Tail(t)) < Len(t)
  <1>1. t \in Seq(Chars) /\ Len(t) \in Nat /\ Len(t) >= 1
    BY DEF Texts
  <1>2. Tail(t) = SubSeq(t, 2, Len(t))
    BY <1>1, TailIsSubSeq
  <1>3. Tail(t) = Suffix(t, 1)
    BY <1>2 DEF Suffix
  <1>4. 1 \in 0 .. Len(t)
    BY <1>1
  <1>5. Suffix(t, 1) \in Texts /\ Len(Suffix(t, 1)) < Len(t)
    BY <1>1, <1>4, SuffixIs
  <1> QED  BY <1>3, <1>4, <1>5, Zenon

LEMMA SuffixOfSuffix ==
  ASSUME NEW t \in Texts, NEW n \in 0 .. Len(t), NEW m \in 0 .. Len(t) - n
  PROVE  n + m \in 0 .. Len(t) /\ Suffix(Suffix(t, n), m) = Suffix(t, n + m)
  <1> DEFINE u == Suffix(t, n)
  <1>1. /\ Len(t) \in Nat /\ u \in Texts /\ Len(u) = Len(t) - n
        /\ \A i \in 1 .. Len(t) - n : u[i] = t[n + i]
    BY SuffixIs
  <1>2. n + m \in 0 .. Len(t)
    BY <1>1
  <1>3. /\ Suffix(t, n + m) \in Texts /\ Len(Suffix(t, n + m)) = Len(t) - (n + m)
        /\ \A i \in 1 .. Len(t) - (n + m) : Suffix(t, n + m)[i] = t[n + m + i]
    BY <1>2, SuffixIs
  <1> HIDE DEF u
  <1>4. /\ Suffix(u, m) \in Texts /\ Len(Suffix(u, m)) = Len(u) - m
        /\ \A i \in 1 .. Len(u) - m : Suffix(u, m)[i] = u[m + i]
    <2>1. m \in 0 .. Len(u)
      BY <1>1
    <2> QED  BY <1>1, <2>1, SuffixIs
  <1>5. Len(u) - m = Len(t) - (n + m)
    BY <1>1
  <1>6. ASSUME NEW i \in 1 .. Len(t) - (n + m)
        PROVE  Suffix(u, m)[i] = Suffix(t, n + m)[i]
    <2>1. Suffix(u, m)[i] = u[m + i]
      BY <1>4, <1>5
    <2>2. m + i \in 1 .. Len(t) - n /\ n + (m + i) = n + m + i
      BY <1>1
    <2> QED  BY <1>1, <1>3, <2>1, <2>2
  <1>7. \A a, b \in Texts : Len(a) = Len(b) /\ (\A i \in 1 .. Len(a) : a[i] = b[i]) => a = b
    BY DEF Texts
  <1>8. Suffix(u, m) = Suffix(t, n + m)
    BY <1>3, <1>4, <1>5, <1>6, <1>7
  <1> QED  BY <1>2, <1>8 DEF u

LEMMA BehindClassIs ==
  ASSUME NEW p \in Texts, Contains(p, "]")
  PROVE  BehindClass(p) \in Texts /\ Len(BehindClass(p)) < Len(p)
  <1> DEFINE j == SelectInSeq(p, LAMBDA c : c = "]")
  <1>1. j \in 1 .. Len(p)
    BY SelectsFirst
  <1>2. BehindClass(p) = Suffix(p, j)
    BY DEF BehindClass, Suffix
  <1> HIDE DEF j
  <1>3. Len(p) \in Nat
    BY LengthIs
  <1>4. j \in 0 .. Len(p) /\ Len(p) - j < Len(p)
    BY <1>1, <1>3
  <1>5. Suffix(p, j) \in Texts /\ Len(Suffix(p, j)) = Len(p) - j
    BY <1>4, SuffixIs, Zenon
  <1> QED  BY <1>2, <1>4, <1>5

(* The meaning of a pattern is that of shorter ones.                       *)
LEMMA LikeLooksAtShorter ==
  ASSUME NEW p \in Texts, NEW t \in Texts, NEW f, NEW g,
         \A q \in Texts : Len(q) < Len(p) => f[q] = g[q]
  PROVE  LikeBody(f, p, t) = LikeBody(g, p, t)
  <1>1. p # <<>> => Tail(p) \in Texts /\ Len(Tail(p)) < Len(p)
    BY TailIs
  <1>2. Contains(p, "]") => BehindClass(p) \in Texts /\ Len(BehindClass(p)) < Len(p)
    BY BehindClassIs
  <1> QED  BY <1>1, <1>2 DEF LikeBody

(* Some function satisfies the recursion for patterns shorter than n, and  *)
(* all that do agree on them.                                              *)
Meaning(f, p) == [t \in Texts |-> LikeBody(f, p, t)]
Solves(f, n) == \A p \in Texts : Len(p) < n => f[p] = Meaning(f, p)

LEMMA MeaningOfShorter ==
  ASSUME NEW p \in Texts, NEW f, NEW g, \A q \in Texts : Len(q) < Len(p) => f[q] = g[q]
  PROVE  Meaning(f, p) = Meaning(g, p)
  <1>1. ASSUME NEW t \in Texts
        PROVE  LikeBody(f, p, t) = LikeBody(g, p, t)
    BY LikeLooksAtShorter
  <1> QED  BY <1>1, Zenon DEF Meaning

LEMMA SolutionsAgree ==
  ASSUME NEW f, NEW g, NEW n \in Nat, NEW m \in Nat, Solves(f, n), Solves(g, m),
         NEW p \in Texts, Len(p) < n, Len(p) < m
  PROVE  f[p] = g[p]
  <1> DEFINE A(k) == \A q \in Texts : Len(q) < n /\ Len(q) < m /\ Len(q) < k => f[q] = g[q]
             G == {k \in Nat : A(k)}
  <1>1. 0 \in G
    <2>1. \A q \in Texts : ~ (Len(q) < 0)
      BY LengthIs
    <2> QED  BY <2>1
  <1>2. ASSUME NEW k \in Nat, k \in G
        PROVE  k + 1 \in G
    <2>1. ASSUME NEW q \in Texts, Len(q) < n, Len(q) < m, Len(q) < k + 1
          PROVE  f[q] = g[q]
      <3>1. ASSUME NEW r \in Texts, Len(r) < Len(q)
            PROVE  f[r] = g[r]
        <4>1. Len(q) \in Nat /\ Len(r) \in Nat
          BY LengthIs
        <4>2. Len(r) < n /\ Len(r) < m /\ Len(r) < k
          BY <2>1, <3>1, <4>1
        <4>3. A(k)
          BY <1>2
        <4> QED  BY <4>2, <4>3, Zenon
      <3>2. Meaning(f, q) = Meaning(g, q)
        BY <3>1, MeaningOfShorter
      <3> QED  BY <2>1, <3>2, Zenon DEF Solves
    <2>2. A(k + 1)
      BY <2>1, Zenon
    <2> HIDE DEF A
    <2> QED  BY <2>2
  <1>3. n \in G
    <2> HIDE DEF G
    <2> QED  BY <1>1, <1>2, SetInduction
  <1>4. A(n)
    BY <1>3
  <1> QED  BY <1>4, Zenon

LEMMA SolutionExists ==
  ASSUME NEW n \in Nat
  PROVE  \E f : Solves(f, n)
  <1> DEFINE G == {k \in Nat : \E f : Solves(f, k)}
  <1>1. 0 \in G
    <2>1. \A p \in Texts : ~ (Len(p) < 0)
      BY LengthIs
    <2>2. Solves(<<>>, 0)
      BY <2>1, Zenon DEF Solves
    <2> QED  BY <2>2
  <1>2. ASSUME NEW k \in Nat, k \in G
        PROVE  k + 1 \in G
    <2>1. PICK f : Solves(f, k)
      BY <1>2
    <2> DEFINE g == [p \in Texts |-> IF Len(p) < k THEN f[p] ELSE Meaning(f, p)]
    <2>2. ASSUME NEW p \in Texts, Len(p) < k + 1
          PROVE  g[p] = Meaning(g, p)
      <3>1. ASSUME NEW q \in Texts, Len(q) < Len(p)
            PROVE  f[q] = g[q]
        <4>1. Len(q) \in Nat /\ Len(p) \in Nat
          BY LengthIs
        <4>2. Len(q) < k
          BY <2>2, <3>1, <4>1
        <4> QED  BY <4>2
      <3>2. g[p] = Meaning(f, p)
        BY <2>1, Zenon DEF Solves
      <3> HIDE DEF g
      <3>3. Meaning(f, p) = Meaning(g, p)
        BY <3>1, MeaningOfShorter
      <3> QED  BY <3>2, <3>3
    <2> HIDE DEF g
    <2>3. Solves(g, k + 1)
      BY <2>2, Zenon DEF Solves
    <2> QED  BY <2>3
  <1>3. n \in G
    <2> HIDE DEF G
    <2> QED  BY <1>1, <1>2, SetInduction
  <1> QED  BY <1>3

LEMMA LikeUnfolds ==
  ASSUME NEW p \in Texts, NEW t \in Texts
  PROVE  Like[p][t] <=> LikeBody(Like, p, t)
  <1> DEFINE L == [n \in Nat |-> CHOOSE f : Solves(f, n)]
             F == [q \in Texts |-> L[Len(q) + 1][q]]
  <1>1. \A n \in Nat : Solves(L[n], n)
    <2> TAKE n \in Nat
    <2>1. \E f : Solves(f, n)
      BY SolutionExists
    <2>2. L[n] = CHOOSE f : Solves(f, n)
      OBVIOUS
    <2> QED  BY <2>1, <2>2, Zenon
  <1> HIDE DEF L
  <1>2. \A q \in Texts : Len(q) \in Nat /\ Len(q) + 1 \in Nat /\ Len(q) < Len(q) + 1
    BY LengthIs
  <1>3. ASSUME NEW q \in Texts
        PROVE  F[q] = Meaning(F, q)
    <2> DEFINE f == L[Len(q) + 1]
    <2>1. Solves(f, Len(q) + 1)
      BY <1>1, <1>2, Zenon
    <2>2. ASSUME NEW r \in Texts, Len(r) < Len(q)
          PROVE  f[r] = F[r]
      <3>1. Solves(L[Len(r) + 1], Len(r) + 1)
        BY <1>1, <1>2, Zenon
      <3>2. Len(r) < Len(q) + 1
        BY <1>2, <2>2
      <3> HIDE DEF f
      <3>3. Len(q) + 1 \in Nat /\ Len(r) + 1 \in Nat /\ Len(r) < Len(r) + 1
        BY <1>2
      <3>4. f[r] = L[Len(r) + 1][r]
        BY <2>1, <3>1, <3>2, <3>3, SolutionsAgree
      <3> QED  BY <3>4
    <2>3. F[q] = f[q]
      BY Zenon
    <2> HIDE DEF F, f
    <2>4. f[q] = Meaning(f, q)
      BY <1>2, <2>1, Zenon DEF Solves
    <2>5. Meaning(f, q) = Meaning(F, q)
      BY <2>2, MeaningOfShorter
    <2> QED  BY <2>3, <2>4, <2>5
  <1>4. F = [q \in Texts |-> F[q]]
    BY Zenon
  <1> HIDE DEF F
  <1>5. F = [q \in Texts |-> Meaning(F, q)]
    BY <1>3, <1>4, Zenon
  <1>6. Like = CHOOSE f : f = [q \in Texts |-> Meaning(f, q)]
    BY LikeIsChosen DEF Meaning
  <1>7. Like = [q \in Texts |-> Meaning(Like, q)]
    BY <1>5, <1>6, Zenon
  <1>8. Like[p] = [v \in Texts |-> LikeBody(Like, p, v)]
    BY <1>7, Zenon DEF Meaning
  <1> QED  BY <1>8, Zenon
----------------------------------------------------------------------------
(* The regular expression of a pattern matches what the pattern means. *)

LEMMA RestOfPattern ==
  ASSUME NEW p \in Texts, NEW i \in 1 .. Len(p)
  PROVE  LET q == Suffix(p, i - 1)
         IN  /\ q \in Texts /\ q # <<>> /\ q[1] = p[i] /\ Len(q) = Len(p) + 1 - i
             /\ \A k \in 1 .. Len(q) : q[k] = p[i - 1 + k]
             /\ Tail(q) = Suffix(p, i)
  <1> DEFINE q == Suffix(p, i - 1)
  <1>1. Len(p) \in Nat /\ i - 1 \in 0 .. Len(p)
    BY LengthIs
  <1>2. /\ q \in Texts /\ Len(q) = Len(p) - (i - 1)
        /\ \A k \in 1 .. Len(p) - (i - 1) : q[k] = p[i - 1 + k]
    BY <1>1, SuffixIs
  <1>3. Len(p) - (i - 1) = Len(p) + 1 - i /\ 1 \in 1 .. Len(p) - (i - 1) /\ i - 1 + 1 = i
    BY <1>1
  <1> HIDE DEF q
  <1>4. q # <<>> /\ 1 \in 0 .. Len(p) - (i - 1)
    BY <1>1, <1>2, <1>3
  <1>5. Tail(q) = Suffix(q, 1)
    BY <1>2, <1>4, TailIs
  <1>6. Suffix(q, 1) = Suffix(p, i)
    BY <1>1, <1>3, <1>4, SuffixOfSuffix DEF q
  <1> QED  BY <1>2, <1>3, <1>4, <1>5, <1>6 DEF q

LEMMA RestOfText ==
  ASSUME NEW t \in Texts, NEW e \in 0 .. Len(t)
  PROVE  /\ Suffix(t, e) \in Texts /\ (Suffix(t, e) = <<>> <=> e = Len(t))
         /\ e < Len(t) => /\ e + 1 \in 1 .. Len(t) /\ Suffix(t, e)[1] = t[e + 1]
                          /\ Tail(Suffix(t, e)) = Suffix(t, e + 1)
  <1>1. Len(t) \in Nat /\ e \in Nat /\ e <= Len(t)
    BY LengthIs
  <1>2. CASE e = Len(t)
    <2>1. Suffix(t, e) \in Texts /\ Len(Suffix(t, e)) = 0
      BY <1>1, <1>2, SuffixIs
    <2>2. Suffix(t, e) = <<>>
      BY <2>1, LengthIs
    <2> QED  BY <1>1, <1>2, <2>1, <2>2
  <1>3. CASE e < Len(t)
    <2>1. e + 1 \in 1 .. Len(t) /\ (e + 1) - 1 = e
      BY <1>1, <1>3
    <2> QED  BY <1>1, <1>3, <2>1, RestOfPattern
  <1> QED  BY <1>1, <1>2, <1>3

(* The class that opens at i is the one in front of what follows i.        *)
LEMMA ClassIs ==
  ASSUME NEW p \in Texts, NEW i \in 1 .. Len(p), p[i] = "["
  PROVE  LET q == Suffix(p, i - 1)
         IN  /\ HasClass(p, i) <=> Contains(q, "]")
             /\ HasClass(p, i) => /\ BehindClass(q) = Suffix(p, NextAt(p, i) - 1)
                                  /\ \A c \in Chars : InClass(c, Class(q)) <=>
                                                        c \in ClassOf(p, i, Min(Closings(p, i)))
  <1> DEFINE q == Suffix(p, i - 1)
             s == SelectInSeq(q, LAMBDA c : c = "]")
             m == Min(Closings(p, i))
  <1>1. Len(p) \in Nat /\ i \in Nat /\ i - 1 \in 0 .. Len(p)
    BY LengthIs
  <1>2. /\ q \in Texts /\ q[1] = "[" /\ Len(q) = Len(p) + 1 - i
        /\ \A k \in 1 .. Len(q) : q[k] = p[i - 1 + k]
    BY RestOfPattern
  <1> HIDE DEF q
  <1>3. HasClass(p, i) <=> Contains(q, "]")
    <2>1. ASSUME NEW j \in Closings(p, i)
          PROVE  Contains(q, "]")
      <3>1. j \in i + 1 .. Len(p) /\ p[j] = "]"
        BY DEF Closings
      <3>2. j + 1 - i \in 1 .. Len(q) /\ i - 1 + (j + 1 - i) = j
        BY <1>1, <1>2, <3>1
      <3> QED  BY <1>2, <3>1, <3>2 DEF Contains
    <2>2. ASSUME Contains(q, "]")
          PROVE  Closings(p, i) # {}
      <3>1. PICK k \in 1 .. Len(q) : q[k] = "]"
        BY <2>2 DEF Contains
      <3>2. k # 1
        BY <1>2, <3>1
      <3>3. i - 1 + k \in i + 1 .. Len(p)
        BY <1>1, <1>2, <3>2
      <3> QED  BY <1>2, <3>1, <3>3 DEF Closings
    <2> QED  BY <2>1, <2>2 DEF HasClass
  <1> SUFFICES ASSUME HasClass(p, i)
               PROVE  /\ BehindClass(q) = Suffix(p, NextAt(p, i) - 1)
                      /\ \A c \in Chars : InClass(c, Class(q)) <=> c \in ClassOf(p, i, m)
    BY <1>3 DEF q
  <1>4. m \in i + 1 .. Len(p) /\ p[m] = "]" /\ \A j \in i + 1 .. m - 1 : p[j] # "]"
    BY ClosingIs DEF HasClass
  <1>5. s \in 1 .. Len(q) /\ q[s] = "]" /\ \A k \in 1 .. s - 1 : q[k] # "]"
    BY <1>2, <1>3, SelectsFirst
  <1>6. BehindClass(q) = Suffix(q, s) /\ Class(q) = SubSeq(q, 2, s - 1) /\ NextAt(p, i) = m + 1
    BY DEF BehindClass, Suffix, Class, NextAt
  <1> HIDE DEF s, m
  <1>7. m = i - 1 + s
    <2>1. s # 1
      BY <1>2, <1>5
    <2>2. i - 1 + s \in i + 1 .. Len(p) /\ p[i - 1 + s] = "]"
      BY <1>1, <1>2, <1>5, <2>1
    <2>3. ~ (i - 1 + s < m)
      <3>1. i - 1 + s < m => i - 1 + s \in i + 1 .. m - 1
        BY <1>1, <1>4, <2>2
      <3> QED  BY <1>4, <2>2, <3>1
    <2>4. ~ (m < i - 1 + s)
      <3>1. m < i - 1 + s => /\ m + 1 - i \in 1 .. s - 1 /\ m + 1 - i \in 1 .. Len(q)
                             /\ i - 1 + (m + 1 - i) = m
        BY <1>1, <1>2, <1>4, <1>5
      <3> QED  BY <1>2, <1>4, <1>5, <3>1
    <2> QED  BY <1>1, <1>4, <1>5, <2>3, <2>4
  <1>8. Suffix(q, s) = Suffix(p, m)
    <2>1. s \in 0 .. Len(p) - (i - 1)
      BY <1>1, <1>2, <1>5
    <2> QED  BY <1>1, <1>7, <2>1, SuffixOfSuffix DEF q
  <1>9. BehindClass(q) = Suffix(p, NextAt(p, i) - 1)
    <2>1. (m + 1) - 1 = m
      BY <1>1, <1>4
    <2> QED  BY <1>6, <1>8, <2>1
  <1> DEFINE k == SubSeq(q, 2, s - 1)
  <1>10. /\ s \in Nat /\ s >= 2 /\ s <= Len(q) /\ m - i = s - 1
    BY <1>1, <1>2, <1>4, <1>5, <1>7
  <1>11. /\ k \in Seq(Chars) /\ Len(k) = s - 2
         /\ \A x \in 1 .. s - 2 : k[x] = p[i + x]
    <2>1. q \in Seq(Chars) /\ Len(q) \in Nat /\ \A x \in 1 .. Len(q) : q[x] \in Chars
      BY <1>2, LengthIs
    <2>2. \A x \in 2 .. s - 1 : q[x] \in Chars
      BY <1>10, <2>1
    <2>3. /\ k \in Seq(Chars) /\ Len(k) = (IF 2 <= s - 1 THEN (s - 1) - 2 + 1 ELSE 0)
          /\ \A x \in 1 .. (s - 1) - 2 + 1 : k[x] = q[2 + x - 1]
      BY <1>10, <2>2, SubSeqProperties
    <2>4. \A x \in 1 .. s - 2 : /\ 2 + x - 1 \in 1 .. Len(q) /\ i - 1 + (2 + x - 1) = i + x
                                /\ x \in 1 .. (s - 1) - 2 + 1
      BY <1>1, <1>10
    <2> HIDE DEF k
    <2>5. Len(k) = s - 2
      BY <1>10, <2>3
    <2>6. \A x \in 1 .. s - 2 : k[x] = p[i + x]
      BY <1>2, <2>3, <2>4
    <2> QED  BY <2>3, <2>5, <2>6
  <1> HIDE DEF k
  <1>12. ASSUME NEW c \in Chars
         PROVE  InClass(c, k) <=> c \in ClassOf(p, i, m)
    <2>1. Contains(k, c) <=> c \in {p[x] : x \in i + 1 .. m - 1}
      <3>1. ASSUME NEW x \in i + 1 .. m - 1
            PROVE  x - i \in 1 .. s - 2 /\ i + (x - i) = x
        BY <1>1, <1>4, <1>10
      <3>2. ASSUME NEW x \in 1 .. s - 2
            PROVE  i + x \in i + 1 .. m - 1
        BY <1>1, <1>4, <1>10
      <3> QED  BY <1>11, <3>1, <3>2 DEF Contains
    <2>2. k # <<>> <=> i + 1 < m
      BY <1>1, <1>4, <1>10, <1>11
    <2>3. k # <<>> => k[1] = p[i + 1]
      BY <1>10, <1>11
    <2>4. k # <<>> => (Contains(Tail(k), c) <=> c \in {p[x] : x \in i + 2 .. m - 1})
      <3> SUFFICES ASSUME k # <<>>
                   PROVE  Contains(Tail(k), c) <=> c \in {p[x] : x \in i + 2 .. m - 1}
        OBVIOUS
      <3>1. Len(Tail(k)) = s - 3 /\ \A x \in 1 .. s - 3 : Tail(k)[x] = p[i + 1 + x]
        <4>1. Len(Tail(k)) = Len(k) - 1 /\ \A x \in 1 .. Len(Tail(k)) : Tail(k)[x] = k[x + 1]
          BY <1>11, HeadTailProperties
        <4>2. \A x \in 1 .. s - 3 : x + 1 \in 1 .. s - 2 /\ i + (x + 1) = i + 1 + x
          BY <1>1, <1>10
        <4>3. Len(Tail(k)) = s - 3
          BY <1>10, <1>11, <4>1
        <4> QED  BY <1>11, <4>1, <4>2, <4>3
      <3>2. ASSUME NEW x \in i + 2 .. m - 1
            PROVE  x - i - 1 \in 1 .. s - 3 /\ i + 1 + (x - i - 1) = x
        BY <1>1, <1>4, <1>10
      <3>3. ASSUME NEW x \in 1 .. s - 3
            PROVE  i + 1 + x \in i + 2 .. m - 1
        BY <1>1, <1>4, <1>10
      <3> DEFINE l == Tail(k)
      <3>4. Contains(l, c) <=> \E x \in 1 .. s - 3 : l[x] = c
        BY <3>1 DEF Contains
      <3>5. \A x \in 1 .. s - 3 : l[x] = p[i + 1 + x]
        BY <3>1
      <3> HIDE DEF l
      <3>6. Contains(l, c) <=> \E x \in i + 2 .. m - 1 : p[x] = c
        BY <3>2, <3>3, <3>4, <3>5
      <3> QED  BY <3>6 DEF l
    <2> QED  BY <2>1, <2>2, <2>3, <2>4 DEF InClass, ClassOf
  <1> QED  BY <1>6, <1>9, <1>12 DEF k

(* One character or any number of them: an atom takes from a text what its *)
(* part of the pattern means.                                              *)
LEMMA AtomTakes ==
  ASSUME NEW p \in Texts, NEW t \in Texts, NEW i \in 1 .. Len(p), NEW e \in 0 .. Len(t)
  PROVE  Like[Suffix(p, i - 1)][Suffix(t, e)] <=>
           \E d \in After(t, {e}, AtomAt(p, i)) : Like[Suffix(p, NextAt(p, i) - 1)][Suffix(t, d)]
  <1> DEFINE q == Suffix(p, i - 1)
             u == Suffix(t, e)
             a == AtomAt(p, i)
             Rest(d) == Like[Suffix(p, NextAt(p, i) - 1)][Suffix(t, d)]
  <1>1. /\ Len(t) \in Nat /\ e \in Nat /\ e <= Len(t) /\ \A n \in 1 .. Len(t) : t[n] \in Chars
        /\ Len(p) \in Nat /\ i \in Nat
    BY LengthIs
  <1>2. q \in Texts /\ q # <<>> /\ q[1] = p[i] /\ Tail(q) = Suffix(p, i)
    BY RestOfPattern
  <1>3. /\ u \in Texts /\ (u = <<>> <=> e = Len(t))
        /\ e < Len(t) => e + 1 \in 1 .. Len(t) /\ u[1] = t[e + 1] /\ Tail(u) = Suffix(t, e + 1)
    BY RestOfText
  <1>4. Like[q][u] <=> LikeBody(Like, q, u)
    BY <1>2, <1>3, LikeUnfolds
  <1>5. ~ HasClass(p, i) => NextAt(p, i) - 1 = i
    BY <1>1 DEF NextAt
  <1> SUFFICES LikeBody(Like, q, u) <=> \E d \in After(t, {e}, a) : Rest(d)
    BY <1>4
  <1>6. CASE p[i] = "*"
    <2>1. ~ HasClass(p, i) /\ a = Many(Chars)
      BY <1>6 DEF HasClass, AtomAt
    <2>2. After(t, {e}, a) = e .. Len(t)
      BY <1>1, <2>1 DEF After, Many
    <2>3. LikeBody(Like, q, u) <=> \E n \in 0 .. Len(u) : Like[Suffix(p, i)][Suffix(u, n)]
      <3> HIDE DEF q, u
      <3> QED  BY <1>2, <1>6 DEF LikeBody, Suffix
    <2>4. Len(u) = Len(t) - e /\ \A n \in 0 .. Len(t) - e : Suffix(u, n) = Suffix(t, e + n)
      BY SuffixIs, SuffixOfSuffix
    <2> HIDE DEF u, q, a
    <2>5. (\E n \in 0 .. Len(t) - e : Like[Suffix(p, i)][Suffix(t, e + n)])
            <=> \E d \in e .. Len(t) : Like[Suffix(p, i)][Suffix(t, d)]
      <3>1. \A n \in 0 .. Len(t) - e : e + n \in e .. Len(t)
        BY <1>1
      <3>2. \A d \in e .. Len(t) : d - e \in 0 .. Len(t) - e /\ e + (d - e) = d
        BY <1>1
      <3> QED  BY <3>1, <3>2
    <2> QED  BY <1>5, <2>1, <2>2, <2>3, <2>4, <2>5
  <1>7. CASE p[i] # "*"
    <2>1. ~ a.many /\ After(t, {e}, a) = IF e < Len(t) /\ t[e + 1] \in a.chars THEN {e + 1} ELSE {}
      <3>1. ~ a.many
        BY <1>7 DEF AtomAt, One
      <3> HIDE DEF a
      <3> QED  BY <3>1 DEF After
    <2>2. CASE e = Len(t)
      <3>1. ~ LikeBody(Like, q, u)
        <4> HIDE DEF q, u
        <4> QED  BY <1>2, <1>3, <1>7, <2>2 DEF LikeBody
      <3>2. After(t, {e}, a) = {}
        BY <1>1, <2>1, <2>2
      <3> QED  BY <3>1, <3>2
    <2>3. CASE e < Len(t)
      <3> DEFINE c == t[e + 1]
      <3>1. c \in Chars /\ u # <<>> /\ u[1] = c /\ Tail(u) = Suffix(t, e + 1)
        BY <1>1, <1>3, <2>3
      <3>2. (\E d \in After(t, {e}, a) : Rest(d)) <=> c \in a.chars /\ Rest(e + 1)
        BY <2>1, <2>3
      <3>3. CASE p[i] = "?"
        <4>1. ~ HasClass(p, i) /\ a.chars = Chars
          BY <3>3 DEF HasClass, AtomAt, One
        <4>2. LikeBody(Like, q, u) <=> Like[Suffix(p, i)][Suffix(t, e + 1)]
          <5> HIDE DEF q, u, c
          <5> QED  BY <1>2, <3>1, <3>3 DEF LikeBody
        <4> QED  BY <1>5, <3>1, <3>2, <4>1, <4>2
      <3>4. CASE HasClass(p, i)
        <4>1. p[i] = "["
          BY <3>4 DEF HasClass
        <4>2. a.chars = ClassOf(p, i, Min(Closings(p, i)))
          BY <3>4, <4>1 DEF AtomAt, One
        <4>3. /\ Contains(q, "]") /\ BehindClass(q) = Suffix(p, NextAt(p, i) - 1)
              /\ InClass(c, Class(q)) <=> c \in a.chars
          BY <3>1, <3>4, <4>1, <4>2, ClassIs
        <4>4. LikeBody(Like, q, u) <=> InClass(c, Class(q)) /\ Like[BehindClass(q)][Suffix(t, e + 1)]
          <5> HIDE DEF q, u, c
          <5> QED  BY <1>2, <3>1, <4>1, <4>3 DEF LikeBody
        <4> QED  BY <3>2, <4>3, <4>4
      <3>5. CASE p[i] # "?" /\ ~ HasClass(p, i)
        <4>1. a.chars = {p[i]}
          BY <1>7, <3>5 DEF AtomAt, One
        <4>2. p[i] = "[" => ~ Contains(q, "]")
          BY <3>5, ClassIs
        <4>3. LikeBody(Like, q, u) <=> c = p[i] /\ Like[Suffix(p, i)][Suffix(t, e + 1)]
          <5> HIDE DEF q, u, c
          <5> QED  BY <1>2, <1>7, <3>1, <3>5, <4>2 DEF LikeBody
        <4> QED  BY <1>5, <3>2, <3>5, <4>1, <4>3
      <3> QED  BY <3>3, <3>4, <3>5
    <2>4. e = Len(t) \/ e < Len(t)
      BY <1>1
    <2> QED  BY <2>2, <2>3, <2>4, Zenon
  <1> QED  BY <1>6, <1>7

LEMMA AtomsTake ==
  ASSUME NEW p \in Texts, NEW t \in Texts, NEW i \in 1 .. Len(p), NEW E, E \subseteq 0 .. Len(t)
  PROVE  /\ After(t, E, AtomAt(p, i)) \subseteq 0 .. Len(t)
         /\ (\E e \in E : Like[Suffix(p, i - 1)][Suffix(t, e)]) <=>
              \E d \in After(t, E, AtomAt(p, i)) : Like[Suffix(p, NextAt(p, i) - 1)][Suffix(t, d)]
  <1> DEFINE a == AtomAt(p, i)
  <1>1. Len(t) \in Nat
    BY LengthIs
  <1>2. a.many \in BOOLEAN
    BY AtomIsTyped DEF Atoms
  <1> HIDE DEF a
  <1>3. After(t, E, a) \subseteq 0 .. Len(t)
    BY <1>1 DEF After
  <1>4. \A d : d \in After(t, E, a) <=> \E e \in E : d \in After(t, {e}, a)
    BY <1>1, <1>2 DEF After
  <1> DEFINE Rest(d) == Like[Suffix(p, NextAt(p, i) - 1)][Suffix(t, d)]
             Whole(e) == Like[Suffix(p, i - 1)][Suffix(t, e)]
  <1>5. \A e \in E : Whole(e) <=> \E d \in After(t, {e}, a) : Rest(d)
    BY AtomTakes DEF a
  <1> HIDE DEF Rest, Whole
  <1>6. (\E e \in E : Whole(e)) <=> \E d \in After(t, E, a) : Rest(d)
    BY <1>4, <1>5, Zenon
  <1> QED  BY <1>3, <1>6 DEF a, Rest, Whole

(* keysByPattern and SCAN list the keys that the pattern means: the walk   *)
(* over the atoms stays, at each of them, in front of what the rest of the *)
(* pattern means.                                                          *)
THEOREM TestIsLike ==
  ASSUME NEW p \in Texts, NEW t \in Texts
  PROVE  Test(PatternToRegex(p), t) <=> Like[p][t]
  <1> DEFINE n == Len(p)
             r == PatternToRegex(p)
  <1>1. PICK from : /\ r = from[1] /\ from[n + 1] = <<>>
                    /\ \A i \in 1 .. n + 1 : from[i] \in Seq(Atoms)
                    /\ \A i \in 1 .. n : from[i] = <<AtomAt(p, i)>> \o from[NextAt(p, i)]
    BY RegexIsWalk
  <1>2. n \in Nat /\ Len(t) \in Nat /\ 1 \in 1 .. n + 1
    BY LengthIs
  <1>3. r \in Seq(Atoms) /\ Len(r) \in Nat
    BY <1>1, <1>2
  <1>4. PICK ends : /\ ends[0] = {0}
                    /\ \A m \in 1 .. Len(r) : ends[m] = After(t, ends[m - 1], r[m])
                    /\ Test(r, t) <=> Len(t) \in ends[Len(r)]
    BY <1>3, TestIsWalk DEF Atoms
  <1> HIDE DEF n, r
  <1> DEFINE At(m, i) == /\ i \in 1 .. n + 1 /\ Len(r) = m + Len(from[i])
                         /\ \A x \in 1 .. Len(from[i]) : r[m + x] = from[i][x]
                         /\ ends[m] \subseteq 0 .. Len(t)
                         /\ Like[p][t] <=> \E e \in ends[m] : Like[Suffix(p, i - 1)][Suffix(t, e)]
             G == {m \in Nat : m <= Len(r) => \E i : At(m, i)}
  <1>5. \A u \in Texts : Suffix(u, 0) = u
    <2> TAKE u \in Texts
    <2>1. Suffix(u, 0) = SubSeq(u, 1, Len(u))
      BY DEF Suffix
    <2> QED  BY <2>1, LengthIs, SubSeqFull
  <1>6. 0 \in G
    <2>1. At(0, 1)
      <3>1. Like[p][t] <=> \E e \in ends[0] : Like[Suffix(p, 1 - 1)][Suffix(t, e)]
        BY <1>4, <1>5
      <3>2. Len(r) = 0 + Len(from[1]) /\ \A x \in 1 .. Len(from[1]) : r[0 + x] = from[1][x]
        BY <1>1, <1>3
      <3>3. ends[0] \subseteq 0 .. Len(t)
        BY <1>2, <1>4
      <3> QED  BY <1>2, <3>1, <3>2, <3>3
    <2> HIDE DEF At
    <2> QED  BY <2>1
  <1>7. ASSUME NEW m \in Nat, m \in G
        PROVE  m + 1 \in G
    <2> SUFFICES ASSUME m + 1 <= Len(r)
                 PROVE  \E i : At(m + 1, i)
      <3> HIDE DEF At
      <3> QED  OBVIOUS
    <2>1. PICK i : At(m, i)
      <3>1. m <= Len(r)
        BY <1>3
      <3> HIDE DEF At
      <3> QED  BY <1>7, <3>1
    <2> DEFINE f == from[i]
               j == NextAt(p, i)
               g == from[j]
    <2>2. i \in 1 .. n
      <3>1. i # n + 1
        BY <1>1, <1>3, <2>1
      <3> QED  BY <1>2, <2>1, <3>1
    <2>3. AtomAt(p, i) \in Atoms /\ j \in i + 1 .. n + 1 /\ j \in 1 .. n + 1
      <3>1. AtomAt(p, i) \in Atoms /\ j \in i + 1 .. n + 1
        BY <2>2, AtomIsTyped DEF n
      <3> QED  BY <1>2, <2>2, <3>1
    <2>4. f = <<AtomAt(p, i)>> \o g /\ f \in Seq(Atoms) /\ g \in Seq(Atoms)
      BY <1>1, <1>2, <2>1, <2>2, <2>3
    <2> HIDE DEF f, g, j
    <2>5. Len(f) = 1 + Len(g) /\ f[1] = AtomAt(p, i) /\ \A x \in 1 .. Len(g) : f[1 + x] = g[x]
      BY <2>3, <2>4
    <2>6. r[m + 1] = AtomAt(p, i) /\ Len(r) = (m + 1) + Len(g)
      <3>1. 1 \in 1 .. Len(f) /\ Len(g) \in Nat
        BY <2>4, <2>5
      <3> QED  BY <2>1, <2>5, <3>1 DEF f
    <2>7. ASSUME NEW x \in 1 .. Len(g)
          PROVE  r[(m + 1) + x] = g[x]
      <3>1. 1 + x \in 1 .. Len(f) /\ m + (1 + x) = (m + 1) + x
        BY <2>4, <2>5
      <3> QED  BY <2>1, <2>5, <3>1 DEF f
    <2>8. ends[m + 1] = After(t, ends[m], AtomAt(p, i))
      <3>1. m + 1 \in 1 .. Len(r) /\ (m + 1) - 1 = m
        BY <1>3
      <3> QED  BY <1>4, <2>6, <3>1
    <2>9. /\ ends[m + 1] \subseteq 0 .. Len(t)
          /\ (\E e \in ends[m] : Like[Suffix(p, i - 1)][Suffix(t, e)]) <=>
               \E d \in ends[m + 1] : Like[Suffix(p, j - 1)][Suffix(t, d)]
      <3>1. ends[m] \subseteq 0 .. Len(t)
        BY <2>1
      <3> QED  BY <2>2, <2>8, <3>1, AtomsTake DEF n, j
    <2>10. At(m + 1, j)
      BY <2>1, <2>3, <2>6, <2>7, <2>9 DEF g
    <2> HIDE DEF At
    <2> QED  BY <2>10
  <1>8. Len(r) \in G
    <2> HIDE DEF G
    <2> QED  BY <1>3, <1>6, <1>7, SetInduction
  <1>9. PICK i : At(Len(r), i)
    <2> HIDE DEF At
    <2> QED  BY <1>3, <1>8
  <1>10. i = n + 1
    <2>1. Len(from[i]) = 0 /\ i \in 1 .. n + 1
      <3>1. i \in 1 .. n + 1 /\ Len(r) = Len(r) + Len(from[i])
        BY <1>9
      <3>2. from[i] \in Seq(Atoms)
        BY <1>1, <3>1
      <3>3. Len(from[i]) \in Nat
        BY <3>2
      <3> QED  BY <1>3, <3>1, <3>3
    <2>2. ASSUME i \in 1 .. n
          PROVE  FALSE
      <3>1. NextAt(p, i) \in 1 .. n + 1 /\ AtomAt(p, i) \in Atoms
        BY <1>2, <2>2, AtomIsTyped DEF n
      <3>2. from[NextAt(p, i)] \in Seq(Atoms)
        BY <1>1, <3>1
      <3>3. \A a \in Atoms, s \in Seq(Atoms) : Len(<<a>> \o s) # 0
        OBVIOUS
      <3> QED  BY <1>1, <2>1, <2>2, <3>1, <3>2, <3>3
    <2> QED  BY <1>2, <2>1, <2>2
  <1>11. Suffix(p, n) = <<>>
    <2>1. n \in 0 .. Len(p) /\ n = Len(p)
      BY <1>2 DEF n
    <2> QED  BY <2>1, RestOfText
  <1>12. \A e \in 0 .. Len(t) : Like[<<>>][Suffix(t, e)] <=> e = Len(t)
    <2> TAKE e \in 0 .. Len(t)
    <2>1. <<>> \in Texts /\ Suffix(t, e) \in Texts /\ (Suffix(t, e) = <<>> <=> e = Len(t))
      BY RestOfText DEF Texts
    <2> QED  BY <2>1, LikeUnfolds DEF LikeBody
  <1>13. /\ ends[Len(r)] \subseteq 0 .. Len(t)
         /\ Like[p][t] <=> \E e \in ends[Len(r)] : Like[Suffix(p, n)][Suffix(t, e)]
    <2>1. (n + 1) - 1 = n
      BY <1>2
    <2> QED  BY <1>9, <1>10, <2>1
  <1> QED  BY <1>4, <1>11, <1>12, <1>13 DEF r
----------------------------------------------------------------------------
(* What is left of a list of keys, and who comes before whom in a list. *)

LEMMA OnlyIsKept ==
  ASSUME NEW A, NEW s \in Seq(A), NEW S
  PROVE  \E kept : /\ kept[0] = <<>> /\ Only(s, S) = kept[Len(s)]
                   /\ \A m \in 1 .. Len(s) : kept[m] = IF s[m] \in S THEN Append(kept[m - 1], s[m]) ELSE kept[m - 1]
  <1> DEFINE n == Len(s)
             Body(f, m) == IF m = 0 THEN <<>> ELSE IF s[m] \in S THEN Append(f[m - 1], s[m]) ELSE f[m - 1]
             F(f, m) == f = [q \in 0 .. m |-> Body(f, q)]
             G == {m \in Nat : \E f : F(f, m)}
  <1>0. n \in Nat
    OBVIOUS
  <1>1. 0 \in G
    <2> DEFINE f == [q \in 0 .. 0 |-> <<>>]
    <2>1. F(f, 0)
      OBVIOUS
    <2> HIDE DEF F
    <2> QED  BY <2>1
  <1>2. ASSUME NEW m \in Nat, m \in G
        PROVE  m + 1 \in G
    <2>1. PICK f : F(f, m)
      <3> HIDE DEF F
      <3> QED  BY <1>2
    <2> DEFINE h == [q \in 0 .. m + 1 |-> IF q = m + 1 THEN Body(f, q) ELSE f[q]]
    <2>2. \A q \in 0 .. m + 1 : h[q] = Body(h, q)
      <3> TAKE q \in 0 .. m + 1
      <3>1. q # 0 => q - 1 \in 0 .. m /\ q - 1 \in 0 .. m + 1 /\ q - 1 # m + 1
        OBVIOUS
      <3>2. q # m + 1 => q \in 0 .. m
        OBVIOUS
      <3>3. q # 0 => h[q - 1] = f[q - 1]
        BY <3>1
      <3>4. q # m + 1 => f[q] = Body(f, q)
        BY <2>1, <3>2
      <3>5. h[q] = Body(f, q)
        BY <3>4
      <3> QED  BY <3>3, <3>5
    <2>3. F(h, m + 1)
      <3>1. h = [q \in 0 .. m + 1 |-> h[q]]
        OBVIOUS
      <3> HIDE DEF h, Body
      <3> QED  BY <2>2, <3>1, Zenon
    <2> HIDE DEF F
    <2> QED  BY <2>3
  <1>3. n \in G
    <2> HIDE DEF G
    <2> QED  BY <1>0, <1>1, <1>2, SetInduction
  <1> DEFINE I == CHOOSE f : f = [q \in 0 .. n |-> Body(f, q)]
  <1>4. PICK f : f = [q \in 0 .. n |-> Body(f, q)]
    <2> HIDE DEF Body, n
    <2> QED  BY <1>3
  <1>5. I = [q \in 0 .. n |-> Body(I, q)]
    <2> HIDE DEF Body
    <2> QED  BY <1>4, Zenon
  <1>6. Only(s, S) = I[n]
    BY DEF Only
  <1> HIDE DEF I
  <1>7. I[0] = <<>> /\ \A m \in 1 .. n : I[m] = IF s[m] \in S THEN Append(I[m - 1], s[m]) ELSE I[m - 1]
    <2>1. 0 \in 0 .. n /\ \A m \in 1 .. n : m \in 0 .. n /\ m # 0
      BY <1>0
    <2> QED  BY <1>5, <2>1
  <1> QED  BY <1>6, <1>7

(* What is left are the elements that are in the set, no later in the list *)
(* than they were, and in the order they had.                              *)
LEMMA OnlyIs ==
  ASSUME NEW A, NEW s \in Seq(A), NEW S
  PROVE  /\ Only(s, S) \in Seq(A)
         /\ \E g \in [1 .. Len(Only(s, S)) -> 1 .. Len(s)] :
              /\ \A j \in 1 .. Len(Only(s, S)) : Only(s, S)[j] = s[g[j]] /\ s[g[j]] \in S /\ j <= g[j]
              /\ \A i, j \in 1 .. Len(Only(s, S)) : i < j => g[i] < g[j]
              /\ \A i \in 1 .. Len(s) : s[i] \in S => \E j \in 1 .. Len(Only(s, S)) : g[j] = i
  <1> DEFINE n == Len(s)
             Placed(o, g, m) == /\ o \in Seq(A) /\ g \in [1 .. Len(o) -> 1 .. m]
                                /\ \A j \in 1 .. Len(o) : o[j] = s[g[j]] /\ s[g[j]] \in S /\ j <= g[j]
                                /\ \A i, j \in 1 .. Len(o) : i < j => g[i] < g[j]
                                /\ \A i \in 1 .. m : s[i] \in S => \E j \in 1 .. Len(o) : g[j] = i
  <1>1. PICK kept : /\ kept[0] = <<>> /\ Only(s, S) = kept[n]
                    /\ \A m \in 1 .. n : kept[m] = IF s[m] \in S THEN Append(kept[m - 1], s[m]) ELSE kept[m - 1]
    BY OnlyIsKept
  <1> DEFINE G == {m \in Nat : m <= n => \E g : Placed(kept[m], g, m)}
  <1>2. 0 \in G
    <2>1. Placed(<<>>, [j \in 1 .. 0 |-> 0], 0)
      <3>1. Len(<<>>) = 0 /\ <<>> \in Seq(A)
        OBVIOUS
      <3>2. 1 .. 0 = {}
        OBVIOUS
      <3> QED  BY <3>1, <3>2
    <2> HIDE DEF Placed
    <2> QED  BY <1>1, <2>1
  <1>3. ASSUME NEW m \in Nat, m \in G
        PROVE  m + 1 \in G
    <2> SUFFICES ASSUME m + 1 <= n
                 PROVE  \E g : Placed(kept[m + 1], g, m + 1)
      <3> HIDE DEF Placed
      <3> QED  OBVIOUS
    <2>1. PICK g : Placed(kept[m], g, m)
      <3> HIDE DEF Placed
      <3> QED  BY <1>3
    <2>2. m + 1 \in 1 .. n /\ (m + 1) - 1 = m /\ m \in 0 .. n
      OBVIOUS
    <2>3. kept[m + 1] = IF s[m + 1] \in S THEN Append(kept[m], s[m + 1]) ELSE kept[m]
      BY <1>1, <2>2
    <2> DEFINE o == kept[m]
    <2>4. CASE s[m + 1] \notin S
      <3>1. Placed(o, g, m + 1)
        <4>1. \A i \in 1 .. m + 1 : s[i] \in S => i \in 1 .. m
          BY <2>4
        <4>2. g \in [1 .. Len(o) -> 1 .. m + 1]
          BY <2>1
        <4> QED  BY <2>1, <4>1, <4>2
      <3> HIDE DEF Placed
      <3> QED  BY <2>3, <2>4, <3>1
    <2>5. CASE s[m + 1] \in S
      <3> DEFINE l == Len(o)
                 w == Append(o, s[m + 1])
                 h == [j \in 1 .. l + 1 |-> IF j = l + 1 THEN m + 1 ELSE g[j]]
      <3>1. l \in Nat /\ Len(w) = l + 1 /\ s[m + 1] \in A /\ w \in Seq(A)
        BY <2>1, <2>2
      <3>2. w[l + 1] = s[m + 1] /\ \A j \in 1 .. l : w[j] = o[j]
        BY <2>1
      <3>3. \A j \in 1 .. l : g[j] \in 1 .. m /\ o[j] = s[g[j]] /\ s[g[j]] \in S /\ j <= g[j]
        BY <2>1
      <3>4. \A i, j \in 1 .. l : i < j => g[i] < g[j]
        BY <2>1
      <3>5. \A i \in 1 .. m : s[i] \in S => \E j \in 1 .. l : g[j] = i
        BY <2>1
      <3>6. l <= m
        <4>1. CASE l = 0
          BY <4>1
        <4>2. CASE l # 0
          <5>1. l \in 1 .. l
            BY <3>1, <4>2
          <5> QED  BY <3>1, <3>3, <5>1
        <4> QED  BY <4>1, <4>2
      <3> HIDE DEF o, l
      <3>7. h \in [1 .. l + 1 -> 1 .. m + 1]
        BY <3>1, <3>3
      <3>8. \A j \in 1 .. l + 1 : w[j] = s[h[j]] /\ s[h[j]] \in S /\ j <= h[j]
        <4> TAKE j \in 1 .. l + 1
        <4>1. CASE j = l + 1
          BY <2>5, <3>1, <3>2, <3>6, <4>1
        <4>2. CASE j # l + 1
          <5>1. j \in 1 .. l
            BY <3>1, <4>2
          <5> QED  BY <3>2, <3>3, <4>2, <5>1
        <4> QED  BY <4>1, <4>2
      <3>9. \A i, j \in 1 .. l + 1 : i < j => h[i] < h[j]
        <4> SUFFICES ASSUME NEW i \in 1 .. l + 1, NEW j \in 1 .. l + 1, i < j
                     PROVE  h[i] < h[j]
          OBVIOUS
        <4>1. i \in 1 .. l /\ h[i] = g[i] /\ g[i] \in 1 .. m
          BY <3>1, <3>3
        <4>2. CASE j = l + 1
          BY <4>1, <4>2
        <4>3. CASE j # l + 1
          <5>1. j \in 1 .. l /\ h[j] = g[j]
            BY <3>1, <4>3
          <5> QED  BY <3>4, <4>1, <5>1
        <4> QED  BY <4>2, <4>3
      <3>10. \A i \in 1 .. m + 1 : s[i] \in S => \E j \in 1 .. l + 1 : h[j] = i
        <4> SUFFICES ASSUME NEW i \in 1 .. m + 1, s[i] \in S
                     PROVE  \E j \in 1 .. l + 1 : h[j] = i
          OBVIOUS
        <4>1. CASE i = m + 1
          BY <3>1, <4>1
        <4>2. CASE i # m + 1
          <5>1. i \in 1 .. m
            BY <4>2
          <5>2. PICK j \in 1 .. l : g[j] = i
            BY <3>5, <5>1
          <5>3. j \in 1 .. l + 1 /\ h[j] = g[j]
            BY <3>1
          <5> QED  BY <5>2, <5>3
        <4> QED  BY <4>1, <4>2
      <3> HIDE DEF h, w
      <3>11. Placed(w, h, m + 1)
        BY <3>1, <3>7, <3>8, <3>9, <3>10
      <3> HIDE DEF Placed
      <3> QED  BY <2>3, <2>5, <3>11 DEF w, o
    <2> QED  BY <2>4, <2>5
  <1>4. n \in G
    <2> HIDE DEF G
    <2> QED  BY <1>2, <1>3, SetInduction
  <1>5. PICK g : Placed(kept[n], g, n)
    <2> HIDE DEF Placed
    <2> QED  BY <1>4
  <1>6. Placed(Only(s, S), g, n)
    <2> HIDE DEF Placed
    <2> QED  BY <1>1, <1>5
  <1> QED  BY <1>6

(* Lists that name nothing twice, what comes before what in a list, and    *)
(* the first of a list.                                                    *)
Unique(A) == {s \in Seq(A) : \A i, j \in 1 .. Len(s) : s[i] = s[j] => i = j}
Before(s, z, y) == \E i, j \in 1 .. Len(s) : i < j /\ s[i] = z /\ s[j] = y
First(s, c) == {s[j] : j \in {j \in 1 .. Len(s) : j <= c}}

LEMMA OnlyKeeps ==
  ASSUME NEW A, NEW s \in Unique(A), NEW S
  PROVE  /\ Only(s, S) \in Unique(A) /\ ToSet(Only(s, S)) = ToSet(s) \cap S
         /\ \A z, y : Before(Only(s, S), z, y) <=> z \in S /\ y \in S /\ Before(s, z, y)
  <1> DEFINE o == Only(s, S)
  <1>1. s \in Seq(A) /\ \A i, j \in 1 .. Len(s) : s[i] = s[j] => i = j
    BY DEF Unique
  <1>2. o \in Seq(A)
    BY <1>1, OnlyIs
  <1>3. PICK g \in [1 .. Len(o) -> 1 .. Len(s)] :
              /\ \A j \in 1 .. Len(o) : o[j] = s[g[j]] /\ s[g[j]] \in S /\ j <= g[j]
              /\ \A i, j \in 1 .. Len(o) : i < j => g[i] < g[j]
              /\ \A i \in 1 .. Len(s) : s[i] \in S => \E j \in 1 .. Len(o) : g[j] = i
    BY <1>1, OnlyIs
  <1> HIDE DEF o
  <1>4. \A i, j \in 1 .. Len(o) : (i < j <=> g[i] < g[j]) /\ (g[i] = g[j] => i = j)
    <2> TAKE i, j \in 1 .. Len(o)
    <2>1. i \in Nat /\ j \in Nat /\ g[i] \in Nat /\ g[j] \in Nat
      BY <1>2, <1>3
    <2> QED  BY <1>3, <2>1
  <1>5. o \in Unique(A)
    BY <1>1, <1>2, <1>3, <1>4 DEF Unique
  <1>6. ToSet(o) = ToSet(s) \cap S
    <2>1. DOMAIN o = 1 .. Len(o) /\ DOMAIN s = 1 .. Len(s)
      BY <1>1, <1>2
    <2> QED  BY <1>3, <2>1 DEF ToSet
  <1>7. ASSUME NEW z, NEW y
        PROVE  Before(o, z, y) <=> z \in S /\ y \in S /\ Before(s, z, y)
    <2>1. ASSUME Before(o, z, y)
          PROVE  z \in S /\ y \in S /\ Before(s, z, y)
      <3>1. PICK i, j \in 1 .. Len(o) : i < j /\ o[i] = z /\ o[j] = y
        BY <2>1 DEF Before
      <3> QED  BY <1>3, <3>1 DEF Before
    <2>2. ASSUME z \in S, y \in S, Before(s, z, y)
          PROVE  Before(o, z, y)
      <3>1. PICK i, j \in 1 .. Len(s) : i < j /\ s[i] = z /\ s[j] = y
        BY <2>2 DEF Before
      <3>2. PICK a \in 1 .. Len(o) : g[a] = i
        BY <1>3, <2>2, <3>1
      <3>3. PICK b \in 1 .. Len(o) : g[b] = j
        BY <1>3, <2>2, <3>1
      <3> QED  BY <1>3, <1>4, <3>1, <3>2, <3>3 DEF Before
    <2> QED  BY <2>1, <2>2
  <1> QED  BY <1>5, <1>6, <1>7 DEF o

LEMMA JoinKeeps ==
  ASSUME NEW A, NEW a \in Unique(A), NEW b \in Unique(A), ToSet(a) \cap ToSet(b) = {}
  PROVE  /\ a \o b \in Unique(A) /\ ToSet(a \o b) = ToSet(a) \cup ToSet(b)
         /\ \A z, y : Before(a \o b, z, y) <=> \/ Before(a, z, y) \/ Before(b, z, y)
                                               \/ z \in ToSet(a) /\ y \in ToSet(b)
  <1> DEFINE c == a \o b
             m == Len(a)
             n == Len(b)
  <1>1. /\ a \in Seq(A) /\ b \in Seq(A)
        /\ \A i, j \in 1 .. m : a[i] = a[j] => i = j
        /\ \A i, j \in 1 .. n : b[i] = b[j] => i = j
    BY DEF Unique
  <1>2. /\ m \in Nat /\ n \in Nat /\ c \in Seq(A) /\ Len(c) = m + n
        /\ \A i \in 1 .. m + n : c[i] = IF i <= m THEN a[i] ELSE b[i - m]
    BY <1>1
  <1>3. /\ \A x : x \in ToSet(a) <=> \E i \in 1 .. m : x = a[i]
        /\ \A x : x \in ToSet(b) <=> \E i \in 1 .. n : x = b[i]
        /\ \A x : x \in ToSet(c) <=> \E i \in 1 .. m + n : x = c[i]
    <2>1. DOMAIN a = 1 .. m /\ DOMAIN b = 1 .. n /\ DOMAIN c = 1 .. m + n
      BY <1>1, <1>2
    <2> QED  BY <2>1 DEF ToSet
  <1> HIDE DEF c, m, n
  <1>4. /\ \A i \in 1 .. m : i \in 1 .. m + n /\ c[i] = a[i]
        /\ \A i \in 1 .. n : m + i \in 1 .. m + n /\ c[m + i] = b[i]
        /\ \A i \in 1 .. m + n : i \in 1 .. m \/ \E j \in 1 .. n : i = m + j
    <2>1. ASSUME NEW i \in 1 .. n
          PROVE  m + i \in 1 .. m + n /\ c[m + i] = b[i]
      <3>1. m + i \in 1 .. m + n /\ ~ (m + i <= m) /\ (m + i) - m = i
        BY <1>2
      <3> QED  BY <1>2, <3>1
    <2>2. ASSUME NEW i \in 1 .. m + n, i \notin 1 .. m
          PROVE  \E j \in 1 .. n : i = m + j
      <3>1. i - m \in 1 .. n /\ i = m + (i - m)
        BY <1>2, <2>2
      <3> QED  BY <3>1
    <2>3. ASSUME NEW i \in 1 .. m
          PROVE  i \in 1 .. m + n /\ c[i] = a[i]
      BY <1>2
    <2> QED  BY <2>1, <2>2, <2>3
  <1>5. c \in Unique(A)
    <2> SUFFICES ASSUME NEW i \in 1 .. m + n, NEW j \in 1 .. m + n, c[i] = c[j]
                 PROVE  i = j
      BY <1>2 DEF Unique
    <2>1. CASE i \in 1 .. m /\ j \in 1 .. m
      BY <1>1, <1>4, <2>1 DEF m
    <2>2. CASE i \in 1 .. m /\ j \notin 1 .. m
      <3>1. PICK q \in 1 .. n : j = m + q
        BY <1>4, <2>2
      <3> QED  BY <1>3, <1>4, <2>2, <3>1
    <2>3. CASE i \notin 1 .. m /\ j \in 1 .. m
      <3>1. PICK q \in 1 .. n : i = m + q
        BY <1>4, <2>3
      <3> QED  BY <1>3, <1>4, <2>3, <3>1
    <2>4. CASE i \notin 1 .. m /\ j \notin 1 .. m
      <3>1. PICK q \in 1 .. n : i = m + q
        BY <1>4, <2>4
      <3>2. PICK r \in 1 .. n : j = m + r
        BY <1>4, <2>4
      <3> QED  BY <1>1, <1>4, <3>1, <3>2 DEF n
    <2> QED  BY <2>1, <2>2, <2>3, <2>4
  <1>6. \A x : x \in ToSet(c) <=> x \in ToSet(a) \cup ToSet(b)
    <2> TAKE x
    <2>1. ASSUME x \in ToSet(c)
          PROVE  x \in ToSet(a) \cup ToSet(b)
      <3>1. PICK i \in 1 .. m + n : x = c[i]
        BY <1>3, <2>1
      <3> QED  BY <1>3, <1>4, <3>1
    <2>2. ASSUME x \in ToSet(a)
          PROVE  x \in ToSet(c)
      BY <1>3, <1>4, <2>2
    <2>3. ASSUME x \in ToSet(b)
          PROVE  x \in ToSet(c)
      BY <1>3, <1>4, <2>3
    <2> QED  BY <2>1, <2>2, <2>3
  <1>7. ASSUME NEW z, NEW y
        PROVE  Before(c, z, y) <=> \/ Before(a, z, y) \/ Before(b, z, y)
                                   \/ z \in ToSet(a) /\ y \in ToSet(b)
    <2>1. /\ Before(c, z, y) <=> \E i, j \in 1 .. m + n : i < j /\ c[i] = z /\ c[j] = y
          /\ Before(a, z, y) <=> \E i, j \in 1 .. m : i < j /\ a[i] = z /\ a[j] = y
          /\ Before(b, z, y) <=> \E i, j \in 1 .. n : i < j /\ b[i] = z /\ b[j] = y
      BY <1>2 DEF Before, m, n
    <2>2. m \in Nat /\ n \in Nat
      BY <1>2
    <2>3. ASSUME Before(c, z, y)
          PROVE  Before(a, z, y) \/ Before(b, z, y) \/ (z \in ToSet(a) /\ y \in ToSet(b))
      <3>1. PICK i \in 1 .. m + n, j \in 1 .. m + n : i < j /\ c[i] = z /\ c[j] = y
        BY <2>1, <2>3
      <3>2. CASE j \in 1 .. m
        <4>1. i \in 1 .. m
          BY <2>2, <3>1, <3>2
        <4> QED  BY <1>4, <2>1, <3>1, <3>2, <4>1
      <3>3. CASE j \notin 1 .. m
        <4>1. PICK q \in 1 .. n : j = m + q
          BY <1>4, <3>3
        <4>2. CASE i \in 1 .. m
          BY <1>3, <1>4, <3>1, <4>1, <4>2
        <4>3. CASE i \notin 1 .. m
          <5>1. PICK r \in 1 .. n : i = m + r
            BY <1>4, <4>3
          <5>2. r < q
            BY <2>2, <3>1, <4>1, <5>1
          <5> QED  BY <1>4, <2>1, <3>1, <4>1, <5>1, <5>2
        <4> QED  BY <4>2, <4>3
      <3> QED  BY <3>2, <3>3
    <2>4. ASSUME Before(a, z, y)
          PROVE  Before(c, z, y)
      BY <1>4, <2>1, <2>4
    <2>5. ASSUME Before(b, z, y)
          PROVE  Before(c, z, y)
      <3>1. PICK i \in 1 .. n, j \in 1 .. n : i < j /\ b[i] = z /\ b[j] = y
        BY <2>1, <2>5
      <3>2. m + i < m + j
        BY <1>2, <3>1
      <3> QED  BY <1>4, <2>1, <3>1, <3>2
    <2>6. ASSUME z \in ToSet(a), y \in ToSet(b)
          PROVE  Before(c, z, y)
      <3>1. PICK i \in 1 .. m : z = a[i]
        BY <1>3, <2>6
      <3>2. PICK j \in 1 .. n : y = b[j]
        BY <1>3, <2>6
      <3>3. i < m + j
        BY <1>2
      <3> QED  BY <1>4, <2>1, <3>1, <3>2, <3>3
    <2> QED  BY <2>3, <2>4, <2>5, <2>6
  <1>8. ToSet(c) = ToSet(a) \cup ToSet(b)
    BY <1>6
  <1> QED  BY <1>5, <1>7, <1>8 DEF c

(* Where an element stands tells how many come before it.                  *)
LEMMA PlaceCounts ==
  ASSUME NEW A, NEW s \in Unique(A), NEW i \in 1 .. Len(s)
  PROVE  /\ IsFiniteSet({s[q] : q \in 1 .. i - 1}) /\ Cardinality({s[q] : q \in 1 .. i - 1}) = i - 1
         /\ \A z : Before(s, z, s[i]) <=> z \in {s[q] : q \in 1 .. i - 1}
  <1> DEFINE P == {s[q] : q \in 1 .. i - 1}
             J == 1 .. i - 1
             f == [q \in J |-> s[q]]
  <1>1. Len(s) \in Nat /\ i \in Nat /\ \A a, b \in 1 .. Len(s) : s[a] = s[b] => a = b
    BY DEF Unique
  <1>2. \A q \in J : q \in 1 .. Len(s)
    BY <1>1
  <1>3. f \in Bijection(J, P)
    <2>1. f \in [J -> P] /\ \A p \in P : \E q \in J : f[q] = p
      OBVIOUS
    <2>2. \A a, b \in J : f[a] = f[b] => a = b
      BY <1>1, <1>2
    <2> HIDE DEF f, J, P
    <2> QED  BY <2>1, <2>2 DEF Bijection, Injection, Surjection, IsInjective
  <1>4. IsFiniteSet(J) /\ Cardinality(J) = i - 1
    <2>1. i - 1 \in Nat
      BY <1>1
    <2>2. Cardinality(J) = (IF 1 > i - 1 THEN 0 ELSE (i - 1) - 1 + 1) /\ IsFiniteSet(J)
      BY <2>1, FS_Interval
    <2> HIDE DEF J
    <2> QED  BY <2>1, <2>2
  <1>5. ExistsBijection(J, P)
    BY <1>3 DEF ExistsBijection
  <1>6. IsFiniteSet(P) /\ Cardinality(P) = i - 1
    <2> HIDE DEF J, P
    <2> QED  BY <1>4, <1>5, FS_Bijection
  <1>7. ASSUME NEW z
        PROVE  Before(s, z, s[i]) <=> z \in P
    <2>1. ASSUME Before(s, z, s[i])
          PROVE  z \in P
      <3>1. PICK a \in 1 .. Len(s), b \in 1 .. Len(s) : a < b /\ s[a] = z /\ s[b] = s[i]
        BY <2>1 DEF Before
      <3>2. b = i
        BY <1>1, <3>1
      <3>3. a \in 1 .. i - 1
        BY <1>1, <3>1, <3>2
      <3> QED  BY <3>1, <3>3
    <2>2. ASSUME z \in P
          PROVE  Before(s, z, s[i])
      <3>1. PICK a \in 1 .. i - 1 : z = s[a]
        BY <2>2
      <3>2. a \in 1 .. Len(s) /\ a < i
        BY <1>1, <3>1
      <3> QED  BY <3>1, <3>2 DEF Before
    <2> QED  BY <2>1, <2>2
  <1> QED  BY <1>6, <1>7

(* An element moves forward by no more places than elements before it go.  *)
LEMMA PlacesMoveBack ==
  ASSUME NEW A, NEW s \in Unique(A), NEW t \in Unique(A), NEW E, IsFiniteSet(E),
         NEW i \in 1 .. Len(s), NEW j \in 1 .. Len(t), s[i] = t[j],
         \A z : Before(s, z, s[i]) => z \in E \/ Before(t, z, s[i])
  PROVE  i <= j + Cardinality(E)
  <1> DEFINE P == {s[q] : q \in 1 .. i - 1}
             Q == {t[q] : q \in 1 .. j - 1}
  <1>1. IsFiniteSet(P) /\ Cardinality(P) = i - 1 /\ \A z : Before(s, z, s[i]) <=> z \in P
    BY PlaceCounts
  <1>2. IsFiniteSet(Q) /\ Cardinality(Q) = j - 1 /\ \A z : Before(t, z, t[j]) <=> z \in Q
    BY PlaceCounts
  <1> HIDE DEF P, Q
  <1>3. P \in SUBSET (Q \cup E)
    BY <1>1, <1>2
  <1>4. IsFiniteSet(Q \cup E) /\ Cardinality(Q \cup E) = Cardinality(Q) + Cardinality(E) - Cardinality(Q \cap E)
    BY <1>2, FS_Union
  <1>5. Cardinality(P) <= Cardinality(Q \cup E)
    BY <1>3, <1>4, FS_Subset
  <1>6. IsFiniteSet(Q \cap E)
    <2>1. Q \cap E \in SUBSET E
      OBVIOUS
    <2> QED  BY <2>1, FS_Subset
  <1>7. Cardinality(Q \cap E) \in Nat /\ Cardinality(E) \in Nat
    BY <1>6, FS_CardinalityType
  <1>8. i \in Int /\ j \in Int
    OBVIOUS
  <1> QED  BY <1>1, <1>2, <1>4, <1>5, <1>7, <1>8

(* A list is given by its elements and by what comes before what.          *)
LEMMA SameOrderSameList ==
  ASSUME NEW A, NEW s \in Unique(A), NEW t \in Unique(A), ToSet(s) = ToSet(t),
         \A z, y : Before(s, z, y) <=> Before(t, z, y)
  PROVE  s = t
  <1>1. /\ s \in Seq(A) /\ t \in Seq(A) /\ Len(s) \in Nat /\ Len(t) \in Nat
        /\ DOMAIN s = 1 .. Len(s) /\ DOMAIN t = 1 .. Len(t)
    BY DEF Unique
  <1>2. IsFiniteSet({}) /\ Cardinality({}) = 0
    BY FS_EmptySet
  <1>3. ASSUME NEW i \in 1 .. Len(s), NEW j \in 1 .. Len(t), s[i] = t[j]
        PROVE  i = j
    <2>1. i <= j + Cardinality({})
      BY <1>2, <1>3, PlacesMoveBack
    <2>2. j <= i + Cardinality({})
      BY <1>2, <1>3, PlacesMoveBack
    <2> QED  BY <1>2, <2>1, <2>2
  <1>4. \A i \in 1 .. Len(s) : i \in 1 .. Len(t) /\ t[i] = s[i]
    <2> TAKE i \in 1 .. Len(s)
    <2>1. PICK j \in 1 .. Len(t) : s[i] = t[j]
      BY <1>1 DEF ToSet
    <2> QED  BY <1>3, <2>1
  <1>5. \A j \in 1 .. Len(t) : j \in 1 .. Len(s)
    <2> TAKE j \in 1 .. Len(t)
    <2>1. PICK i \in 1 .. Len(s) : s[i] = t[j]
      BY <1>1 DEF ToSet
    <2> QED  BY <1>3, <2>1
  <1>6. 1 .. Len(s) = 1 .. Len(t)
    BY <1>4, <1>5
  <1>7. s = [i \in 1 .. Len(s) |-> s[i]] /\ t = [i \in 1 .. Len(t) |-> t[i]]
    BY <1>1
  <1> QED  BY <1>4, <1>6, <1>7

(* A list that is part of another: what is among the first of the other is *)
(* among its own first.                                                    *)
LEMMA PartsKeepFirst ==
  ASSUME NEW A, NEW t \in Unique(A), NEW S, NEW c \in Nat
  PROVE  First(t, c) \cap ToSet(Only(t, S)) \subseteq First(Only(t, S), c)
  <1> DEFINE o == Only(t, S)
  <1>1. t \in Seq(A) /\ Len(t) \in Nat /\ \A i, j \in 1 .. Len(t) : t[i] = t[j] => i = j
    BY DEF Unique
  <1>2. PICK g \in [1 .. Len(o) -> 1 .. Len(t)] :
              \A j \in 1 .. Len(o) : o[j] = t[g[j]] /\ j <= g[j]
    BY <1>1, OnlyIs
  <1>3. o \in Seq(A)
    BY <1>1, OnlyIs
  <1> HIDE DEF o
  <1> SUFFICES ASSUME NEW y, y \in First(t, c), y \in ToSet(o)
               PROVE  y \in First(o, c)
    BY DEF o
  <1>4. PICK i \in 1 .. Len(t) : i <= c /\ y = t[i]
    BY DEF First
  <1>5. PICK j \in 1 .. Len(o) : y = o[j]
    <2>1. DOMAIN o = 1 .. Len(o)
      BY <1>3
    <2> QED  BY <2>1 DEF ToSet
  <1>6. g[j] = i
    BY <1>1, <1>2, <1>4, <1>5
  <1>7. j <= c
    <2>1. j \in Nat /\ i \in Nat
      BY <1>3
    <2> QED  BY <1>2, <1>4, <1>6, <2>1
  <1> QED  BY <1>5, <1>7 DEF First

(* A list that became another one by putting in or moving one element, or  *)
(* by taking one out: of what was not among the first c, one comes there.  *)
LEMMA OneComesForward ==
  ASSUME NEW A, NEW s \in Unique(A), NEW t \in Unique(A), NEW c \in Nat, NEW k,
         \/ \A y \in ToSet(s) \cap ToSet(t) : \A z : y # k /\ Before(s, z, y) => Before(t, z, y)
         \/ \A y \in ToSet(s) \cap ToSet(t) : \A z : z # k /\ Before(s, z, y) => Before(t, z, y)
  PROVE  \E x : First(t, c) \cap ToSet(s) \subseteq First(s, c) \cup {x}
  <1>1. /\ s \in Seq(A) /\ t \in Seq(A) /\ Len(s) \in Nat /\ Len(t) \in Nat
        /\ DOMAIN s = 1 .. Len(s) /\ DOMAIN t = 1 .. Len(t)
    BY DEF Unique
  <1>2. CASE \A y \in ToSet(s) \cap ToSet(t) : \A z : y # k /\ Before(s, z, y) => Before(t, z, y)
    <2>1. ASSUME NEW y, y \in First(t, c), y \in ToSet(s), y # k
          PROVE  y \in First(s, c)
      <3>1. PICK j \in 1 .. Len(t) : j <= c /\ y = t[j]
        BY <2>1 DEF First
      <3>2. PICK i \in 1 .. Len(s) : y = s[i]
        BY <1>1, <2>1 DEF ToSet
      <3>3. y \in ToSet(s) \cap ToSet(t)
        BY <1>1, <2>1, <3>1 DEF ToSet
      <3>4. \A z : Before(s, z, s[i]) => z \in {} \/ Before(t, z, s[i])
        BY <1>2, <2>1, <3>2, <3>3
      <3>5. IsFiniteSet({}) /\ Cardinality({}) = 0
        BY FS_EmptySet
      <3>6. i <= j + Cardinality({})
        BY <3>1, <3>2, <3>4, <3>5, PlacesMoveBack
      <3>7. i <= c
        BY <1>1, <3>1, <3>5, <3>6
      <3> QED  BY <3>2, <3>7 DEF First
    <2> QED  BY <2>1
  <1>3. CASE \A y \in ToSet(s) \cap ToSet(t) : \A z : z # k /\ Before(s, z, y) => Before(t, z, y)
    <2>1. ASSUME NEW y, y \in First(t, c), y \in ToSet(s), y \notin First(s, c)
          PROVE  y = s[c + 1]
      <3>1. PICK j \in 1 .. Len(t) : j <= c /\ y = t[j]
        BY <2>1 DEF First
      <3>2. PICK i \in 1 .. Len(s) : y = s[i]
        BY <1>1, <2>1 DEF ToSet
      <3>3. y \in ToSet(s) \cap ToSet(t)
        BY <1>1, <2>1, <3>1 DEF ToSet
      <3>4. \A z : Before(s, z, s[i]) => z \in {k} \/ Before(t, z, s[i])
        BY <1>3, <3>2, <3>3
      <3>5. IsFiniteSet({k}) /\ Cardinality({k}) = 1
        BY FS_Singleton
      <3>6. i <= j + Cardinality({k})
        BY <3>1, <3>2, <3>4, <3>5, PlacesMoveBack
      <3>7. ~ (i <= c)
        BY <2>1, <3>2 DEF First
      <3>8. i = c + 1
        BY <1>1, <3>1, <3>5, <3>6, <3>7
      <3> QED  BY <3>2, <3>8
    <2> QED  BY <2>1
  <1> QED  BY <1>2, <1>3
----------------------------------------------------------------------------
(* What a call lists, and how a write changes it. *)

LEMMA KeyOrderIsUnique ==
  KeyOrder \in Unique(Keys) /\ Keys \subseteq Texts /\ Matching \in [Patterns -> SUBSET Keys]
  <1>1. KeyOrder \in Seq(Texts) /\ IsInjective(KeyOrder) /\ DOMAIN KeyOrder = 1 .. Len(KeyOrder)
    BY ScanAssumption
  <1>2. \A i \in 1 .. Len(KeyOrder) : KeyOrder[i] \in Keys /\ KeyOrder[i] \in Texts
    BY <1>1 DEF Keys, ToSet
  <1>3. KeyOrder \in Seq(Keys)
    BY <1>1, <1>2
  <1>4. \A i, j \in 1 .. Len(KeyOrder) : KeyOrder[i] = KeyOrder[j] => i = j
    BY <1>1 DEF IsInjective
  <1>5. Keys \subseteq Texts
    BY <1>1, <1>2 DEF Keys, ToSet
  <1> QED  BY <1>3, <1>4, <1>5 DEF Unique, Matching

LEMMA ListingIs ==
  ASSUME NEW ms \in [1 .. 2 -> Unique(Keys)], pattern \in Patterns
  PROVE  /\ Listing(ms) \in Unique(Keys)
         /\ ToSet(Listing(ms)) = Stored(ms) \cap Matching[pattern]
         /\ Stored(ms) \subseteq Keys
         /\ \A z, y : Before(Listing(ms), z, y) <=>
              /\ z \in Stored(ms) \cap Matching[pattern] /\ y \in Stored(ms) \cap Matching[pattern]
              /\ IF face = "server" THEN Before(KeyOrder, z, y)
                 ELSE \/ Before(ms[1], z, y)
                      \/ z \notin ToSet(ms[1]) /\ y \notin ToSet(ms[1]) /\ Before(ms[2], z, y)
                      \/ z \in ToSet(ms[1]) /\ y \in ToSet(ms[2]) \ ToSet(ms[1])
  <1> DEFINE R1 == ToSet(ms[1])
             R2 == ToSet(ms[2])
             rest == Only(ms[2], Keys \ R1)
             all == IF face = "server" THEN KeyOrder ELSE ms[1] \o rest
             S == Stored(ms) \cap Matching[pattern]
  <1>1. ms[1] \in Unique(Keys) /\ ms[2] \in Unique(Keys)
    OBVIOUS
  <1>2. \A s \in Unique(Keys) : ToSet(s) \subseteq Keys
    <2> TAKE s \in Unique(Keys)
    <2>1. s \in Seq(Keys) /\ DOMAIN s = 1 .. Len(s)
      BY DEF Unique
    <2> QED  BY <2>1 DEF ToSet
  <1>3. Stored(ms) \subseteq Keys /\ R1 \subseteq Keys /\ R2 \subseteq Keys
    BY <1>1, <1>2 DEF Stored
  <1>4. /\ rest \in Unique(Keys) /\ ToSet(rest) = R2 \cap (Keys \ R1)
        /\ \A z, y : Before(rest, z, y) <=> z \in Keys \ R1 /\ y \in Keys \ R1 /\ Before(ms[2], z, y)
    BY <1>1, OnlyKeeps
  <1> HIDE DEF rest
  <1>5. /\ ms[1] \o rest \in Unique(Keys) /\ ToSet(ms[1] \o rest) = R1 \cup ToSet(rest)
        /\ \A z, y : Before(ms[1] \o rest, z, y) <=> \/ Before(ms[1], z, y) \/ Before(rest, z, y)
                                                     \/ z \in R1 /\ y \in ToSet(rest)
    <2>1. ToSet(ms[1]) \cap ToSet(rest) = {}
      BY <1>4
    <2> QED  BY <1>1, <1>4, <2>1, JoinKeeps
  <1>6. all \in Unique(Keys) /\ S \subseteq ToSet(all)
    <2>1. CASE face = "server"
      BY <1>3, <2>1, KeyOrderIsUnique DEF Keys
    <2>2. CASE face # "server"
      <3>1. ToSet(all) = R1 \cup R2
        BY <1>3, <1>4, <1>5, <2>2
      <3> QED  BY <1>5, <2>2, <3>1 DEF Stored
    <2> QED  BY <2>1, <2>2
  <1>7. Listing(ms) = Only(all, S)
    BY DEF Listing, rest
  <1>8. /\ Only(all, S) \in Unique(Keys) /\ ToSet(Only(all, S)) = S
        /\ \A z, y : Before(Only(all, S), z, y) <=> z \in S /\ y \in S /\ Before(all, z, y)
    <2> HIDE DEF all, S
    <2>1. ToSet(all) \cap S = S
      BY <1>6
    <2>2. /\ Only(all, S) \in Unique(Keys) /\ ToSet(Only(all, S)) = ToSet(all) \cap S
          /\ \A z, y : Before(Only(all, S), z, y) <=> z \in S /\ y \in S /\ Before(all, z, y)
      BY <1>6, OnlyKeeps
    <2> QED  BY <2>1, <2>2
  <1>9. ASSUME NEW z \in S, NEW y \in S
        PROVE  Before(all, z, y) <=>
                 IF face = "server" THEN Before(KeyOrder, z, y)
                 ELSE \/ Before(ms[1], z, y)
                      \/ z \notin R1 /\ y \notin R1 /\ Before(ms[2], z, y)
                      \/ z \in R1 /\ y \in R2 \ R1
    <2>1. CASE face = "server"
      BY <2>1
    <2>2. CASE face # "server"
      BY <1>3, <1>4, <1>5, <2>2
    <2> QED  BY <2>1, <2>2
  <1>10. ASSUME NEW z, NEW y
         PROVE  Before(Listing(ms), z, y) <=>
                  /\ z \in S /\ y \in S
                  /\ IF face = "server" THEN Before(KeyOrder, z, y)
                     ELSE \/ Before(ms[1], z, y)
                          \/ z \notin R1 /\ y \notin R1 /\ Before(ms[2], z, y)
                          \/ z \in R1 /\ y \in R2 \ R1
    <2> HIDE DEF all, S, R1, R2
    <2> QED  BY <1>7, <1>8, <1>9
  <1> HIDE DEF all
  <1> QED  BY <1>3, <1>7, <1>8, <1>10

LEMMA AppendKeeps ==
  ASSUME NEW s \in Unique(Keys), NEW k \in Keys, ~Contains(s, k)
  PROVE  /\ Append(s, k) \in Unique(Keys) /\ ToSet(Append(s, k)) = ToSet(s) \cup {k}
         /\ \A z, y : Before(Append(s, k), z, y) <=> Before(s, z, y) \/ (z \in ToSet(s) /\ y = k)
  <1>1. s \in Seq(Keys) /\ k \notin ToSet(s)
    <2>1. s \in Seq(Keys) /\ DOMAIN s = 1 .. Len(s)
      BY DEF Unique
    <2> QED  BY <2>1 DEF ToSet, Contains
  <1>2. <<k>> \in Unique(Keys) /\ ToSet(<<k>>) = {k} /\ \A z, y : ~ Before(<<k>>, z, y)
    BY DEF Unique, ToSet, Before
  <1>3. Append(s, k) = s \o <<k>>
    BY <1>1
  <1> DEFINE one == <<k>>
             new == Append(s, k)
  <1> HIDE DEF one, new
  <1>4. new = s \o one /\ ToSet(s) \cap ToSet(one) = {}
    BY <1>1, <1>2, <1>3 DEF one, new
  <1>5. /\ new \in Unique(Keys) /\ ToSet(new) = ToSet(s) \cup ToSet(one)
        /\ \A z, y : Before(new, z, y) <=> Before(s, z, y) \/ Before(one, z, y) \/ (z \in ToSet(s) /\ y \in ToSet(one))
    BY <1>2, <1>4, JoinKeeps DEF one
  <1>6. ToSet(one) = {k} /\ \A z, y : ~ Before(one, z, y)
    BY <1>2 DEF one
  <1>7. /\ new \in Unique(Keys) /\ ToSet(new) = ToSet(s) \cup {k}
        /\ \A z, y : Before(new, z, y) <=> Before(s, z, y) \/ (z \in ToSet(s) /\ y = k)
    BY <1>5, <1>6
  <1> QED  BY <1>7 DEF new

(* The key added comes behind those of its map that are there already, and *)
(* another key behind all that it was behind.                              *)
LEMMA AddKeepsOrder ==
  ASSUME NEW ms \in [1 .. 2 -> Unique(Keys)], pattern \in Patterns, NEW k \in Keys, NEW i \in 1 .. 2,
         NEW new \in [1 .. 2 -> Unique(Keys)], \A j \in 1 .. 2 : j # i => new[j] = ms[j],
         ToSet(new[i]) = ToSet(ms[i]) \cup {k},
         \A z, y : Before(new[i], z, y) <=> Before(ms[i], z, y) \/ (z \in ToSet(ms[i]) /\ y = k)
  PROVE  \A y \in ToSet(Listing(ms)) \cap ToSet(Listing(new)) :
           \A z : y # k /\ Before(Listing(ms), z, y) => Before(Listing(new), z, y)
  <1>1. /\ \A j \in 1 .. 2 : ToSet(new[j]) = IF j = i THEN ToSet(ms[j]) \cup {k} ELSE ToSet(ms[j])
        /\ \A j \in 1 .. 2 : \A z, y : Before(ms[j], z, y) => Before(new[j], z, y)
    OBVIOUS
  <1>2. ASSUME NEW y \in ToSet(Listing(ms)) \cap ToSet(Listing(new)), NEW z, y # k, Before(Listing(ms), z, y)
        PROVE  Before(Listing(new), z, y)
    <2>1. Stored(ms) \subseteq Stored(new) /\ 1 \in 1 .. 2 /\ 2 \in 1 .. 2
      BY <1>1 DEF Stored
    <2>2. CASE face = "server"
      BY <1>1, <1>2, <2>1, <2>2, ListingIs
    <2>3. CASE face # "server"
      <3>1. /\ z \in Stored(ms) \cap Matching[pattern] /\ y \in Stored(ms) \cap Matching[pattern]
            /\ \/ Before(ms[1], z, y)
               \/ z \notin ToSet(ms[1]) /\ y \notin ToSet(ms[1]) /\ Before(ms[2], z, y)
               \/ z \in ToSet(ms[1]) /\ y \in ToSet(ms[2]) \ ToSet(ms[1])
        BY <1>2, <2>3, ListingIs
      <3>2. \/ Before(new[1], z, y)
            \/ z \notin ToSet(new[1]) /\ y \notin ToSet(new[1]) /\ Before(new[2], z, y)
            \/ z \in ToSet(new[1]) /\ y \in ToSet(new[2]) \ ToSet(new[1])
        <4>1. Before(ms[2], z, y) => y \in ToSet(ms[2])
          <5>1. ms[2] \in Seq(Keys) /\ DOMAIN ms[2] = 1 .. Len(ms[2])
            BY DEF Unique
          <5> QED  BY <5>1 DEF Before, ToSet
        <4> QED  BY <1>1, <1>2, <2>1, <3>1, <4>1
      <3> QED  BY <1>1, <2>1, <2>3, <3>1, <3>2, ListingIs
    <2> QED  BY <2>2, <2>3
  <1> QED  BY <1>2

(* A key that no map has moves none of those listed, and SCAN's order is   *)
(* fixed.                                                                  *)
LEMMA NewKeysLeaveTheRest ==
  ASSUME NEW ms \in [1 .. 2 -> Unique(Keys)], pattern \in Patterns, NEW k \in Keys, NEW i \in 1 .. 2,
         NEW new \in [1 .. 2 -> Unique(Keys)], \A j \in 1 .. 2 : j # i => new[j] = ms[j],
         ToSet(new[i]) = ToSet(ms[i]) \cup {k},
         \A z, y : Before(new[i], z, y) <=> Before(ms[i], z, y) \/ (z \in ToSet(ms[i]) /\ y = k),
         face = "server" \/ k \notin Stored(ms)
  PROVE  Only(Listing(new), ToSet(Listing(ms))) = Listing(ms)
  <1> DEFINE S == Stored(ms) \cap Matching[pattern]
             o == Only(Listing(new), S)
  <1>1. /\ 1 \in 1 .. 2 /\ 2 \in 1 .. 2
        /\ \A j \in 1 .. 2 : ToSet(new[j]) = IF j = i THEN ToSet(ms[j]) \cup {k} ELSE ToSet(ms[j])
    OBVIOUS
  <1>2. S \subseteq Stored(new) \cap Matching[pattern]
    BY <1>1 DEF Stored
  <1>3. Listing(ms) \in Unique(Keys) /\ Listing(new) \in Unique(Keys) /\ ToSet(Listing(ms)) = S
    BY ListingIs
  <1>4. ToSet(Listing(new)) \cap S = S
    BY <1>2, ListingIs
  <1>5. /\ o \in Unique(Keys) /\ ToSet(o) = S
        /\ \A z, y : Before(o, z, y) <=> z \in S /\ y \in S /\ Before(Listing(new), z, y)
    <2> HIDE DEF S
    <2>1. /\ o \in Unique(Keys) /\ ToSet(o) = ToSet(Listing(new)) \cap S
          /\ \A z, y : Before(o, z, y) <=> z \in S /\ y \in S /\ Before(Listing(new), z, y)
      BY <1>3, OnlyKeeps
    <2> QED  BY <1>4, <2>1
  <1>6. ASSUME NEW z \in S, NEW y \in S
        PROVE  Before(Listing(new), z, y) <=> Before(Listing(ms), z, y)
    <2>1. CASE face = "server"
      BY <1>2, <2>1, ListingIs
    <2>2. CASE face # "server"
      <3>1. z # k /\ y # k
        BY <2>2
      <3>2. \A j \in 1 .. 2 : /\ z \in ToSet(new[j]) <=> z \in ToSet(ms[j])
                              /\ y \in ToSet(new[j]) <=> y \in ToSet(ms[j])
                              /\ Before(new[j], z, y) <=> Before(ms[j], z, y)
        BY <3>1
      <3>3. z \in Stored(new) \cap Matching[pattern] /\ y \in Stored(new) \cap Matching[pattern]
        BY <1>2
      <3>4. Before(Listing(new), z, y) <=>
              \/ Before(new[1], z, y)
              \/ z \notin ToSet(new[1]) /\ y \notin ToSet(new[1]) /\ Before(new[2], z, y)
              \/ z \in ToSet(new[1]) /\ y \in ToSet(new[2]) \ ToSet(new[1])
        BY <2>2, <3>3, ListingIs
      <3>5. Before(Listing(ms), z, y) <=>
              \/ Before(ms[1], z, y)
              \/ z \notin ToSet(ms[1]) /\ y \notin ToSet(ms[1]) /\ Before(ms[2], z, y)
              \/ z \in ToSet(ms[1]) /\ y \in ToSet(ms[2]) \ ToSet(ms[1])
        BY <2>2, ListingIs
      <3> QED  BY <1>1, <3>2, <3>4, <3>5
    <2> QED  BY <2>1, <2>2
  <1>7. \A z, y : Before(Listing(ms), z, y) => z \in S /\ y \in S
    BY ListingIs
  <1> HIDE DEF S, o
  <1>8. \A z, y : Before(o, z, y) <=> Before(Listing(ms), z, y)
    BY <1>5, <1>6, <1>7
  <1>9. o = Listing(ms)
    BY <1>3, <1>5, <1>8, SameOrderSameList
  <1> QED  BY <1>3, <1>9 DEF o

(* A key is behind all it was behind, but the key deleted.                 *)
LEMMA DeleteKeepsOrder ==
  ASSUME NEW ms \in [1 .. 2 -> Unique(Keys)], pattern \in Patterns, NEW k \in Keys, NEW I,
         NEW new, new = [i \in 1 .. 2 |-> IF i \in I THEN Only(ms[i], Keys \ {k}) ELSE ms[i]]
  PROVE  /\ new \in [1 .. 2 -> Unique(Keys)]
         /\ \A y \in ToSet(Listing(ms)) \cap ToSet(Listing(new)) :
              \A z : z # k /\ Before(Listing(ms), z, y) => Before(Listing(new), z, y)
  <1>1. ASSUME NEW i \in 1 .. 2
        PROVE  /\ new[i] \in Unique(Keys) /\ ToSet(new[i]) \subseteq ToSet(ms[i])
               /\ \A z : z # k => (z \in ToSet(new[i]) <=> z \in ToSet(ms[i]))
               /\ \A z, y : z # k /\ y \in ToSet(new[i]) /\ Before(ms[i], z, y) => Before(new[i], z, y)
               /\ \A z, y : Before(ms[i], z, y) => z \in ToSet(ms[i]) /\ y \in ToSet(ms[i])
    <2>1. ms[i] \in Unique(Keys) /\ ms[i] \in Seq(Keys) /\ DOMAIN ms[i] = 1 .. Len(ms[i])
      BY DEF Unique
    <2>2. ToSet(ms[i]) \subseteq Keys /\ \A z, y : Before(ms[i], z, y) => z \in ToSet(ms[i]) /\ y \in ToSet(ms[i])
      BY <2>1 DEF ToSet, Before
    <2>3. CASE i \in I
      <3>1. /\ Only(ms[i], Keys \ {k}) \in Unique(Keys)
            /\ ToSet(Only(ms[i], Keys \ {k})) = ToSet(ms[i]) \cap (Keys \ {k})
            /\ \A z, y : Before(Only(ms[i], Keys \ {k}), z, y) <=>
                 z \in Keys \ {k} /\ y \in Keys \ {k} /\ Before(ms[i], z, y)
        BY <2>1, OnlyKeeps
      <3>2. new[i] = Only(ms[i], Keys \ {k})
        BY <2>3
      <3> QED  BY <2>2, <3>1, <3>2
    <2>4. CASE i \notin I
      BY <2>1, <2>2, <2>4
    <2> QED  BY <2>3, <2>4
  <1>2. new \in [1 .. 2 -> Unique(Keys)] /\ 1 \in 1 .. 2 /\ 2 \in 1 .. 2
    <2>1. new = [i \in 1 .. 2 |-> new[i]]
      OBVIOUS
    <2> QED  BY <1>1, <2>1
  <1>3. ASSUME NEW y \in ToSet(Listing(ms)) \cap ToSet(Listing(new)), NEW z, z # k, Before(Listing(ms), z, y)
        PROVE  Before(Listing(new), z, y)
    <2>1. y \in Stored(new) \cap Matching[pattern] /\ y \in Stored(ms) \cap Matching[pattern]
      BY <1>2, ListingIs
    <2>2. z \in Stored(ms) \cap Matching[pattern]
      BY <1>3, ListingIs
    <2>3. z \in Stored(new) \cap Matching[pattern]
      BY <1>1, <1>2, <1>3, <2>2 DEF Stored
    <2>4. CASE face = "server"
      BY <1>2, <1>3, <2>1, <2>3, <2>4, ListingIs
    <2>5. CASE face # "server"
      <3>1. \/ Before(ms[1], z, y)
            \/ z \notin ToSet(ms[1]) /\ y \notin ToSet(ms[1]) /\ Before(ms[2], z, y)
            \/ z \in ToSet(ms[1]) /\ y \in ToSet(ms[2]) \ ToSet(ms[1])
        BY <1>3, <2>5, ListingIs
      <3>2. \/ Before(new[1], z, y)
            \/ z \notin ToSet(new[1]) /\ y \notin ToSet(new[1]) /\ Before(new[2], z, y)
            \/ z \in ToSet(new[1]) /\ y \in ToSet(new[2]) \ ToSet(new[1])
        <4>1. y \in ToSet(new[1]) \cup ToSet(new[2])
          BY <2>1 DEF Stored
        <4>2. CASE Before(ms[1], z, y)
          BY <1>1, <1>2, <1>3, <4>1, <4>2
        <4>3. CASE z \notin ToSet(ms[1]) /\ y \notin ToSet(ms[1]) /\ Before(ms[2], z, y)
          BY <1>1, <1>2, <1>3, <4>1, <4>3
        <4>4. CASE z \in ToSet(ms[1]) /\ y \in ToSet(ms[2]) \ ToSet(ms[1])
          BY <1>1, <1>2, <1>3, <4>1, <4>4
        <4> QED  BY <3>1, <4>2, <4>3, <4>4
      <3> QED  BY <1>2, <2>1, <2>3, <2>5, <3>2, ListingIs
    <2> QED  BY <2>4, <2>5
  <1> QED  BY <1>2, <1>3
----------------------------------------------------------------------------
(* The keys an iteration has missed are no more than the writes that moved *)
(* keys: those that have been there since it began and are listed among    *)
(* the first that its cursor counts, but were not returned.                *)

Place == IF cursor = NaN THEN 0 ELSE cursor
Missed == (First(Listing(maps), Place) \cap lasting) \ returned
ScanInv ==
  /\ maps \in [1 .. 2 -> Unique(Keys)]
  /\ face \in {"server", "adapter"} /\ pattern \in Patterns
  /\ cursor \in Nat \cup {NaN, Nil} /\ shifts \in Nat
  /\ lasting \subseteq Stored(maps) /\ returned \subseteq Matching[pattern]
  /\ cursor # Nil => IsFiniteSet(Missed) /\ Cardinality(Missed) <= shifts

LEMMA MissedIsFinite ==
  ASSUME NEW ms \in [1 .. 2 -> Unique(Keys)], pattern \in Patterns, NEW c, NEW S
  PROVE  IsFiniteSet(First(Listing(ms), c) \cap S)
  <1> DEFINE s == Listing(ms)
  <1>1. s \in Seq(Keys) /\ Len(s) \in Nat
    BY ListingIs DEF Unique
  <1>2. IsFiniteSet(1 .. Len(s))
    BY <1>1, FS_Interval
  <1> DEFINE f == [j \in 1 .. Len(s) |-> s[j]]
             T == {s[j] : j \in 1 .. Len(s)}
  <1>3. f \in Surjection(1 .. Len(s), T)
    BY DEF Surjection
  <1>4. IsFiniteSet(T)
    <2> HIDE DEF f, T
    <2> QED  BY <1>2, <1>3, FS_Surjection
  <1>5. First(s, c) \cap S \in SUBSET T
    BY DEF First
  <1> HIDE DEF T
  <1> QED  BY <1>4, <1>5, FS_Subset

LEMMA InitScan ==
  Init => ScanInv
  <1> SUFFICES ASSUME Init
               PROVE  ScanInv
    OBVIOUS
  <1>1. maps \in [1 .. 2 -> Unique(Keys)]
    <2>1. ASSUME NEW s \in UNION {SetToSeqs(S) : S \in SUBSET Keys}
          PROVE  s \in Unique(Keys)
      <3>1. PICK S \in SUBSET Keys : s \in SetToSeqs(S)
        OBVIOUS
      <3>2. s \in [1 .. Cardinality(S) -> S] /\ \A i, j \in 1 .. Cardinality(S) : i # j => s[i] # s[j]
        BY <3>1 DEF SetToSeqs
      <3>3. IsFiniteSet(S)
        <4>1. IsFiniteSet(Keys)
          <5>1. KeyOrder \in Surjection(1 .. Len(KeyOrder), Keys) /\ Len(KeyOrder) \in Nat
            <6>1. KeyOrder \in Seq(Keys) /\ DOMAIN KeyOrder = 1 .. Len(KeyOrder)
              BY KeyOrderIsUnique DEF Unique
            <6> QED  BY <6>1 DEF Surjection, Keys, ToSet
          <5>2. IsFiniteSet(1 .. Len(KeyOrder))
            BY <5>1, FS_Interval
          <5> QED  BY <5>1, <5>2, FS_Surjection
        <4> QED  BY <4>1, FS_Subset
      <3>4. Cardinality(S) \in Nat
        BY <3>3, FS_CardinalityType
      <3>5. s \in Seq(Keys) /\ Len(s) = Cardinality(S)
        BY <3>2, <3>4
      <3> QED  BY <3>2, <3>5 DEF Unique
    <2> QED  BY <2>1 DEF Init
  <1> QED  BY <1>1 DEF Init, ScanInv, Stored

LEMMA WriteKeeps ==
  ASSUME ScanInv, NEW ms \in [1 .. 2 -> Unique(Keys)], Write(ms), NEW k,
         \/ \A y \in ToSet(Listing(maps)) \cap ToSet(Listing(ms)) :
              \A z : y # k /\ Before(Listing(maps), z, y) => Before(Listing(ms), z, y)
         \/ \A y \in ToSet(Listing(maps)) \cap ToSet(Listing(ms)) :
              \A z : z # k /\ Before(Listing(maps), z, y) => Before(Listing(ms), z, y)
  PROVE  ScanInv' /\ cursor' = cursor /\ returned' = returned
  <1> DEFINE old == Listing(maps)
             new == Listing(ms)
             F == First(new, Place)
  <1>1. /\ maps' = ms /\ lasting' = lasting \cap Stored(ms)
        /\ shifts' = (IF cursor # Nil /\ Only(new, ToSet(old)) # old THEN shifts + 1 ELSE shifts)
        /\ face' = face /\ pattern' = pattern /\ cursor' = cursor /\ returned' = returned
    BY DEF Write, iteration
  <1>2. /\ Listing(maps)' = new /\ Stored(maps)' = Stored(ms) /\ Place' = Place
        /\ Missed' = (F \cap lasting') \ returned
    <2>1. Listing(maps)' = new
      BY <1>1 DEF Listing, Stored
    <2>2. Stored(maps)' = Stored(ms) /\ Place' = Place
      BY <1>1 DEF Stored, Place
    <2> QED  BY <1>1, <2>1, <2>2 DEF Missed, First
  <1>3. /\ old \in Unique(Keys) /\ ToSet(old) = Stored(maps) \cap Matching[pattern]
        /\ new \in Unique(Keys) /\ ToSet(new) = Stored(ms) \cap Matching[pattern]
    BY ListingIs DEF ScanInv
  <1>4. Missed' \subseteq (F \cap ToSet(old) \cap lasting) \ returned
    <2>1. DOMAIN new = 1 .. Len(new)
      BY <1>3 DEF Unique
    <2>2. F \subseteq ToSet(new)
      BY <2>1 DEF First, ToSet
    <2> QED  BY <1>1, <1>2, <1>3, <2>2 DEF ScanInv
  <1>5. ASSUME cursor # Nil
        PROVE  IsFiniteSet(Missed') /\ Cardinality(Missed') <= shifts'
    <2>0. Place \in Nat
      BY <1>5 DEF ScanInv, Place
    <2>1. IsFiniteSet(Missed) /\ Cardinality(Missed) <= shifts /\ Cardinality(Missed) \in Nat
      BY <1>5, FS_CardinalityType DEF ScanInv
    <2>2. CASE Only(new, ToSet(old)) = old
      <3>1. F \cap ToSet(old) \subseteq First(old, Place)
        BY <1>3, <2>0, <2>2, PartsKeepFirst
      <3>2. Missed' \in SUBSET Missed
        BY <1>4, <3>1 DEF Missed
      <3>3. IsFiniteSet(Missed') /\ Cardinality(Missed') <= Cardinality(Missed)
        BY <2>1, <3>2, FS_Subset
      <3>4. shifts' = shifts /\ shifts \in Nat /\ Cardinality(Missed') \in Nat
        BY <1>1, <2>2, <3>3, FS_CardinalityType DEF ScanInv
      <3> QED  BY <2>1, <3>3, <3>4
    <2>3. CASE Only(new, ToSet(old)) # old
      <3>1. PICK x : F \cap ToSet(old) \subseteq First(old, Place) \cup {x}
        BY <1>3, <2>0, OneComesForward
      <3>2. Missed' \in SUBSET (Missed \cup {x})
        BY <1>4, <3>1 DEF Missed
      <3>3. IsFiniteSet(Missed \cup {x}) /\ Cardinality(Missed \cup {x}) <= Cardinality(Missed) + 1
        BY <2>1, FS_AddElement
      <3>4. IsFiniteSet(Missed') /\ Cardinality(Missed') <= Cardinality(Missed \cup {x})
        BY <3>2, <3>3, FS_Subset
      <3>5. /\ shifts' = shifts + 1 /\ shifts \in Nat
            /\ Cardinality(Missed') \in Nat /\ Cardinality(Missed \cup {x}) \in Nat
        BY <1>1, <1>5, <2>3, <3>3, <3>4, FS_CardinalityType DEF ScanInv
      <3> QED  BY <2>1, <3>3, <3>4, <3>5
    <2> QED  BY <2>2, <2>3
  <1>6. shifts' \in Nat
    BY <1>1 DEF ScanInv
  <1>7. lasting' \subseteq Stored(maps)'
    BY <1>1, <1>2
  <1>8. (returned \subseteq Matching[pattern])'
    BY <1>1 DEF ScanInv
  <1> QED  BY <1>1, <1>5, <1>6, <1>7, <1>8 DEF ScanInv

LEMMA SliceIs ==
  ASSUME NEW A, NEW s \in Seq(A), NEW m \in Nat, NEW e \in Nat, e <= Len(s)
  PROVE  /\ DOMAIN SubSeq(s, m + 1, e) = 1 .. e - m
         /\ \A j \in 1 .. e - m : SubSeq(s, m + 1, e)[j] = s[m + j] /\ m + j \in 1 .. Len(s)
  <1>1. Len(s) \in Nat
    OBVIOUS
  <1>2. DOMAIN SubSeq(s, m + 1, e) = 1 .. e - m
    BY <1>1
  <1>3. ASSUME NEW j \in 1 .. e - m
        PROVE  SubSeq(s, m + 1, e)[j] = s[m + j] /\ m + j \in 1 .. Len(s)
    <2>1. m + j \in 1 .. Len(s) /\ (m + 1) + j - 1 = m + j
      BY <1>1
    <2> QED  BY <1>1, <2>1
  <1> QED  BY <1>2, <1>3

(* The next batch begins where the last one ended.                         *)
LEMMA CallKeeps ==
  ASSUME ScanInv, NEW n \in Counts, ScanCall(n)
  PROVE  /\ ScanInv'
         /\ cursor' = Nil /\ ~(cursor \in {0, NaN} /\ face = "server" /\ ScanCall(0)) =>
              (lasting \cap Matching[pattern]) \ returned' \subseteq Missed
  <1> DEFINE keys == Listing(maps)
             len == Len(keys)
             count == CountOf(n)
             next == NextCursor(Place, count, len)
             batch == ToSet(Batch(keys, Place, count))
  <1>1. /\ cursor # Nil /\ cursor' = (IF next = 0 THEN Nil ELSE next) /\ returned' = returned \cup batch
        /\ maps' = maps /\ face' = face /\ pattern' = pattern /\ lasting' = lasting /\ shifts' = shifts
    BY DEF ScanCall, Place
  <1>2. Place \in Nat /\ count \in Nat \cup {NaN} /\ NaN \notin Int /\ Nil \notin Int \cup {NaN} /\ shifts \in Nat
    BY <1>1, ScanAssumption DEF ScanInv, Place, CountOf
  <1>3. /\ keys \in Seq(Keys) /\ len \in Nat /\ DOMAIN keys = 1 .. len
        /\ ToSet(keys) = Stored(maps) \cap Matching[pattern]
    BY ListingIs DEF ScanInv, Unique
  <1> HIDE DEF keys, len, count, batch
  <1>4. IsFiniteSet(Missed) /\ Cardinality(Missed) <= shifts /\ Cardinality(Missed) \in Nat
    BY <1>1, FS_CardinalityType DEF ScanInv
  <1>5. CASE count = NaN
    <2>1. batch = {} /\ next = NaN
      BY <1>5 DEF batch, Batch, NextCursor, ToSet
    <2>2. Listing(maps)' = Listing(maps) /\ Place' = 0 /\ returned' = returned /\ cursor' = NaN
      <3>1. next # 0
        BY <1>2, <2>1
      <3> QED  BY <1>1, <2>1, <3>1 DEF Listing, Stored, Place
    <2>3. Missed' = {}
      <3>1. \A j \in 1 .. len : ~ (j <= 0)
        BY <1>3
      <3> QED  BY <2>2, <3>1 DEF Missed, First, len, keys
    <2>4. IsFiniteSet({}) /\ Cardinality({}) = 0
      BY FS_EmptySet
    <2>5. cursor' # Nil
      BY <1>2, <2>2
    <2>6. ScanInv'
      BY <1>1, <1>2, <2>2, <2>3, <2>4 DEF ScanInv, Stored
    <2> QED  BY <2>5, <2>6
  <1>6. CASE count # NaN
    <2> DEFINE e == IF Place + count <= len THEN Place + count ELSE len
    <2>0. count \in Nat /\ e \in Nat /\ e <= len
      BY <1>2, <1>3, <1>6
    <2>1. Min({Place + count, len}) = e
      <3>1. {Place + count, len} \subseteq Int /\ e \in {Place + count, len} /\ \A q \in {Place + count, len} : e <= q
        BY <1>2, <1>3, <2>0
      <3> QED  BY <3>1, MinIs
    <2> DEFINE b == SubSeq(keys, Place + 1, e)
    <2>2. /\ batch = ToSet(b) /\ DOMAIN b = 1 .. e - Place
          /\ \A j \in 1 .. e - Place : b[j] = keys[Place + j] /\ Place + j \in 1 .. len
      <3>1. batch = ToSet(b)
        BY <1>6, <2>1 DEF batch, Batch, len
      <3>2. Len(keys) = len
        BY DEF len
      <3> HIDE DEF e, len
      <3> QED  BY <1>2, <1>3, <2>0, <3>1, <3>2, SliceIs
    <2>3. Place \in Nat /\ e \in Nat
      BY <1>2, <2>0
    <2> HIDE DEF b, e
    <2>4. \A j \in 1 .. len : Place < j /\ j <= e => keys[j] \in batch
      <3> SUFFICES ASSUME NEW j \in 1 .. len, Place < j, j <= e
                   PROVE  keys[j] \in batch
        OBVIOUS
      <3>1. j - Place \in 1 .. e - Place /\ Place + (j - Place) = j
        BY <2>3
      <3> QED  BY <2>2, <3>1 DEF ToSet
    <2>5. batch \subseteq ToSet(keys)
      BY <1>3, <2>2 DEF ToSet
    <2>6. returned' \subseteq Matching[pattern]
      BY <1>1, <1>3, <2>5 DEF ScanInv
    <2>7. next = IF Place + count >= len THEN 0 ELSE Place + count
      BY <1>6 DEF NextCursor
    <2>8. CASE next # 0
      <3>1. cursor' = Place + count /\ Place + count < len /\ Place + count \in Nat
        BY <1>1, <1>2, <1>3, <2>0, <2>7, <2>8
      <3>2. cursor' # Nil /\ cursor' # NaN /\ cursor' \in Nat
        BY <1>2, <3>1
      <3>3. Place' = Place + count /\ Listing(maps)' = keys
        BY <1>1, <3>1, <3>2 DEF Place, Listing, Stored, keys
      <3>4. Missed' \in SUBSET Missed
        <4> SUFFICES ASSUME NEW y, y \in Missed'
                     PROVE  y \in Missed
          OBVIOUS
        <4>1. PICK j \in 1 .. len : j <= Place + count /\ y = keys[j]
          BY <3>3 DEF Missed, First, len
        <4>2. y \in lasting /\ y \notin returned /\ y \notin batch
          BY <1>1 DEF Missed
        <4>3. j <= Place
          BY <1>2, <2>0, <2>4, <3>1, <4>1, <4>2 DEF e
        <4> QED  BY <4>1, <4>2, <4>3 DEF Missed, First, keys, len
      <3>5. IsFiniteSet(Missed') /\ Cardinality(Missed') <= Cardinality(Missed)
        BY <1>4, <3>4, FS_Subset
      <3>6. Cardinality(Missed') \in Nat
        BY <3>5, FS_CardinalityType
      <3>7. Cardinality(Missed') <= shifts'
        BY <1>1, <1>2, <1>4, <3>5, <3>6
      <3>8. ScanInv'
        BY <1>1, <2>6, <3>2, <3>5, <3>7 DEF ScanInv, Stored
      <3> QED  BY <3>2, <3>8
    <2>9. CASE next = 0
      <3>1. cursor' = Nil
        BY <1>1, <2>9
      <3>2. ScanInv'
        BY <1>1, <2>6, <3>1 DEF ScanInv, Stored
      <3>3. ASSUME ~(cursor \in {0, NaN} /\ face = "server" /\ ScanCall(0))
            PROVE  (lasting \cap Matching[pattern]) \ returned' \subseteq Missed
        <4>1. Place + count >= len
          <5> SUFFICES ASSUME ~ (Place + count >= len)
                       PROVE  FALSE
            OBVIOUS
          <5>1. Place = 0 /\ count = 0
            BY <1>2, <2>0, <2>7, <2>9
          <5>2. cursor \in {0, NaN}
            BY <5>1 DEF Place
          <5>3. face # "adapter" /\ n = 0
            BY <5>1 DEF count, CountOf
          <5>4. face = "server"
            BY <5>3 DEF ScanInv
          <5> QED  BY <3>3, <5>2, <5>3, <5>4
        <4>2. e = len
          BY <1>2, <1>3, <2>0, <4>1 DEF e
        <4> SUFFICES ASSUME NEW y, y \in lasting, y \in Matching[pattern], y \notin returned'
                     PROVE  y \in Missed
          OBVIOUS
        <4>3. PICK j \in 1 .. len : y = keys[j]
          <5>1. y \in ToSet(keys)
            BY <1>3 DEF ScanInv
          <5> QED  BY <1>3, <5>1 DEF ToSet
        <4>4. y \notin batch /\ y \notin returned
          BY <1>1
        <4>5. j <= Place
          BY <1>2, <1>3, <2>4, <4>2, <4>3, <4>4
        <4> QED  BY <4>3, <4>4, <4>5 DEF Missed, First, keys, len
      <3> QED  BY <3>2, <3>3
    <2> QED  BY <2>8, <2>9
  <1> QED  BY <1>5, <1>6

LEMMA StepKeepsScanInv ==
  ASSUME ScanInv, [Next]_vars
  PROVE  /\ ScanInv'
         /\ cursor # Nil /\ cursor' = Nil /\ ~(cursor \in {0, NaN} /\ face = "server" /\ ScanCall(0)) =>
              (lasting \cap Matching[pattern]) \ returned' \subseteq Missed
  <1>1. ASSUME NEW f \in {"server", "adapter"}, NEW p \in Patterns, Begin(f, p)
        PROVE  ScanInv' /\ cursor = Nil
    <2>1. /\ maps' = maps /\ face' \in {"server", "adapter"} /\ pattern' \in Patterns /\ cursor' = 0
          /\ returned' = {} /\ lasting' = Stored(maps) /\ shifts' = 0 /\ cursor = Nil
      BY <1>1 DEF Begin
    <2>2. Stored(maps)' = Stored(maps) /\ Place' = 0
      BY <2>1, ScanAssumption DEF Stored, Place
    <2>3. Missed' = {}
      <3>1. First(Listing(maps)', 0) = {}
        <4>1. \A n : \A j \in 1 .. n : ~ (j <= 0)
          OBVIOUS
        <4> QED  BY <4>1 DEF First
      <3>2. Missed' = (First(Listing(maps)', Place') \cap lasting') \ returned'
        BY DEF Missed, First
      <3> QED  BY <2>2, <3>1, <3>2
    <2>4. IsFiniteSet({}) /\ Cardinality({}) = 0
      BY FS_EmptySet
    <2> QED  BY <2>1, <2>2, <2>3, <2>4 DEF ScanInv
  <1>2. ASSUME NEW k \in Keys, NEW i \in 1 .. 2, Add(k, i)
        PROVE  ScanInv' /\ cursor' = cursor
    <2> DEFINE new == [maps EXCEPT ![i] = Append(@, k)]
    <2>1. ~Contains(maps[i], k) /\ Write(new)
      BY <1>2 DEF Add
    <2>2. /\ new \in [1 .. 2 -> Unique(Keys)]
          /\ \A y \in ToSet(Listing(maps)) \cap ToSet(Listing(new)) :
               \A z : y # k /\ Before(Listing(maps), z, y) => Before(Listing(new), z, y)
      <3>1. maps \in [1 .. 2 -> Unique(Keys)] /\ pattern \in Patterns
        BY DEF ScanInv
      <3> DEFINE s == maps[i]
                 t == Append(s, k)
      <3>2. s \in Unique(Keys)
        BY <3>1
      <3> HIDE DEF s
      <3>3. /\ t \in Unique(Keys) /\ ToSet(t) = ToSet(s) \cup {k}
            /\ \A z, y : Before(t, z, y) <=> Before(s, z, y) \/ (z \in ToSet(s) /\ y = k)
        BY <2>1, <3>2, AppendKeeps DEF s
      <3> HIDE DEF t
      <3>4. new = [maps EXCEPT ![i] = t]
        BY DEF s, t
      <3> HIDE DEF new
      <3>5. new \in [1 .. 2 -> Unique(Keys)] /\ new[i] = t /\ \A j \in 1 .. 2 : j # i => new[j] = maps[j]
        BY <3>1, <3>3, <3>4
      <3>6. \A y \in ToSet(Listing(maps)) \cap ToSet(Listing(new)) :
              \A z : y # k /\ Before(Listing(maps), z, y) => Before(Listing(new), z, y)
        BY <3>1, <3>3, <3>5, AddKeepsOrder DEF s
      <3> QED  BY <3>5, <3>6
    <2> HIDE DEF new
    <2> QED  BY <2>1, <2>2, WriteKeeps
  <1>3. ASSUME NEW k \in Keys, NEW I \in {{1}, {2}, {1, 2}}, Delete(k, I)
        PROVE  ScanInv' /\ cursor' = cursor
    <2> DEFINE new == [i \in 1 .. 2 |-> IF i \in I THEN Only(maps[i], Keys \ {k}) ELSE maps[i]]
    <2>1. Write(new)
      BY <1>3 DEF Delete
    <2>2. /\ new \in [1 .. 2 -> Unique(Keys)]
          /\ \A y \in ToSet(Listing(maps)) \cap ToSet(Listing(new)) :
               \A z : z # k /\ Before(Listing(maps), z, y) => Before(Listing(new), z, y)
      <3>1. /\ maps \in [1 .. 2 -> Unique(Keys)] /\ pattern \in Patterns
            /\ new = [i \in 1 .. 2 |-> IF i \in I THEN Only(maps[i], Keys \ {k}) ELSE maps[i]]
        BY DEF ScanInv
      <3> HIDE DEF new
      <3> QED  BY <3>1, DeleteKeepsOrder
    <2> HIDE DEF new
    <2> QED  BY <2>1, <2>2, WriteKeeps
  <1>4. CASE UNCHANGED vars
    <2>1. /\ maps' = maps /\ face' = face /\ pattern' = pattern /\ cursor' = cursor
          /\ returned' = returned /\ lasting' = lasting /\ shifts' = shifts
      BY <1>4 DEF vars, iteration
    <2>2. Listing(maps)' = Listing(maps) /\ Stored(maps)' = Stored(maps) /\ Place' = Place
      BY <2>1 DEF Listing, Stored, Place
    <2>3. Missed' = Missed
      BY <2>1, <2>2 DEF Missed, First
    <2> QED  BY <2>1, <2>2, <2>3 DEF ScanInv
  <1>5. CASE Next
    BY <1>1, <1>2, <1>3, <1>5, CallKeeps DEF Next, Iterate
  <1> QED  BY <1>4, <1>5

(* MissesAreExplained for any keys, patterns, counts and number of writes: *)
(* calls of SCAN and scan that hand the cursor back return only keys their *)
(* pattern means (so globToRegex and patternToRegex convert it rightly),   *)
(* and miss no more of those that were there all the time than there were  *)
(* writes in between that moved keys.                                      *)
THEOREM MissesAreMoves == Spec => MissesAreExplained
  <1>1. ScanInv /\ [Next]_vars =>
          [/\ \A k \in returned' : Like[pattern'][k]
           /\ cursor # Nil /\ cursor' = Nil /\ ~(cursor \in {0, NaN} /\ face = "server" /\ ScanCall(0)) =>
                Cardinality({k \in lasting : Like[pattern][k]} \ returned') <= shifts]_vars
    <2> SUFFICES ASSUME ScanInv, [Next]_vars
                 PROVE  /\ \A k \in returned' : Like[pattern'][k]
                        /\ cursor # Nil /\ cursor' = Nil /\ ~(cursor \in {0, NaN} /\ face = "server" /\ ScanCall(0)) =>
                             Cardinality({k \in lasting : Like[pattern][k]} \ returned') <= shifts
      OBVIOUS
    <2>1. /\ ScanInv'
          /\ cursor # Nil /\ cursor' = Nil /\ ~(cursor \in {0, NaN} /\ face = "server" /\ ScanCall(0)) =>
               (lasting \cap Matching[pattern]) \ returned' \subseteq Missed
      BY StepKeepsScanInv
    <2>2. \A p \in Patterns, k \in Keys : k \in Matching[p] <=> Like[p][k]
      <3> TAKE p \in Patterns, k \in Keys
      <3>1. p \in Texts /\ k \in Texts
        BY ScanAssumption, KeyOrderIsUnique
      <3>2. Test(PatternToRegex(p), k) <=> Like[p][k]
        BY <3>1, TestIsLike
      <3>3. k \in Matching[p] <=> Test(PatternToRegex(p), k)
        BY DEF Matching
      <3> QED  BY <3>2, <3>3
    <2>3. \A k \in returned' : Like[pattern'][k]
      <3>1. pattern' \in Patterns /\ returned' \subseteq Matching[pattern']
        BY <2>1 DEF ScanInv
      <3>2. Matching[pattern'] \subseteq Keys
        BY <3>1, KeyOrderIsUnique
      <3> QED  BY <2>2, <3>1, <3>2
    <2>4. ASSUME cursor # Nil, cursor' = Nil, ~(cursor \in {0, NaN} /\ face = "server" /\ ScanCall(0))
          PROVE  Cardinality({k \in lasting : Like[pattern][k]} \ returned') <= shifts
      <3> DEFINE rest == {k \in lasting : Like[pattern][k]} \ returned'
      <3>1. pattern \in Patterns /\ lasting \subseteq Keys /\ shifts \in Nat
        BY ListingIs DEF ScanInv
      <3>2. rest = (lasting \cap Matching[pattern]) \ returned'
        BY <2>2, <3>1
      <3>3. rest \in SUBSET Missed
        BY <2>1, <2>4, <3>2
      <3>4. IsFiniteSet(Missed) /\ Cardinality(Missed) <= shifts
        BY <2>4 DEF ScanInv
      <3> HIDE DEF rest
      <3>5. IsFiniteSet(rest) /\ Cardinality(rest) <= Cardinality(Missed)
        BY <3>3, <3>4, FS_Subset
      <3>6. Cardinality(rest) \in Nat /\ Cardinality(Missed) \in Nat
        BY <3>4, <3>5, FS_CardinalityType
      <3>7. Cardinality(rest) <= shifts
        BY <3>1, <3>4, <3>5, <3>6
      <3> QED  BY <3>7 DEF rest
    <2> QED  BY <2>3, <2>4
  <1>2. Init => ScanInv
    BY InitScan
  <1>3. ScanInv /\ [Next]_vars => ScanInv'
    BY StepKeepsScanInv
  <1>4. [Next /\ changes' <= MaxChanges]_vars => [Next]_vars
    OBVIOUS
  <1> QED  BY <1>1, <1>2, <1>3, <1>4, PTL DEF Spec, MissesAreExplained

(* Which writes may cost an iteration a key: one that adds a key moves no  *)
(* other in the order of SCAN, nor in that of scan unless the key is there *)
(* already with another type.  So where nothing is deleted SCAN misses     *)
(* nothing, nor does scan where no key gets a second type.                 *)
THEOREM NewKeysMoveNothing ==
  Spec => [][\A k \in Keys, i \in 1 .. 2 :
               Add(k, i) /\ (face = "server" \/ k \notin Stored(maps)) => shifts' = shifts]_vars
  <1>1. ASSUME ScanInv, NEW k \in Keys, NEW i \in 1 .. 2, Add(k, i), face = "server" \/ k \notin Stored(maps)
        PROVE  shifts' = shifts
    <2> DEFINE s == maps[i]
               t == Append(s, k)
               new == [maps EXCEPT ![i] = t]
    <2>1. ~Contains(s, k) /\ Write(new)
      BY <1>1 DEF Add
    <2>2. maps \in [1 .. 2 -> Unique(Keys)] /\ pattern \in Patterns /\ s \in Unique(Keys)
      BY <1>1 DEF ScanInv
    <2> HIDE DEF s
    <2>3. /\ t \in Unique(Keys) /\ ToSet(t) = ToSet(s) \cup {k}
          /\ \A z, y : Before(t, z, y) <=> Before(s, z, y) \/ (z \in ToSet(s) /\ y = k)
      BY <2>1, <2>2, AppendKeeps
    <2> HIDE DEF t
    <2>4. new \in [1 .. 2 -> Unique(Keys)] /\ new[i] = t /\ \A j \in 1 .. 2 : j # i => new[j] = maps[j]
      BY <2>2, <2>3
    <2> HIDE DEF new
    <2>5. Only(Listing(new), ToSet(Listing(maps))) = Listing(maps)
      BY <1>1, <2>2, <2>3, <2>4, NewKeysLeaveTheRest DEF s
    <2> QED  BY <2>1, <2>5 DEF Write
  <1>2. ScanInv /\ [Next]_vars =>
          [\A k \in Keys, i \in 1 .. 2 :
             Add(k, i) /\ (face = "server" \/ k \notin Stored(maps)) => shifts' = shifts]_vars
    BY <1>1
  <1>3. Init => ScanInv
    BY InitScan
  <1>4. ScanInv /\ [Next]_vars => ScanInv'
    BY StepKeepsScanInv
  <1>5. [Next /\ changes' <= MaxChanges]_vars => [Next]_vars
    OBVIOUS
  <1> QED  BY <1>2, <1>3, <1>4, <1>5, PTL DEF Spec
=============================================================================

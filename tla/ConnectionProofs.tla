--------------------------- MODULE ConnectionProofs ---------------------------
(***************************************************************************)
(* For any number of clients, keys, databases and items, and however TCP   *)
(* cuts what they send: the connections of the JavaScript server are well  *)
(* formed, and keep what Sessions promises.                                *)
(*                                                                         *)
(* The argument.  What is buffered for a client and on its way to the      *)
(* server is one stream of alternating first and second parts (Aligned).   *)
(* It begins with a first part and ends with a second one, unless AUTH     *)
(* threw away the first part of an item that was not whole yet: then what  *)
(* is left of the item is items of its own, at the head of the stream, or  *)
(* the stream begins with a second part and nothing is ever parsed         *)
(* (Jammed).  Feed and the reader of lines take whole items off the front, *)
(* or leave the stream alone; so Whole of the stream, behind the pending   *)
(* commands, is the queue of Sessions.                                     *)
(***************************************************************************)
EXTENDS Connection, Counting, SequenceTheorems

Parts == PartsOf(Items)

FirstPart(s, i) == s[i].part = 2 - (i % 2)     \* i is odd, and so on
SecondPart(s, i) == s[i].part = 1 + (i % 2)

Aligned(s) ==
  IF Jammed(s) THEN Len(s) % 2 = 1 /\ \A i \in 1 .. Len(s) : SecondPart(s, i)
               ELSE Len(s) % 2 = 0 /\ \A i \in 1 .. Len(s) : FirstPart(s, i)

Frames ==
  /\ requirePass \in BOOLEAN /\ sent \in 0 .. MaxSent
  /\ text \in [Clients -> Seq(Parts)] /\ parser \in [Clients -> Seq(Parts)]
  /\ wire \in [Clients -> Seq(Parts)] /\ pending \in [Clients -> Seq(Items)]
  /\ socket \in [Clients -> {"open", "ended", "closed"}]
  /\ authenticated \in [Clients -> BOOLEAN]
  /\ dbIndex \in [Clients -> DbIndexes]
  /\ databases \in [DbIndexes -> [Keys -> Values \cup {Nil}] \cup {NoDb}]

ClientOK(c) ==
  /\ Aligned(Stream(c)) /\ Len(text[c]) <= 1
  /\ authenticated[c] => text[c] = <<>>
  /\ ~authenticated[c] => parser[c] = <<>> /\ pending[c] = <<>> /\ ~Jammed(Stream(c))
  /\ pending[c] # <<>> => socket[c] # "closed"
  /\ databases[dbIndex[c]] # NoDb

HeldKeys == {u \in DbIndexes \X Keys : Db(u[1])[u[2]] # Nil}

Inv ==
  /\ Frames
  /\ \A c \in Clients : ClientOK(c)
  /\ IsFiniteSet(HeldKeys)
  /\ answer \in Answers \cup {Nil}
----------------------------------------------------------------------------
(* Sequences cut in two. *)

Rest(s, n) == SubSeq(s, n + 1, Len(s))

LEMMA Cut ==
  ASSUME NEW S, NEW s \in Seq(S), NEW n \in 0 .. Len(s)
  PROVE  /\ SubSeq(s, 1, n) \in Seq(S) /\ Len(SubSeq(s, 1, n)) = n
         /\ \A i \in 1 .. n : SubSeq(s, 1, n)[i] = s[i]
         /\ Rest(s, n) \in Seq(S) /\ Len(Rest(s, n)) = Len(s) - n
         /\ \A i \in 1 .. Len(s) - n : Rest(s, n)[i] = s[n + i]
         /\ SubSeq(s, 1, n) \o Rest(s, n) = s
  <1>1. Len(s) \in Nat /\ \A i \in 1 .. Len(s) : s[i] \in S
    BY LenProperties, ElementOfSeq
  <1>2. /\ SubSeq(s, 1, n) \in Seq(S) /\ Len(SubSeq(s, 1, n)) = n
        /\ \A i \in 1 .. n : SubSeq(s, 1, n)[i] = s[i]
    BY <1>1, SubSeqProperties
  <1>3. /\ Rest(s, n) \in Seq(S) /\ Len(Rest(s, n)) = Len(s) - n
        /\ \A i \in 1 .. Len(s) - n : Rest(s, n)[i] = s[n + i]
    BY <1>1, SubSeqProperties DEF Rest
  <1>4. SubSeq(s, 1, n) \o Rest(s, n) = s
    <2> DEFINE a == SubSeq(s, 1, n)
               b == Rest(s, n)
    <2> HIDE DEF a, b
    <2>1. /\ a \o b \in Seq(S) /\ Len(a \o b) = Len(a) + Len(b)
          /\ \A i \in 1 .. Len(a) + Len(b) : (a \o b)[i] = IF i <= Len(a) THEN a[i] ELSE b[i - Len(a)]
      BY <1>2, <1>3, ConcatProperties DEF a, b
    <2>2. \A i \in 1 .. Len(s) : (a \o b)[i] = s[i]
      BY <1>1, <1>2, <1>3, <2>1 DEF a, b
    <2>3. Len(a \o b) = Len(s)
      BY <1>1, <1>2, <1>3, <2>1 DEF a, b
    <2>4. a \o b = s
      BY <2>1, <2>2, <2>3, SeqEqual
    <2> QED  BY <2>4 DEF a, b
  <1> QED  BY <1>2, <1>3, <1>4

(* What is left of two sequences when some of the first is taken.          *)
LEMMA RestOfBoth ==
  ASSUME NEW S, NEW s \in Seq(S), NEW r \in Seq(S), NEW n \in 0 .. Len(s)
  PROVE  Rest(s, n) \o r = Rest(s \o r, n)
  <1>1. /\ s \o r \in Seq(S) /\ Len(s \o r) = Len(s) + Len(r)
        /\ \A i \in 1 .. Len(s) + Len(r) : (s \o r)[i] = IF i <= Len(s) THEN s[i] ELSE r[i - Len(s)]
    BY ConcatProperties
  <1>2. Len(s) \in Nat /\ Len(r) \in Nat
    BY LenProperties
  <1>3. /\ Rest(s, n) \in Seq(S) /\ Len(Rest(s, n)) = Len(s) - n
        /\ \A i \in 1 .. Len(s) - n : Rest(s, n)[i] = s[n + i]
    BY Cut
  <1> DEFINE b == Rest(s, n)
             w == s \o r
  <1> HIDE DEF b, w
  <1>4. /\ b \o r \in Seq(S) /\ Len(b \o r) = Len(b) + Len(r)
        /\ \A i \in 1 .. Len(b) + Len(r) : (b \o r)[i] = IF i <= Len(b) THEN b[i] ELSE r[i - Len(b)]
    BY <1>3, ConcatProperties DEF b
  <1>5. n \in 0 .. Len(w) /\ w \in Seq(S)
    BY <1>1, <1>2 DEF w
  <1>6. /\ Rest(w, n) \in Seq(S) /\ Len(Rest(w, n)) = Len(w) - n
        /\ \A i \in 1 .. Len(w) - n : Rest(w, n)[i] = w[n + i]
    BY <1>5, Cut
  <1>7. Len(b \o r) = Len(Rest(w, n))
    BY <1>1, <1>2, <1>3, <1>4, <1>6 DEF b, w
  <1>8. ASSUME NEW i \in 1 .. Len(b \o r)
        PROVE  (b \o r)[i] = Rest(w, n)[i]
    <2>1. Rest(w, n)[i] = IF n + i <= Len(s) THEN s[n + i] ELSE r[n + i - Len(s)]
      BY <1>1, <1>2, <1>6, <1>7 DEF w
    <2>2. (b \o r)[i] = IF i <= Len(s) - n THEN s[n + i] ELSE r[i - (Len(s) - n)]
      BY <1>2, <1>3, <1>4 DEF b
    <2>3. n + i - Len(s) = i - (Len(s) - n) /\ (n + i <= Len(s) <=> i <= Len(s) - n)
      BY <1>2, <1>4
    <2> QED  BY <2>1, <2>2, <2>3
  <1>9. b \o r = Rest(w, n)
    BY <1>4, <1>6, <1>7, <1>8, SeqEqual
  <1> QED  BY <1>9 DEF b, w
----------------------------------------------------------------------------
(* Streams and the whole items in them. *)

LEMMA WholeItems ==
  ASSUME NEW s \in Seq(Parts)
  PROVE  /\ Whole(s) \in Seq(Items) /\ Len(s) \in Nat
         /\ Jammed(s) => Whole(s) = <<>>
         /\ ~Jammed(s) => /\ Len(Whole(s)) = Len(s) \div 2
                          /\ \A j \in 1 .. Len(s) \div 2 : Whole(s)[j] = s[2 * j].item
  <1>1. Len(s) \in Nat /\ \A i \in 1 .. Len(s) : s[i] \in Parts
    BY LenProperties, ElementOfSeq
  <1>2. Len(s) \div 2 \in Nat /\ \A j \in 1 .. Len(s) \div 2 : 2 * j \in 1 .. Len(s)
    BY <1>1
  <1>3. \A j \in 1 .. Len(s) \div 2 : s[2 * j].item \in Items
    BY <1>1, <1>2 DEF Parts, PartsOf
  <1> DEFINE h == Len(s) \div 2
             f == [j \in 1 .. h |-> s[2 * j].item]
  <1> HIDE DEF h
  <1>4. f \in Seq(Items) /\ Len(f) = h
    BY <1>2, <1>3 DEF h
  <1>5. CASE Jammed(s)
    BY <1>1, <1>5 DEF Whole
  <1>6. CASE ~Jammed(s)
    BY <1>1, <1>4, <1>6 DEF Whole, h
  <1> QED  BY <1>5, <1>6

(* Whole items taken off a stream leave a stream of the others.            *)
LEMMA DropItems ==
  ASSUME NEW s \in Seq(Parts), Aligned(s), ~Jammed(s), NEW k \in 0 .. Len(s) \div 2
  PROVE  /\ Rest(s, 2 * k) \in Seq(Parts)
         /\ Aligned(Rest(s, 2 * k)) /\ ~Jammed(Rest(s, 2 * k))
         /\ Whole(Rest(s, 2 * k)) = Rest(Whole(s), k)
  <1> DEFINE r == Rest(s, 2 * k)
             w == Whole(s)
  <1>1. Len(s) \in Nat /\ Len(s) % 2 = 0 /\ k \in Nat /\ 2 * k \in 0 .. Len(s)
    BY LenProperties DEF Aligned
  <1>2. /\ r \in Seq(Parts) /\ Len(r) = Len(s) - 2 * k
        /\ \A i \in 1 .. Len(s) - 2 * k : r[i] = s[2 * k + i]
    BY <1>1, Cut
  <1> HIDE DEF r
  <1>3. \A i \in 1 .. Len(r) : r[i].part = 2 - (i % 2)
    <2>1. \A i \in 1 .. Len(r) : 2 * k + i \in 1 .. Len(s) /\ (2 * k + i) % 2 = i % 2
      BY <1>1, <1>2
    <2>2. \A i \in 1 .. Len(s) : s[i].part = 2 - (i % 2)
      BY DEF Aligned, FirstPart
    <2> QED  BY <1>2, <2>1, <2>2
  <1>4. ~Jammed(r)
    <2>1. r # <<>> => 1 \in 1 .. Len(r)
      BY <1>1, <1>2, EmptySeq
    <2> QED  BY <1>3, <2>1 DEF Jammed
  <1>5. Aligned(r)
    BY <1>1, <1>2, <1>3, <1>4 DEF Aligned, FirstPart
  <1>6. w \in Seq(Items) /\ Len(w) = Len(s) \div 2 /\ \A j \in 1 .. Len(s) \div 2 : w[j] = s[2 * j].item
    BY WholeItems
  <1> HIDE DEF w
  <1>7. /\ Rest(w, k) \in Seq(Items) /\ Len(Rest(w, k)) = Len(w) - k
        /\ \A i \in 1 .. Len(w) - k : Rest(w, k)[i] = w[k + i]
    <2>1. w \in Seq(Items) /\ k \in 0 .. Len(w)
      BY <1>1, <1>6
    <2> QED  BY <2>1, Cut
  <1>8. /\ Whole(r) \in Seq(Items) /\ Len(Whole(r)) = Len(r) \div 2
        /\ \A j \in 1 .. Len(r) \div 2 : Whole(r)[j] = r[2 * j].item
    BY <1>2, <1>4, WholeItems
  <1>9. Len(r) \div 2 = Len(w) - k
    <2>1. PICK m \in Nat : Len(s) = 2 * m
      <3>1. Len(s) = 2 * (Len(s) \div 2) /\ Len(s) \div 2 \in Nat
        BY <1>1
      <3> QED  BY <3>1
    <2>2. Len(r) = 2 * (m - k) /\ Len(w) = m
      BY <1>1, <1>2, <1>6, <2>1
    <2> QED  BY <1>1, <2>1, <2>2
  <1>10. ASSUME NEW j \in 1 .. Len(w) - k
         PROVE  Whole(r)[j] = Rest(w, k)[j]
    <2>1. 2 * j \in 1 .. Len(s) - 2 * k /\ k + j \in 1 .. Len(s) \div 2 /\ 2 * k + 2 * j = 2 * (k + j)
      BY <1>1, <1>6
    <2>2. Whole(r)[j] = s[2 * (k + j)].item
      BY <1>2, <1>8, <1>9, <2>1
    <2> QED  BY <1>6, <1>7, <2>1, <2>2
  <1>11. Whole(r) = Rest(w, k)
    BY <1>7, <1>8, <1>9, <1>10, SeqEqual
  <1> QED  BY <1>2, <1>4, <1>5, <1>11 DEF r, w

(* An item cut in two: what is left can not be read.                       *)
LEMMA DropHalf ==
  ASSUME NEW s \in Seq(Parts), Aligned(s), ~Jammed(s), NEW n \in 1 .. Len(s), n % 2 = 1
  PROVE  /\ Rest(s, n) \in Seq(Parts)
         /\ Aligned(Rest(s, n)) /\ Jammed(Rest(s, n)) /\ Whole(Rest(s, n)) = <<>>
  <1> DEFINE r == Rest(s, n)
  <1>1. Len(s) \in Nat /\ Len(s) % 2 = 0 /\ n \in 0 .. Len(s)
    BY LenProperties DEF Aligned
  <1>2. /\ r \in Seq(Parts) /\ Len(r) = Len(s) - n
        /\ \A i \in 1 .. Len(s) - n : r[i] = s[n + i]
    BY <1>1, Cut
  <1>7. PICK m \in Nat : n = 2 * m + 1
    <2>1. n = 2 * (n \div 2) + 1 /\ n \div 2 \in Nat
      BY <1>1
    <2> QED  BY <2>1
  <1> HIDE DEF r
  <1>3. Len(r) >= 1 /\ Len(r) % 2 = 1
    <2>1. PICK l \in Nat : Len(s) = 2 * l
      <3>1. Len(s) = 2 * (Len(s) \div 2) /\ Len(s) \div 2 \in Nat
        BY <1>1
      <3> QED  BY <3>1
    <2>2. Len(r) = 2 * (l - m - 1) + 1 /\ l - m - 1 \in Nat
      BY <1>1, <1>2, <1>7, <2>1
    <2> QED  BY <2>2
  <1>4. \A i \in 1 .. Len(r) : r[i].part = 1 + (i % 2)
    <2>1. \A i \in 1 .. Len(r) : n + i \in 1 .. Len(s) /\ (n + i) % 2 = 1 - (i % 2)
      <3>1. ASSUME NEW i \in Nat
            PROVE  (2 * m + 1 + i) % 2 = 1 - (i % 2)
        <4>1. i \div 2 \in Nat /\ i % 2 \in {0, 1} /\ i = 2 * (i \div 2) + (i % 2)
          OBVIOUS
        <4>2. CASE i % 2 = 0
          <5>1. 2 * m + 1 + i = 2 * (m + (i \div 2)) + 1
            BY <4>1, <4>2
          <5> QED  BY <4>1, <4>2, <5>1
        <4>3. CASE i % 2 = 1
          <5>1. 2 * m + 1 + i = 2 * (m + (i \div 2) + 1)
            BY <4>1, <4>3
          <5> QED  BY <4>1, <4>3, <5>1
        <4> QED  BY <4>1, <4>2, <4>3
      <3>2. ASSUME NEW i \in 1 .. Len(r)
            PROVE  n + i \in 1 .. Len(s) /\ (n + i) % 2 = 1 - (i % 2)
        <4>1. i \in Nat /\ n + i \in 1 .. Len(s)
          BY <1>1, <1>2
        <4>2. n + i = 2 * m + 1 + i
          BY <1>7
        <4> QED  BY <3>1, <4>1, <4>2
      <3> QED  BY <3>2
    <2>2. \A i \in 1 .. Len(s) : s[i].part = 2 - (i % 2)
      BY DEF Aligned, FirstPart
    <2>3. ASSUME NEW i \in 1 .. Len(r)
          PROVE  r[i].part = 1 + (i % 2)
      <3>1. r[i].part = 2 - ((n + i) % 2)
        BY <1>2, <2>1, <2>2
      <3> QED  BY <2>1, <3>1
    <2> QED  BY <2>3
  <1>5. Jammed(r)
    <2>1. 1 \in 1 .. Len(r) /\ r # <<>>
      BY <1>2, <1>3, EmptySeq
    <2> QED  BY <1>4, <2>1 DEF Jammed
  <1>6. Aligned(r)
    BY <1>3, <1>4, <1>5 DEF Aligned, SecondPart
  <1> QED  BY <1>2, <1>5, <1>6, WholeItems DEF r

LEMMA Halves ==
  ASSUME NEW n \in Nat
  PROVE  /\ n \div 2 \in Nat /\ n % 2 \in {0, 1} /\ n = 2 * (n \div 2) + (n % 2)
         /\ (n + 1) % 2 = 1 - (n % 2) /\ (n + 2) % 2 = n % 2
  <1>1. n \div 2 \in Nat /\ n % 2 \in {0, 1} /\ n = 2 * (n \div 2) + (n % 2)
    OBVIOUS
  <1>2. CASE n % 2 = 0
    <2>1. n + 1 = 2 * (n \div 2) + 1 /\ n + 2 = 2 * ((n \div 2) + 1)
      BY <1>1, <1>2
    <2> QED  BY <1>1, <1>2, <2>1
  <1>3. CASE n % 2 = 1
    <2>1. n + 1 = 2 * ((n \div 2) + 1) /\ n + 2 = 2 * ((n \div 2) + 1) + 1
      BY <1>1, <1>3
    <2> QED  BY <1>1, <1>3, <2>1
  <1> QED  BY <1>1, <1>2, <1>3

(* Items in parts, in front of a stream that is not jammed.                *)
LEMMA PartedItems ==
  ASSUME NEW q \in Seq(Items), NEW r \in Seq(Parts), Aligned(r), ~Jammed(r),
         NEW t, t = Parted(q) \o r
  PROVE  /\ t \in Seq(Parts) /\ Aligned(t) /\ ~Jammed(t)
         /\ Whole(t) = q \o Whole(r)
  <1> DEFINE b == Parted(q)
             l == Len(q)
             w == Whole(r)
  <1>1. l \in Nat /\ Len(r) \in Nat /\ \A j \in 1 .. l : q[j] \in Items
    BY LenProperties, ElementOfSeq
  <1>2. ASSUME NEW i \in 1 .. 2 * l
        PROVE  /\ (i + 1) \div 2 \in 1 .. l /\ i % 2 \in {0, 1}
               /\ i % 2 = 0 => (i + 1) \div 2 = i \div 2
    <2>1. /\ i \in Nat /\ i \div 2 \in Nat /\ i % 2 \in {0, 1}
          /\ i = 2 * (i \div 2) + (i % 2) /\ i >= 1
      BY <1>1, Halves
    <2>2. CASE i % 2 = 0
      <3>1. i + 1 = 2 * (i \div 2) + 1
        BY <2>1, <2>2
      <3>2. (i + 1) \div 2 = i \div 2
        BY <2>1, <3>1
      <3> QED  BY <1>1, <2>1, <2>2, <3>2
    <2>3. CASE i % 2 = 1
      <3>1. i + 1 = 2 * ((i \div 2) + 1)
        BY <2>1, <2>3
      <3>2. (i + 1) \div 2 = (i \div 2) + 1
        BY <2>1, <3>1
      <3> QED  BY <1>1, <2>1, <2>3, <3>2
    <2> QED  BY <2>1, <2>2, <2>3
  <1>3. /\ b \in Seq(Parts) /\ Len(b) = 2 * l
        /\ \A i \in 1 .. 2 * l : b[i] = Part(q[(i + 1) \div 2], 2 - (i % 2))
    <2>1. ASSUME NEW i \in 1 .. 2 * l
          PROVE  Part(q[(i + 1) \div 2], 2 - (i % 2)) \in Parts
      BY <1>1, <1>2 DEF Part, Parts, PartsOf
    <2>2. 2 * l \in Nat
      BY <1>1
    <2> QED  BY <2>1, <2>2 DEF Parted
  <1>4. ASSUME NEW i \in 1 .. 2 * l
        PROVE  b[i].part = 2 - (i % 2) /\ b[i].item = q[(i + 1) \div 2]
    BY <1>3 DEF Part
  <1> HIDE DEF b, l, w
  <1>5. /\ t \in Seq(Parts) /\ Len(t) = 2 * l + Len(r)
        /\ \A i \in 1 .. 2 * l + Len(r) : t[i] = IF i <= 2 * l THEN b[i] ELSE r[i - 2 * l]
    <2>1. t = b \o r
      BY DEF b
    <2>2. /\ b \o r \in Seq(Parts) /\ Len(b \o r) = Len(b) + Len(r)
          /\ \A i \in 1 .. Len(b) + Len(r) : (b \o r)[i] = IF i <= Len(b) THEN b[i] ELSE r[i - Len(b)]
      BY <1>3, ConcatProperties
    <2> QED  BY <1>3, <2>1, <2>2
  <1>6. Len(r) % 2 = 0 /\ \A i \in 1 .. Len(r) : r[i].part = 2 - (i % 2)
    BY DEF Aligned, FirstPart
  <1>7. ASSUME NEW i \in 1 .. Len(t)
        PROVE  t[i].part = 2 - (i % 2)
    <2>1. CASE i <= 2 * l
      <3>1. i \in 1 .. 2 * l
        BY <1>1, <1>5, <2>1
      <3> QED  BY <1>1, <1>4, <1>5, <2>1, <3>1
    <2>2. CASE ~(i <= 2 * l)
      <3>1. i - 2 * l \in 1 .. Len(r) /\ t[i] = r[i - 2 * l]
        BY <1>1, <1>5, <2>2
      <3>2. (i - 2 * l) % 2 = i % 2
        BY <1>1, <1>5
      <3> QED  BY <1>6, <3>1, <3>2
    <2> QED  BY <2>1, <2>2
  <1>8. ~Jammed(t)
    <2>1. t # <<>> => 1 \in 1 .. Len(t)
      BY <1>1, <1>5, EmptySeq
    <2> QED  BY <1>7, <2>1 DEF Jammed
  <1>9. PICK m \in Nat : Len(r) = 2 * m
    <2>1. Len(r) = 2 * (Len(r) \div 2) /\ Len(r) \div 2 \in Nat
      BY <1>1, <1>6
    <2> QED  BY <2>1
  <1>10. Len(t) = 2 * (l + m) /\ Len(t) % 2 = 0 /\ Len(t) \div 2 = l + m /\ Len(r) \div 2 = m
    BY <1>1, <1>5, <1>9
  <1>11. Aligned(t)
    BY <1>7, <1>8, <1>10 DEF Aligned, FirstPart
  <1>12. w \in Seq(Items) /\ Len(w) = m /\ \A j \in 1 .. m : w[j] = r[2 * j].item
    BY <1>10, WholeItems DEF w
  <1>13. /\ Whole(t) \in Seq(Items) /\ Len(Whole(t)) = l + m
         /\ \A j \in 1 .. l + m : Whole(t)[j] = t[2 * j].item
    BY <1>5, <1>8, <1>10, WholeItems
  <1>14. /\ q \o w \in Seq(Items) /\ Len(q \o w) = l + m
         /\ \A j \in 1 .. l + m : (q \o w)[j] = IF j <= l THEN q[j] ELSE w[j - l]
    BY <1>12, ConcatProperties DEF l
  <1>15. ASSUME NEW j \in 1 .. l + m
         PROVE  Whole(t)[j] = (q \o w)[j]
    <2>1. CASE j <= l
      <3>1. 2 * j \in 1 .. 2 * l /\ (2 * j) % 2 = 0 /\ (2 * j) \div 2 = j
        BY <1>1, <2>1
      <3>2. b[2 * j].item = q[j]
        BY <1>2, <1>4, <3>1
      <3>3. t[2 * j] = b[2 * j]
        BY <1>1, <1>5, <3>1
      <3> QED  BY <1>13, <1>14, <2>1, <3>2, <3>3
    <2>2. CASE ~(j <= l)
      <3>1. j - l \in 1 .. m /\ 2 * j \in 1 .. 2 * l + Len(r) /\ ~(2 * j <= 2 * l)
            /\ 2 * j - 2 * l = 2 * (j - l)
        BY <1>1, <1>9, <2>2
      <3>2. t[2 * j] = r[2 * (j - l)]
        BY <1>5, <3>1
      <3> QED  BY <1>12, <1>13, <1>14, <2>2, <3>1, <3>2
    <2> QED  BY <2>1, <2>2
  <1>16. Whole(t) = q \o w
    BY <1>13, <1>14, <1>15, SeqEqual
  <1> QED  BY <1>5, <1>8, <1>11, <1>16 DEF w

(* The half of an item at the head of a stream, read as items of its own.  *)
LEMMA ReadHalf ==
  ASSUME NEW s \in Seq(Parts), Aligned(s), ~Jammed(s), NEW m \in Nat, 2 * m + 1 <= Len(s),
         NEW reading \in Readings(Rest(s, 2 * m + 1)), reading # Rest(s, 2 * m + 1)
  PROVE  /\ reading \in Seq(Parts) /\ Aligned(reading) /\ ~Jammed(reading)
         /\ m + 1 \in 1 .. Len(Whole(s))
         /\ \E rest \in Rests[Whole(s)[m + 1]] : Whole(reading) = rest \o Rest(Whole(s), m + 1)
  <1> DEFINE left == Rest(s, 2 * m + 1)
             w == Whole(s)
             r == Rest(s, 2 * (m + 1))
  <1>1. Len(s) \in Nat /\ Len(s) % 2 = 0
    BY LenProperties DEF Aligned
  <1>2. PICK l \in Nat : Len(s) = 2 * l
    <2>1. Len(s) = 2 * (Len(s) \div 2) /\ Len(s) \div 2 \in Nat
      BY <1>1
    <2> QED  BY <2>1
  <1>3. m + 1 \in 1 .. l /\ m + 1 \in 0 .. Len(s) \div 2 /\ Len(s) \div 2 = l
        /\ 2 * m + 1 \in 0 .. Len(s) /\ 2 * (m + 1) \in 1 .. Len(s)
    BY <1>2
  <1>4. w \in Seq(Items) /\ Len(w) = l /\ \A j \in 1 .. l : w[j] = s[2 * j].item
    BY <1>3, WholeItems
  <1>5. /\ r \in Seq(Parts) /\ Aligned(r) /\ ~Jammed(r) /\ Whole(r) = Rest(w, m + 1)
    BY <1>3, DropItems
  <1>6. /\ left \in Seq(Parts) /\ Len(left) = Len(s) - (2 * m + 1)
        /\ \A i \in 1 .. Len(s) - (2 * m + 1) : left[i] = s[2 * m + 1 + i]
    BY <1>3, Cut
  <1>7. /\ Len(r) = Len(s) - 2 * (m + 1)
        /\ \A i \in 1 .. Len(s) - 2 * (m + 1) : r[i] = s[2 * (m + 1) + i]
    <2> DEFINE n == 2 * (m + 1)
    <2>1. n \in 0 .. Len(s)
      BY <1>1, <1>3
    <2> HIDE DEF n
    <2>2. Len(Rest(s, n)) = Len(s) - n /\ \A i \in 1 .. Len(s) - n : Rest(s, n)[i] = s[n + i]
      BY <2>1, Cut
    <2> QED  BY <2>2 DEF n
  <1> HIDE DEF left, r, w
  <1>8. left # <<>> /\ left[1].item = w[m + 1]
    <2>1. 1 \in 1 .. Len(s) - (2 * m + 1) /\ 2 * m + 1 + 1 = 2 * (m + 1)
      BY <1>1, <1>2, <1>3
    <2> QED  BY <1>3, <1>4, <1>6, <2>1, EmptySeq
  <1>9. Tail(left) = r
    <2> DEFINE v == Tail(left)
    <2>1. /\ v \in Seq(Parts) /\ Len(v) = Len(left) - 1
          /\ \A i \in 1 .. Len(v) : v[i] = left[i + 1]
      BY <1>6, <1>8, HeadTailProperties
    <2> HIDE DEF v
    <2>2. Len(v) = Len(r)
      BY <1>1, <1>6, <1>7, <2>1
    <2>3. ASSUME NEW i \in 1 .. Len(v)
          PROVE  v[i] = r[i]
      <3>1. i + 1 \in 1 .. Len(s) - (2 * m + 1) /\ 2 * m + 1 + (i + 1) = 2 * (m + 1) + i
            /\ i \in 1 .. Len(s) - 2 * (m + 1)
        BY <1>1, <1>6, <2>1
      <3> QED  BY <1>6, <1>7, <2>1, <3>1
    <2>4. v = r
      BY <1>5, <2>1, <2>2, <2>3, SeqEqual
    <2> QED  BY <2>4 DEF v
  <1>10. PICK rest \in Rests[left[1].item] : reading = Parted(rest) \o Tail(left)
    BY DEF Readings, left
  <1>11. rest \in Seq(Items)
    <2> DEFINE N == {item \in Items : item.type # "line"}
    <2>1. left[1].item \in Items
      BY <1>3, <1>4, <1>8, ElementOfSeq
    <2>2. rest \in Seq(N)
      BY <1>10, <2>1, ConnectionAssumption
    <2> QED  BY <2>2, SeqMonotonic
  <1>12. reading = Parted(rest) \o r
    BY <1>9, <1>10
  <1>13. /\ reading \in Seq(Parts) /\ Aligned(reading) /\ ~Jammed(reading)
         /\ Whole(reading) = rest \o Whole(r)
    BY <1>5, <1>11, <1>12, PartedItems
  <1>14. Whole(reading) = rest \o Rest(w, m + 1) /\ rest \in Rests[w[m + 1]]
    BY <1>5, <1>8, <1>10, <1>13
  <1> QED  BY <1>3, <1>4, <1>13, <1>14 DEF w

(* The beginning of a stream has its first items, and is jammed with it.   *)
LEMMA FirstItems ==
  ASSUME NEW b \in Seq(Parts), NEW r \in Seq(Parts), Aligned(b \o r), b # <<>>
  PROVE  /\ Jammed(b) <=> Jammed(b \o r)
         /\ Len(b) \in Nat /\ Len(b \o r) = Len(b) + Len(r) /\ b \o r \in Seq(Parts)
         /\ \A i \in 1 .. Len(b) : b[i] = (b \o r)[i]
         /\ ~Jammed(b) => Whole(b) = SubSeq(Whole(b \o r), 1, Len(b) \div 2)
  <1> DEFINE s == b \o r
  <1>1. /\ s \in Seq(Parts) /\ Len(s) = Len(b) + Len(r)
        /\ \A i \in 1 .. Len(b) + Len(r) : s[i] = IF i <= Len(b) THEN b[i] ELSE r[i - Len(b)]
    BY ConcatProperties
  <1>2. Len(b) \in Nat /\ Len(r) \in Nat /\ Len(b) >= 1
    BY LenProperties, EmptySeq
  <1> HIDE DEF s
  <1>3. \A i \in 1 .. Len(b) : b[i] = s[i]
    BY <1>1, <1>2
  <1>4. s # <<>>
    BY <1>1, <1>2, EmptySeq
  <1>5. Jammed(b) <=> Jammed(s)
    BY <1>2, <1>3, <1>4 DEF Jammed
  <1>6. ASSUME ~Jammed(b)
        PROVE  Whole(b) = SubSeq(Whole(s), 1, Len(b) \div 2)
    <2> DEFINE w == Whole(s)
               k == Len(b) \div 2
    <2>1. w \in Seq(Items) /\ Len(w) = Len(s) \div 2 /\ \A j \in 1 .. Len(s) \div 2 : w[j] = s[2 * j].item
      BY <1>1, <1>5, <1>6, WholeItems
    <2>2. k \in 0 .. Len(w) /\ \A j \in 1 .. k : 2 * j \in 1 .. Len(b) /\ j \in 1 .. Len(s) \div 2
      BY <1>1, <1>2, <2>1
    <2>3. Whole(b) \in Seq(Items) /\ Len(Whole(b)) = k /\ \A j \in 1 .. k : Whole(b)[j] = b[2 * j].item
      BY <1>6, WholeItems
    <2> HIDE DEF w, k
    <2>4. /\ SubSeq(w, 1, k) \in Seq(Items) /\ Len(SubSeq(w, 1, k)) = k
          /\ \A j \in 1 .. k : SubSeq(w, 1, k)[j] = w[j]
      BY <2>1, <2>2, Cut
    <2>5. \A j \in 1 .. k : Whole(b)[j] = SubSeq(w, 1, k)[j]
      BY <1>3, <2>1, <2>2, <2>3, <2>4
    <2>6. Whole(b) = SubSeq(w, 1, k)
      BY <2>3, <2>4, <2>5, SeqEqual
    <2> QED  BY <2>6 DEF w, k
  <1> QED  BY <1>1, <1>2, <1>3, <1>5, <1>6 DEF s

(* An item sent, its two parts at the end of the stream.                   *)
LEMMA SendItem ==
  ASSUME NEW s \in Seq(Parts), Aligned(s), NEW item \in Items,
         NEW t, t = s \o <<Part(item, 1), Part(item, 2)>>
  PROVE  /\ t \in Seq(Parts) /\ Aligned(t) /\ (Jammed(t) <=> Jammed(s))
         /\ Whole(t) = IF Jammed(s) THEN <<>> ELSE Append(Whole(s), item)
  <1> DEFINE p == <<Part(item, 1), Part(item, 2)>>
             w == Whole(s)
  <1>1. Part(item, 1) \in Parts /\ Part(item, 2) \in Parts
    BY DEF Part, Parts, PartsOf
  <1>2. p \in Seq(Parts) /\ Len(p) = 2 /\ p[1] = Part(item, 1) /\ p[2] = Part(item, 2)
    BY <1>1
  <1> HIDE DEF p
  <1>3. /\ t \in Seq(Parts) /\ Len(t) = Len(s) + 2
        /\ \A i \in 1 .. Len(s) + 2 : t[i] = IF i <= Len(s) THEN s[i] ELSE p[i - Len(s)]
    BY <1>2, ConcatProperties DEF p
  <1>4. Len(s) \in Nat /\ (s # <<>> => Len(s) >= 1)
    BY LenProperties, EmptySeq
  <1>5. /\ \A i \in 1 .. Len(s) : t[i] = s[i]
        /\ t[Len(s) + 1] = Part(item, 1) /\ t[Len(s) + 2] = Part(item, 2)
    <2>1. Len(s) + 1 - Len(s) = 1 /\ Len(s) + 2 - Len(s) = 2
      BY <1>4
    <2> QED  BY <1>2, <1>3, <1>4, <2>1
  <1>6. t[Len(s) + 1].part = 1 /\ t[Len(s) + 2].part = 2 /\ t[Len(s) + 2].item = item
    BY <1>5 DEF Part
  <1>7. Jammed(t) <=> Jammed(s)
    <2>1. t # <<>>
      BY <1>3, <1>4, EmptySeq
    <2>2. CASE s = <<>>
      <3>1. Len(s) = 0
        BY <2>2, EmptySeq
      <3> QED  BY <1>6, <2>2, <3>1 DEF Jammed
    <2>3. CASE s # <<>>
      BY <1>4, <1>5, <2>1, <2>3 DEF Jammed
    <2> QED  BY <2>2, <2>3
  <1>8. CASE Jammed(s)
    <2>1. Len(s) % 2 = 1 /\ \A i \in 1 .. Len(s) : s[i].part = 1 + (i % 2)
      BY <1>8 DEF Aligned, SecondPart
    <2>2. Len(t) % 2 = 1 /\ (Len(s) + 1) % 2 = 0 /\ (Len(s) + 2) % 2 = 1
      BY <1>3, <1>4, <2>1, Halves
    <2>3. ASSUME NEW i \in 1 .. Len(t)
          PROVE  t[i].part = 1 + (i % 2)
      <3>1. i \in 1 .. Len(s) \/ i = Len(s) + 1 \/ i = Len(s) + 2
        BY <1>3, <1>4
      <3>2. CASE i \in 1 .. Len(s)
        <4>1. t[i] = s[i] /\ s[i].part = 1 + (i % 2)
          BY <1>5, <2>1, <3>2
        <4> QED  BY <4>1
      <3>3. CASE i = Len(s) + 1
        <4>1. t[i].part = 1 /\ i % 2 = 0
          BY <1>6, <2>2, <3>3
        <4> QED  BY <4>1
      <3>4. CASE i = Len(s) + 2
        <4>1. t[i].part = 2 /\ i % 2 = 1
          BY <1>6, <2>2, <3>4
        <4> QED  BY <4>1
      <3> QED  BY <3>1, <3>2, <3>3, <3>4
    <2>4. Aligned(t)
      BY <1>7, <1>8, <2>2, <2>3 DEF Aligned, SecondPart
    <2> QED  BY <1>3, <1>7, <1>8, <2>4, WholeItems
  <1>9. CASE ~Jammed(s)
    <2>1. Len(s) % 2 = 0 /\ \A i \in 1 .. Len(s) : s[i].part = 2 - (i % 2)
      BY <1>9 DEF Aligned, FirstPart
    <2>2. Len(t) % 2 = 0 /\ (Len(s) + 1) % 2 = 1 /\ (Len(s) + 2) % 2 = 0
      BY <1>3, <1>4, <2>1, Halves
    <2>3. ASSUME NEW i \in 1 .. Len(t)
          PROVE  t[i].part = 2 - (i % 2)
      <3>1. i \in 1 .. Len(s) \/ i = Len(s) + 1 \/ i = Len(s) + 2
        BY <1>3, <1>4
      <3>2. CASE i \in 1 .. Len(s)
        <4>1. t[i] = s[i] /\ s[i].part = 2 - (i % 2)
          BY <1>5, <2>1, <3>2
        <4> QED  BY <4>1
      <3>3. CASE i = Len(s) + 1
        <4>1. t[i].part = 1 /\ i % 2 = 1
          BY <1>6, <2>2, <3>3
        <4> QED  BY <4>1
      <3>4. CASE i = Len(s) + 2
        <4>1. t[i].part = 2 /\ i % 2 = 0
          BY <1>6, <2>2, <3>4
        <4> QED  BY <4>1
      <3> QED  BY <3>1, <3>2, <3>3, <3>4
    <2>4. Aligned(t)
      BY <1>7, <1>9, <2>2, <2>3 DEF Aligned, FirstPart
    <2>5. w \in Seq(Items) /\ Len(w) = Len(s) \div 2 /\ \A j \in 1 .. Len(s) \div 2 : w[j] = s[2 * j].item
      BY <1>9, WholeItems
    <2>6. /\ Whole(t) \in Seq(Items) /\ Len(Whole(t)) = Len(t) \div 2
          /\ \A j \in 1 .. Len(t) \div 2 : Whole(t)[j] = t[2 * j].item
      BY <1>3, <1>7, <1>9, WholeItems
    <2> HIDE DEF w
    <2>7. /\ Append(w, item) \in Seq(Items) /\ Len(Append(w, item)) = Len(w) + 1
          /\ \A j \in 1 .. Len(w) : Append(w, item)[j] = w[j]
          /\ Append(w, item)[Len(w) + 1] = item
      BY <2>5, AppendProperties
    <2>8. PICK m \in Nat : Len(s) = 2 * m
      <3>1. Len(s) = 2 * (Len(s) \div 2) /\ Len(s) \div 2 \in Nat
        BY <1>4, <2>1
      <3> QED  BY <3>1
    <2>9. Len(w) = m /\ Len(t) = 2 * (m + 1) /\ Len(t) \div 2 = m + 1 /\ Len(s) \div 2 = m
      BY <1>3, <2>5, <2>8
    <2>10. ASSUME NEW j \in 1 .. m + 1
           PROVE  Whole(t)[j] = Append(w, item)[j]
      <3>1. CASE j \in 1 .. m
        <4>1. 2 * j \in 1 .. Len(s)
          BY <2>8, <3>1
        <4>2. Whole(t)[j] = t[2 * j].item /\ Append(w, item)[j] = s[2 * j].item
          BY <2>5, <2>6, <2>7, <2>9, <3>1
        <4> QED  BY <1>5, <4>1, <4>2
      <3>2. CASE j = m + 1
        <4>1. 2 * j = Len(s) + 2
          BY <2>8, <3>2
        <4>2. Whole(t)[j] = t[2 * j].item
          <5>1. j \in 1 .. Len(t) \div 2
            BY <2>9
          <5> QED  BY <2>6, <5>1
        <4>3. Append(w, item)[j] = item
          BY <2>7, <2>9, <3>2
        <4>4. t[2 * j].item = item
          BY <1>6, <4>1
        <4> QED  BY <4>2, <4>3, <4>4
      <3>3. j \in 1 .. m \/ j = m + 1
        OBVIOUS
      <3> QED  BY <3>1, <3>2, <3>3
    <2>11. Whole(t) = Append(w, item)
      <3>1. /\ Whole(t) \in Seq(Items) /\ Append(w, item) \in Seq(Items)
            /\ Len(Whole(t)) = m + 1 /\ Len(Append(w, item)) = m + 1
        BY <2>6, <2>7, <2>9
      <3> DEFINE u == Whole(t)
                 v == Append(w, item)
      <3>2. \A j \in 1 .. m + 1 : u[j] = v[j]
        BY <2>10
      <3> HIDE DEF u, v
      <3>3. u = v
        BY <3>1, <3>2, SeqEqual DEF u, v
      <3> QED  BY <3>3 DEF u, v
    <2> QED  BY <1>3, <1>7, <1>9, <2>4, <2>11 DEF w
  <1> QED  BY <1>8, <1>9

(* feed takes the items in front of the first that stops it, and that one  *)
(* too if it is a null.                                                    *)
LEMMA FeedTakes ==
  ASSUME NEW b \in Seq(Parts)
  PROVE  /\ Parsed(b) \in 0 .. Len(Whole(b)) /\ Consumed(b) \in 0 .. Len(Whole(b))
         /\ \/ Consumed(b) = Parsed(b)
            \/ /\ Consumed(b) = Parsed(b) + 1
               /\ Whole(b)[Parsed(b) + 1].type = "null"
  <1> DEFINE w == Whole(b)
             stops == {j \in DOMAIN w : w[j].type \in {"line", "null"}}
  <1>1. w \in Seq(Items)
    BY WholeItems
  <1> HIDE DEF w
  <1>2. Len(w) \in Nat /\ DOMAIN w = 1 .. Len(w)
    BY <1>1, LenProperties
  <1>3. stops = {} \/ Min(stops) \in stops
    <2>1. stops \subseteq Nat
      BY <1>2
    <2> HIDE DEF stops
    <2>2. SUFFICES ASSUME stops # {}
                   PROVE  Min(stops) \in stops
      OBVIOUS
    <2>3. \E x \in stops : \A y \in stops : x =< y
      BY <2>1, <2>2, Least
    <2> QED  BY <2>3, Zenon DEF Min
  <1>4. Parsed(b) = IF stops = {} THEN Len(w) ELSE Min(stops) - 1
    BY DEF Parsed, w
  <1>5. \A j \in stops : j \in 1 .. Len(w)
    BY <1>2
  <1> HIDE DEF stops
  <1>6. Parsed(b) \in 0 .. Len(w)
    BY <1>2, <1>3, <1>4, <1>5
  <1>7. Consumed(b) = IF Parsed(b) < Len(w) /\ w[Parsed(b) + 1].type = "null"
                      THEN Parsed(b) + 1 ELSE Parsed(b)
    BY DEF Consumed, w
  <1> HIDE DEF Parsed, Consumed
  <1> QED  BY <1>2, <1>6, <1>7 DEF w
----------------------------------------------------------------------------
(* Lines of text *)

LEMMA LinesCounted ==
  ASSUME NEW s \in Seq(Parts)
  PROVE  /\ Lines(s) \in Nat
         /\ IsFiniteSet(UNION {{i} \X (1 .. LinesEnded(s[i])) : i \in DOMAIN s})
  <1> DEFINE L == UNION {{i} \X (1 .. LinesEnded(s[i])) : i \in DOMAIN s}
             m == HeadLines + TailLines + 1
  <1>1. Len(s) \in Nat /\ DOMAIN s = 1 .. Len(s) /\ \A i \in 1 .. Len(s) : s[i] \in Parts
    BY LenProperties, ElementOfSeq
  <1>2. m \in Nat
    BY ConnectionAssumption
  <1>3. ASSUME NEW i \in 1 .. Len(s)
        PROVE  LinesEnded(s[i]) \in Nat /\ LinesEnded(s[i]) <= m
    <2>1. s[i].part \in {1, 2}
      BY <1>1 DEF Parts, PartsOf
    <2> QED  BY <2>1, ConnectionAssumption DEF LinesEnded
  <1> HIDE DEF m
  <1>4. L \subseteq (1 .. Len(s)) \X (1 .. m)
    BY <1>1, <1>2, <1>3
  <1> HIDE DEF L
  <1>5. IsFiniteSet(1 .. Len(s)) /\ IsFiniteSet(1 .. m)
    BY <1>1, <1>2, FS_Interval
  <1>6. IsFiniteSet((1 .. Len(s)) \X (1 .. m))
    BY <1>5, FS_Product
  <1>7. IsFiniteSet(L)
    BY <1>4, <1>6, FS_Subset
  <1>8. Cardinality(L) \in Nat
    BY <1>7, FS_CardinalityType
  <1> QED  BY <1>7, <1>8 DEF L, Lines

(* Every second part of an item ends a line.                               *)
LEMMA LineForEachItem ==
  ASSUME NEW s \in Seq(Parts), NEW n \in Nat, NEW off \in Int,
         \A j \in 1 .. n : 2 * j + off \in 1 .. Len(s) /\ s[2 * j + off].part = 2
  PROVE  Lines(s) >= n
  <1> DEFINE L == UNION {{i} \X (1 .. LinesEnded(s[i])) : i \in DOMAIN s}
             f == [j \in 1 .. n |-> <<2 * j + off, 1>>]
  <1>1. Len(s) \in Nat /\ DOMAIN s = 1 .. Len(s) /\ \A i \in 1 .. Len(s) : s[i] \in Parts
    BY LenProperties, ElementOfSeq
  <1>2. ASSUME NEW j \in 1 .. n
        PROVE  <<2 * j + off, 1>> \in L
    <2>1. LinesEnded(s[2 * j + off]) \in Nat /\ LinesEnded(s[2 * j + off]) >= 1
      BY ConnectionAssumption DEF LinesEnded
    <2>2. 1 \in 1 .. LinesEnded(s[2 * j + off])
      BY <2>1
    <2> QED  BY <1>1, <2>2
  <1>3. IsFiniteSet(L) /\ Cardinality(L) \in Nat /\ Cardinality(L) = Lines(s)
    BY LinesCounted, FS_CardinalityType DEF Lines
  <1> HIDE DEF L
  <1>4. f \in [1 .. n -> L] /\ \A a, b \in 1 .. n : f[a] = f[b] => a = b
    BY <1>2
  <1> HIDE DEF f
  <1>5. f \in Injection(1 .. n, L)
    BY <1>4 DEF Injection, IsInjective
  <1>6. Cardinality(1 .. n) <= Cardinality(L)
    BY <1>3, <1>5, FS_Injection
  <1>7. Cardinality(1 .. n) = n
    BY FS_Interval
  <1> QED  BY <1>3, <1>6, <1>7
----------------------------------------------------------------------------
(* What an event does to the stream of its client. *)

(* The buffers of a client, a chunk of what is on the wire, and the rest.  *)
Buffered(c, n) == (IF authenticated[c] THEN parser[c] ELSE text[c]) \o SubSeq(wire[c], 1, n)

LEMMA Chunk ==
  ASSUME Inv, NEW c \in Clients, NEW n \in 1 .. Len(wire[c])
  PROVE  /\ SubSeq(wire[c], 1, n) \in Seq(Parts) /\ Len(SubSeq(wire[c], 1, n)) = n
         /\ Buffered(c, n) \in Seq(Parts) /\ Buffered(c, n) # <<>>
         /\ Rest(wire[c], n) \in Seq(Parts)
         /\ Stream(c) \in Seq(Parts) /\ Stream(c) = Buffered(c, n) \o Rest(wire[c], n)
  <1> DEFINE chunk == SubSeq(wire[c], 1, n)
             t == IF authenticated[c] THEN parser[c] ELSE text[c]
             r == Rest(wire[c], n)
             b == t \o chunk
  <1>1. text[c] \in Seq(Parts) /\ parser[c] \in Seq(Parts) /\ wire[c] \in Seq(Parts)
    BY DEF Inv, Frames
  <1>2. t \in Seq(Parts) /\ text[c] \o parser[c] = t
    <2>1. IF authenticated[c] THEN text[c] = <<>> ELSE parser[c] = <<>>
      BY DEF Inv, ClientOK
    <2> QED  BY <1>1, <2>1, ConcatEmptySeq
  <1>3. n \in 0 .. Len(wire[c]) /\ n \in Nat /\ n >= 1
    BY <1>1, LenProperties
  <1>4. chunk \in Seq(Parts) /\ Len(chunk) = n /\ r \in Seq(Parts) /\ chunk \o r = wire[c]
    BY <1>1, <1>3, Cut
  <1> HIDE DEF t, r, chunk
  <1>5. b \in Seq(Parts) /\ Len(b) = Len(t) + Len(chunk)
    BY <1>2, <1>4, ConcatProperties
  <1>6. b # <<>>
    <2>1. Len(t) \in Nat /\ Len(<<>>) = 0
      BY <1>2, LenProperties, EmptySeq
    <2>2. Len(b) >= 1
      BY <1>3, <1>4, <1>5, <2>1
    <2> QED  BY <2>1, <2>2
  <1>7. Stream(c) = t \o (chunk \o r)
    BY <1>2, <1>4 DEF Stream
  <1>8. (t \o chunk) \o r = t \o (chunk \o r)
    <2>1. \A x, y, z \in Seq(Parts) : (x \o y) \o z = x \o (y \o z)
      BY ConcatAssociative
    <2>2. t \in Seq(Parts) /\ chunk \in Seq(Parts) /\ r \in Seq(Parts)
      BY <1>2, <1>4
    <2> QED  BY <2>1, <2>2
  <1>9. Stream(c) = b \o r /\ b \o r \in Seq(Parts)
    BY <1>4, <1>5, <1>7, <1>8, ConcatProperties
  <1>10. Buffered(c, n) = b
    BY DEF Buffered, t, chunk
  <1> HIDE DEF b
  <1> QED  BY <1>4, <1>5, <1>6, <1>9, <1>10 DEF r, chunk

(* A chunk that is fed to the parser.                                      *)
LEMMA FeedStream ==
  ASSUME Inv, NEW c \in Clients, authenticated[c],
         NEW n \in 1 .. Len(wire[c]), Feed(c, SubSeq(wire[c], 1, n)),
         wire' = [wire EXCEPT ![c] = SubSeq(wire[c], n + 1, Len(wire[c]))]
  PROVE  /\ parser'[c] \in Seq(Parts) /\ wire'[c] \in Seq(Parts) /\ pending'[c] \in Seq(Items)
         /\ Aligned(Stream(c)') /\ (Jammed(Stream(c)') <=> Jammed(Stream(c)))
         /\ \E p, q \in 0 .. Len(Whole(Stream(c))) :
              /\ q = p \/ (q = p + 1 /\ Whole(Stream(c))[q].type = "null")
              /\ pending'[c] = SubSeq(Whole(Stream(c)), 1, p)
              /\ Whole(Stream(c)') = Rest(Whole(Stream(c)), q)
  <1> DEFINE chunk == SubSeq(wire[c], 1, n)
             b == Buffered(c, n)
             r == Rest(wire[c], n)
             s == Stream(c)
             w == Whole(s)
             p == Parsed(b)
             q == Consumed(b)
  <1>1. /\ b \in Seq(Parts) /\ b # <<>> /\ r \in Seq(Parts)
        /\ s \in Seq(Parts) /\ s = b \o r
    BY Chunk
  <1>2. Aligned(s)
    BY DEF Inv, ClientOK
  <1>3. /\ parser'[c] = Rest(b, 2 * q) /\ wire'[c] = r /\ text'[c] = <<>>
        /\ pending'[c] = SubSeq(Whole(b), 1, p)
    <2>1. b = parser[c] \o chunk
      BY DEF Buffered
    <2>2. text[c] = <<>>
      BY DEF Inv, ClientOK
    <2>3. wire \in [Clients -> Seq(Parts)] /\ parser \in [Clients -> Seq(Parts)] /\ pending \in [Clients -> Seq(Items)]
      BY DEF Inv, Frames
    <2> QED  BY <2>1, <2>2, <2>3 DEF Feed, Rest
  <1> HIDE DEF b, r, s
  <1>4. /\ p \in 0 .. Len(Whole(b)) /\ q \in 0 .. Len(Whole(b))
        /\ q = p \/ (q = p + 1 /\ Whole(b)[p + 1].type = "null")
    BY <1>1, FeedTakes
  <1> HIDE DEF p, q
  <1>5. /\ Jammed(b) <=> Jammed(s)
        /\ Len(b) \in Nat /\ Len(s) = Len(b) + Len(r)
        /\ ~Jammed(b) => Whole(b) = SubSeq(w, 1, Len(b) \div 2)
    BY <1>1, <1>2, FirstItems
  <1>6. w \in Seq(Items) /\ Whole(b) \in Seq(Items) /\ Len(w) \in Nat /\ Len(Whole(b)) \in Nat
    BY <1>1, WholeItems, LenProperties
  <1>7. Len(r) \in Nat
    BY <1>1, LenProperties
  <1>8. 2 * q \in 0 .. Len(b) /\ p \in 0 .. Len(w) /\ q \in 0 .. Len(w)
    <2>1. CASE Jammed(b)
      <3>1. Len(Whole(b)) = 0
        BY <1>1, <2>1, WholeItems, EmptySeq
      <3> QED  BY <1>4, <1>5, <1>6, <3>1
    <2>2. CASE ~Jammed(b)
      <3>1. Len(Whole(b)) = Len(b) \div 2 /\ Len(w) = Len(s) \div 2
        BY <1>1, <1>5, <2>2, WholeItems
      <3>2. Len(b) \div 2 <= Len(s) \div 2 /\ 2 * (Len(b) \div 2) <= Len(b)
        BY <1>5, <1>7
      <3> QED  BY <1>4, <1>5, <1>6, <3>1, <3>2
    <2> QED  BY <2>1, <2>2
  <1>9. Stream(c)' = Rest(s, 2 * q)
    <2>1. parser'[c] \in Seq(Parts)
      BY <1>1, <1>3, <1>8, Cut
    <2>2. Stream(c)' = parser'[c] \o wire'[c]
      BY <1>3, <2>1, ConcatEmptySeq DEF Stream
    <2>3. Rest(b, 2 * q) \o r = Rest(b \o r, 2 * q)
      BY <1>1, <1>8, RestOfBoth
    <2> QED  BY <1>1, <1>3, <2>2, <2>3
  <1>10. parser'[c] \in Seq(Parts) /\ wire'[c] \in Seq(Parts) /\ pending'[c] \in Seq(Items)
    <2>1. Rest(b, 2 * q) \in Seq(Parts)
      BY <1>1, <1>8, Cut
    <2>2. SubSeq(Whole(b), 1, p) \in Seq(Items)
      BY <1>4, <1>6, Cut
    <2> QED  BY <1>1, <1>3, <2>1, <2>2
  <1>11. CASE Jammed(s)
    <2>1. w = <<>> /\ Whole(b) = <<>> /\ Len(w) = 0
      BY <1>1, <1>5, <1>11, WholeItems, EmptySeq
    <2>2. p = 0 /\ q = 0
      BY <1>8, <2>1
    <2>3. Rest(s, 0) = s /\ Rest(w, 0) = w
      BY <1>1, <1>6, SubSeqFull DEF Rest
    <2>4. Stream(c)' = s /\ Whole(Stream(c)') = Rest(w, q)
      BY <1>9, <2>2, <2>3
    <2>5. pending'[c] = SubSeq(w, 1, p)
      BY <1>3, <2>1
    <2>6. Aligned(Stream(c)') /\ Jammed(Stream(c)')
      BY <1>2, <1>11, <2>4
    <2>7. \E i, j \in 0 .. Len(w) :
              /\ j = i \/ (j = i + 1 /\ w[j].type = "null")
              /\ pending'[c] = SubSeq(w, 1, i)
              /\ Whole(Stream(c)') = Rest(w, j)
      BY <1>8, <2>2, <2>4, <2>5
    <2> QED  BY <1>10, <1>11, <2>6, <2>7 DEF s
  <1>12. CASE ~Jammed(s)
    <2>1. q \in 0 .. Len(s) \div 2
      BY <1>1, <1>8, <1>12, WholeItems
    <2>2. /\ Aligned(Rest(s, 2 * q)) /\ ~Jammed(Rest(s, 2 * q))
          /\ Whole(Rest(s, 2 * q)) = Rest(w, q)
      BY <1>1, <1>2, <1>12, <2>1, DropItems
    <2> DEFINE k == Len(b) \div 2
               v == Whole(b)
    <2>3. k \in 0 .. Len(w) /\ v = SubSeq(w, 1, k)
      <3>1. Len(w) = Len(s) \div 2
        BY <1>1, <1>12, WholeItems
      <3> QED  BY <1>5, <1>7, <1>12, <3>1
    <2> HIDE DEF k, v
    <2>4. v \in Seq(Items) /\ Len(v) = k /\ \A i \in 1 .. k : v[i] = w[i]
      BY <1>6, <2>3, Cut
    <2>5. p \in 0 .. k /\ q \in 0 .. k /\ (q = p \/ (q = p + 1 /\ w[q].type = "null"))
      <3>1. p \in 0 .. Len(v) /\ q \in 0 .. Len(v) /\ (q = p \/ (q = p + 1 /\ v[p + 1].type = "null"))
        BY <1>4 DEF v
      <3>2. p \in 0 .. k /\ q \in 0 .. k
        BY <2>4, <3>1
      <3> QED  BY <2>3, <2>4, <3>1, <3>2
    <2>6. SubSeq(v, 1, p) = SubSeq(w, 1, p)
      <3>1. /\ SubSeq(v, 1, p) \in Seq(Items) /\ Len(SubSeq(v, 1, p)) = p
            /\ \A i \in 1 .. p : SubSeq(v, 1, p)[i] = v[i]
        BY <2>4, <2>5, Cut
      <3>2. /\ SubSeq(w, 1, p) \in Seq(Items) /\ Len(SubSeq(w, 1, p)) = p
            /\ \A i \in 1 .. p : SubSeq(w, 1, p)[i] = w[i]
        BY <1>6, <1>8, Cut
      <3>3. \A i \in 1 .. p : SubSeq(v, 1, p)[i] = SubSeq(w, 1, p)[i]
        BY <2>3, <2>4, <2>5, <3>1, <3>2
      <3> QED  BY <3>1, <3>2, <3>3, SeqEqual
    <2>7. pending'[c] = SubSeq(w, 1, p) /\ Whole(Stream(c)') = Rest(w, q)
      BY <1>3, <1>9, <2>2, <2>6 DEF v
    <2>8. \E i, j \in 0 .. Len(w) :
              /\ j = i \/ (j = i + 1 /\ w[j].type = "null")
              /\ pending'[c] = SubSeq(w, 1, i)
              /\ Whole(Stream(c)') = Rest(w, j)
      BY <1>8, <2>5, <2>7
    <2> QED  BY <1>9, <1>10, <1>12, <2>2, <2>8 DEF s
  <1> QED  BY <1>11, <1>12

(* A chunk whose lines are all refused.                                    *)
LEMMA RefuseStream ==
  ASSUME Inv, NEW c \in Clients, ~authenticated[c],
         NEW n \in 1 .. Len(wire[c]), Refuse(c, SubSeq(wire[c], 1, n)),
         wire' = [wire EXCEPT ![c] = SubSeq(wire[c], n + 1, Len(wire[c]))]
  PROVE  /\ text'[c] \in Seq(Parts) /\ Len(text'[c]) <= 1 /\ wire'[c] \in Seq(Parts)
         /\ parser'[c] = <<>>
         /\ Aligned(Stream(c)') /\ ~Jammed(Stream(c)')
         /\ \E k \in 0 .. Len(Whole(Stream(c))) :
              /\ k <= Lines(SubSeq(wire[c], 1, n))
              /\ \A i \in 1 .. k : ~Promise!AdmitsWith(Whole(Stream(c))[i])
              /\ Whole(Stream(c)') = Rest(Whole(Stream(c)), k)
  <1> DEFINE chunk == SubSeq(wire[c], 1, n)
             b == Buffered(c, n)
             r == Rest(wire[c], n)
             s == Stream(c)
             w == Whole(s)
             k == Len(b) \div 2
             l == Len(text[c])
  <1>1. /\ b \in Seq(Parts) /\ b # <<>> /\ r \in Seq(Parts)
        /\ s \in Seq(Parts) /\ s = b \o r
        /\ chunk \in Seq(Parts) /\ Len(chunk) = n
    BY Chunk
  <1>2. Aligned(s) /\ ~Jammed(s) /\ parser[c] = <<>> /\ l <= 1
    BY DEF Inv, ClientOK
  <1>3. b = text[c] \o chunk
    BY DEF Buffered
  <1>4. text[c] \in Seq(Parts) /\ l \in Nat
    BY LenProperties DEF Inv, Frames
  <1>5. /\ text'[c] = Rest(b, 2 * k) /\ wire'[c] = r /\ parser'[c] = <<>>
        /\ \A i \in DOMAIN b : ~Opens(b[i])
    <2>1. wire \in [Clients -> Seq(Parts)] /\ text \in [Clients -> Seq(Parts)]
      BY DEF Inv, Frames
    <2> QED  BY <1>2, <1>3, <2>1 DEF Refuse, Rest
  <1> HIDE DEF b, r, s, chunk, l
  <1>6. Len(b) = l + n /\ \A i \in 1 .. l + n : b[i] = IF i <= l THEN text[c][i] ELSE chunk[i - l]
    BY <1>1, <1>3, <1>4, ConcatProperties DEF l
  <1>7. ~Jammed(b) /\ Len(b) \in Nat /\ Len(s) = Len(b) + Len(r) /\ \A i \in 1 .. Len(b) : b[i] = s[i]
    BY <1>1, <1>2, FirstItems
  <1>8. Len(r) \in Nat /\ Len(s) \in Nat /\ n \in Nat
    BY <1>1, LenProperties
  <1>9. k \in Nat /\ 2 * k \in 0 .. Len(b) /\ Len(b) - 2 * k <= 1 /\ k \in 0 .. Len(s) \div 2
    BY <1>7, <1>8
  <1> HIDE DEF k
  <1>10. text'[c] \in Seq(Parts) /\ Len(text'[c]) <= 1 /\ wire'[c] \in Seq(Parts)
    <2>1. Rest(b, 2 * k) \in Seq(Parts) /\ Len(Rest(b, 2 * k)) = Len(b) - 2 * k
      BY <1>1, <1>9, Cut
    <2> QED  BY <1>1, <1>5, <1>9, <2>1
  <1>11. Stream(c)' = Rest(s, 2 * k)
    <2>1. Stream(c)' = text'[c] \o wire'[c]
      BY <1>5, <1>10, ConcatEmptySeq DEF Stream
    <2>2. Rest(b, 2 * k) \o r = Rest(b \o r, 2 * k)
      BY <1>1, <1>9, RestOfBoth
    <2> QED  BY <1>1, <1>5, <2>1, <2>2
  <1>12. /\ Aligned(Stream(c)') /\ ~Jammed(Stream(c)')
         /\ Whole(Stream(c)') = Rest(w, k)
    BY <1>1, <1>2, <1>9, <1>11, DropItems
  <1>13. w \in Seq(Items) /\ Len(w) = Len(s) \div 2 /\ \A j \in 1 .. Len(s) \div 2 : w[j] = s[2 * j].item
    BY <1>1, <1>2, WholeItems
  <1>14. ASSUME NEW i \in 1 .. k
         PROVE  /\ ~Promise!AdmitsWith(w[i])
                /\ 2 * i + (0 - l) \in 1 .. Len(chunk) /\ chunk[2 * i + (0 - l)].part = 2
    <2>1. 2 * i \in 1 .. Len(b) /\ i \in 1 .. Len(s) \div 2 /\ 2 * i > l
      BY <1>2, <1>4, <1>7, <1>8, <1>9
    <2>2. b[2 * i] = s[2 * i] /\ w[i] = s[2 * i].item /\ b[2 * i] = chunk[2 * i - l]
      BY <1>4, <1>6, <1>7, <1>8, <1>13, <2>1
    <2>3. s[2 * i].part = 2
      <3>1. 2 * i \in 1 .. Len(s) /\ (2 * i) % 2 = 0
        BY <1>7, <1>8, <2>1
      <3> QED  BY <1>2, <3>1 DEF Aligned, FirstPart
    <2>4. ~Opens(b[2 * i])
      <3>1. 2 * i \in DOMAIN b
        BY <1>1, <2>1, LenProperties
      <3> QED  BY <1>5, <3>1
    <2>5. ~Promise!AdmitsWith(w[i])
      BY <2>2, <2>3, <2>4 DEF Opens, Promise!AdmitsWith
    <2>6. 2 * i + (0 - l) = 2 * i - l /\ 2 * i - l \in 1 .. Len(chunk)
      BY <1>1, <1>4, <1>6, <1>8, <2>1
    <2> QED  BY <2>2, <2>3, <2>5, <2>6
  <1>15. k <= Lines(chunk)
    <2>1. 0 - l \in Int
      BY <1>4
    <2>2. Lines(chunk) >= k
      BY <1>1, <1>9, <1>14, <2>1, LineForEachItem
    <2>3. Lines(chunk) \in Nat
      BY <1>1, LinesCounted
    <2> QED  BY <1>9, <2>2, <2>3
  <1>16. \E j \in 0 .. Len(w) :
              /\ j <= Lines(chunk)
              /\ \A i \in 1 .. j : ~Promise!AdmitsWith(w[i])
              /\ Whole(Stream(c)') = Rest(w, j)
    <2>1. k \in 0 .. Len(w)
      BY <1>9, <1>13
    <2> QED  BY <1>12, <1>14, <1>15, <2>1
  <1> QED  BY <1>5, <1>10, <1>12, <1>16 DEF s, chunk

(* A chunk with the password in it.                                        *)
LEMMA AdmitStream ==
  ASSUME Inv, NEW c \in Clients, ~authenticated[c],
         NEW n \in 1 .. Len(wire[c]), Admit(c, SubSeq(wire[c], 1, n)),
         NEW reading \in Readings(SubSeq(wire[c], n + 1, Len(wire[c]))),
         wire' = [wire EXCEPT ![c] = reading]
  PROVE  /\ text'[c] = <<>> /\ parser'[c] = <<>> /\ wire'[c] \in Seq(Parts)
         /\ Aligned(Stream(c)') /\ (Jammed(Stream(c)') => Whole(Stream(c)') = <<>>)
         /\ \E k \in DOMAIN Whole(Stream(c)) :
              /\ Promise!AdmitsWith(Whole(Stream(c))[k])
              /\ \A i \in 1 .. k - 1 : ~Promise!AdmitsWith(Whole(Stream(c))[i])
              /\ \E d \in k .. Len(Whole(Stream(c))) :
                   \E rest \in IF d = k THEN {<<>>} ELSE {<<>>} \cup Rests[Whole(Stream(c))[d]] :
                     Whole(Stream(c)') = rest \o Rest(Whole(Stream(c)), d)
  <1> DEFINE chunk == SubSeq(wire[c], 1, n)
             b == Buffered(c, n)
             r == Rest(wire[c], n)
             s == Stream(c)
             w == Whole(s)
             l == Len(text[c])
  <1>1. /\ b \in Seq(Parts) /\ b # <<>> /\ r \in Seq(Parts)
        /\ s \in Seq(Parts) /\ s = b \o r
        /\ chunk \in Seq(Parts) /\ Len(chunk) = n
    BY Chunk
  <1>2. Aligned(s) /\ ~Jammed(s) /\ l <= 1
    BY DEF Inv, ClientOK
  <1>3. b = text[c] \o chunk
    BY DEF Buffered
  <1>4. text[c] \in Seq(Parts) /\ l \in Nat
    BY LenProperties DEF Inv, Frames
  <1>5. wire'[c] = reading /\ reading \in Readings(r) /\ parser'[c] = <<>> /\ text'[c] = <<>>
    <2>1. /\ wire \in [Clients -> Seq(Parts)] /\ text \in [Clients -> Seq(Parts)]
          /\ parser \in [Clients -> Seq(Parts)]
      BY DEF Inv, Frames
    <2> QED  BY <2>1 DEF Admit, Rest
  <1>6. PICK h \in DOMAIN chunk : Opens(chunk[h]) /\ \A j \in 1 .. h - 1 : ~Opens(chunk[j])
    BY DEF Admit
  <1> HIDE DEF b, r, s, chunk, l
  <1>7. Len(b) = l + n /\ \A i \in 1 .. l + n : b[i] = IF i <= l THEN text[c][i] ELSE chunk[i - l]
    BY <1>1, <1>3, <1>4, ConcatProperties DEF l
  <1>8. ~Jammed(b) /\ Len(b) \in Nat /\ Len(s) = Len(b) + Len(r) /\ \A i \in 1 .. Len(b) : b[i] = s[i]
    BY <1>1, <1>2, FirstItems
  <1>9. Len(r) \in Nat /\ Len(s) \in Nat /\ n \in Nat /\ h \in 1 .. n
    BY <1>1, LenProperties
  <1>10. \A i \in 1 .. n : chunk[i] = s[l + i] /\ l + i \in 1 .. Len(s)
    <2>1. ASSUME NEW i \in 1 .. n
          PROVE  chunk[i] = s[l + i] /\ l + i \in 1 .. Len(s)
      <3>1. l + i \in 1 .. l + n /\ ~(l + i <= l) /\ l + i - l = i
        BY <1>4, <1>9
      <3>2. b[l + i] = chunk[l + i - l]
        BY <1>4, <1>7, <1>9, <3>1
      <3> QED  BY <1>4, <1>7, <1>8, <1>9, <3>1, <3>2
    <2> QED  BY <2>1
  <1>11. w \in Seq(Items) /\ Len(w) = Len(s) \div 2 /\ \A j \in 1 .. Len(s) \div 2 : w[j] = s[2 * j].item
    BY <1>1, <1>2, WholeItems
  <1>12. \A i \in 1 .. Len(s) : s[i].part = 2 - (i % 2)
    BY <1>2 DEF Aligned, FirstPart
  <1>13. PICK k \in Nat : l + h = 2 * k
    <2>1. s[l + h].part = 2
      BY <1>6, <1>9, <1>10 DEF Opens
    <2>2. (l + h) % 2 = 0 /\ l + h \in Nat
      <3>1. l + h \in Nat /\ l + h \in 1 .. Len(s)
        BY <1>4, <1>9, <1>10
      <3>2. s[l + h].part = 2 - ((l + h) % 2) /\ (l + h) % 2 \in {0, 1}
        BY <1>12, <3>1, Halves
      <3> QED  BY <2>1, <3>1, <3>2
    <2>3. (l + h) \div 2 \in Nat /\ l + h = 2 * ((l + h) \div 2)
      BY <2>2, Halves
    <2> QED  BY <2>3
  <1>14. k \in 1 .. Len(w) /\ k \in DOMAIN w
    <2>1. k >= 1 /\ 2 * k <= Len(s)
      BY <1>4, <1>8, <1>7, <1>9, <1>13
    <2>2. k <= Len(s) \div 2
      BY <1>9, <2>1
    <2> QED  BY <1>11, <2>1, <2>2, LenProperties
  <1>15. Promise!AdmitsWith(w[k])
    <2>1. w[k] = chunk[h].item
      BY <1>9, <1>10, <1>11, <1>13, <1>14
    <2> QED  BY <1>6, <2>1 DEF Opens, Promise!AdmitsWith
  <1>16. ASSUME NEW i \in 1 .. k - 1
         PROVE  ~Promise!AdmitsWith(w[i])
    <2>1. 2 * i - l \in 1 .. h - 1 /\ 2 * i - l \in 1 .. n /\ l + (2 * i - l) = 2 * i
      BY <1>2, <1>4, <1>9, <1>13
    <2>2. chunk[2 * i - l] = s[2 * i] /\ 2 * i \in 1 .. Len(s)
      BY <1>10, <2>1
    <2>3. i \in 1 .. Len(s) \div 2
      BY <1>9, <2>2
    <2>4. w[i] = s[2 * i].item /\ s[2 * i].part = 2
      BY <1>11, <1>12, <2>2, <2>3
    <2>5. ~Opens(chunk[2 * i - l])
      BY <1>6, <2>1
    <2> QED  BY <2>2, <2>4, <2>5 DEF Opens, Promise!AdmitsWith
  <1>17. r = Rest(s, Len(b))
    <2>2. Rest(b, Len(b)) = <<>>
      BY <1>8, SubSeqEmpty DEF Rest
    <2>3. Len(b) \in 0 .. Len(b)
      BY <1>8
    <2>4. Rest(b, Len(b)) \o r = Rest(b \o r, Len(b))
      BY <1>1, <2>3, RestOfBoth
    <2>5. <<>> \o r = r
      BY <1>1, ConcatEmptySeq
    <2> QED  BY <1>1, <2>2, <2>4, <2>5
  <1>18. /\ reading \in Seq(Parts) /\ Aligned(reading)
         /\ \E d \in k .. Len(w) :
              \E rest \in IF d = k THEN {<<>>} ELSE {<<>>} \cup Rests[w[d]] :
                Whole(reading) = rest \o Rest(w, d)
    <2> DEFINE m == Len(b) \div 2
               Taken(d) == IF d = k THEN {<<>>} ELSE {<<>>} \cup Rests[w[d]]
    <2>1. m \in Nat /\ Len(b) % 2 \in {0, 1} /\ Len(b) = 2 * m + (Len(b) % 2)
      BY <1>8, Halves
    <2> HIDE DEF m
    <2>7. /\ 2 * k <= Len(b) /\ Len(b) <= Len(s) /\ Len(b) \in Nat /\ Len(s) \in Nat
          /\ Len(w) = Len(s) \div 2
      <3>1. 2 * k <= l + n
        BY <1>4, <1>9, <1>13
      <3> QED  BY <1>7, <1>8, <1>9, <1>11, <3>1
    <2>2. \A d \in 0 .. Len(w) : Rest(w, d) \in Seq(Items) /\ <<>> \o Rest(w, d) = Rest(w, d)
      BY <1>11, Cut, ConcatEmptySeq
    <2>3. \A d : <<>> \in Taken(d)
      OBVIOUS
    <2>4. CASE Len(b) % 2 = 0
      <3>1. m \in 0 .. Len(s) \div 2 /\ k <= m
        BY <1>13, <2>1, <2>4, <2>7
      <3>2. Aligned(Rest(s, 2 * m)) /\ ~Jammed(Rest(s, 2 * m)) /\ Whole(Rest(s, 2 * m)) = Rest(w, m)
        BY <1>1, <1>2, <3>1, DropItems
      <3>3. Len(b) = 2 * m /\ m \in k .. Len(w) /\ m \in 0 .. Len(w)
        BY <1>13, <2>1, <2>4, <2>7, <3>1
      <3>4. reading = r
        BY <1>5, <1>17, <3>2, <3>3 DEF Readings
      <3>5. Whole(reading) = <<>> \o Rest(w, m)
        BY <1>17, <2>2, <3>2, <3>3, <3>4
      <3> QED  BY <1>1, <1>17, <2>3, <3>2, <3>3, <3>4, <3>5
    <2>5. CASE Len(b) % 2 = 1 /\ reading = r
      <3>1. Len(b) \in 1 .. Len(s)
        BY <1>8, <1>9, <2>1, <2>5
      <3>2. Aligned(Rest(s, Len(b))) /\ Whole(Rest(s, Len(b))) = <<>>
        BY <1>1, <1>2, <2>5, <3>1, DropHalf
      <3>3. Len(w) \in Nat /\ Rest(w, Len(w)) = <<>>
        BY <1>11, LenProperties, SubSeqEmpty DEF Rest
      <3>4. Len(w) \in k .. Len(w) /\ Len(w) \in 0 .. Len(w)
        BY <1>14, <3>3
      <3>5. Whole(reading) = <<>> \o Rest(w, Len(w))
        BY <1>17, <2>2, <2>5, <3>2, <3>3, <3>4
      <3> QED  BY <1>1, <1>17, <2>3, <2>5, <3>2, <3>4, <3>5
    <2>6. CASE Len(b) % 2 = 1 /\ reading # r
      <3>1. Len(b) = 2 * m + 1 /\ 2 * m + 1 <= Len(s)
        BY <1>8, <1>9, <2>1, <2>6
      <3>2. r = Rest(s, 2 * m + 1)
        BY <1>17, <3>1
      <3>3. /\ reading \in Seq(Parts) /\ Aligned(reading) /\ ~Jammed(reading)
            /\ m + 1 \in 1 .. Len(w)
            /\ \E rest \in Rests[w[m + 1]] : Whole(reading) = rest \o Rest(w, m + 1)
        <4>1. reading \in Readings(Rest(s, 2 * m + 1)) /\ reading # Rest(s, 2 * m + 1)
          BY <1>5, <2>6, <3>2
        <4> QED  BY <1>1, <1>2, <2>1, <3>1, <4>1, ReadHalf
      <3>4. k < m + 1 /\ m + 1 \in k .. Len(w)
        <4>1. 2 * k <= 2 * m + 1 /\ m + 1 <= Len(w)
          BY <2>7, <3>1, <3>3
        <4> QED  BY <1>13, <2>1, <2>7, <4>1
      <3>5. Rests[w[m + 1]] \subseteq Taken(m + 1)
        BY <1>13, <3>4
      <3> HIDE DEF Taken
      <3>6. \E rest \in Taken(m + 1) : Whole(reading) = rest \o Rest(w, m + 1)
        BY <3>3, <3>5
      <3>7. \E d \in k .. Len(w) : \E rest \in Taken(d) : Whole(reading) = rest \o Rest(w, d)
        BY <3>4, <3>6
      <3> QED  BY <3>3, <3>7 DEF Taken
    <2> QED  BY <2>1, <2>4, <2>5, <2>6
  <1>19. Stream(c)' = reading
    BY <1>5, <1>18, ConcatEmptySeq, EmptySeq DEF Stream
  <1>20. Jammed(reading) => Whole(reading) = <<>>
    BY <1>18, WholeItems
  <1>21. \E j \in DOMAIN w :
              /\ Promise!AdmitsWith(w[j])
              /\ \A i \in 1 .. j - 1 : ~Promise!AdmitsWith(w[i])
              /\ \E d \in j .. Len(w) :
                   \E rest \in IF d = j THEN {<<>>} ELSE {<<>>} \cup Rests[w[d]] :
                     Whole(Stream(c)') = rest \o Rest(w, d)
    BY <1>14, <1>15, <1>16, <1>18, <1>19
  <1> QED  BY <1>5, <1>18, <1>19, <1>20, <1>21 DEF s
----------------------------------------------------------------------------
(* The invariant. *)

LEMMA InvHoldsInitially == Init => Inv
  <1> SUFFICES ASSUME Init
               PROVE  Inv
    OBVIOUS
  <1> USE ConnectionAssumption
  <1>1. Emptied \in [Keys -> Values \cup {Nil}] /\ Emptied # NoDb
    BY DEF Emptied
  <1>2. databases \in [DbIndexes -> [Keys -> Values \cup {Nil}] \cup {NoDb}]
    BY <1>1 DEF Init
  <1>3. Frames
    <2>1. <<>> \in Seq(Parts) /\ <<>> \in Seq(Items)
      BY EmptySeq
    <2> QED  BY <1>2, <2>1 DEF Frames, Init
  <1>4. ASSUME NEW c \in Clients
        PROVE  ClientOK(c)
    <2>1. Stream(c) = <<>> \o <<>> \o <<>>
      BY DEF Init, Stream
    <2>2. Stream(c) = <<>> /\ Len(<<>>) = 0
      BY <2>1, EmptySeq, ConcatEmptySeq
    <2>3. Aligned(Stream(c)) /\ ~Jammed(Stream(c))
      BY <2>2 DEF Aligned, Jammed
    <2>4. databases[dbIndex[c]] # NoDb
      BY <1>1 DEF Init
    <2> QED  BY <2>2, <2>3, <2>4 DEF ClientOK, Init
  <1>5. HeldKeys = {}
    <2>1. \A i \in DbIndexes : Db(i) = Emptied
      BY DEF Db, Init
    <2> QED  BY <2>1 DEF HeldKeys, Emptied
  <1>6. answer \in Answers \cup {Nil}
    BY DEF Init
  <1> QED  BY <1>3, <1>4, <1>5, <1>6, FS_EmptySet DEF Inv

(* A client whose buffers, queue and socket an event leaves alone.         *)
LEMMA ClientKept ==
  ASSUME NEW d \in Clients, ClientOK(d),
         text'[d] = text[d], parser'[d] = parser[d], wire'[d] = wire[d],
         pending'[d] = pending[d], authenticated'[d] = authenticated[d],
         pending[d] # <<>> => socket'[d] = socket[d],
         databases'[dbIndex'[d]] # NoDb
  PROVE  ClientOK(d)'
  <1>1. Stream(d)' = Stream(d)
    BY DEF Stream
  <1> QED  BY <1>1 DEF ClientOK

(* A client that has nothing buffered and nothing on the wire.             *)
LEMMA ClientGone ==
  ASSUME NEW d \in Clients,
         text'[d] = <<>>, parser'[d] = <<>>, wire'[d] = <<>>, pending'[d] = <<>>,
         databases'[dbIndex'[d]] # NoDb
  PROVE  ClientOK(d)' /\ Stream(d)' = <<>>
  <1>1. Stream(d)' = <<>> \o <<>> \o <<>>
    BY DEF Stream
  <1>2. Stream(d)' = <<>> /\ Len(<<>>) = 0
    BY <1>1, EmptySeq, ConcatEmptySeq
  <1>3. Aligned(Stream(d)') /\ ~Jammed(Stream(d)')
    BY <1>2 DEF Aligned, Jammed
  <1> QED  BY <1>2, <1>3 DEF ClientOK

LEMMA InvSend ==
  ASSUME Inv, NEW c \in Clients, NEW item \in Items, Send(c, item)
  PROVE  Inv'
  <1>1. /\ Frames /\ \A d \in Clients : ClientOK(d)
    BY DEF Inv
  <1>2. /\ wire[c] \in Seq(Parts) /\ text[c] \in Seq(Parts) /\ parser[c] \in Seq(Parts)
    BY <1>1 DEF Frames
  <1> DEFINE p == <<Part(item, 1), Part(item, 2)>>
  <1>3. p \in Seq(Parts)
    BY DEF Part, Parts, PartsOf
  <1> HIDE DEF p
  <1>4. wire[c] \o p \in Seq(Parts)
    BY <1>2, <1>3, ConcatProperties
  <1>5. wire' = [wire EXCEPT ![c] = wire[c] \o p] /\ wire \in [Clients -> Seq(Parts)]
    BY <1>1 DEF Send, Frames, p
  <1>6. wire' \in [Clients -> Seq(Parts)] /\ wire'[c] = wire[c] \o p
        /\ \A d \in Clients \ {c} : wire'[d] = wire[d]
    BY <1>4, <1>5
  <1>7. /\ UNCHANGED <<requirePass, socket, authenticated, text, parser, pending, dbIndex, databases>>
        /\ sent' \in 0 .. MaxSent
    <2>1. sent \in 0 .. MaxSent /\ sent < MaxSent /\ sent' = sent + 1
      BY <1>1 DEF Send, Frames
    <2> QED  BY <2>1, ConnectionAssumption DEF Send, buffers
  <1>8. Frames'
    BY <1>1, <1>6, <1>7 DEF Frames
  <1>9. ClientOK(c)'
    <2>1. Stream(c)' = Stream(c) \o p
      <3>1. \A x, y, z \in Seq(Parts) : (x \o y) \o z = x \o (y \o z) /\ x \o y \in Seq(Parts)
        BY ConcatAssociative, ConcatProperties
      <3> DEFINE u == text[c] \o parser[c]
      <3>2. u \in Seq(Parts)
        BY <1>2, <3>1
      <3>3. Stream(c) = u \o wire[c] /\ Stream(c)' = u \o (wire[c] \o p)
        BY <1>6, <1>7 DEF Stream
      <3> HIDE DEF u
      <3>4. (u \o wire[c]) \o p = u \o (wire[c] \o p)
        BY <1>2, <1>3, <3>1, <3>2
      <3> QED  BY <3>3, <3>4
    <2>2. Stream(c) \in Seq(Parts)
      BY <1>2, ConcatProperties DEF Stream
    <2>3. Aligned(Stream(c)') /\ (Jammed(Stream(c)') <=> Jammed(Stream(c)))
      BY <1>1, <2>1, <2>2, SendItem DEF ClientOK, p
    <2> QED  BY <1>1, <1>7, <2>3 DEF ClientOK
  <1>10. ASSUME NEW d \in Clients \ {c}
         PROVE  ClientOK(d)'
    BY <1>1, <1>6, <1>7, ClientKept DEF ClientOK
  <1>11. HeldKeys' = HeldKeys
    BY <1>7 DEF HeldKeys, Db
  <1>12. answer' = Nil
    BY DEF Send
  <1> QED  BY <1>8, <1>9, <1>10, <1>11, <1>12 DEF Inv

LEMMA InvReceive ==
  ASSUME Inv, NEW c \in Clients, Receive(c)
  PROVE  Inv'
  <1>1. /\ Frames /\ \A d \in Clients : ClientOK(d)
    BY DEF Inv
  <1>2. PICK n \in 1 .. Len(wire[c]) :
          LET chunk == SubSeq(wire[c], 1, n)
              left  == SubSeq(wire[c], n + 1, Len(wire[c]))
          IN  \/ authenticated[c] /\ Feed(c, chunk) /\ wire' = [wire EXCEPT ![c] = left]
              \/ ~authenticated[c] /\ Refuse(c, chunk) /\ wire' = [wire EXCEPT ![c] = left]
              \/ /\ ~authenticated[c] /\ Admit(c, chunk)
                 /\ \E reading \in Readings(left) : wire' = [wire EXCEPT ![c] = reading]
    BY DEF Receive
  <1>3. UNCHANGED <<requirePass, sent, socket, dbIndex, databases>> /\ Idle /\ socket[c] # "closed"
    BY DEF Receive
  <1>4. /\ wire \in [Clients -> Seq(Parts)] /\ text \in [Clients -> Seq(Parts)]
        /\ parser \in [Clients -> Seq(Parts)] /\ pending \in [Clients -> Seq(Items)]
        /\ authenticated \in [Clients -> BOOLEAN]
    BY <1>1 DEF Frames
  <1>5. HeldKeys' = HeldKeys
    BY <1>3 DEF HeldKeys, Db
  <1>6. \A d \in Clients : databases'[dbIndex'[d]] # NoDb
    BY <1>1, <1>3 DEF ClientOK
  <1> DEFINE chunk == SubSeq(wire[c], 1, n)
             left == SubSeq(wire[c], n + 1, Len(wire[c]))
  <1>7. Lines(chunk) \in Nat
    BY Chunk, LinesCounted
  <1>8. CASE authenticated[c] /\ Feed(c, chunk) /\ wire' = [wire EXCEPT ![c] = left]
    <2>1. /\ parser'[c] \in Seq(Parts) /\ wire'[c] \in Seq(Parts) /\ pending'[c] \in Seq(Items)
          /\ Aligned(Stream(c)')
      BY <1>8, FeedStream
    <2>2. /\ UNCHANGED <<authenticated, text>> /\ answer' = Nil
          /\ parser' = [parser EXCEPT ![c] = parser'[c]]
          /\ pending' = [pending EXCEPT ![c] = pending'[c]]
          /\ wire' = [wire EXCEPT ![c] = wire'[c]]
      BY <1>4, <1>8 DEF Feed
    <2>3. Frames'
      BY <1>1, <1>3, <1>4, <2>1, <2>2 DEF Frames
    <2>4. ClientOK(c)'
      BY <1>1, <1>3, <1>6, <1>8, <2>1, <2>2 DEF ClientOK
    <2>5. ASSUME NEW d \in Clients \ {c}
          PROVE  ClientOK(d)'
      BY <1>1, <1>3, <1>4, <1>6, <2>2, ClientKept
    <2> QED  BY <1>5, <2>2, <2>3, <2>4, <2>5 DEF Inv
  <1>9. CASE ~authenticated[c] /\ Refuse(c, chunk) /\ wire' = [wire EXCEPT ![c] = left]
    <2>1. /\ text'[c] \in Seq(Parts) /\ Len(text'[c]) <= 1 /\ wire'[c] \in Seq(Parts)
          /\ Aligned(Stream(c)') /\ ~Jammed(Stream(c)')
      BY <1>9, RefuseStream
    <2>2. /\ UNCHANGED <<authenticated, parser, pending>>
          /\ answer' = [to |-> c, refused |-> Lines(chunk), accepted |-> FALSE]
          /\ text' = [text EXCEPT ![c] = text'[c]]
          /\ wire' = [wire EXCEPT ![c] = wire'[c]]
      BY <1>4, <1>9 DEF Refuse
    <2>3. Frames'
      BY <1>1, <1>3, <1>4, <2>1, <2>2 DEF Frames
    <2>4. ClientOK(c)'
      BY <1>1, <1>3, <1>6, <1>9, <2>1, <2>2 DEF ClientOK
    <2>5. ASSUME NEW d \in Clients \ {c}
          PROVE  ClientOK(d)'
      BY <1>1, <1>3, <1>4, <1>6, <2>2, ClientKept
    <2>6. answer' \in Answers
      BY <1>7, <2>2 DEF Answers
    <2> QED  BY <1>5, <2>3, <2>4, <2>5, <2>6 DEF Inv
  <1>10. ASSUME ~authenticated[c], Admit(c, chunk), NEW reading \in Readings(left),
                wire' = [wire EXCEPT ![c] = reading]
         PROVE  Inv'
    <2>1. /\ text'[c] = <<>> /\ parser'[c] = <<>> /\ wire'[c] \in Seq(Parts)
          /\ Aligned(Stream(c)')
      BY <1>10, AdmitStream
    <2>2. PICK h \in DOMAIN chunk :
            /\ authenticated' = [authenticated EXCEPT ![c] = TRUE]
            /\ answer' = [to |-> c, refused |-> Lines(SubSeq(chunk, 1, h - 1)), accepted |-> TRUE]
            /\ text' = [text EXCEPT ![c] = <<>>]
            /\ parser' = [parser EXCEPT ![c] = <<>>]
            /\ UNCHANGED pending
      BY <1>10 DEF Admit
    <2>3. wire' = [wire EXCEPT ![c] = wire'[c]]
      BY <1>4, <1>10
    <2>4. Frames'
      <3>1. <<>> \in Seq(Parts)
        BY EmptySeq
      <3> QED  BY <1>1, <1>3, <1>4, <2>1, <2>2, <2>3, <3>1 DEF Frames
    <2>5. ClientOK(c)'
      <3>1. Len(<<>>) = 0 /\ pending[c] = <<>> /\ authenticated'[c]
        BY <1>3, <1>4, <2>2, EmptySeq DEF Idle
      <3> QED  BY <1>6, <2>1, <2>2, <3>1 DEF ClientOK
    <2>6. ASSUME NEW d \in Clients \ {c}
          PROVE  ClientOK(d)'
      BY <1>1, <1>3, <1>4, <1>6, <2>2, <2>3, ClientKept
    <2>7. answer' \in Answers
      <3>1. chunk \in Seq(Parts)
        BY Chunk
      <3> HIDE DEF chunk
      <3>2. h - 1 \in 0 .. Len(chunk)
        BY <3>1, LenProperties
      <3>3. SubSeq(chunk, 1, h - 1) \in Seq(Parts)
        BY <3>1, <3>2, Cut
      <3>4. Lines(SubSeq(chunk, 1, h - 1)) \in Nat
        BY <3>3, LinesCounted
      <3> QED  BY <2>2, <3>4 DEF Answers
    <2> QED  BY <1>5, <2>4, <2>5, <2>6, <2>7 DEF Inv
  <1> QED  BY <1>2, <1>8, <1>9, <1>10

LEMMA InvDisconnect ==
  ASSUME Inv, NEW c \in Clients, Disconnect(c)
  PROVE  Inv'
  <1>1. /\ Frames /\ \A d \in Clients : ClientOK(d)
    BY DEF Inv
  <1>2. /\ UNCHANGED <<requirePass, sent, authenticated, pending, dbIndex, databases>> /\ answer' = Nil
        /\ Idle /\ socket' = [socket EXCEPT ![c] = "closed"]
        /\ wire' = [wire EXCEPT ![c] = <<>>] /\ text' = [text EXCEPT ![c] = <<>>]
        /\ parser' = [parser EXCEPT ![c] = <<>>]
    BY DEF Disconnect
  <1>3. <<>> \in Seq(Parts)
    BY EmptySeq
  <1>4. Frames'
    BY <1>1, <1>2, <1>3 DEF Frames
  <1>5. ASSUME NEW d \in Clients
        PROVE  ClientOK(d)'
    <2>1. databases'[dbIndex'[d]] # NoDb /\ pending'[d] = <<>>
      BY <1>1, <1>2 DEF ClientOK, Idle
    <2>2. CASE d = c
      BY <1>1, <1>2, <2>1, <2>2, ClientGone DEF Frames
    <2>3. CASE d # c
      BY <1>1, <1>2, <2>1, <2>3, ClientKept DEF Frames
    <2> QED  BY <2>2, <2>3
  <1>6. HeldKeys' = HeldKeys
    BY <1>2 DEF HeldKeys, Db
  <1> QED  BY <1>2, <1>4, <1>5, <1>6 DEF Inv

LEMMA InvStop ==
  ASSUME Inv, Stop
  PROVE  Inv'
  <1>1. /\ Frames /\ \A d \in Clients : ClientOK(d)
    BY DEF Inv
  <1>2. /\ UNCHANGED <<requirePass, sent, authenticated, pending, dbIndex, databases>> /\ answer' = Nil
        /\ Idle /\ socket' = [d \in Clients |-> "closed"]
        /\ wire' = [d \in Clients |-> <<>>] /\ text' = [d \in Clients |-> <<>>]
        /\ parser' = [d \in Clients |-> <<>>]
    BY DEF Stop
  <1>3. <<>> \in Seq(Parts)
    BY EmptySeq
  <1>4. Frames'
    BY <1>1, <1>2, <1>3 DEF Frames
  <1>5. ASSUME NEW d \in Clients
        PROVE  ClientOK(d)'
    <2>1. databases'[dbIndex'[d]] # NoDb /\ pending'[d] = <<>>
      BY <1>1, <1>2 DEF ClientOK, Idle
    <2> QED  BY <1>2, <2>1, ClientGone
  <1>6. HeldKeys' = HeldKeys
    BY <1>2 DEF HeldKeys, Db
  <1> QED  BY <1>2, <1>4, <1>5, <1>6 DEF Inv
----------------------------------------------------------------------------
(* The commands, and the theorem. *)

LEMMA ReplyType ==
  ASSUME NEW c \in Clients, NEW r \in Replies(Keys, Values), Reply(c, r),
         pending[c] \in Seq(Items), pending[c] # <<>>
  PROVE  answer' \in Answers
  <1>1. Head(pending[c]) \in Items
    BY HeadTailProperties
  <1> QED  BY <1>1 DEF Reply, Answers

LEMMA ReplySpace ==
  /\ OK \in Replies(Keys, Values) /\ Error \in Replies(Keys, Values)
  /\ \A n \in Int : Integer(n) \in Replies(Keys, Values)
  /\ \A v \in Values \cup {Nil} : BulkOrNull(v) \in Replies(Keys, Values)
  BY DEF Replies, OK, Simple, Error, Integer, BulkOrNull, Bulk, NullReply

(* A database that is asked for has contents.                              *)
LEMMA DbType ==
  ASSUME Frames, NEW i \in DbIndexes
  PROVE  Db(i) \in [Keys -> Values \cup {Nil}]
  BY DEF Frames, Db, Emptied

(* New contents of one database: what it held may stay, or one key more.   *)
LEMMA PutContents ==
  ASSUME Frames, IsFiniteSet(HeldKeys), NEW i \in DbIndexes, NEW k,
         NEW contents \in [Keys -> Values \cup {Nil}],
         \A x \in Keys \ {k} : contents[x] # Nil => Db(i)[x] # Nil,
         databases' = [databases EXCEPT ![i] = contents]
  PROVE  /\ databases' \in [DbIndexes -> [Keys -> Values \cup {Nil}] \cup {NoDb}]
         /\ \A d \in DbIndexes : databases[d] # NoDb => databases'[d] # NoDb
         /\ databases'[i] # NoDb
         /\ IsFiniteSet(HeldKeys')
         /\ \A d \in DbIndexes : Db(d)' = IF d = i THEN contents ELSE Db(d)
  <1>1. databases \in [DbIndexes -> [Keys -> Values \cup {Nil}] \cup {NoDb}]
    BY DEF Frames
  <1>2. contents # NoDb
    BY ConnectionAssumption
  <1>3. \A d \in DbIndexes : databases'[d] = IF d = i THEN contents ELSE databases[d]
    BY <1>1
  <1>4. \A d \in DbIndexes : Db(d)' = IF d = i THEN contents ELSE Db(d)
    BY <1>2, <1>3 DEF Db
  <1>5. HeldKeys' \subseteq HeldKeys \cup {<<i, k>>}
    <2>1. HeldKeys' = {u \in DbIndexes \X Keys : Db(u[1])'[u[2]] # Nil}
      BY DEF HeldKeys
    <2>2. ASSUME NEW d \in DbIndexes, NEW x \in Keys, <<d, x>> \notin {<<i, k>>}, Db(d)'[x] # Nil
          PROVE  Db(d)[x] # Nil
      BY <1>4, <2>2
    <2> HIDE DEF Db
    <2> QED  BY <2>1, <2>2 DEF HeldKeys
  <1>6. IsFiniteSet(HeldKeys \cup {<<i, k>>})
    BY FS_AddElement
  <1>7. IsFiniteSet(HeldKeys')
    BY <1>5, <1>6, FS_Subset
  <1> QED  BY <1>1, <1>2, <1>3, <1>4, <1>7

(* No database changes what it holds.                                      *)
LEMMA KeepContents ==
  ASSUME IsFiniteSet(HeldKeys), \A d \in DbIndexes : Db(d)' = Db(d)
  PROVE  IsFiniteSet(HeldKeys')
  <1>1. HeldKeys' = {u \in DbIndexes \X Keys : Db(u[1])'[u[2]] # Nil}
    BY DEF HeldKeys
  <1> HIDE DEF Db
  <1>2. HeldKeys' = HeldKeys
    BY <1>1 DEF HeldKeys
  <1> QED  BY <1>2

(* SELECT: the database is there from now on, and holds what it held.      *)
LEMMA SelectKeeps ==
  ASSUME Inv, NEW c \in Clients, NEW index \in DbIndexes, index # NaN, Select(c, index)
  PROVE  /\ databases' \in [DbIndexes -> [Keys -> Values \cup {Nil}] \cup {NoDb}]
         /\ \A d \in DbIndexes : databases[d] # NoDb => databases'[d] # NoDb
         /\ databases'[index] # NoDb /\ dbIndex' = [dbIndex EXCEPT ![c] = index]
         /\ IsFiniteSet(HeldKeys')
         /\ \A d \in DbIndexes : Db(d)' = Db(d)
         /\ UNCHANGED <<socket, authenticated>> /\ Reply(c, OK)
  <1>1. /\ databases' = [databases EXCEPT ![index] = Db(index)]
        /\ dbIndex' = [dbIndex EXCEPT ![c] = index]
        /\ UNCHANGED <<socket, authenticated>> /\ Reply(c, OK)
    BY DEF Select
  <1>2. Db(index) \in [Keys -> Values \cup {Nil}] /\ Frames /\ IsFiniteSet(HeldKeys)
    BY DbType DEF Inv
  <1> DEFINE contents == Db(index)
  <1> HIDE DEF contents
  <1>3. /\ contents \in [Keys -> Values \cup {Nil}]
        /\ databases' = [databases EXCEPT ![index] = contents]
        /\ \A x \in Keys \ {index} : contents[x] # Nil => Db(index)[x] # Nil
    BY <1>1, <1>2 DEF contents
  <1>4. /\ databases' \in [DbIndexes -> [Keys -> Values \cup {Nil}] \cup {NoDb}]
        /\ \A d \in DbIndexes : databases[d] # NoDb => databases'[d] # NoDb
        /\ databases'[index] # NoDb
        /\ IsFiniteSet(HeldKeys')
        /\ \A d \in DbIndexes : Db(d)' = IF d = index THEN contents ELSE Db(d)
    BY <1>2, <1>3, PutContents
  <1>5. \A d \in DbIndexes : Db(d)' = Db(d)
    BY <1>4 DEF contents
  <1> QED  BY <1>1, <1>4, <1>5

(* FLUSHALL: all databases that are there are emptied.                     *)
LEMMA FlushAllKeeps ==
  ASSUME Inv, NEW c \in Clients, FlushAll(c)
  PROVE  /\ databases' \in [DbIndexes -> [Keys -> Values \cup {Nil}] \cup {NoDb}]
         /\ \A d \in DbIndexes : databases[d] # NoDb => databases'[d] # NoDb
         /\ IsFiniteSet(HeldKeys')
         /\ \A d \in DbIndexes : Db(d)' = Emptied
  <1>1. Emptied \in [Keys -> Values \cup {Nil}] /\ Emptied # NoDb
    BY ConnectionAssumption DEF Emptied
  <1>2. \A d \in DbIndexes : databases'[d] = IF databases[d] = NoDb THEN NoDb ELSE Emptied
    BY DEF FlushAll
  <1>3. \A d \in DbIndexes : Db(d)' = Emptied
    BY <1>2 DEF Db
  <1>4. HeldKeys' = {}
    <2>1. HeldKeys' = {u \in DbIndexes \X Keys : Db(u[1])'[u[2]] # Nil}
      BY DEF HeldKeys
    <2> HIDE DEF Db
    <2> QED  BY <1>3, <2>1 DEF Emptied
  <1>5. databases' \in [DbIndexes -> [Keys -> Values \cup {Nil}] \cup {NoDb}]
    BY <1>1 DEF FlushAll
  <1> QED  BY <1>1, <1>2, <1>3, <1>4, <1>5, FS_EmptySet

(* A command leaves every database that is there, and answers.             *)
LEMMA HandleKeeps ==
  ASSUME Inv, NEW c \in Clients, Handle(c)
  PROVE  /\ pending[c] \in Seq(Items) /\ pending[c] # <<>>
         /\ authenticated[c] /\ socket[c] # "closed"
         /\ UNCHANGED <<requirePass, sent, authenticated, wire, text, parser>>
         /\ pending' = [pending EXCEPT ![c] = Tail(pending[c])]
         /\ socket' \in {socket, [socket EXCEPT ![c] = "ended"]}
         /\ \/ dbIndex' = dbIndex
            \/ /\ dbIndex' = [dbIndex EXCEPT ![c] = dbIndex'[c]]
               /\ dbIndex'[c] \in DbIndexes /\ databases'[dbIndex'[c]] # NoDb
         /\ databases' \in [DbIndexes -> [Keys -> Values \cup {Nil}] \cup {NoDb}]
         /\ \A i \in DbIndexes : databases[i] # NoDb => databases'[i] # NoDb
         /\ IsFiniteSet(HeldKeys') /\ answer' \in Answers
  <1> DEFINE item == Head(pending[c])
             db == Db(dbIndex[c])
             is(name) == item.type = "command" /\ item.name = name
  <1>1. Frames /\ ClientOK(c) /\ IsFiniteSet(HeldKeys)
    BY DEF Inv
  <1>2. /\ pending \in [Clients -> Seq(Items)] /\ socket \in [Clients -> {"open", "ended", "closed"}]
        /\ dbIndex \in [Clients -> DbIndexes]
        /\ databases \in [DbIndexes -> [Keys -> Values \cup {Nil}] \cup {NoDb}]
    BY <1>1 DEF Frames
  <1>3. pending[c] \in Seq(Items) /\ pending[c] # <<>> /\ item \in ItemSpace
    <2>1. pending[c] \in Seq(Items) /\ pending[c] # <<>>
      BY <1>2 DEF Handle
    <2> QED  BY <2>1, HeadTailProperties, ConnectionAssumption
  <1>4. authenticated[c] /\ socket[c] # "closed"
    BY <1>1, <1>3 DEF ClientOK
  <1>5. /\ UNCHANGED <<requirePass, sent, wire, text, parser>>
        /\ pending' = [pending EXCEPT ![c] = Tail(pending[c])]
    BY <1>2 DEF Handle, buffers
  <1>6. db \in [Keys -> Values \cup {Nil}] /\ dbIndex[c] \in DbIndexes
    BY <1>1, <1>2, DbType
  <1>7. Emptied \in [Keys -> Values \cup {Nil}] /\ \A x \in Keys : Emptied[x] = Nil
    BY DEF Emptied
  <1>8. item.key \in Keys /\ item.value \in Values /\ item.db \in DbIndexes \cup {NaN}
    BY <1>3 DEF ItemSpace
  <1> DEFINE Kept ==
        /\ authenticated' = authenticated
        /\ socket' \in {socket, [socket EXCEPT ![c] = "ended"]}
        /\ \/ dbIndex' = dbIndex
           \/ /\ dbIndex' = [dbIndex EXCEPT ![c] = dbIndex'[c]]
              /\ dbIndex'[c] \in DbIndexes /\ databases'[dbIndex'[c]] # NoDb
        /\ databases' \in [DbIndexes -> [Keys -> Values \cup {Nil}] \cup {NoDb}]
        /\ \A i \in DbIndexes : databases[i] # NoDb => databases'[i] # NoDb
        /\ IsFiniteSet(HeldKeys')
        /\ \E r \in Replies(Keys, Values) : Reply(c, r)
  <1>9. ASSUME NEW r \in Replies(Keys, Values), Reply(c, r), databases' = databases, dbIndex' = dbIndex,
               authenticated' = authenticated, socket' \in {socket, [socket EXCEPT ![c] = "ended"]}
        PROVE  Kept
    <2>1. HeldKeys' = HeldKeys
      BY <1>9 DEF HeldKeys, Db
    <2> QED  BY <1>1, <1>2, <1>9, <2>1
  <1>10. ASSUME NEW contents \in [Keys -> Values \cup {Nil}], NEW k,
                \A x \in Keys \ {k} : contents[x] # Nil => db[x] # Nil,
                OnDb(c, contents, OK)
         PROVE  Kept
    <2>1. /\ databases' = [databases EXCEPT ![dbIndex[c]] = contents] /\ Reply(c, OK)
          /\ UNCHANGED <<socket, authenticated, dbIndex>>
      BY <1>10 DEF OnDb
    <2>2. /\ databases' \in [DbIndexes -> [Keys -> Values \cup {Nil}] \cup {NoDb}]
          /\ \A d \in DbIndexes : databases[d] # NoDb => databases'[d] # NoDb
          /\ IsFiniteSet(HeldKeys')
      <3> DEFINE i == dbIndex[c]
      <3>1. /\ i \in DbIndexes /\ databases' = [databases EXCEPT ![i] = contents]
            /\ \A x \in Keys \ {k} : contents[x] # Nil => Db(i)[x] # Nil
        BY <1>6, <1>10, <2>1
      <3> HIDE DEF i
      <3> QED  BY <1>1, <3>1, PutContents
    <2> QED  BY <2>1, <2>2, ReplySpace
  <1>11. Kept
    <2>1. CASE item.type = "value" /\ Answered(c, Error)
      BY <1>9, <2>1, ReplySpace DEF Answered
    <2>2. CASE is("SELECT") /\ Select(c, item.db)
      <3>1. CASE item.db = NaN
        <4>1. Reply(c, Error) /\ UNCHANGED <<socket, authenticated, dbIndex, databases>>
          BY <2>2, <3>1 DEF Select
        <4> QED  BY <1>9, <4>1, ReplySpace
      <3>2. CASE item.db # NaN
        <4>1. item.db \in DbIndexes /\ Select(c, item.db)
          BY <1>8, <2>2, <3>2
        <4> HIDE DEF item
        <4>2. /\ databases' \in [DbIndexes -> [Keys -> Values \cup {Nil}] \cup {NoDb}]
              /\ \A d \in DbIndexes : databases[d] # NoDb => databases'[d] # NoDb
              /\ databases'[item.db] # NoDb /\ dbIndex' = [dbIndex EXCEPT ![c] = item.db]
              /\ IsFiniteSet(HeldKeys')
              /\ UNCHANGED <<socket, authenticated>> /\ Reply(c, OK)
          BY <3>2, <4>1, SelectKeeps
        <4>3. dbIndex'[c] = item.db
          BY <1>2, <4>2
        <4> QED  BY <4>1, <4>2, <4>3, ReplySpace
      <3> QED  BY <3>1, <3>2
    <2>3. CASE is("QUIT") /\ Quit(c)
      BY <1>9, <2>3, ReplySpace DEF Quit
    <2>4. CASE is("SET") /\ OnDb(c, [db EXCEPT ![item.key] = item.value], OK)
      <3> DEFINE put == [db EXCEPT ![item.key] = item.value]
      <3>1. put \in [Keys -> Values \cup {Nil}] /\ \A x \in Keys \ {item.key} : put[x] = db[x]
        BY <1>6, <1>8
      <3>2. OnDb(c, put, OK)
        BY <2>4
      <3> HIDE DEF put, Kept
      <3> QED  BY <1>10, <3>1, <3>2
    <2>5. CASE is("GET") /\ Answered(c, BulkOrNull(db[item.key]))
      <3>1. BulkOrNull(db[item.key]) \in Replies(Keys, Values)
        <4>1. db[item.key] \in Values \cup {Nil}
          BY <1>6, <1>8
        <4> QED  BY <4>1, ReplySpace
      <3> QED  BY <1>9, <2>5, <3>1 DEF Answered
    <2>6. CASE is("FLUSHDB") /\ OnDb(c, Emptied, OK)
      BY <1>7, <1>10, <2>6
    <2>7. CASE is("FLUSHALL") /\ FlushAll(c)
      <3>1. /\ databases' \in [DbIndexes -> [Keys -> Values \cup {Nil}] \cup {NoDb}]
            /\ \A d \in DbIndexes : databases[d] # NoDb => databases'[d] # NoDb
            /\ IsFiniteSet(HeldKeys')
        BY <2>7, FlushAllKeeps
      <3>2. Reply(c, OK) /\ UNCHANGED <<socket, authenticated, dbIndex>>
        BY <2>7 DEF FlushAll
      <3> QED  BY <3>1, <3>2, ReplySpace
    <2>8. CASE is("INFO") /\ Answered(c, Integer(TotalKeys))
      <3>1. TotalKeys = Cardinality(HeldKeys)
        BY DEF TotalKeys, HeldKeys
      <3>2. TotalKeys \in Int
        BY <1>1, <3>1, FS_CardinalityType
      <3>3. Integer(TotalKeys) \in Replies(Keys, Values)
        BY <3>2, ReplySpace
      <3> QED  BY <1>9, <2>8, <3>3 DEF Answered
    <2> HIDE DEF Kept
    <2> QED  BY <2>1, <2>2, <2>3, <2>4, <2>5, <2>6, <2>7, <2>8 DEF Handle
  <1>12. answer' \in Answers
    BY <1>3, <1>11, ReplyType
  <1> QED  BY <1>3, <1>4, <1>5, <1>11, <1>12

LEMMA InvHandle ==
  ASSUME Inv, NEW c \in Clients, Handle(c)
  PROVE  Inv'
  <1>1. /\ Frames /\ \A d \in Clients : ClientOK(d)
    BY DEF Inv
  <1>2. /\ pending[c] \in Seq(Items) /\ pending[c] # <<>>
        /\ authenticated[c] /\ socket[c] # "closed"
        /\ UNCHANGED <<requirePass, sent, authenticated, wire, text, parser>>
        /\ pending' = [pending EXCEPT ![c] = Tail(pending[c])]
        /\ socket' \in {socket, [socket EXCEPT ![c] = "ended"]}
        /\ \/ dbIndex' = dbIndex
           \/ /\ dbIndex' = [dbIndex EXCEPT ![c] = dbIndex'[c]]
              /\ dbIndex'[c] \in DbIndexes /\ databases'[dbIndex'[c]] # NoDb
        /\ databases' \in [DbIndexes -> [Keys -> Values \cup {Nil}] \cup {NoDb}]
        /\ \A i \in DbIndexes : databases[i] # NoDb => databases'[i] # NoDb
        /\ IsFiniteSet(HeldKeys') /\ answer' \in Answers
    BY HandleKeeps
  <1>3. Tail(pending[c]) \in Seq(Items)
    BY <1>2, HeadTailProperties
  <1>4. /\ pending \in [Clients -> Seq(Items)] /\ socket \in [Clients -> {"open", "ended", "closed"}]
        /\ dbIndex \in [Clients -> DbIndexes]
    BY <1>1 DEF Frames
  <1>5. Frames'
    <2>1. pending' \in [Clients -> Seq(Items)] /\ dbIndex' \in [Clients -> DbIndexes]
      BY <1>2, <1>3, <1>4
    <2>2. socket' \in [Clients -> {"open", "ended", "closed"}]
      BY <1>2, <1>4
    <2> QED  BY <1>1, <1>2, <2>1, <2>2 DEF Frames
  <1>6. \A d \in Clients : databases'[dbIndex'[d]] # NoDb
    BY <1>1, <1>2, <1>4 DEF ClientOK
  <1>7. ClientOK(c)'
    <2>1. Stream(c)' = Stream(c) /\ socket'[c] # "closed"
      BY <1>2, <1>4 DEF Stream
    <2> QED  BY <1>1, <1>2, <1>6, <2>1 DEF ClientOK
  <1>8. ASSUME NEW d \in Clients \ {c}
        PROVE  ClientOK(d)'
    BY <1>1, <1>2, <1>4, <1>6, ClientKept
  <1> QED  BY <1>2, <1>5, <1>7, <1>8 DEF Inv

LEMMA InvPreserved == Inv /\ [Next]_vars => Inv'
  <1> SUFFICES ASSUME Inv, [Next]_vars
               PROVE  Inv'
    OBVIOUS
  <1>1. CASE UNCHANGED vars
    <2>1. /\ UNCHANGED <<requirePass, wire, sent, socket, authenticated, text, parser>>
          /\ UNCHANGED <<pending, dbIndex, databases, answer>>
      BY <1>1 DEF vars, buffers
    <2>2. ASSUME NEW d \in Clients
          PROVE  ClientOK(d)'
      BY <2>1, ClientKept DEF Inv, ClientOK
    <2>3. HeldKeys' = HeldKeys
      BY <2>1 DEF HeldKeys, Db
    <2> QED  BY <2>1, <2>2, <2>3 DEF Inv, Frames
  <1>2. CASE \E c \in Clients, item \in Items : Send(c, item)
    BY <1>2, InvSend
  <1>3. CASE \E c \in Clients : Receive(c)
    BY <1>3, InvReceive
  <1>4. CASE \E c \in Clients : Disconnect(c)
    BY <1>4, InvDisconnect
  <1>5. CASE \E c \in Clients : Handle(c)
    BY <1>5, InvHandle
  <1>6. CASE Stop
    BY <1>6, InvStop
  <1> QED  BY <1>1, <1>2, <1>3, <1>4, <1>5, <1>6 DEF Next

LEMMA AlwaysInv == Spec => []Inv
  BY InvHoldsInitially, InvPreserved, PTL DEF Spec

LEMMA InvType == Inv => TypeOK
  <1> SUFFICES ASSUME Inv
               PROVE  TypeOK
    OBVIOUS
  <1>1. /\ Frames /\ \A c \in Clients : ClientOK(c)
    BY DEF Inv
  <1>2. ASSUME NEW c \in Clients
        PROVE  /\ \A p \in ToSet(wire[c]) \cup ToSet(text[c]) \cup ToSet(parser[c]) : p \in PartsOf(Items)
               /\ ToSet(pending[c]) \subseteq Items
    <2>1. /\ wire[c] \in Seq(Parts) /\ text[c] \in Seq(Parts) /\ parser[c] \in Seq(Parts)
          /\ pending[c] \in Seq(Items)
      BY <1>1 DEF Frames
    <2>2. \A S : \A s \in Seq(S) : ToSet(s) \subseteq S
      BY LenProperties, ElementOfSeq DEF ToSet
    <2> QED  BY <2>1, <2>2 DEF Parts
  <1>3. ASSUME NEW c \in Clients,
               NEW i \in DOMAIN Stream(c), NEW j \in DOMAIN Stream(c), i < j
        PROVE  Stream(c)[i].part = Stream(c)[j].part <=> (j - i) % 2 = 0
    <2> DEFINE s == Stream(c)
    <2>1. s \in Seq(Parts)
      BY <1>1, ConcatProperties DEF Frames, Stream
    <2>2. Aligned(s)
      BY <1>1 DEF ClientOK
    <2> HIDE DEF s
    <2>3. Len(s) \in Nat /\ i \in 1 .. Len(s) /\ j \in 1 .. Len(s)
      BY <2>1, LenProperties DEF s
    <2>4. i \in Nat /\ j \in Nat
      BY <2>3
    <2>5. (j - i) % 2 = 0 <=> i % 2 = j % 2
      <3>1. /\ i % 2 \in {0, 1} /\ i = 2 * (i \div 2) + (i % 2) /\ i \div 2 \in Nat
            /\ j % 2 \in {0, 1} /\ j = 2 * (j \div 2) + (j % 2) /\ j \div 2 \in Nat
        BY <2>4, Halves
      <3>2. j - i = 2 * ((j \div 2) - (i \div 2)) + ((j % 2) - (i % 2))
        BY <2>4, <3>1
      <3> DEFINE m == (j \div 2) - (i \div 2)
      <3>3. m \in Int
        BY <3>1
      <3> HIDE DEF m
      <3>4. (2 * m) % 2 = 0 /\ (2 * m + 1) % 2 = 1 /\ (2 * m - 1) % 2 = 1
        BY <3>3
      <3>5. CASE i % 2 = j % 2
        BY <3>1, <3>2, <3>3, <3>4, <3>5 DEF m
      <3>6. CASE i % 2 # j % 2
        BY <3>1, <3>2, <3>3, <3>4, <3>6 DEF m
      <3> QED  BY <3>5, <3>6
    <2>6. s[i].part = s[j].part <=> i % 2 = j % 2
      <3>1. i % 2 \in {0, 1} /\ j % 2 \in {0, 1}
        BY <2>4, Halves
      <3>2. CASE Jammed(s)
        <4>1. s[i].part = 1 + (i % 2) /\ s[j].part = 1 + (j % 2)
          BY <2>2, <2>3, <3>2 DEF Aligned, SecondPart
        <4> QED  BY <3>1, <4>1
      <3>3. CASE ~Jammed(s)
        <4>1. s[i].part = 2 - (i % 2) /\ s[j].part = 2 - (j % 2)
          BY <2>2, <2>3, <3>3 DEF Aligned, FirstPart
        <4> QED  BY <3>1, <4>1
      <3> QED  BY <3>2, <3>3
    <2> QED  BY <2>5, <2>6 DEF s
  <1> QED  BY <1>1, <1>2, <1>3 DEF TypeOK, ClientOK, Frames, Inv

(* The connections are well formed in every state: the buffers hold parts  *)
(* of items that alternate up to the end of the wire, the text buffer      *)
(* holds at most the beginning of one item and nothing after AUTH, and     *)
(* the database a client has selected exists (server.js, handleData and    *)
(* getDatabase).                                                           *)
THEOREM TypeCorrect == Spec => []TypeOK
  BY AlwaysInv, InvType, PTL
----------------------------------------------------------------------------
(* Every step of the server is one that Sessions allows. *)

Queues == [c \in Clients |-> Queue(c)]
Admitted == {c \in Clients : authenticated[c]}
JammedClients == {c \in Clients : Jammed(Stream(c))}
Contents == [i \in DbIndexes |-> Db(i)]

LEMMA QueueType ==
  ASSUME Inv, NEW c \in Clients
  PROVE  /\ Stream(c) \in Seq(Parts) /\ Whole(Stream(c)) \in Seq(Items)
         /\ pending[c] \in Seq(Items) /\ Queue(c) \in Seq(Items)
         /\ pending[c] = <<>> => Queue(c) = Whole(Stream(c))
  <1>1. /\ wire[c] \in Seq(Parts) /\ text[c] \in Seq(Parts) /\ parser[c] \in Seq(Parts)
        /\ pending[c] \in Seq(Items)
    BY DEF Inv, Frames
  <1>2. Stream(c) \in Seq(Parts)
    BY <1>1, ConcatProperties DEF Stream
  <1>3. Whole(Stream(c)) \in Seq(Items)
    BY <1>2, WholeItems
  <1>4. Queue(c) \in Seq(Items)
    BY <1>1, <1>3, ConcatProperties DEF Queue
  <1>5. pending[c] = <<>> => Queue(c) = Whole(Stream(c))
    BY <1>3, ConcatEmptySeq DEF Queue
  <1> QED  BY <1>1, <1>2, <1>3, <1>4, <1>5

(* A client whose buffers an event leaves alone.                           *)
LEMMA SameQueue ==
  ASSUME NEW d \in Clients, text'[d] = text[d], parser'[d] = parser[d],
         wire'[d] = wire[d], pending'[d] = pending[d]
  PROVE  Queue(d)' = Queue(d) /\ Stream(d)' = Stream(d)
  BY DEF Queue, Stream

LEMMA OneQueue ==
  ASSUME NEW c \in Clients, NEW q, Queue(c)' = q,
         \A d \in Clients \ {c} : Queue(d)' = Queue(d)
  PROVE  Queues' = [Queues EXCEPT ![c] = q]
  BY DEF Queues

LEMMA SameStores ==
  ASSUME UNCHANGED databases
  PROVE  Contents' = Contents
  BY DEF Contents, Db

LEMMA InitRefines == Init => Promise!Init
  <1> SUFFICES ASSUME Init
               PROVE  Promise!Init
    OBVIOUS
  <1>1. ASSUME NEW c \in Clients
        PROVE  Queue(c) = <<>> /\ ~Jammed(Stream(c))
    <2>1. Stream(c) = <<>> \o <<>> \o <<>> /\ pending[c] = <<>>
      BY DEF Init, Stream
    <2>2. Stream(c) = <<>> /\ Len(<<>>) = 0
      BY <2>1, EmptySeq, ConcatEmptySeq
    <2>3. Whole(Stream(c)) = <<>>
      BY <2>2 DEF Whole, Jammed
    <2> QED  BY <2>1, <2>2, <2>3, EmptySeq, ConcatEmptySeq DEF Queue, Jammed
  <1>2. \A i \in DbIndexes : Db(i) = Emptied
    BY DEF Db, Init
  <1>3. requirePass \in BOOLEAN /\ authenticated = [c \in Clients |-> ~requirePass]
    BY DEF Init
  <1>4. {c \in Clients : authenticated[c]} \in {{}, Clients}
    BY <1>3
  <1>5. /\ socket = [c \in Clients |-> "open"] /\ dbIndex = [c \in Clients |-> 0] /\ answer = Nil
    BY DEF Init
  <1> QED  BY <1>1, <1>2, <1>4, <1>5 DEF Promise!Init, Promise!Cleared, Emptied

LEMMA SendRefines ==
  ASSUME Inv, NEW c \in Clients, NEW item \in Items, Send(c, item)
  PROVE  Promise!Send(c, item)
  <1>1. Frames /\ Aligned(Stream(c))
    BY DEF Inv, ClientOK
  <1>2. /\ UNCHANGED <<socket, authenticated, text, parser, pending, dbIndex, databases>>
        /\ socket[c] # "closed" /\ answer' = Nil
        /\ wire' = [wire EXCEPT ![c] = @ \o <<Part(item, 1), Part(item, 2)>>]
    BY DEF Send, buffers
  <1>3. wire \in [Clients -> Seq(Parts)] /\ wire[c] \in Seq(Parts) /\ text[c] \in Seq(Parts)
        /\ parser[c] \in Seq(Parts)
    BY <1>1 DEF Frames
  <1> DEFINE p == <<Part(item, 1), Part(item, 2)>>
             s == Stream(c)
             w == Whole(s)
  <1>4. p \in Seq(Parts)
    BY DEF Part, Parts, PartsOf
  <1>5. wire'[c] = wire[c] \o p /\ \A d \in Clients \ {c} : wire'[d] = wire[d]
    BY <1>2, <1>3
  <1> HIDE DEF p
  <1>6. Stream(c)' = s \o p
    <2>1. \A x, y, z \in Seq(Parts) : (x \o y) \o z = x \o (y \o z) /\ x \o y \in Seq(Parts)
      BY ConcatAssociative, ConcatProperties
    <2> DEFINE u == text[c] \o parser[c]
    <2>2. u \in Seq(Parts)
      BY <1>3, <2>1
    <2>3. Stream(c) = u \o wire[c] /\ Stream(c)' = u \o (wire[c] \o p)
      BY <1>2, <1>5 DEF Stream
    <2> HIDE DEF u
    <2>4. (u \o wire[c]) \o p = u \o (wire[c] \o p)
      BY <1>3, <1>4, <2>1, <2>2
    <2> QED  BY <2>3, <2>4
  <1>7. s \in Seq(Parts) /\ w \in Seq(Items) /\ pending[c] \in Seq(Items)
    BY QueueType
  <1> HIDE DEF s
  <1>8. /\ Jammed(Stream(c)') <=> Jammed(s)
        /\ Whole(Stream(c)') = IF Jammed(s) THEN <<>> ELSE Append(w, item)
    BY <1>1, <1>6, <1>7, SendItem DEF p, s
  <1>9. Queue(c)' = IF Jammed(s) THEN Queue(c) ELSE Append(Queue(c), item)
    <2>1. Queue(c)' = pending[c] \o Whole(Stream(c)') /\ Queue(c) = pending[c] \o w
      BY <1>2 DEF Queue, s
    <2>2. CASE Jammed(s)
      <3>1. w = <<>>
        BY <1>7, <2>2, WholeItems
      <3> QED  BY <1>8, <2>1, <2>2, <3>1
    <2>3. CASE ~Jammed(s)
      <3>1. Append(w, item) = w \o <<item>> /\ <<item>> \in Seq(Items)
        BY <1>7, AppendIsConcat
      <3>2. \A x, y, z \in Seq(Items) : (x \o y) \o z = x \o (y \o z) /\ x \o y \in Seq(Items)
        BY ConcatAssociative, ConcatProperties
      <3> HIDE DEF w
      <3>3. (pending[c] \o w) \o <<item>> = pending[c] \o (w \o <<item>>)
        BY <1>7, <3>1, <3>2
      <3>4. Append(pending[c] \o w, item) = (pending[c] \o w) \o <<item>>
        BY <1>7, <3>2, AppendIsConcat
      <3> QED  BY <1>8, <2>1, <2>3, <3>1, <3>3, <3>4
    <2> QED  BY <2>2, <2>3
  <1>10. \A d \in Clients \ {c} : Queue(d)' = Queue(d) /\ Stream(d)' = Stream(d)
    BY <1>2, <1>5, SameQueue
  <1>11. Queues' = [Queues EXCEPT ![c] = IF c \in JammedClients THEN @ ELSE Append(@, item)]
    <2>1. Queues' = [Queues EXCEPT ![c] = IF Jammed(s) THEN Queue(c) ELSE Append(Queue(c), item)]
      BY <1>9, <1>10, OneQueue
    <2>2. Queues[c] = Queue(c) /\ (c \in JammedClients <=> Jammed(s))
      BY DEF Queues, JammedClients, s
    <2> QED  BY <2>1, <2>2
  <1>12. JammedClients' = JammedClients /\ Admitted' = Admitted
    BY <1>2, <1>8, <1>10 DEF JammedClients, Admitted, s
  <1>13. Contents' = Contents
    BY <1>2, SameStores
  <1> QED  BY <1>2, <1>11, <1>12, <1>13
           DEF Promise!Send, Queues, JammedClients, Admitted, Contents

LEMMA DisconnectRefines ==
  ASSUME Inv, NEW c \in Clients, Disconnect(c)
  PROVE  Promise!Close(c)
  <1>1. /\ UNCHANGED <<authenticated, pending, dbIndex, databases>> /\ answer' = Nil
        /\ Idle /\ socket' = [socket EXCEPT ![c] = "closed"]
        /\ wire' = [wire EXCEPT ![c] = <<>>] /\ text' = [text EXCEPT ![c] = <<>>]
        /\ parser' = [parser EXCEPT ![c] = <<>>]
    BY DEF Disconnect
  <1>2. /\ wire \in [Clients -> Seq(Parts)] /\ text \in [Clients -> Seq(Parts)]
        /\ parser \in [Clients -> Seq(Parts)]
    BY DEF Inv, Frames
  <1>3. Stream(c)' = <<>> /\ pending'[c] = <<>>
    <2>1. text'[c] = <<>> /\ parser'[c] = <<>> /\ wire'[c] = <<>> /\ pending'[c] = <<>>
      BY <1>1, <1>2 DEF Idle
    <2>2. Stream(c)' = <<>> \o <<>> \o <<>>
      BY <2>1 DEF Stream
    <2> QED  BY <2>1, <2>2, EmptySeq, ConcatEmptySeq
  <1>4. Queue(c)' = <<>> /\ ~Jammed(Stream(c)')
    <2>1. Whole(<<>>) = <<>> /\ ~Jammed(<<>>)
      BY EmptySeq DEF Whole, Jammed
    <2> QED  BY <1>3, <2>1, EmptySeq, ConcatEmptySeq DEF Queue
  <1>5. \A d \in Clients \ {c} : Queue(d)' = Queue(d) /\ Stream(d)' = Stream(d)
    BY <1>1, <1>2, SameQueue
  <1>6. Queues' = [Queues EXCEPT ![c] = <<>>]
    BY <1>4, <1>5, OneQueue
  <1>7. JammedClients' = JammedClients \ {c} /\ Admitted' = Admitted
    BY <1>1, <1>4, <1>5 DEF JammedClients, Admitted
  <1>8. Contents' = Contents
    BY <1>1, SameStores
  <1> QED  BY <1>1, <1>6, <1>7, <1>8
           DEF Promise!Close, Queues, JammedClients, Admitted, Contents

LEMMA StopRefines ==
  ASSUME Stop
  PROVE  Promise!CloseAll
  <1>1. /\ UNCHANGED <<authenticated, pending, dbIndex, databases>> /\ answer' = Nil
        /\ Idle /\ socket' = [d \in Clients |-> "closed"]
        /\ wire' = [d \in Clients |-> <<>>] /\ text' = [d \in Clients |-> <<>>]
        /\ parser' = [d \in Clients |-> <<>>]
    BY DEF Stop
  <1>2. ASSUME NEW c \in Clients
        PROVE  Queue(c)' = <<>> /\ ~Jammed(Stream(c)')
    <2>1. Stream(c)' = <<>> \o <<>> \o <<>> /\ pending'[c] = <<>>
      BY <1>1 DEF Stream, Idle
    <2>2. Whole(<<>>) = <<>> /\ ~Jammed(<<>>)
      BY EmptySeq DEF Whole, Jammed
    <2>3. Stream(c)' = <<>>
      BY <2>1, EmptySeq, ConcatEmptySeq
    <2> QED  BY <2>1, <2>2, <2>3, EmptySeq, ConcatEmptySeq DEF Queue
  <1>3. Queues' = [c \in Clients |-> <<>>] /\ JammedClients' = {} /\ Admitted' = Admitted
    BY <1>1, <1>2 DEF Queues, JammedClients, Admitted
  <1>4. Contents' = Contents
    BY <1>1, SameStores
  <1> QED  BY <1>1, <1>3, <1>4
           DEF Promise!CloseAll, Queues, JammedClients, Admitted, Contents

LEMMA ReceiveRefines ==
  ASSUME Inv, NEW c \in Clients, Receive(c)
  PROVE  Promise!Carry(c) \/ Promise!Refuse(c) \/ Promise!Admit(c)
  <1> DEFINE s == Stream(c)
             w == Whole(s)
  <1>1. PICK n \in 1 .. Len(wire[c]) :
          LET chunk == SubSeq(wire[c], 1, n)
              left  == SubSeq(wire[c], n + 1, Len(wire[c]))
          IN  \/ authenticated[c] /\ Feed(c, chunk) /\ wire' = [wire EXCEPT ![c] = left]
              \/ ~authenticated[c] /\ Refuse(c, chunk) /\ wire' = [wire EXCEPT ![c] = left]
              \/ /\ ~authenticated[c] /\ Admit(c, chunk)
                 /\ \E reading \in Readings(left) : wire' = [wire EXCEPT ![c] = reading]
    BY DEF Receive
  <1>2. UNCHANGED <<socket, dbIndex, databases>> /\ Idle
    BY DEF Receive
  <1>3. /\ wire \in [Clients -> Seq(Parts)] /\ text \in [Clients -> Seq(Parts)]
        /\ parser \in [Clients -> Seq(Parts)] /\ pending \in [Clients -> Seq(Items)]
        /\ authenticated \in [Clients -> BOOLEAN]
    BY DEF Inv, Frames
  <1>4. Contents' = Contents
    BY <1>2, SameStores
  <1>5. /\ w \in Seq(Items) /\ Len(w) \in Nat /\ DOMAIN w = 1 .. Len(w)
        /\ Queue(c) = w /\ Queues[c] = w /\ pending[c] = <<>>
    <2>1. pending[c] = <<>>
      BY <1>2 DEF Idle
    <2> QED  BY <2>1, QueueType, LenProperties DEF Queues
  <1> DEFINE chunk == SubSeq(wire[c], 1, n)
             left == SubSeq(wire[c], n + 1, Len(wire[c]))
  <1>6. CASE authenticated[c] /\ Feed(c, chunk) /\ wire' = [wire EXCEPT ![c] = left]
    <2>1. /\ Aligned(Stream(c)') /\ (Jammed(Stream(c)') <=> Jammed(s))
          /\ \E p, q \in 0 .. Len(w) :
               /\ q = p \/ (q = p + 1 /\ w[q].type = "null")
               /\ pending'[c] = SubSeq(w, 1, p)
               /\ Whole(Stream(c)') = Rest(w, q)
      BY <1>6, FeedStream
    <2>2. PICK p, q \in 0 .. Len(w) :
               /\ q = p \/ (q = p + 1 /\ w[q].type = "null")
               /\ pending'[c] = SubSeq(w, 1, p)
               /\ Whole(Stream(c)') = Rest(w, q)
      BY <2>1
    <2>3. /\ UNCHANGED <<authenticated, text>> /\ answer' = Nil
          /\ parser' = [parser EXCEPT ![c] = parser'[c]]
          /\ pending' = [pending EXCEPT ![c] = pending'[c]]
          /\ wire' = [wire EXCEPT ![c] = wire'[c]]
      BY <1>3, <1>6 DEF Feed
    <2>4. \A d \in Clients \ {c} : Queue(d)' = Queue(d) /\ Stream(d)' = Stream(d)
      BY <1>3, <2>3, SameQueue
    <2>5. JammedClients' = JammedClients /\ Admitted' = Admitted
      BY <2>1, <2>3, <2>4 DEF JammedClients, Admitted
    <2>6. Queue(c)' = SubSeq(w, 1, p) \o Rest(w, q)
      BY <2>2 DEF Queue
    <2> HIDE DEF w
    <2>7. CASE q = p
      <3>1. Queue(c)' = Queue(c)
        BY <1>5, <2>6, <2>7, Cut
      <3>2. Queues' = Queues
        BY <2>4, <3>1 DEF Queues
      <3>3. Promise!Carry(c)
        BY <1>2, <1>4, <2>3, <2>5, <3>2
           DEF Promise!Carry, Queues, JammedClients, Admitted, Contents
      <3> QED  BY <3>3
    <2>8. CASE q = p + 1 /\ w[q].type = "null"
      <3>1. q \in DOMAIN w /\ q - 1 = p
        BY <1>5, <2>8
      <3>2. Queue(c)' = Promise!RemoveAt(w, q)
        BY <2>6, <3>1 DEF Promise!RemoveAt, Rest
      <3>3. Queues' = [Queues EXCEPT ![c] = Promise!RemoveAt(w, q)]
        BY <2>4, <3>2, OneQueue
      <3>4. \E i \in DOMAIN Queues[c] :
              Queues[c][i].type = "null" /\ Queues' = [Queues EXCEPT ![c] = Promise!RemoveAt(@, i)]
        BY <1>5, <2>8, <3>1, <3>3
      <3>5. Promise!Carry(c)
        BY <1>2, <1>4, <2>3, <2>5, <3>4
           DEF Promise!Carry, Queues, JammedClients, Admitted, Contents
      <3> QED  BY <3>5
    <2> QED  BY <2>2, <2>7, <2>8
  <1>7. CASE ~authenticated[c] /\ Refuse(c, chunk) /\ wire' = [wire EXCEPT ![c] = left]
    <2>1. /\ Aligned(Stream(c)') /\ ~Jammed(Stream(c)')
          /\ \E k \in 0 .. Len(w) :
               /\ k <= Lines(chunk)
               /\ \A i \in 1 .. k : ~Promise!AdmitsWith(w[i])
               /\ Whole(Stream(c)') = Rest(w, k)
      BY <1>7, RefuseStream
    <2>2. PICK k \in 0 .. Len(w) :
               /\ k <= Lines(chunk)
               /\ \A i \in 1 .. k : ~Promise!AdmitsWith(w[i])
               /\ Whole(Stream(c)') = Rest(w, k)
      BY <2>1
    <2>3. /\ UNCHANGED <<authenticated, parser, pending>>
          /\ answer' = [to |-> c, refused |-> Lines(chunk), accepted |-> FALSE]
          /\ text' = [text EXCEPT ![c] = text'[c]]
          /\ wire' = [wire EXCEPT ![c] = wire'[c]]
      BY <1>3, <1>7 DEF Refuse
    <2>4. \A d \in Clients \ {c} : Queue(d)' = Queue(d) /\ Stream(d)' = Stream(d)
      BY <1>3, <2>3, SameQueue
    <2>5. ~Jammed(s)
      BY <1>7 DEF Inv, ClientOK
    <2>6. JammedClients' = JammedClients /\ Admitted' = Admitted
      BY <2>1, <2>3, <2>4, <2>5 DEF JammedClients, Admitted
    <2>7. Queue(c)' = Rest(w, k)
      <3>1. Rest(w, k) \in Seq(Items)
        BY <1>5, Cut
      <3> QED  BY <1>5, <2>2, <2>3, <3>1, ConcatEmptySeq DEF Queue
    <2>8. Queues' = [Queues EXCEPT ![c] = Rest(w, k)]
      BY <2>4, <2>7, OneQueue
    <2>9. Lines(chunk) \in Nat
      BY Chunk, LinesCounted
    <2>10. answer' \in Answers /\ answer' # Nil
      <3>1. answer' \in Answers
        BY <2>3, <2>9 DEF Answers
      <3>2. Nil \notin Answers
        BY ConnectionAssumption
      <3> QED  BY <3>1, <3>2
    <2> DEFINE l == Lines(chunk)
    <2> HIDE DEF w, l
    <2>11. answer'.to = c /\ answer'.refused >= k /\ answer'.accepted = FALSE /\ "refused" \in DOMAIN answer'
      <3>1. answer' = [to |-> c, refused |-> l, accepted |-> FALSE] /\ l >= k
        BY <1>5, <2>2, <2>3, <2>9 DEF l
      <3> QED  BY <3>1
    <2>12. Promise!Refusals(c, k, FALSE)
      BY <1>2, <1>4, <2>10, <2>11 DEF Promise!Refusals, Contents
    <2>13. \E m \in 0 .. Len(Queues[c]) :
             /\ Promise!Refusals(c, m, FALSE)
             /\ \A i \in 1 .. m : ~Promise!AdmitsWith(Queues[c][i])
             /\ Queues' = [Queues EXCEPT ![c] = SubSeq(@, m + 1, Len(@))]
      BY <1>5, <2>2, <2>8, <2>12 DEF Rest
    <2>14. Promise!Refuse(c)
      BY <1>7, <2>6, <2>10, <2>13
         DEF Promise!Refuse, Queues, JammedClients, Admitted
    <2> QED  BY <2>14
  <1>8. ASSUME ~authenticated[c], Admit(c, chunk), NEW reading \in Readings(left),
               wire' = [wire EXCEPT ![c] = reading]
        PROVE  Promise!Admit(c)
    <2> DEFINE Taken(k, d) == IF d = k THEN {<<>>} ELSE {<<>>} \cup Rests[w[d]]
    <2>1. /\ text'[c] = <<>> /\ parser'[c] = <<>> /\ wire'[c] \in Seq(Parts)
          /\ Jammed(Stream(c)') => Whole(Stream(c)') = <<>>
          /\ \E k \in DOMAIN w :
               /\ Promise!AdmitsWith(w[k])
               /\ \A i \in 1 .. k - 1 : ~Promise!AdmitsWith(w[i])
               /\ \E d \in k .. Len(w) : \E rest \in Taken(k, d) :
                    Whole(Stream(c)') = rest \o Rest(w, d)
      BY <1>8, AdmitStream
    <2>2. PICK k \in DOMAIN w :
               /\ Promise!AdmitsWith(w[k])
               /\ \A i \in 1 .. k - 1 : ~Promise!AdmitsWith(w[i])
               /\ \E d \in k .. Len(w) : \E rest \in Taken(k, d) :
                    Whole(Stream(c)') = rest \o Rest(w, d)
      BY <2>1
    <2>21. PICK d \in k .. Len(w) :
             \E rest \in Taken(k, d) : Whole(Stream(c)') = rest \o Rest(w, d)
      BY <2>2
    <2>3. PICK rest \in Taken(k, d) : Whole(Stream(c)') = rest \o Rest(w, d)
      BY <2>21
    <2>4. PICK h \in DOMAIN chunk :
            /\ authenticated' = [authenticated EXCEPT ![c] = TRUE]
            /\ answer' = [to |-> c, refused |-> Lines(SubSeq(chunk, 1, h - 1)), accepted |-> TRUE]
            /\ text' = [text EXCEPT ![c] = <<>>]
            /\ parser' = [parser EXCEPT ![c] = <<>>]
            /\ UNCHANGED pending
      BY <1>8 DEF Admit
    <2>5. wire' = [wire EXCEPT ![c] = wire'[c]]
      BY <1>3, <1>8
    <2>6. \A e \in Clients \ {c} : Queue(e)' = Queue(e) /\ Stream(e)' = Stream(e)
      BY <1>3, <2>4, <2>5, SameQueue
    <2>7. ~Jammed(s)
      BY <1>8 DEF Inv, ClientOK
    <2>8. JammedClients' \in {JammedClients, JammedClients \cup {c}}
      <3>1. \A e \in Clients \ {c} : e \in JammedClients' <=> e \in JammedClients
        BY <2>6 DEF JammedClients
      <3>2. c \notin JammedClients /\ JammedClients \subseteq Clients /\ JammedClients' \subseteq Clients
        BY <2>7 DEF JammedClients
      <3>3. CASE c \in JammedClients'
        BY <3>1, <3>2, <3>3
      <3>4. CASE c \notin JammedClients'
        <4>1. \A e \in Clients : e \in JammedClients' <=> e \in JammedClients
          BY <3>1, <3>2, <3>4
        <4>2. JammedClients' = JammedClients
          BY <3>2, <4>1
        <4> QED  BY <4>2
      <3> QED  BY <3>3, <3>4
    <2>9. Admitted' = Admitted \cup {c} /\ c \notin Admitted
      BY <1>3, <1>8, <2>4 DEF Admitted
    <2>19. Whole(Stream(c)') \in Seq(Items)
      <3>1. Stream(c)' \in Seq(Parts)
        BY <2>1, ConcatEmptySeq, EmptySeq DEF Stream
      <3> QED  BY <3>1, WholeItems
    <2> HIDE DEF w
    <2>10. d \in 0 .. Len(w) /\ k \in 1 .. Len(w)
      BY <1>5
    <2>11. Queue(c)' = rest \o Rest(w, d) /\ Queue(c)' = Whole(Stream(c)')
      <3>1. Queue(c)' = <<>> \o Whole(Stream(c)')
        BY <1>5, <2>4 DEF Queue
      <3> QED  BY <2>3, <2>19, <3>1, ConcatEmptySeq
    <2>12. Queues' = [Queues EXCEPT ![c] = rest \o Rest(w, d)]
      BY <2>6, <2>11, OneQueue
    <2>20. c \in JammedClients' => Queues'[c] = <<>>
      BY <2>1, <2>11 DEF JammedClients, Queues
    <2>13. Lines(SubSeq(chunk, 1, h - 1)) \in Nat
      <3>1. chunk \in Seq(Parts)
        BY Chunk
      <3> HIDE DEF chunk
      <3>2. h - 1 \in 0 .. Len(chunk)
        BY <3>1, LenProperties
      <3>3. SubSeq(chunk, 1, h - 1) \in Seq(Parts)
        BY <3>1, <3>2, Cut
      <3> QED  BY <3>3, LinesCounted
    <2> DEFINE l == Lines(SubSeq(chunk, 1, h - 1))
    <2>14. l \in Nat /\ answer' = [to |-> c, refused |-> l, accepted |-> TRUE]
      BY <2>4, <2>13
    <2> HIDE DEF l
    <2>15. answer' \in Answers /\ answer' # Nil
      <3>1. answer' \in Answers
        BY <2>14 DEF Answers
      <3>2. Nil \notin Answers
        BY ConnectionAssumption
      <3> QED  BY <3>1, <3>2
    <2>16. Promise!Refusals(c, 0, TRUE)
      <3>1. answer'.to = c /\ answer'.refused >= 0 /\ answer'.accepted = TRUE /\ "refused" \in DOMAIN answer'
        BY <2>14
      <3> QED  BY <1>2, <1>4, <2>15, <3>1 DEF Promise!Refusals, Contents
    <2>17. \E i \in DOMAIN Queues[c] :
             /\ Promise!AdmitsWith(Queues[c][i]) /\ \A j \in 1 .. i - 1 : ~Promise!AdmitsWith(Queues[c][j])
             /\ \E dropped \in i .. Len(Queues[c]) :
                  \E kept \in IF dropped = i THEN {<<>>} ELSE {<<>>} \cup Rests[Queues[c][dropped]] :
                    Queues' = [Queues EXCEPT ![c] = kept \o SubSeq(@, dropped + 1, Len(@))]
             /\ JammedClients' \in {JammedClients, JammedClients \cup {c}}
             /\ c \in JammedClients' => Queues'[c] = <<>>
             /\ Promise!Refusals(c, 0, TRUE)
      <3>1. \E dropped \in k .. Len(w) : \E kept \in Taken(k, dropped) :
                  Queues' = [Queues EXCEPT ![c] = kept \o SubSeq(@, dropped + 1, Len(@))]
        <4> HIDE DEF Taken
        <4>1. Queues' = [Queues EXCEPT ![c] = rest \o SubSeq(@, d + 1, Len(@))]
          BY <1>5, <2>12 DEF Rest
        <4> QED  BY <2>3, <4>1
      <3> QED  BY <1>5, <2>2, <2>8, <2>16, <2>20, <3>1
    <2>18. Promise!Admit(c)
      BY <2>9, <2>15, <2>17 DEF Promise!Admit, Queues, JammedClients, Admitted
    <2> QED  BY <2>18
  <1> QED  BY <1>1, <1>6, <1>7, <1>8

LEMMA SameRepliesThere ==
  /\ Promise!OK = OK /\ Promise!Error = Error
  /\ \A v : Promise!BulkOrNull(v) = BulkOrNull(v)
  /\ \A n : Promise!Integer(n) = Integer(n)
  BY DEF Promise!OK, OK, Promise!Simple, Simple, Promise!Error, Error, Promise!BulkOrNull, BulkOrNull,
     Promise!Bulk, Bulk, Promise!NullReply, NullReply, Promise!Integer, Integer

LEMMA SameCardinalityThere ==
  ASSUME NEW S
  PROVE  Promise!Cardinality(S) = Cardinality(S)
  BY DEF Promise!Cardinality, Cardinality

(* What Sessions answers, in terms of the databases of the server.         *)
LEMMA RepliesThere ==
  ASSUME Frames, NEW c \in Clients, NEW item \in ItemSpace
  PROVE  Promise!ReplyTo(c, item) =
           IF item.type = "command" /\ item.name = "GET" THEN BulkOrNull(Db(dbIndex[c])[item.key])
           ELSE IF item.type = "command" /\ item.name = "SELECT" THEN IF item.db = NaN THEN Error ELSE OK
           ELSE IF item.type = "command" /\ item.name = "INFO" THEN Integer(TotalKeys)
           ELSE IF item.type = "value" THEN Error ELSE OK
  <1> DEFINE held == {u \in DbIndexes \X Keys : Contents[u[1]][u[2]] # Nil}
  <1>1. held = {u \in DbIndexes \X Keys : Db(u[1])[u[2]] # Nil}
    BY DEF Contents
  <1>2. Integer(TotalKeys) = Promise!Integer(Promise!Cardinality(held))
    <2>1. Cardinality(held) = TotalKeys
      BY <1>1, Zenon DEF TotalKeys
    <2> HIDE DEF held
    <2>2. Promise!Cardinality(held) = TotalKeys
      BY <2>1, SameCardinalityThere
    <2> QED  BY <2>2, SameRepliesThere
  <1>3. dbIndex[c] \in DbIndexes
    BY DEF Frames
  <1>4. Contents[dbIndex[c]] = Db(dbIndex[c])
    BY <1>3 DEF Contents
  <1> DEFINE there == Promise!Integer(Promise!Cardinality(held))
  <1>5. Promise!ReplyTo(c, item) =
           CASE item.type = "command" /\ item.name = "GET" -> Promise!BulkOrNull(Contents[dbIndex[c]][item.key])
             [] item.type = "command" /\ item.name = "SELECT" -> IF item.db = NaN THEN Promise!Error ELSE Promise!OK
             [] item.type = "command" /\ item.name = "INFO" -> there
             [] item.type = "value" -> Promise!Error
             [] OTHER -> Promise!OK
    BY DEF Promise!ReplyTo, Promise!Is, Contents
  <1>6. there = Integer(TotalKeys)
    BY <1>2
  <1> HIDE DEF there
  <1>7. Promise!BulkOrNull(Contents[dbIndex[c]][item.key]) = BulkOrNull(Db(dbIndex[c])[item.key])
    BY <1>4, SameRepliesThere
  <1> QED  BY <1>5, <1>6, <1>7, SameRepliesThere

(* The parts of an effect of Sessions, in terms of the server.             *)
LEMMA EffectThere ==
  ASSUME Frames, NEW c \in Clients, NEW item \in ItemSpace,
         item.type = "value" \/ (item.type = "command" /\ item.name \in Promise!Served),
         dbIndex' = [dbIndex EXCEPT ![c] =
                       IF item.type = "command" /\ item.name = "SELECT" /\ item.db # NaN THEN item.db ELSE @],
         socket' = [socket EXCEPT ![c] =
                       IF item.type = "command" /\ item.name = "QUIT" THEN "ended" ELSE @],
         \/ /\ item.type = "command" /\ item.name = "SET"
            /\ Contents' = [Contents EXCEPT ![dbIndex[c]] = [Db(dbIndex[c]) EXCEPT ![item.key] = item.value]]
         \/ /\ item.type = "command" /\ item.name = "FLUSHDB"
            /\ Contents' = [Contents EXCEPT ![dbIndex[c]] = Emptied]
         \/ /\ item.type = "command" /\ item.name = "FLUSHALL"
            /\ Contents' = [i \in DbIndexes |-> Emptied]
         \/ /\ item.type = "value" \/ item.name \in {"SELECT", "QUIT", "GET", "INFO"}
            /\ UNCHANGED Contents
  PROVE  Promise!Effect(c, item)
  <1>1. item.type = "value" \/ \E name \in Promise!Served : Promise!Is(item, name)
    BY DEF Promise!Is
  <1>2. Contents[dbIndex[c]] = Db(dbIndex[c])
    BY DEF Contents, Frames
  <1>3. Emptied = Promise!Cleared
    BY DEF Emptied, Promise!Cleared
  <1>4. \/ /\ Promise!Is(item, "SET")
           /\ Contents' = [Contents EXCEPT ![dbIndex[c]] =
                             [Contents[dbIndex[c]] EXCEPT ![item.key] = item.value]]
        \/ /\ Promise!Is(item, "FLUSHDB")
           /\ Contents' = [Contents EXCEPT ![dbIndex[c]] = Promise!Cleared]
        \/ /\ Promise!Is(item, "FLUSHALL")
           /\ Contents' = [i \in DbIndexes |-> Promise!Cleared]
        \/ /\ item.type = "value" \/ item.name \in {"SELECT", "QUIT", "GET", "INFO"}
           /\ UNCHANGED Contents
    BY <1>2, <1>3 DEF Promise!Is
  <1>5. /\ dbIndex' = [dbIndex EXCEPT ![c] =
                         IF Promise!Is(item, "SELECT") /\ item.db # NaN THEN item.db ELSE @]
        /\ socket' = [socket EXCEPT ![c] = IF Promise!Is(item, "QUIT") THEN "ended" ELSE @]
    BY DEF Promise!Is
  <1> QED  BY <1>1, <1>4, <1>5, Zenon DEF Promise!Effect, Contents

(* New contents of the selected database.                                  *)
LEMMA OnDbThere ==
  ASSUME Inv, NEW c \in Clients, NEW contents \in [Keys -> Values \cup {Nil}], OnDb(c, contents, OK)
  PROVE  Contents' = [Contents EXCEPT ![dbIndex[c]] = contents]
  <1>1. dbIndex[c] \in DbIndexes /\ databases \in [DbIndexes -> [Keys -> Values \cup {Nil}] \cup {NoDb}]
    BY DEF Inv, Frames
  <1>2. databases' = [databases EXCEPT ![dbIndex[c]] = contents] /\ contents # NoDb
    BY ConnectionAssumption DEF OnDb
  <1>3. \A d \in DbIndexes : Db(d)' = IF d = dbIndex[c] THEN contents ELSE Db(d)
    BY <1>1, <1>2 DEF Db
  <1> QED  BY <1>1, <1>3 DEF Contents

LEMMA HandleRefines ==
  ASSUME Inv, NEW c \in Clients, Handle(c)
  PROVE  Promise!Serve(c)
  <1> DEFINE item == Head(pending[c])
             db == Db(dbIndex[c])
             is(name) == item.type = "command" /\ item.name = name
  <1>1. /\ pending[c] \in Seq(Items) /\ pending[c] # <<>>
        /\ authenticated[c] /\ socket[c] # "closed"
        /\ UNCHANGED <<authenticated, wire, text, parser>>
        /\ pending' = [pending EXCEPT ![c] = Tail(pending[c])]
        /\ answer' \in Answers
    BY HandleKeeps
  <1>2. /\ pending \in [Clients -> Seq(Items)] /\ dbIndex \in [Clients -> DbIndexes]
        /\ socket \in [Clients -> {"open", "ended", "closed"}] /\ Frames
    BY DEF Inv, Frames
  <1>3. item \in ItemSpace
    BY <1>1, HeadTailProperties, ConnectionAssumption
  <1>4. Queue(c) # <<>> /\ Head(Queue(c)) = item /\ Queue(c)' = Tail(Queue(c))
    <2> DEFINE w == Whole(Stream(c))
               p == pending[c]
               q == p \o w
    <2>1. w \in Seq(Items) /\ p \in Seq(Items) /\ p # <<>> /\ Len(p) \in Nat /\ Len(w) \in Nat
      BY <1>1, QueueType, LenProperties
    <2>2. pending'[c] = Tail(p) /\ Stream(c)' = Stream(c)
      BY <1>1, <1>2 DEF Stream
    <2>3. Queue(c) = q /\ Queue(c)' = Tail(p) \o w
      BY <2>2 DEF Queue
    <2> HIDE DEF w, p
    <2>4. Len(p) >= 1
      BY <2>1, EmptySeq
    <2>5. /\ q \in Seq(Items) /\ Len(q) = Len(p) + Len(w)
          /\ \A i \in 1 .. Len(p) + Len(w) : q[i] = IF i <= Len(p) THEN p[i] ELSE w[i - Len(p)]
      BY <2>1, ConcatProperties
    <2> HIDE DEF q
    <2>6. q # <<>>
      <3>1. Len(<<>>) = 0 /\ Len(q) >= 1
        BY <2>1, <2>4, <2>5, EmptySeq
      <3> QED  BY <3>1
    <2>7. Head(q) = Head(p)
      BY <2>1, <2>4, <2>5, <2>6
    <2>8. /\ Tail(p) \in Seq(Items) /\ Len(Tail(p)) = Len(p) - 1
          /\ \A i \in 1 .. Len(Tail(p)) : Tail(p)[i] = p[i + 1]
      BY <2>1, HeadTailProperties
    <2>9. /\ Tail(q) \in Seq(Items) /\ Len(Tail(q)) = Len(q) - 1
          /\ \A i \in 1 .. Len(Tail(q)) : Tail(q)[i] = q[i + 1]
      BY <2>5, <2>6, HeadTailProperties
    <2> DEFINE t == Tail(p)
    <2> HIDE DEF t
    <2>10. /\ t \o w \in Seq(Items) /\ Len(t \o w) = Len(t) + Len(w)
           /\ \A i \in 1 .. Len(t) + Len(w) : (t \o w)[i] = IF i <= Len(t) THEN t[i] ELSE w[i - Len(t)]
      BY <2>1, <2>8, ConcatProperties DEF t
    <2>11. Len(t \o w) = Len(Tail(q))
      BY <2>1, <2>5, <2>8, <2>9, <2>10 DEF t
    <2>12. ASSUME NEW i \in 1 .. Len(t \o w)
           PROVE  (t \o w)[i] = Tail(q)[i]
      <3>1. Tail(q)[i] = q[i + 1]
        BY <2>9, <2>11
      <3>2. i + 1 \in 1 .. Len(p) + Len(w) /\ Len(t) = Len(p) - 1
        BY <2>1, <2>8, <2>10 DEF t
      <3>3. CASE i <= Len(t)
        <4>1. (t \o w)[i] = p[i + 1]
          BY <2>1, <2>8, <2>10, <3>2, <3>3 DEF t
        <4>2. q[i + 1] = p[i + 1]
          BY <2>1, <2>5, <3>2, <3>3
        <4> QED  BY <3>1, <4>1, <4>2
      <3>4. CASE ~(i <= Len(t))
        <4>1. (t \o w)[i] = w[i - Len(t)]
          BY <2>1, <2>10, <3>2, <3>4
        <4>2. q[i + 1] = w[i + 1 - Len(p)] /\ i + 1 - Len(p) = i - Len(t)
          BY <2>1, <2>5, <3>2, <3>4
        <4> QED  BY <3>1, <4>1, <4>2
      <3> QED  BY <3>3, <3>4
    <2>13. t \o w = Tail(q)
      BY <2>9, <2>10, <2>11, <2>12, SeqEqual
    <2> QED  BY <2>3, <2>6, <2>7, <2>13 DEF t, p
  <1>5. \A d \in Clients \ {c} : Queue(d)' = Queue(d) /\ Stream(d)' = Stream(d)
    BY <1>1, <1>2, SameQueue
  <1>6. Queues' = [Queues EXCEPT ![c] = Tail(@)] /\ Queues[c] = Queue(c)
    <2>1. Queues' = [Queues EXCEPT ![c] = Tail(Queue(c))]
      BY <1>4, <1>5, OneQueue
    <2>2. Queues[c] = Queue(c)
      BY DEF Queues
    <2> QED  BY <2>1, <2>2
  <1>7. Admitted' = Admitted /\ JammedClients' = JammedClients /\ c \in Admitted
    <2>1. Stream(c)' = Stream(c)
      BY <1>1 DEF Stream
    <2> QED  BY <1>1, <1>5, <2>1 DEF Admitted, JammedClients
  <1>8. answer' # Nil
    BY <1>1, ConnectionAssumption
  <1> DEFINE r0 == Promise!ReplyTo(c, item)
  <1>9. ASSUME NEW r, Reply(c, r), r = r0, Promise!Effect(c, item)
        PROVE  Promise!Serve(c)
    <2>1. Head(Queues[c]) = item /\ Queues[c] # <<>>
      BY <1>4, <1>6
    <2>2. answer' = [to |-> c, item |-> item, reply |-> IF socket[c] = "open" THEN r0 ELSE Nil]
      BY <1>9 DEF Reply
    <2> HIDE DEF item
    <2>3. /\ c \in Admitted /\ socket[c] # "closed" /\ Queues[c] # <<>>
          /\ Promise!Effect(c, Head(Queues[c]))
          /\ answer' = [to |-> c, item |-> Head(Queues[c]),
                        reply |-> IF socket[c] = "open" THEN Promise!ReplyTo(c, Head(Queues[c])) ELSE Nil]
          /\ Queues' = [Queues EXCEPT ![c] = Tail(@)]
          /\ UNCHANGED <<Admitted, JammedClients>>
      BY <1>1, <1>6, <1>7, <1>9, <2>1, <2>2
    <2> QED  BY <1>8, <2>3, Zenon DEF Promise!Serve, Queues, Admitted, JammedClients
  <1>10. ASSUME databases' = databases
         PROVE  UNCHANGED Contents
    BY <1>10, SameStores
  <1>11. /\ item.key \in Keys /\ item.value \in Values /\ item.db \in DbIndexes \cup {NaN}
         /\ db \in [Keys -> Values \cup {Nil}]
    BY <1>2, <1>3, DbType DEF ItemSpace
  <1>12. CASE item.type = "value" /\ Answered(c, Error)
    <2>1. Reply(c, Error) /\ UNCHANGED <<socket, authenticated, dbIndex, databases>>
      BY <1>12 DEF Answered
    <2> HIDE DEF item
    <2>2. Promise!Effect(c, item)
      BY <1>2, <1>3, <1>10, <1>12, <2>1, EffectThere
    <2>3. r0 = Error
      BY <1>2, <1>3, <1>12, RepliesThere
    <2> QED  BY <1>9, <2>1, <2>2, <2>3
  <1>13. CASE is("SELECT") /\ Select(c, item.db)
    <2> HIDE DEF item
    <2>1. item.type = "command" /\ item.name = "SELECT" /\ item.name \in Promise!Served
      BY <1>13 DEF Promise!Served
    <2>2. CASE item.db = NaN
      <3>1. Reply(c, Error) /\ UNCHANGED <<socket, authenticated, dbIndex, databases>>
        BY <1>13, <2>2 DEF Select
      <3>2. Promise!Effect(c, item)
        BY <1>2, <1>3, <1>10, <2>1, <2>2, <3>1, EffectThere
      <3>3. r0 = Error
        BY <1>2, <1>3, <2>1, <2>2, RepliesThere
      <3> QED  BY <1>9, <3>1, <3>2, <3>3
    <2>3. CASE item.db # NaN
      <3>1. /\ dbIndex' = [dbIndex EXCEPT ![c] = item.db]
            /\ \A d \in DbIndexes : Db(d)' = Db(d)
            /\ UNCHANGED <<socket, authenticated>> /\ Reply(c, OK)
        BY <1>11, <1>13, <2>3, SelectKeeps
      <3>2. UNCHANGED Contents
        BY <3>1 DEF Contents
      <3>3. Promise!Effect(c, item)
        BY <1>2, <1>3, <2>1, <2>3, <3>1, <3>2, EffectThere
      <3>4. r0 = OK
        BY <1>2, <1>3, <2>1, <2>3, RepliesThere
      <3> QED  BY <1>9, <3>1, <3>3, <3>4
    <2> QED  BY <2>2, <2>3
  <1>14. CASE is("QUIT") /\ Quit(c)
    <2>1. /\ Reply(c, OK) /\ UNCHANGED <<authenticated, dbIndex, databases>>
          /\ socket' = [socket EXCEPT ![c] = "ended"]
      BY <1>14 DEF Quit
    <2> HIDE DEF item
    <2>2. item.type = "command" /\ item.name = "QUIT" /\ item.name \in Promise!Served
      BY <1>14 DEF Promise!Served
    <2>3. Promise!Effect(c, item)
      BY <1>2, <1>3, <1>10, <2>1, <2>2, EffectThere
    <2>4. r0 = OK
      BY <1>2, <1>3, <2>2, RepliesThere
    <2> QED  BY <1>9, <2>1, <2>3, <2>4
  <1>15. CASE is("SET") /\ OnDb(c, [db EXCEPT ![item.key] = item.value], OK)
    <2> HIDE DEF item
    <2> DEFINE put == [db EXCEPT ![item.key] = item.value]
    <2>1. put \in [Keys -> Values \cup {Nil}]
      BY <1>11
    <2> HIDE DEF put
    <2>2. Reply(c, OK) /\ UNCHANGED <<socket, authenticated, dbIndex>> /\ OnDb(c, put, OK)
      BY <1>15 DEF OnDb, put
    <2>3. Contents' = [Contents EXCEPT ![dbIndex[c]] = put]
      BY <2>1, <2>2, OnDbThere
    <2>4. item.type = "command" /\ item.name = "SET" /\ item.name \in Promise!Served
      BY <1>15 DEF Promise!Served
    <2>5. Promise!Effect(c, item)
      BY <1>2, <1>3, <2>2, <2>3, <2>4, EffectThere DEF put
    <2>6. r0 = OK
      BY <1>2, <1>3, <2>4, RepliesThere
    <2> QED  BY <1>9, <2>2, <2>5, <2>6
  <1>16. CASE is("GET") /\ Answered(c, BulkOrNull(db[item.key]))
    <2>1. Reply(c, BulkOrNull(db[item.key])) /\ UNCHANGED <<socket, authenticated, dbIndex, databases>>
      BY <1>16 DEF Answered
    <2> HIDE DEF item
    <2>2. item.type = "command" /\ item.name = "GET" /\ item.name \in Promise!Served
      BY <1>16 DEF Promise!Served
    <2>3. Promise!Effect(c, item)
      BY <1>2, <1>3, <1>10, <2>1, <2>2, EffectThere
    <2>4. r0 = BulkOrNull(db[item.key])
      BY <1>2, <1>3, <2>2, RepliesThere
    <2> QED  BY <1>9, <2>1, <2>3, <2>4
  <1>17. CASE is("FLUSHDB") /\ OnDb(c, Emptied, OK)
    <2> HIDE DEF item
    <2>1. Emptied \in [Keys -> Values \cup {Nil}]
      BY DEF Emptied
    <2>2. Reply(c, OK) /\ UNCHANGED <<socket, authenticated, dbIndex>> /\ OnDb(c, Emptied, OK)
      BY <1>17 DEF OnDb
    <2>3. Contents' = [Contents EXCEPT ![dbIndex[c]] = Emptied]
      BY <2>1, <2>2, OnDbThere
    <2>4. item.type = "command" /\ item.name = "FLUSHDB" /\ item.name \in Promise!Served
      BY <1>17 DEF Promise!Served
    <2>5. Promise!Effect(c, item)
      BY <1>2, <1>3, <2>2, <2>3, <2>4, EffectThere
    <2>6. r0 = OK
      BY <1>2, <1>3, <2>4, RepliesThere
    <2> QED  BY <1>9, <2>2, <2>5, <2>6
  <1>18. CASE is("FLUSHALL") /\ FlushAll(c)
    <2> HIDE DEF item
    <2>1. Reply(c, OK) /\ UNCHANGED <<socket, authenticated, dbIndex>>
      BY <1>18 DEF FlushAll
    <2>2. Contents' = [i \in DbIndexes |-> Emptied]
      BY <1>18, FlushAllKeeps DEF Contents
    <2>3. item.type = "command" /\ item.name = "FLUSHALL" /\ item.name \in Promise!Served
      BY <1>18 DEF Promise!Served
    <2>4. Promise!Effect(c, item)
      BY <1>2, <1>3, <2>1, <2>2, <2>3, EffectThere
    <2>5. r0 = OK
      BY <1>2, <1>3, <2>3, RepliesThere
    <2> QED  BY <1>9, <2>1, <2>4, <2>5
  <1>19. CASE is("INFO") /\ Answered(c, Integer(TotalKeys))
    <2>1. Reply(c, Integer(TotalKeys)) /\ UNCHANGED <<socket, authenticated, dbIndex, databases>>
      BY <1>19 DEF Answered
    <2> HIDE DEF item
    <2>2. item.type = "command" /\ item.name = "INFO" /\ item.name \in Promise!Served
      BY <1>19 DEF Promise!Served
    <2>3. Promise!Effect(c, item)
      BY <1>2, <1>3, <1>10, <2>1, <2>2, EffectThere
    <2>4. r0 = Integer(TotalKeys)
      BY <1>2, <1>3, <2>2, RepliesThere
    <2> QED  BY <1>9, <2>1, <2>3, <2>4
  <1> QED  BY <1>12, <1>13, <1>14, <1>15, <1>16, <1>17, <1>18, <1>19 DEF Handle

LEMMA StepRefines == Inv /\ [Next]_vars => [Promise!Next]_Promise!vars
  <1> SUFFICES ASSUME Inv, [Next]_vars
               PROVE  [Promise!Next]_Promise!vars
    OBVIOUS
  <1>1. CASE UNCHANGED vars
    <2>1. UNCHANGED <<wire, socket, authenticated, text, parser, pending, dbIndex, databases, answer>>
      BY <1>1 DEF vars, buffers
    <2>2. \A d \in Clients : Queue(d)' = Queue(d) /\ Stream(d)' = Stream(d)
      BY <2>1, SameQueue
    <2>3. Queues' = Queues /\ JammedClients' = JammedClients /\ Admitted' = Admitted /\ Contents' = Contents
      BY <2>1, <2>2, SameStores DEF Queues, JammedClients, Admitted
    <2>4. UNCHANGED Promise!vars
      BY <2>1, <2>3 DEF Promise!vars, Queues, JammedClients, Admitted, Contents
    <2> QED  BY <2>4
  <1>2. CASE \E c \in Clients, item \in Items : Send(c, item)
    BY <1>2, SendRefines DEF Promise!Next
  <1>3. CASE \E c \in Clients : Receive(c)
    BY <1>3, ReceiveRefines DEF Promise!Next
  <1>4. CASE \E c \in Clients : Disconnect(c)
    BY <1>4, DisconnectRefines DEF Promise!Next
  <1>5. CASE \E c \in Clients : Handle(c)
    BY <1>5, HandleRefines DEF Promise!Next
  <1>6. CASE Stop
    BY <1>6, StopRefines DEF Promise!Next
  <1> QED  BY <1>1, <1>2, <1>3, <1>4, <1>5, <1>6 DEF Next

(* However TCP cuts the stream of a client, its commands are handled one   *)
(* after the other, in order, whole and once, each on the database its     *)
(* client selected last, and nothing is handled before AUTH (server.js,    *)
(* handleData, handleAuthData and handleCommand; resp.js, feed).           *)
THEOREM ConnectionsKeepSessions == Spec => KeepsSessions
  BY InitRefines, StepRefines, AlwaysInv, PTL DEF Spec, KeepsSessions, Promise!Spec
=============================================================================

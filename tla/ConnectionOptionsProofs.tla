------------------------ MODULE ConnectionOptionsProofs ------------------------
(***************************************************************************)
(* Proofs about ConnectionOptions and UserAgent, for every set of options  *)
(* and texts of any length: what is shown is read back.                    *)
(***************************************************************************)
EXTENDS ConnectionOptions, SequenceTheorems, WellFoundedInduction, TLAPS

LEMMA MinIs ==
    ASSUME NEW S, S \subseteq Nat, S # {}
    PROVE  Min(S) \in S /\ \A y \in S : Min(S) <= y
  <1> DEFINE Less == {ss \in Nat \X Nat : ss[1] < ss[2]}
  <1>1. IsWellFoundedOn(Less, Nat)
    BY NatLessThanWellFounded DEF OpToRel
  <1>2. PICK x \in S : \A y \in S : <<y, x>> \notin Less
    BY <1>1, WFMin
  <1>3. ASSUME NEW y \in S PROVE x <= y
    <2>1. x \in Nat /\ y \in Nat /\ <<y, x>> \in Nat \X Nat
      OBVIOUS
    <2>2. ~(y < x)
      BY <1>2, <2>1
    <2> QED
      BY <2>1, <2>2
  <1> QED
    BY <1>3 DEF Min

LEMMA MinWhere ==
    ASSUME NEW S, S \subseteq Nat, NEW x \in S, \A y \in S : x <= y
    PROVE  Min(S) = x
  <1>1. Min(S) \in S /\ \A y \in S : Min(S) <= y
    BY MinIs
  <1>2. Min(S) \in Nat /\ x \in Nat
    BY <1>1
  <1>3. Min(S) <= x /\ x <= Min(S)
    BY <1>1
  <1> QED
    BY <1>2, <1>3
-----------------------------------------------------------------------------
(* Texts, put together of parts.                                           *)
LEMMA TextIs ==
    ASSUME NEW t \in Text
    PROVE  /\ Len(t) \in Nat /\ DOMAIN t = 1..Len(t)
           /\ t = <<>> <=> Len(t) = 0
           /\ \A n \in 1..Len(t) : t[n] \in STRING
  BY LenProperties, EmptySeq DEF Text

LEMMA OneOf == \A S, d : d \in S => <<d>> \in Seq(S)
  OBVIOUS

LEMMA OneAtom ==
    ASSUME NEW d \in STRING
    PROVE  <<d>> \in Text /\ Len(<<d>>) = 1 /\ <<d>>[1] = d
  <1>1. <<d>> \in Seq(STRING)
    BY OneOf
  <1>2. Len(<<d>>) = 1 /\ <<d>>[1] = d
    OBVIOUS
  <1> QED
    BY <1>1, <1>2 DEF Text

LEMMA EmptyText == <<>> \in Text /\ Len(<<>>) = 0
  BY EmptySeq DEF Text

LEMMA BothAre ==
    ASSUME NEW a \in Text, NEW b \in Text
    PROVE  /\ a \o b \in Text /\ Len(a \o b) = Len(a) + Len(b)
           /\ \A n \in 1..Len(a) + Len(b) :
                 (a \o b)[n] = IF n <= Len(a) THEN a[n] ELSE b[n - Len(a)]
  BY ConcatProperties DEF Text

LEMMA Regroup ==
    ASSUME NEW a \in Text, NEW b \in Text, NEW c \in Text
    PROVE  (a \o b) \o c = a \o (b \o c)
  BY ConcatAssociative DEF Text

LEMMA WithNothing ==
    ASSUME NEW a \in Text
    PROVE  a \o <<>> = a /\ <<>> \o a = a
  BY ConcatEmptySeq DEF Text

(* Two parts with a delimiter between them.                                *)
LEMMA JoinedAre ==
    ASSUME NEW a \in Text, NEW b \in Text, NEW d \in STRING
    PROVE  /\ a \o <<d>> \o b \in Text
           /\ Len(a \o <<d>> \o b) = Len(a) + 1 + Len(b)
           /\ \A n \in 1..Len(a) : (a \o <<d>> \o b)[n] = a[n]
           /\ (a \o <<d>> \o b)[Len(a) + 1] = d
           /\ \A n \in 1..Len(b) : (a \o <<d>> \o b)[Len(a) + 1 + n] = b[n]
  <1> DEFINE h == a \o <<d>>
             j == h \o b
  <1>1. h \in Text /\ Len(h) = Len(a) + 1
        /\ \A n \in 1..Len(a) + 1 : h[n] = IF n <= Len(a) THEN a[n] ELSE <<d>>[n - Len(a)]
    BY OneAtom, BothAre
  <1>2. Len(a) \in Nat /\ Len(b) \in Nat
    BY TextIs
  <1>3. (\A n \in 1..Len(a) : h[n] = a[n]) /\ h[Len(a) + 1] = d
    <2>1. \A n \in 1..Len(a) : n \in 1..Len(a) + 1 /\ n <= Len(a)
      BY <1>2
    <2>2. \A n \in 1..Len(a) : h[n] = a[n]
      BY <1>1, <2>1
    <2>3. Len(a) + 1 \in 1..Len(a) + 1 /\ ~(Len(a) + 1 <= Len(a)) /\ (Len(a) + 1) - Len(a) = 1
      BY <1>2
    <2>4. h[Len(a) + 1] = <<d>>[1]
      BY <1>1, <2>3
    <2> QED
      BY <2>2, <2>4, OneAtom
  <1> HIDE DEF h
  <1>4. j \in Text /\ Len(j) = Len(h) + Len(b)
        /\ \A n \in 1..Len(h) + Len(b) : j[n] = IF n <= Len(h) THEN h[n] ELSE b[n - Len(h)]
    BY <1>1, BothAre
  <1> HIDE DEF j
  <1>5. /\ \A n \in 1..Len(a) : j[n] = a[n]
        /\ j[Len(a) + 1] = d
        /\ \A n \in 1..Len(b) : j[Len(a) + 1 + n] = b[n]
    <2>1. /\ \A n \in 1..Len(a) + 1 : n \in 1..Len(h) + Len(b) /\ n <= Len(h)
          /\ \A n \in 1..Len(b) : /\ Len(a) + 1 + n \in 1..Len(h) + Len(b)
                                  /\ ~(Len(a) + 1 + n <= Len(h))
                                  /\ (Len(a) + 1 + n) - Len(h) = n
      BY <1>1, <1>2
    <2>2. \A n \in 1..Len(a) + 1 : j[n] = h[n]
      BY <1>4, <2>1
    <2>3. \A n \in 1..Len(b) : j[Len(a) + 1 + n] = b[n]
      BY <1>4, <2>1
    <2>4. (\A n \in 1..Len(a) : n \in 1..Len(a) + 1) /\ Len(a) + 1 \in 1..Len(a) + 1
      BY <1>2
    <2> QED
      BY <1>3, <2>2, <2>3, <2>4
  <1>6. Len(j) = Len(a) + 1 + Len(b)
    BY <1>1, <1>2, <1>4
  <1> QED
    BY <1>4, <1>5, <1>6 DEF h, j

(* The same of a text j, as a whole.                                       *)
Joins(j, a, d, b) ==
    /\ j \in Text /\ Len(j) = Len(a) + 1 + Len(b)
    /\ \A n \in 1..Len(a) : j[n] = a[n]
    /\ j[Len(a) + 1] = d
    /\ \A n \in 1..Len(b) : j[Len(a) + 1 + n] = b[n]

LEMMA JoinedIs ==
    ASSUME NEW a \in Text, NEW b \in Text, NEW d \in STRING
    PROVE  Joins(a \o <<d>> \o b, a, d, b)
  <1> DEFINE j == a \o <<d>> \o b
  <1>1. j \in Text /\ Len(j) = Len(a) + 1 + Len(b)
    BY JoinedAre
  <1>2. \A n \in 1..Len(a) : j[n] = a[n]
    BY JoinedAre
  <1>3. j[Len(a) + 1] = d
    BY JoinedAre
  <1>4. \A n \in 1..Len(b) : j[Len(a) + 1 + n] = b[n]
    BY JoinedAre
  <1> HIDE DEF j
  <1>5. Joins(j, a, d, b)
    BY <1>1, <1>2, <1>3, <1>4 DEF Joins
  <1> QED
    BY <1>5 DEF j

LEMMA SameText ==
    ASSUME NEW s \in Text, NEW t \in Text, Len(s) = Len(t), \A n \in 1..Len(s) : s[n] = t[n]
    PROVE  s = t
  BY SeqEqual DEF Text

LEMMA PartIs ==
    ASSUME NEW t \in Text, NEW m \in 1..Len(t) + 1, NEW n \in m - 1..Len(t)
    PROVE  /\ SubSeq(t, m, n) \in Text /\ Len(SubSeq(t, m, n)) = n - m + 1
           /\ \A k \in 1..n - m + 1 : SubSeq(t, m, n)[k] = t[m + k - 1]
  <1>1. Len(t) \in Nat /\ m \in Int /\ n \in Int
    BY TextIs
  <1>2. \A k \in m..n : t[k] \in STRING
    BY <1>1, TextIs
  <1> QED
    BY <1>1, <1>2, SubSeqProperties DEF Text

(* What is free of an atom.                                                *)
LEMMA FreeIs ==
    ASSUME NEW t \in Text, NEW A
    PROVE  Free(t, A) <=> \A n \in 1..Len(t) : t[n] \notin A
  BY TextIs DEF Free

LEMMA FreeBoth ==
    ASSUME NEW a \in Text, NEW b \in Text, NEW A
    PROVE  Free(a \o b, A) <=> Free(a, A) /\ Free(b, A)
  <1> DEFINE c == a \o b
  <1>1. /\ c \in Text /\ Len(c) = Len(a) + Len(b)
        /\ \A n \in 1..Len(a) + Len(b) : c[n] = IF n <= Len(a) THEN a[n] ELSE b[n - Len(a)]
    BY BothAre
  <1> HIDE DEF c
  <1>2. Len(a) \in Nat /\ Len(b) \in Nat
    BY TextIs
  <1>3. /\ \A n \in 1..Len(a) : n \in 1..Len(c) /\ c[n] = a[n]
        /\ \A n \in 1..Len(b) : n + Len(a) \in 1..Len(c) /\ c[n + Len(a)] = b[n]
        /\ \A n \in 1..Len(c) : \/ n \in 1..Len(a) /\ c[n] = a[n]
                                \/ n - Len(a) \in 1..Len(b) /\ c[n] = b[n - Len(a)]
    BY <1>1, <1>2
  <1>4. /\ Free(a, A) <=> \A n \in 1..Len(a) : a[n] \notin A
        /\ Free(b, A) <=> \A n \in 1..Len(b) : b[n] \notin A
        /\ Free(c, A) <=> \A n \in 1..Len(c) : c[n] \notin A
    BY <1>1, FreeIs
  <1> QED
    BY <1>3, <1>4 DEF c

LEMMA FreeAtom ==
    ASSUME NEW d \in STRING, NEW A, d \notin A
    PROVE  Free(<<d>>, A)
  <1>1. \A n \in 1..1 : n = 1
    OBVIOUS
  <1>2. <<d>> \in Text /\ Len(<<d>>) = 1 /\ <<d>>[1] = d
    BY OneAtom
  <1>3. \A n \in 1..Len(<<d>>) : <<d>>[n] \notin A
    BY <1>1, <1>2
  <1> QED
    BY <1>2, <1>3, FreeIs

LEMMA FreePart ==
    ASSUME NEW t \in Text, NEW A, Free(t, A), NEW m \in 1..Len(t) + 1, NEW n \in m - 1..Len(t)
    PROVE  Free(SubSeq(t, m, n), A)
  <1> DEFINE s == SubSeq(t, m, n)
  <1>1. /\ s \in Text /\ Len(s) = n - m + 1
        /\ \A k \in 1..n - m + 1 : s[k] = t[m + k - 1]
    BY PartIs
  <1> HIDE DEF s
  <1>2. Len(t) \in Nat
    BY TextIs
  <1>3. \A k \in 1..Len(s) : m + k - 1 \in 1..Len(t)
    BY <1>1, <1>2
  <1>4. \A k \in 1..Len(t) : t[k] \notin A
    BY FreeIs
  <1>5. \A k \in 1..Len(s) : s[k] \notin A
    BY <1>1, <1>3, <1>4
  <1>6. Free(s, A)
    BY <1>1, <1>5, FreeIs
  <1> QED
    BY <1>6 DEF s

LEMMA NoPositions ==
    ASSUME NEW t \in Text, NEW d
    PROVE  Positions(t, d) = {} <=> Free(t, {d})
  BY DEF Positions, Free
-----------------------------------------------------------------------------
(* Splitting a text at the first delimiter.                                *)
LEMMA FirstPosition ==
    ASSUME NEW t \in Text, NEW d, Positions(t, d) # {}
    PROVE  LET n == Min(Positions(t, d))
           IN /\ n \in 1..Len(t) /\ t[n] = d
              /\ \A k \in 1..Len(t) : t[k] = d => n <= k
  <1>1. Positions(t, d) \subseteq Nat
    BY TextIs DEF Positions
  <1>2. Min(Positions(t, d)) \in Positions(t, d)
        /\ \A y \in Positions(t, d) : Min(Positions(t, d)) <= y
    BY <1>1, MinIs
  <1> QED
    BY <1>2, TextIs DEF Positions

LEMMA CutAt ==
    ASSUME NEW t \in Text, NEW n \in 1..Len(t)
    PROVE  /\ Before(t, n) \in Text /\ Len(Before(t, n)) = n - 1
           /\ After(t, n) \in Text /\ Len(After(t, n)) = Len(t) - n
           /\ \A k \in 1..n - 1 : Before(t, n)[k] = t[k]
           /\ \A k \in 1..Len(t) - n : After(t, n)[k] = t[n + k]
           /\ Before(t, n) \o <<t[n]>> \o After(t, n) = t
  <1> DEFINE a == Before(t, n)
             b == After(t, n)
             j == a \o <<t[n]>> \o b
  <1>1. Len(t) \in Nat /\ t[n] \in STRING
    BY TextIs
  <1>2. a \in Text /\ Len(a) = n - 1 /\ \A k \in 1..n - 1 : a[k] = t[k]
    <2>1. /\ SubSeq(t, 1, n - 1) \in Text /\ Len(SubSeq(t, 1, n - 1)) = (n - 1) - 1 + 1
          /\ \A k \in 1..(n - 1) - 1 + 1 : SubSeq(t, 1, n - 1)[k] = t[1 + k - 1]
      BY <1>1, PartIs
    <2> QED
      BY <1>1, <2>1 DEF Before
  <1>3. b \in Text /\ Len(b) = Len(t) - n /\ \A k \in 1..Len(t) - n : b[k] = t[n + k]
    <2>1. /\ SubSeq(t, n + 1, Len(t)) \in Text
          /\ Len(SubSeq(t, n + 1, Len(t))) = Len(t) - (n + 1) + 1
          /\ \A k \in 1..Len(t) - (n + 1) + 1 : SubSeq(t, n + 1, Len(t))[k] = t[(n + 1) + k - 1]
      BY <1>1, PartIs
    <2> QED
      BY <1>1, <2>1 DEF After
  <1> HIDE DEF a, b
  <1>4. /\ j \in Text /\ Len(j) = Len(a) + 1 + Len(b)
        /\ \A k \in 1..Len(a) : j[k] = a[k]
        /\ j[Len(a) + 1] = t[n]
        /\ \A k \in 1..Len(b) : j[Len(a) + 1 + k] = b[k]
    <2>1. a \in Text /\ b \in Text /\ t[n] \in STRING
      BY <1>1, <1>2, <1>3
    <2>2. Joins(j, a, t[n], b)
      BY <2>1, JoinedIs
    <2> HIDE DEF j
    <2> QED
      BY <2>2 DEF Joins
  <1> HIDE DEF j
  <1>5. ASSUME NEW k \in 1..Len(t) PROVE j[k] = t[k]
    <2>1. k <= n - 1 \/ k = n \/ k - n \in 1..Len(b)
      BY <1>1, <1>3
    <2>2. CASE k <= n - 1
      BY <1>1, <1>2, <1>4, <2>2
    <2>3. CASE k = n
      BY <1>1, <1>2, <1>4, <2>3
    <2>4. CASE k - n \in 1..Len(b)
      <3>1. j[Len(a) + 1 + (k - n)] = b[k - n]
        BY <1>4, <2>4
      <3>2. b[k - n] = t[n + (k - n)]
        BY <1>3, <2>4
      <3>3. Len(a) + 1 + (k - n) = k /\ n + (k - n) = k
        BY <1>1, <1>2
      <3> QED
        BY <3>1, <3>2, <3>3
    <2> QED
      BY <2>1, <2>2, <2>3, <2>4
  <1>6. Len(j) = Len(t)
    BY <1>1, <1>2, <1>3, <1>4
  <1>7. j = t
    BY <1>4, <1>5, <1>6, SameText
  <1> QED
    BY <1>2, <1>3, <1>7 DEF a, b, j

LEMMA SplitFree ==
    ASSUME NEW t \in Text, NEW d, Free(t, {d})
    PROVE  SplitOnce(t, d) = <<t>>
  BY NoPositions DEF SplitOnce

LEMMA SplitAt ==
    ASSUME NEW t \in Text, NEW d \in STRING, ~Free(t, {d})
    PROVE  /\ Before(t, Min(Positions(t, d))) \in Text
           /\ After(t, Min(Positions(t, d))) \in Text
           /\ Free(Before(t, Min(Positions(t, d))), {d})
           /\ t = Before(t, Min(Positions(t, d))) \o <<d>> \o After(t, Min(Positions(t, d)))
           /\ SplitOnce(t, d) = <<Before(t, Min(Positions(t, d))), After(t, Min(Positions(t, d)))>>
  <1>1. Positions(t, d) # {}
    BY NoPositions
  <1>2. SplitOnce(t, d) = <<Before(t, Min(Positions(t, d))), After(t, Min(Positions(t, d)))>>
    BY <1>1 DEF SplitOnce
  <1> DEFINE n == Min(Positions(t, d))
             a == Before(t, n)
  <1>3. n \in 1..Len(t) /\ t[n] = d /\ \A k \in 1..Len(t) : t[k] = d => n <= k
    BY <1>1, FirstPosition
  <1> HIDE DEF n
  <1>4. /\ a \in Text /\ Len(a) = n - 1 /\ \A k \in 1..n - 1 : a[k] = t[k]
        /\ After(t, n) \in Text
        /\ a \o <<t[n]>> \o After(t, n) = t
    BY <1>3, CutAt
  <1>5. Len(t) \in Nat
    BY TextIs
  <1> HIDE DEF a
  <1>6. ASSUME NEW k \in 1..Len(a) PROVE a[k] # d
    <2>1. k \in 1..n - 1 /\ k \in 1..Len(t) /\ ~(n <= k)
      BY <1>3, <1>4, <1>5
    <2>2. a[k] = t[k]
      BY <1>4, <2>1
    <2> QED
      BY <1>3, <2>1, <2>2
  <1>7. Free(a, {d})
    BY <1>4, <1>6, FreeIs
  <1> QED
    BY <1>2, <1>3, <1>4, <1>7 DEF a, n

(* The converse: the delimiter that ends the first part is where it splits.*)
LEMMA SplitJoined ==
    ASSUME NEW a \in Text, NEW b \in Text, NEW d \in STRING, Free(a, {d})
    PROVE  /\ Min(Positions(a \o <<d>> \o b, d)) = Len(a) + 1
           /\ Len(a) + 1 \in Positions(a \o <<d>> \o b, d)
           /\ Before(a \o <<d>> \o b, Len(a) + 1) = a
           /\ After(a \o <<d>> \o b, Len(a) + 1) = b
           /\ SplitOnce(a \o <<d>> \o b, d) = <<a, b>>
  <1> DEFINE j == a \o <<d>> \o b
             n == Len(a) + 1
  <1>1. /\ j \in Text /\ Len(j) = Len(a) + 1 + Len(b)
        /\ \A k \in 1..Len(a) : j[k] = a[k]
        /\ j[Len(a) + 1] = d
        /\ \A k \in 1..Len(b) : j[Len(a) + 1 + k] = b[k]
    <2>1. Joins(j, a, d, b)
      BY JoinedIs
    <2> HIDE DEF j
    <2> QED
      BY <2>1 DEF Joins
  <1> HIDE DEF j
  <1>2. Len(a) \in Nat /\ Len(b) \in Nat
    BY TextIs
  <1>3. \A k \in 1..Len(a) : a[k] # d
    BY FreeIs
  <1>4. DOMAIN j = 1..Len(j)
    BY <1>1, TextIs
  <1>5. n \in 1..Len(j)
    BY <1>1, <1>2
  <1>6. n \in Positions(j, d)
    BY <1>1, <1>4, <1>5 DEF Positions
  <1>7. Positions(j, d) \subseteq Nat
    <2>1. Positions(j, d) \subseteq 1..Len(j)
      BY <1>4 DEF Positions
    <2>2. 1..Len(j) \subseteq Nat
      OBVIOUS
    <2> QED
      BY <2>1, <2>2
  <1>8. ASSUME NEW k \in Positions(j, d) PROVE n <= k
    <2>1. k \in 1..Len(j) /\ j[k] = d
      BY <1>4 DEF Positions
    <2>2. k \notin 1..Len(a)
      BY <1>1, <1>3, <2>1
    <2> QED
      BY <1>1, <1>2, <2>1, <2>2
  <1>9. Min(Positions(j, d)) = n
    BY <1>6, <1>7, <1>8, MinWhere
  <1>10. /\ Before(j, n) \in Text /\ Len(Before(j, n)) = n - 1
         /\ After(j, n) \in Text /\ Len(After(j, n)) = Len(j) - n
         /\ \A k \in 1..n - 1 : Before(j, n)[k] = j[k]
         /\ \A k \in 1..Len(j) - n : After(j, n)[k] = j[n + k]
    BY <1>1, <1>5, CutAt
  <1>11. n - 1 = Len(a) /\ Len(j) - n = Len(b)
    BY <1>1, <1>2
  <1>12. Before(j, n) = a
    <2>1. \A k \in 1..Len(a) : Before(j, n)[k] = a[k]
      BY <1>1, <1>10, <1>11
    <2> QED
      BY <1>10, <1>11, <2>1, SameText
  <1>13. After(j, n) = b
    <2>1. \A k \in 1..Len(b) : After(j, n)[k] = b[k]
      BY <1>1, <1>10, <1>11
    <2> QED
      BY <1>10, <1>11, <2>1, SameText
  <1>14. SplitOnce(j, d) = <<a, b>>
    BY <1>6, <1>9, <1>12, <1>13 DEF SplitOnce
  <1> QED
    BY <1>6, <1>9, <1>12, <1>13, <1>14 DEF j

LEMMA FreeJoined ==
    ASSUME NEW a \in Text, NEW b \in Text, NEW d \in STRING, NEW A
    PROVE  /\ a \o <<d>> \in Text /\ a \o <<d>> \o b \in Text /\ a \o <<d>> \o b # <<>>
           /\ Free(a \o <<d>> \o b, A) => Free(a, A) /\ Free(b, A)
           /\ Free(a, A) /\ Free(b, A) /\ d \notin A => Free(a \o <<d>> \o b, A)
  <1>1. <<d>> \in Text
    BY OneAtom
  <1>2. a \o <<d>> \in Text
    BY <1>1, BothAre
  <1>3. (a \o <<d>>) \o b \in Text
    BY <1>2, BothAre
  <1>4. Free(a \o <<d>>, A) <=> Free(a, A) /\ Free(<<d>>, A)
    BY <1>1, FreeBoth
  <1>5. Free((a \o <<d>>) \o b, A) <=> Free(a \o <<d>>, A) /\ Free(b, A)
    BY <1>2, FreeBoth
  <1>6. d \notin A => Free(<<d>>, A)
    BY FreeAtom
  <1>7. a \o <<d>> \o b # <<>>
    <2>1. Len(a \o <<d>> \o b) = Len(a) + 1 + Len(b)
      BY JoinedAre
    <2>2. Len(a) \in Nat /\ Len(b) \in Nat
      BY TextIs
    <2>3. Len(a \o <<d>> \o b) # 0
      BY <2>1, <2>2
    <2> QED
      BY <1>3, <2>3, TextIs
  <1> QED
    BY <1>2, <1>3, <1>4, <1>5, <1>6, <1>7
-----------------------------------------------------------------------------
(* The numbers of a version.                                               *)
LEMMA UnsignedIs ==
    ASSUME NEW t \in Text, t # <<>>
    PROVE  Unsigned(t) \in Text /\ Unsigned(t) # <<>>
  <1>1. CASE HasPrefix(t, "+") /\ Len(t) > 1
    <2>1. Tail(t) \in Seq(STRING) /\ Len(Tail(t)) = Len(t) - 1
      BY HeadTailProperties DEF Text
    <2>2. Tail(t) \in Text
      BY <2>1 DEF Text
    <2>3. Len(Tail(t)) # 0
      BY <1>1, <2>1, TextIs
    <2>4. Tail(t) # <<>>
      BY <2>2, <2>3, TextIs
    <2> QED
      BY <1>1, <2>2, <2>4 DEF Unsigned
  <1>2. CASE ~(HasPrefix(t, "+") /\ Len(t) > 1)
    BY <1>2 DEF Unsigned
  <1> QED
    BY <1>1, <1>2

(* What is parsed as a number is shown as one, and read back as the same.  *)
LEMMA NumberIs ==
    ASSUME NEW t \in Text, IsNumber(t)
    PROVE  /\ Number(t) \in Text
           /\ Free(Number(t), {"/"}) /\ Free(Number(t), {"-"})
           /\ IsNumber(Number(t)) /\ Number(Number(t)) = Number(t)
  <1> DEFINE u == Unsigned(t)
             v == Number(t)
             Counting(s) == {n \in DOMAIN s : s[n] # "0"}
  <1>1. u \in Text /\ u # <<>> /\ \A n \in DOMAIN u : u[n] \in Digits
    BY UnsignedIs DEF IsNumber
  <1>2. v = IF Counting(u) = {} THEN <<"0">> ELSE SubSeq(u, Min(Counting(u)), Len(u))
    BY DEF Number
  <1>3. Len(v) <= MaxVersionDigits
    BY DEF IsNumber
  <1> HIDE DEF u, v
  <1>4. DOMAIN u = 1..Len(u) /\ Len(u) \in Nat
    BY <1>1, TextIs
  <1>5. /\ v \in Text /\ Len(v) \in Nat \ {0} /\ \A n \in 1..Len(v) : v[n] \in Digits
        /\ v = <<"0">> \/ v[1] # "0"
    <2>1. CASE Counting(u) = {}
      <3>1. v = <<"0">>
        BY <1>2, <2>1
      <3>2. "0" \in STRING
        BY AtomsAssumption
      <3>3. v \in Text /\ Len(v) = 1 /\ v[1] = "0"
        BY <3>1, <3>2, OneAtom
      <3>4. \A n \in 1..1 : n = 1
        OBVIOUS
      <3> QED
        BY <3>1, <3>3, <3>4 DEF Digits
    <2>2. CASE Counting(u) # {}
      <3> DEFINE m == Min(Counting(u))
      <3>1. Counting(u) \subseteq Nat
        BY <1>4
      <3>2. m \in Counting(u)
        BY <2>2, <3>1, MinIs
      <3>3. m \in 1..Len(u) /\ u[m] # "0"
        BY <1>4, <3>2
      <3>4. v = SubSeq(u, m, Len(u))
        BY <1>2, <2>2
      <3> HIDE DEF m
      <3>5. m \in 1..Len(u) + 1 /\ Len(u) \in m - 1..Len(u)
        BY <1>4, <3>3
      <3>6. /\ v \in Text /\ Len(v) = Len(u) - m + 1
            /\ \A k \in 1..Len(u) - m + 1 : v[k] = u[m + k - 1]
        BY <1>1, <3>4, <3>5, PartIs
      <3>7. /\ Len(v) \in Nat \ {0} /\ 1 \in 1..Len(u) - m + 1 /\ m + 1 - 1 = m
            /\ \A k \in 1..Len(v) : k \in 1..Len(u) - m + 1 /\ m + k - 1 \in 1..Len(u)
        BY <1>4, <3>3, <3>6
      <3>8. v[1] = u[m + 1 - 1]
        BY <3>6, <3>7
      <3>9. \A k \in 1..Len(v) : v[k] \in Digits
        BY <1>1, <1>4, <3>6, <3>7
      <3> QED
        BY <3>3, <3>6, <3>7, <3>8, <3>9
    <2> QED
      BY <2>1, <2>2
  <1>6. DOMAIN v = 1..Len(v) /\ v # <<>> /\ 1 \in 1..Len(v)
    BY <1>5, TextIs
  <1>7. Unsigned(v) = v
    <2>1. v[1] \in Digits
      BY <1>5, <1>6
    <2>2. v[1] # "+"
      BY <2>1 DEF Digits
    <2> QED
      BY <2>2 DEF Unsigned, HasPrefix
  <1>8. Number(v) = v
    <2>1. Number(v) = IF Counting(v) = {} THEN <<"0">> ELSE SubSeq(v, Min(Counting(v)), Len(v))
      BY <1>7 DEF Number
    <2>2. CASE v = <<"0">>
      <3>1. \A n \in DOMAIN v : v[n] = "0"
        BY <2>2
      <3>2. Counting(v) = {}
        BY <3>1
      <3> QED
        BY <2>1, <2>2, <3>2
    <2>3. CASE v[1] # "0"
      <3>1. 1 \in Counting(v)
        BY <1>6, <2>3
      <3>2. Counting(v) \subseteq Nat /\ \A y \in Counting(v) : 1 <= y
        BY <1>5, <1>6
      <3>3. Min(Counting(v)) = 1
        BY <3>1, <3>2, MinWhere
      <3>4. Number(v) = SubSeq(v, 1, Len(v))
        BY <2>1, <3>1, <3>3
      <3>5. 1 \in 1..Len(v) + 1 /\ Len(v) \in 1 - 1..Len(v) /\ Len(v) - 1 + 1 = Len(v)
        BY <1>5
      <3>6. /\ SubSeq(v, 1, Len(v)) \in Text
            /\ Len(SubSeq(v, 1, Len(v))) = Len(v) - 1 + 1
            /\ \A k \in 1..Len(v) - 1 + 1 : SubSeq(v, 1, Len(v))[k] = v[1 + k - 1]
        BY <1>5, <3>5, PartIs
      <3>7. \A k \in 1..Len(v) : SubSeq(v, 1, Len(v))[k] = v[k]
        BY <1>5, <3>5, <3>6
      <3> QED
        BY <1>5, <3>4, <3>5, <3>6, <3>7, SameText
    <2> QED
      BY <1>5, <2>2, <2>3
  <1>9. IsNumber(v)
    BY <1>3, <1>5, <1>6, <1>7, <1>8 DEF IsNumber
  <1>10. Free(v, {"/"}) /\ Free(v, {"-"})
    <2>1. \A n \in 1..Len(v) : v[n] # "/" /\ v[n] # "-"
      BY <1>5 DEF Digits
    <2> QED
      BY <1>5, <2>1, FreeIs
  <1> QED
    BY <1>5, <1>8, <1>9, <1>10 DEF v
-----------------------------------------------------------------------------
(* What may be missing, names and case.                                    *)
LEMMA OptionIs ==
    ASSUME NEW S, NEW f \in OptionOf(S)
    PROVE  f = None \/ (f # None /\ f[1] \in S /\ f = Some(f[1]) /\ Range(f) = {f[1]})
  <1>1. f \in Seq(S) /\ Len(f) \in Nat /\ DOMAIN f = 1..Len(f) /\ Len(f) <= 1
    BY LenProperties DEF OptionOf
  <1>2. CASE Len(f) = 0
    BY <1>1, <1>2, EmptySeq DEF None
  <1>3. CASE Len(f) = 1
    <2>1. DOMAIN f = {1} /\ f # None
      BY <1>1, <1>3 DEF None
    <2>2. f[1] \in S
      BY <1>1, <1>3
    <2>3. f = Some(f[1])
      <3>1. <<f[1]>> \in Seq(S) /\ Len(<<f[1]>>) = 1 /\ <<f[1]>>[1] = f[1]
        BY <2>2, OneOf
      <3>2. \A n \in 1..Len(f) : f[n] = <<f[1]>>[n]
        BY <1>3, <3>1
      <3> QED
        BY <1>1, <1>3, <3>1, <3>2, SeqEqual DEF Some
    <2>4. Range(f) = {f[1]}
      BY <2>1 DEF Range
    <2> QED
      BY <2>1, <2>2, <2>3, <2>4
  <1> QED
    BY <1>1, <1>2, <1>3

LEMMA SomeIs ==
    ASSUME NEW S, NEW v \in S
    PROVE  Some(v) \in OptionOf(S) /\ Some(v) # None /\ Some(v)[1] = v /\ Range(Some(v)) = {v}
  <1>1. <<v>> \in Seq(S)
    BY OneOf
  <1>2. Len(<<v>>) = 1 /\ <<v>>[1] = v /\ <<v>> # <<>> /\ DOMAIN <<v>> = {1}
    OBVIOUS
  <1>3. Range(<<v>>) = {v}
    BY <1>2 DEF Range
  <1> QED
    BY <1>1, <1>2, <1>3 DEF Some, None, OptionOf

LEMMA NoneIs == \A S : None \in OptionOf(S) /\ Range(None) = {}
  <1>1. \A S : <<>> \in Seq(S) /\ Len(<<>>) = 0 /\ DOMAIN <<>> = {}
    OBVIOUS
  <1> QED
    BY <1>1 DEF None, OptionOf, Range

LEMMA NameIs ==
    ASSUME NEW table, NEW t \in Text
    PROVE  Name(table, t) \in Names /\ Name(table, t).text = t
  BY DEF Name, Names

LEMMA LowercaseIs ==
    ASSUME NEW t \in Text
    PROVE  /\ Lowercase(t) \in Text /\ Len(Lowercase(t)) = Len(t)
           /\ Free(Lowercase(t), {"IOS"})
           /\ Free(t, {"IOS"}) <=> Lowercase(t) = t
           /\ Free(t, {"/"}) => Free(Lowercase(t), {"/"})
  <1> DEFINE l == Lowercase(t)
  <1>1. Len(t) \in Nat /\ DOMAIN t = 1..Len(t) /\ \A n \in 1..Len(t) : t[n] \in STRING
    BY TextIs
  <1>2. "ios" \in STRING
    BY AtomsAssumption
  <1>3. l = [n \in 1..Len(t) |-> IF t[n] = "IOS" THEN "ios" ELSE t[n]]
    BY <1>1 DEF Lowercase
  <1> HIDE DEF l
  <1>4. \A n \in 1..Len(t) : l[n] = IF t[n] = "IOS" THEN "ios" ELSE t[n]
    BY <1>3
  <1>5. l \in Seq(STRING) /\ Len(l) = Len(t)
    <2>1. \A n \in 1..Len(t) : l[n] \in STRING
      BY <1>1, <1>2, <1>4
    <2>2. l \in [1..Len(t) -> STRING]
      BY <1>3, <2>1
    <2> QED
      BY <1>1, <2>2, LenProperties
  <1>6. l \in Text
    BY <1>5 DEF Text
  <1>7. Free(l, {"IOS"})
    BY <1>4, <1>5, <1>6, FreeIs
  <1>8. ASSUME Free(t, {"IOS"}) PROVE l = t
    <2>1. \A n \in 1..Len(t) : t[n] # "IOS"
      BY <1>8, FreeIs
    <2>2. \A n \in 1..Len(t) : l[n] = t[n]
      BY <1>4, <2>1
    <2> QED
      BY <1>5, <1>6, <2>2, SameText
  <1>9. ASSUME Free(t, {"/"}) PROVE Free(l, {"/"})
    <2>1. \A n \in 1..Len(t) : t[n] # "/"
      BY <1>9, FreeIs
    <2>2. \A n \in 1..Len(l) : l[n] # "/"
      BY <1>4, <1>5, <2>1
    <2> QED
      BY <1>6, <2>2, FreeIs
  <1> QED
    BY <1>5, <1>6, <1>7, <1>8, <1>9 DEF l
-----------------------------------------------------------------------------
(* The parts of a user agent that are read back as they are shown, and     *)
(* whose text does not end where the user agent splits.                    *)
Delimited(t, atoms) == t # <<>> /\ \A d \in atoms : Free(t, {d})

ProtocolFits(p) ==
    /\ p \in [kind : Names, version : Text]
    /\ p.kind = Name(ProtocolKinds, p.kind.text)
    /\ Delimited(p.kind.text, {"-", "/"})
    /\ IsNumber(p.version) /\ Number(p.version) = p.version

SdkFits(s) ==
    /\ s \in [language : Names, version : Text]
    /\ s.language = Name(SdkLanguages, s.language.text)
    /\ Delimited(s.language.text, {"-", "/"})
    /\ Free(s.version, {"/"})

IdFits(i) ==
    /\ i \in [environment : Names, host : OptionOf(Text)]
    /\ i.environment = Name(Environments, i.environment.text)
    /\ Delimited(i.environment.text, {":"})

OsShows(o) ==
    /\ o \in [family : Text, uaFamily : OptionOf(Text), version : OptionOf(Text)]
    /\ ShowOs(o) \in Text /\ ShowOs(o) # <<>> /\ Free(ShowOs(o), {"/"})

OsReadsBack(o) == MatchOs(Lowercase(ShowOs(o))) = o

Shows(u) ==
    /\ u \in ValidUserAgents
    /\ ProtocolFits(u.protocol) /\ SdkFits(u.sdk) /\ OsShows(u.os)
    /\ \A i \in Range(u.id) : IdFits(i)

LEMMA ProtocolReadsBack ==
    ASSUME NEW p, ProtocolFits(p)
    PROVE  /\ ShowProtocol(p) \in Text /\ Free(ShowProtocol(p), {"/"})
           /\ ParseProtocol(ShowProtocol(p)) = Ok(p)
  <1> DEFINE a == p.kind.text
             b == p.version
             t == a \o <<"-">> \o b
  <1>1. /\ a \in Text /\ b \in Text /\ a # <<>> /\ Free(a, {"-"}) /\ Free(a, {"/"})
        /\ IsNumber(b) /\ Number(b) = b /\ p.kind = Name(ProtocolKinds, a)
        /\ p = [kind |-> p.kind, version |-> b]
    BY DEF ProtocolFits, Delimited, Names
  <1>2. ShowProtocol(p) = t
    BY DEF ShowProtocol
  <1>3. Free(b, {"/"})
    BY <1>1, NumberIs
  <1> HIDE DEF a, b
  <1>4. "-" \in STRING
    BY AtomsAssumption
  <1>5. t \in Text /\ Free(t, {"/"})
    <2>1. "-" \notin {"/"}
      OBVIOUS
    <2> QED
      BY <1>1, <1>3, <1>4, <2>1, FreeJoined
  <1>6. SplitOnce(t, "-") = <<a, b>>
    BY <1>1, <1>4, SplitJoined
  <1> HIDE DEF t
  <1>7. ParseProtocol(t) = Ok([kind |-> Name(ProtocolKinds, a), version |-> b])
    BY <1>1, <1>6 DEF ParseProtocol
  <1> QED
    BY <1>1, <1>2, <1>5, <1>7

LEMMA ParsedProtocolFits ==
    ASSUME NEW t \in Text, Free(t, {"/"}), ParseProtocol(t).ok
    PROVE  ProtocolFits(ParseProtocol(t).value)
  <1>1. "-" \in STRING
    BY AtomsAssumption
  <1>2. CASE Free(t, {"-"})
    <2>1. SplitOnce(t, "-") = <<t>>
      BY <1>2, SplitFree
    <2>2. Len(<<t>>) # 2
      OBVIOUS
    <2>3. ParseProtocol(t) = Fails("protocol")
      BY <2>1, <2>2 DEF ParseProtocol
    <2> QED
      BY <2>3 DEF Fails
  <1>3. CASE ~Free(t, {"-"})
    <2>1. PICK a \in Text, b \in Text :
             Free(a, {"-"}) /\ t = a \o <<"-">> \o b /\ SplitOnce(t, "-") = <<a, b>>
      BY <1>1, <1>3, SplitAt
    <2>2. Free(a, {"/"}) /\ Free(b, {"/"})
      BY <1>1, <2>1, FreeJoined
    <2>3. /\ a # <<>> /\ IsNumber(b)
          /\ ParseProtocol(t) = Ok([kind |-> Name(ProtocolKinds, a), version |-> Number(b)])
      <3>1. Len(<<a, b>>) = 2 /\ <<a, b>>[1] = a /\ <<a, b>>[2] = b
        OBVIOUS
      <3>2. ParseProtocol(t) =
              IF a # <<>> /\ IsNumber(b)
              THEN Ok([kind |-> Name(ProtocolKinds, a), version |-> Number(b)])
              ELSE Fails("protocol")
        BY <2>1, <3>1 DEF ParseProtocol
      <3> QED
        BY <3>2 DEF Fails
    <2>4. ParseProtocol(t).value = [kind |-> Name(ProtocolKinds, a), version |-> Number(b)]
      BY <2>3 DEF Ok
    <2>5. /\ Number(b) \in Text /\ IsNumber(Number(b)) /\ Number(Number(b)) = Number(b)
      BY <2>3, NumberIs
    <2>6. Name(ProtocolKinds, a) \in Names /\ Name(ProtocolKinds, a).text = a
      BY NameIs
    <2> QED
      BY <2>1, <2>2, <2>3, <2>4, <2>5, <2>6 DEF ProtocolFits, Delimited
  <1> QED
    BY <1>2, <1>3

LEMMA SdkReadsBack ==
    ASSUME NEW s, SdkFits(s)
    PROVE  /\ ShowSdk(s) \in Text /\ Free(ShowSdk(s), {"/"})
           /\ ParseSdk(ShowSdk(s)) = Ok(s)
  <1> DEFINE a == s.language.text
             b == s.version
             t == a \o <<"-">> \o b
  <1>1. /\ a \in Text /\ b \in Text /\ a # <<>> /\ Free(a, {"-"}) /\ Free(a, {"/"})
        /\ Free(b, {"/"}) /\ s.language = Name(SdkLanguages, a)
        /\ s = [language |-> s.language, version |-> b]
    BY DEF SdkFits, Delimited, Names
  <1>2. ShowSdk(s) = t
    BY DEF ShowSdk
  <1> HIDE DEF a, b
  <1>3. "-" \in STRING
    BY AtomsAssumption
  <1>4. t \in Text /\ Free(t, {"/"})
    <2>1. "-" \notin {"/"}
      OBVIOUS
    <2> QED
      BY <1>1, <1>3, <2>1, FreeJoined
  <1>5. SplitOnce(t, "-") = <<a, b>>
    BY <1>1, <1>3, SplitJoined
  <1> HIDE DEF t
  <1>6. ParseSdk(t) = Ok([language |-> Name(SdkLanguages, a), version |-> b])
    BY <1>1, <1>5 DEF ParseSdk
  <1> QED
    BY <1>1, <1>2, <1>4, <1>6

LEMMA ParsedSdkFits ==
    ASSUME NEW t \in Text, Free(t, {"/"}), ParseSdk(t).ok
    PROVE  SdkFits(ParseSdk(t).value)
  <1>1. "-" \in STRING
    BY AtomsAssumption
  <1>2. CASE Free(t, {"-"})
    <2>1. SplitOnce(t, "-") = <<t>>
      BY <1>2, SplitFree
    <2>2. Len(<<t>>) # 2
      OBVIOUS
    <2>3. ParseSdk(t) = Fails("sdk")
      BY <2>1, <2>2 DEF ParseSdk
    <2> QED
      BY <2>3 DEF Fails
  <1>3. CASE ~Free(t, {"-"})
    <2>1. PICK a \in Text, b \in Text :
             Free(a, {"-"}) /\ t = a \o <<"-">> \o b /\ SplitOnce(t, "-") = <<a, b>>
      BY <1>1, <1>3, SplitAt
    <2>2. Free(a, {"/"}) /\ Free(b, {"/"})
      BY <1>1, <2>1, FreeJoined
    <2>3. /\ a # <<>>
          /\ ParseSdk(t) = Ok([language |-> Name(SdkLanguages, a), version |-> b])
      <3>1. Len(<<a, b>>) = 2 /\ <<a, b>>[1] = a /\ <<a, b>>[2] = b
        OBVIOUS
      <3>2. ParseSdk(t) =
              IF a # <<>> THEN Ok([language |-> Name(SdkLanguages, a), version |-> b])
              ELSE Fails("sdk")
        BY <2>1, <3>1 DEF ParseSdk
      <3> QED
        BY <3>2 DEF Fails
    <2>4. ParseSdk(t).value = [language |-> Name(SdkLanguages, a), version |-> b]
      BY <2>3 DEF Ok
    <2>5. Name(SdkLanguages, a) \in Names /\ Name(SdkLanguages, a).text = a
      BY NameIs
    <2> QED
      BY <2>1, <2>2, <2>3, <2>4, <2>5 DEF SdkFits, Delimited
  <1> QED
    BY <1>2, <1>3

LEMMA IdReadsBack ==
    ASSUME NEW i, IdFits(i)
    PROVE  ShowId(i) \in Text /\ ParseId(ShowId(i)) = Ok(i)
  <1> DEFINE a == i.environment.text
             h == i.host
  <1>1. /\ a \in Text /\ a # <<>> /\ Free(a, {":"}) /\ h \in OptionOf(Text)
        /\ i.environment = Name(Environments, a)
        /\ i = [environment |-> i.environment, host |-> h]
    BY DEF IdFits, Delimited, Names
  <1>2. ShowId(i) = a \o IF h = None THEN <<>> ELSE <<":">> \o h[1]
    BY DEF ShowId
  <1> HIDE DEF a, h
  <1>3. ":" \in STRING
    BY AtomsAssumption
  <1>4. ASSUME NEW t \in Text, NEW b, t = ShowId(i),
               SplitOnce(t, ":") = <<a>> \o b, h = b, Tail(<<a>> \o b) = b, (<<a>> \o b)[1] = a
        PROVE  ShowId(i) \in Text /\ ParseId(ShowId(i)) = Ok(i)
    <2>1. ParseId(t) = Ok([environment |-> Name(Environments, a), host |-> b])
      BY <1>1, <1>4 DEF ParseId
    <2> QED
      BY <1>1, <1>4, <2>1
  <1>5. CASE h = None
    <2>1. ShowId(i) = a
      BY <1>1, <1>2, <1>5, WithNothing
    <2>2. SplitOnce(a, ":") = <<a>>
      BY <1>1, SplitFree
    <2>3. Tail(<<a>>) = <<>> /\ <<a>>[1] = a
      OBVIOUS
    <2>4. ParseId(a) = Ok([environment |-> Name(Environments, a), host |-> <<>>])
      BY <1>1, <2>2, <2>3 DEF ParseId
    <2> QED
      BY <1>1, <1>5, <2>1, <2>4 DEF None
  <1>6. CASE h # None
    <2>1. h[1] \in Text /\ h = <<h[1]>>
      BY <1>1, <1>6, OptionIs DEF Some
    <2> DEFINE b == h[1]
    <2>2. b \in Text /\ h = <<b>>
      BY <2>1
    <2>3. ShowId(i) = a \o (<<":">> \o b)
      BY <1>2, <1>6
    <2> HIDE DEF b
    <2>4. ShowId(i) = a \o <<":">> \o b
      <3>1. <<":">> \in Text
        BY <1>3, OneAtom
      <3>2. (a \o <<":">>) \o b = a \o (<<":">> \o b)
        BY <1>1, <2>2, <3>1, Regroup
      <3> QED
        BY <2>3, <3>2
    <2>5. SplitOnce(ShowId(i), ":") = <<a, b>>
      BY <1>1, <1>3, <2>2, <2>4, SplitJoined
    <2>6. ShowId(i) \in Text
      BY <1>1, <1>3, <2>2, <2>4, FreeJoined
    <2>7. Tail(<<a, b>>) = <<b>> /\ <<a, b>>[1] = a
      OBVIOUS
    <2>8. ParseId(ShowId(i)) = Ok([environment |-> Name(Environments, a), host |-> <<b>>])
      BY <1>1, <2>5, <2>7 DEF ParseId
    <2> QED
      BY <1>1, <2>2, <2>6, <2>8
  <1> QED
    BY <1>5, <1>6

LEMMA ParsedIdFits ==
    ASSUME NEW t \in Text, ParseId(t).ok
    PROVE  IdFits(ParseId(t).value)
  <1>1. ":" \in STRING
    BY AtomsAssumption
  <1>2. CASE Free(t, {":"})
    <2>1. SplitOnce(t, ":") = <<t>>
      BY <1>2, SplitFree
    <2>2. Tail(<<t>>) = <<>> /\ <<t>>[1] = t
      OBVIOUS
    <2>3. ParseId(t) = IF t # <<>> THEN Ok([environment |-> Name(Environments, t), host |-> <<>>])
                       ELSE Fails("id")
      BY <2>1, <2>2 DEF ParseId
    <2>4. t # <<>> /\ ParseId(t).value = [environment |-> Name(Environments, t), host |-> <<>>]
      BY <2>3 DEF Fails, Ok
    <2>5. Name(Environments, t) \in Names /\ Name(Environments, t).text = t
      BY NameIs
    <2>6. <<>> \in OptionOf(Text)
      BY NoneIs DEF None
    <2> QED
      BY <1>2, <2>4, <2>5, <2>6 DEF IdFits, Delimited
  <1>3. CASE ~Free(t, {":"})
    <2>1. PICK a \in Text, b \in Text :
             Free(a, {":"}) /\ t = a \o <<":">> \o b /\ SplitOnce(t, ":") = <<a, b>>
      BY <1>1, <1>3, SplitAt
    <2>2. Tail(<<a, b>>) = <<b>> /\ <<a, b>>[1] = a
      OBVIOUS
    <2>3. ParseId(t) = IF a # <<>> THEN Ok([environment |-> Name(Environments, a), host |-> <<b>>])
                       ELSE Fails("id")
      BY <2>1, <2>2 DEF ParseId
    <2>4. a # <<>> /\ ParseId(t).value = [environment |-> Name(Environments, a), host |-> <<b>>]
      BY <2>3 DEF Fails, Ok
    <2>5. Name(Environments, a) \in Names /\ Name(Environments, a).text = a
      BY NameIs
    <2>6. <<b>> \in OptionOf(Text)
      BY SomeIs DEF Some
    <2> QED
      BY <2>1, <2>4, <2>5, <2>6 DEF IdFits, Delimited
  <1> QED
    BY <1>2, <1>3
-----------------------------------------------------------------------------
(* The operating system, which has no fixed number of parts.               *)
LEMMA OsIs ==
    ASSUME NEW f, NEW a, NEW v
    PROVE  /\ Os(f, a, v).family = f /\ Os(f, a, v).uaFamily = a /\ Os(f, a, v).version = v
           /\ f \in Text /\ a \in OptionOf(Text) /\ v \in OptionOf(Text) =>
                 Os(f, a, v) \in [family : Text, uaFamily : OptionOf(Text), version : OptionOf(Text)]
  BY DEF Os

LEMMA DashedIs ==
    ASSUME NEW a \in Text, NEW b \in Text
    PROVE  <<"-">> \o b \in Text /\ a \o (<<"-">> \o b) = a \o <<"-">> \o b
  <1>1. <<"-">> \in Text
    BY AtomsAssumption, OneAtom
  <1>2. <<"-">> \o b \in Text
    BY <1>1, BothAre
  <1>3. (a \o <<"-">>) \o b = a \o (<<"-">> \o b)
    BY <1>1, Regroup
  <1> QED
    BY <1>2, <1>3

Dashed(part) == IF part = None THEN <<>> ELSE <<"-">> \o part[1]

LEMMA ShownParts ==
    ASSUME NEW f, NEW a, NEW v
    PROVE  ShowOs(Os(f, a, v)) = f \o Dashed(a) \o Dashed(v)
  <1> DEFINE o == Os(f, a, v)
  <1>1. o.family = f /\ o.uaFamily = a /\ o.version = v
    BY OsIs
  <1> HIDE DEF o
  <1>2. ShowOs(o) = o.family \o Dashed(o.uaFamily) \o Dashed(o.version)
    BY DEF ShowOs, Dashed
  <1>3. ShowOs(o) = f \o Dashed(a) \o Dashed(v)
    BY <1>1, <1>2
  <1> QED
    BY <1>3 DEF o

LEMMA ShownOs ==
    ASSUME NEW f \in Text, NEW a \in Text, NEW v \in Text
    PROVE  /\ ShowOs(Os(f, None, None)) = f
           /\ ShowOs(Os(f, Some(a), None)) = f \o <<"-">> \o a
           /\ ShowOs(Os(f, None, Some(v))) = f \o <<"-">> \o v
           /\ ShowOs(Os(f, Some(a), Some(v))) = f \o <<"-">> \o (a \o <<"-">> \o v)
  <1>1. Some(a) # None /\ Some(v) # None /\ Some(a)[1] = a /\ Some(v)[1] = v
    BY SomeIs
  <1>2. <<"-">> \in Text /\ <<>> \in Text /\ <<"-">> \o a \in Text /\ <<"-">> \o v \in Text
    BY AtomsAssumption, OneAtom, EmptyText, DashedIs
  <1> DEFINE sa == Some(a)
             sv == Some(v)
  <1>3. sa # None /\ sv # None /\ sa[1] = a /\ sv[1] = v
    BY <1>1
  <1> HIDE DEF sa, sv
  <1>4. Dashed(sa) = <<"-">> \o a /\ Dashed(sv) = <<"-">> \o v /\ Dashed(None) = <<>>
    BY <1>3 DEF Dashed
  <1>5. ShowOs(Os(f, None, None)) = f
    <2>1. ShowOs(Os(f, None, None)) = f \o <<>> \o <<>>
      <3>1. ShowOs(Os(f, None, None)) = f \o Dashed(None) \o Dashed(None)
        BY ShownParts
      <3> QED
        BY <1>4, <3>1
    <2> QED
      BY <2>1, WithNothing
  <1>6. ShowOs(Os(f, sa, None)) = f \o <<"-">> \o a
    <2>1. ShowOs(Os(f, sa, None)) = (f \o (<<"-">> \o a)) \o <<>>
      <3>1. ShowOs(Os(f, sa, None)) = f \o Dashed(sa) \o Dashed(None)
        BY ShownParts
      <3> QED
        BY <1>4, <3>1
    <2>2. f \o (<<"-">> \o a) \in Text
      BY <1>2, BothAre
    <2> QED
      BY <2>1, <2>2, WithNothing, DashedIs
  <1>7. ShowOs(Os(f, None, sv)) = f \o <<"-">> \o v
    <2>1. ShowOs(Os(f, None, sv)) = (f \o <<>>) \o (<<"-">> \o v)
      <3>1. ShowOs(Os(f, None, sv)) = f \o Dashed(None) \o Dashed(sv)
        BY ShownParts
      <3> QED
        BY <1>4, <3>1
    <2>2. f \o <<>> = f
      BY WithNothing
    <2>3. ShowOs(Os(f, None, sv)) = f \o (<<"-">> \o v)
      BY <2>1, <2>2
    <2> QED
      BY <2>3, DashedIs
  <1>8. ShowOs(Os(f, sa, sv)) = f \o <<"-">> \o (a \o <<"-">> \o v)
    <2>1. ShowOs(Os(f, sa, sv)) = (f \o (<<"-">> \o a)) \o (<<"-">> \o v)
      <3>1. ShowOs(Os(f, sa, sv)) = f \o Dashed(sa) \o Dashed(sv)
        BY ShownParts
      <3> QED
        BY <1>4, <3>1
    <2>2. (f \o (<<"-">> \o a)) \o (<<"-">> \o v) = f \o ((<<"-">> \o a) \o (<<"-">> \o v))
      BY <1>2, Regroup, Zenon
    <2>3. (<<"-">> \o a) \o (<<"-">> \o v) = <<"-">> \o (a \o (<<"-">> \o v))
      BY <1>2, Regroup
    <2>4. a \o (<<"-">> \o v) = a \o <<"-">> \o v /\ a \o <<"-">> \o v \in Text
      BY AtomsAssumption, DashedIs, FreeJoined
    <2>5. f \o (<<"-">> \o (a \o <<"-">> \o v)) = f \o <<"-">> \o (a \o <<"-">> \o v)
      BY <2>4, DashedIs
    <2> QED
      BY <2>1, <2>2, <2>3, <2>4, <2>5
  <1> QED
    BY <1>5, <1>6, <1>7, <1>8 DEF sa, sv

TwoDashed(f, a, v) == f \o <<"-">> \o (a \o <<"-">> \o v)

LEMMA ShownTwo ==
    ASSUME NEW f \in Text, NEW a \in Text, NEW v \in Text
    PROVE  ShowOs(Os(f, Some(a), Some(v))) = TwoDashed(f, a, v)
  BY ShownOs DEF TwoDashed

(* However the expression takes a text apart, its parts show the text.     *)
LEMMA MatchedShows ==
    ASSUME NEW t \in Text
    PROVE  /\ MatchOs(t) \in [family : Text, uaFamily : OptionOf(Text), version : OptionOf(Text)]
           /\ ShowOs(MatchOs(t)) = t
  <1> DEFINE P == Positions(t, "-")
             first == Min(P)
             cuts == {n \in P : n > first /\ IsOsVersion(After(t, n))}
             R == [family : Text, uaFamily : OptionOf(Text), version : OptionOf(Text)]
  <1>1. None \in OptionOf(Text)
    BY NoneIs
  <1>2. Len(t) \in Nat /\ DOMAIN t = 1..Len(t)
    BY TextIs
  <1>3. CASE MatchOs(t) = Os(t, None, None)
    BY <1>1, <1>3, OsIs, ShownOs
  <1>4. CASE P # {} /\ MatchOs(t) = Os(Before(t, first), None, Some(After(t, first)))
    <2>1. ~Free(t, {"-"})
      BY <1>4, NoPositions
    <2>2. /\ Before(t, first) \in Text /\ After(t, first) \in Text
          /\ t = Before(t, first) \o <<"-">> \o After(t, first)
      BY <2>1, AtomsAssumption, SplitAt
    <2>3. Some(After(t, first)) \in OptionOf(Text)
      BY <2>2, SomeIs
    <2> DEFINE f == Before(t, first)
               v == After(t, first)
               o == Os(f, None, Some(v))
    <2>4. ShowOs(o) = f \o <<"-">> \o v
      <3>1. f \in Text /\ v \in Text
        BY <2>2
      <3> HIDE DEF f, v
      <3> QED
        BY <3>1, ShownOs
    <2>5. o \in R
      BY <1>1, <2>2, <2>3, OsIs
    <2> QED
      BY <1>4, <2>2, <2>4, <2>5
  <1>5. CASE /\ P # {} /\ cuts # {}
             /\ MatchOs(t) = Os(Before(t, first), Some(SubSeq(t, first + 1, Min(cuts) - 1)),
                                Some(After(t, Min(cuts))))
    <2> DEFINE m == Min(cuts)
               f == Before(t, first)
               r == After(t, first)
               a == SubSeq(t, first + 1, m - 1)
               v == After(t, m)
    <2>1. ~Free(t, {"-"})
      BY <1>5, NoPositions
    <2>2. f \in Text /\ r \in Text /\ t = f \o <<"-">> \o r
      BY <2>1, AtomsAssumption, SplitAt
    <2>3. first \in 1..Len(t) /\ t[first] = "-"
      BY <1>5, FirstPosition
    <2>4. m \in cuts
      <3>1. P \subseteq 1..Len(t)
        BY <1>2 DEF Positions
      <3>2. 1..Len(t) \subseteq Nat
        OBVIOUS
      <3>3. cuts \subseteq Nat
        BY <3>1, <3>2
      <3> QED
        BY <1>5, <3>3, MinIs
    <2>5. m \in 1..Len(t) /\ t[m] = "-" /\ m > first
      BY <1>2, <2>4 DEF Positions
    <2> HIDE DEF m, first
    <2>6. /\ r \in Text /\ Len(r) = Len(t) - first
          /\ \A k \in 1..Len(t) - first : r[k] = t[first + k]
      BY <2>3, CutAt
    <2>7. v \in Text /\ Len(v) = Len(t) - m /\ \A k \in 1..Len(t) - m : v[k] = t[m + k]
      BY <2>5, CutAt
    <2>8. /\ a \in Text /\ Len(a) = (m - 1) - (first + 1) + 1
          /\ \A k \in 1..(m - 1) - (first + 1) + 1 : a[k] = t[(first + 1) + k - 1]
      <3>1. first + 1 \in 1..Len(t) + 1 /\ m - 1 \in (first + 1) - 1..Len(t)
        BY <1>2, <2>3, <2>5
      <3> QED
        BY <3>1, PartIs
    <2> DEFINE j == a \o <<"-">> \o v
    <2>9. /\ j \in Text /\ Len(j) = Len(a) + 1 + Len(v)
          /\ \A n \in 1..Len(a) : j[n] = a[n]
          /\ j[Len(a) + 1] = "-"
          /\ \A n \in 1..Len(v) : j[Len(a) + 1 + n] = v[n]
      <3>1. "-" \in STRING
        BY AtomsAssumption
      <3>2. a \in Text /\ v \in Text
        BY <2>7, <2>8
      <3> HIDE DEF a, v
      <3>3. Joins(j, a, "-", v)
        BY <3>1, <3>2, JoinedIs
      <3> HIDE DEF j
      <3> QED
        BY <3>3 DEF Joins
    <2> HIDE DEF a, v, r, f, j
    <2>10. Len(a) = m - first - 1 /\ Len(j) = Len(r)
      BY <1>2, <2>3, <2>5, <2>6, <2>7, <2>8, <2>9
    <2>11. ASSUME NEW k \in 1..Len(r) PROVE j[k] = r[k]
      <3>1. r[k] = t[first + k]
        BY <2>6
      <3>2. k <= Len(a) \/ k = Len(a) + 1 \/ k - (Len(a) + 1) \in 1..Len(v)
        BY <1>2, <2>3, <2>5, <2>6, <2>7, <2>10
      <3>3. CASE k <= Len(a)
        <4>1. k \in 1..Len(a) /\ k \in 1..(m - 1) - (first + 1) + 1 /\ (first + 1) + k - 1 = first + k
          BY <1>2, <2>3, <2>5, <2>10, <3>3
        <4>2. j[k] = a[k] /\ a[k] = t[(first + 1) + k - 1]
          BY <2>8, <2>9, <4>1
        <4> QED
          BY <3>1, <4>1, <4>2
      <3>4. CASE k = Len(a) + 1
        <4>1. first + k = m
          BY <1>2, <2>3, <2>5, <2>10, <3>4
        <4> QED
          BY <2>5, <2>9, <3>1, <3>4, <4>1
      <3>5. CASE k - (Len(a) + 1) \in 1..Len(v)
        <4> DEFINE n == k - (Len(a) + 1)
        <4>1. j[Len(a) + 1 + n] = v[n] /\ v[n] = t[m + n]
          BY <2>7, <2>9, <3>5
        <4>2. Len(a) + 1 + n = k /\ m + n = first + k
          BY <1>2, <2>3, <2>5, <2>10
        <4> QED
          BY <3>1, <4>1, <4>2
      <3> QED
        BY <3>2, <3>3, <3>4, <3>5
    <2>12. j = r
      BY <2>6, <2>9, <2>10, <2>11, SameText
    <2>13. MatchOs(t) = Os(f, Some(a), Some(v))
      BY <1>5 DEF f, a, v, m
    <2>14. ShowOs(Os(f, Some(a), Some(v))) = f \o <<"-">> \o j
      <3>1. f \in Text /\ a \in Text /\ v \in Text
        BY <2>2, <2>7, <2>8
      <3> QED
        BY <3>1, ShownTwo DEF j, TwoDashed
    <2>15. Some(a) \in OptionOf(Text) /\ Some(v) \in OptionOf(Text)
      BY <2>7, <2>8, SomeIs
    <2> QED
      BY <2>2, <2>12, <2>13, <2>14, <2>15, OsIs
  <1>6. MatchOs(t) =
          IF P = {} \/ first = 1 THEN Os(t, None, None)
          ELSE IF cuts # {}
          THEN Os(Before(t, first), Some(SubSeq(t, first + 1, Min(cuts) - 1)),
                  Some(After(t, Min(cuts))))
          ELSE IF IsOsVersion(After(t, first))
          THEN Os(Before(t, first), None, Some(After(t, first)))
          ELSE Os(t, None, None)
    BY DEF MatchOs
  <1> HIDE DEF P, first, cuts
  <1> QED
    BY <1>3, <1>4, <1>5, <1>6

LEMMA NoDash ==
    ASSUME NEW f \in Text, Free(f, {"-"})
    PROVE  MatchOs(f) = Os(f, None, None)
  BY NoPositions DEF MatchOs

LEMMA OneDash ==
    ASSUME NEW f \in Text, NEW v \in Text, f # <<>>, Free(f, {"-"}), Free(v, {"-"})
    PROVE  MatchOs(f \o <<"-">> \o v) =
              IF IsOsVersion(v) THEN Os(f, None, Some(v)) ELSE Os(f \o <<"-">> \o v, None, None)
  <1> DEFINE t == f \o <<"-">> \o v
             P == Positions(t, "-")
             first == Min(P)
             cuts == {n \in P : n > first /\ IsOsVersion(After(t, n))}
  <1>1. "-" \in STRING
    BY AtomsAssumption
  <1>2. first = Len(f) + 1 /\ P # {} /\ Before(t, first) = f /\ After(t, first) = v
    BY <1>1, SplitJoined
  <1>3. /\ t \in Text /\ Len(t) = Len(f) + 1 + Len(v)
        /\ \A n \in 1..Len(v) : t[Len(f) + 1 + n] = v[n]
    BY <1>1, JoinedAre
  <1>4. Len(f) \in Nat \ {0} /\ Len(v) \in Nat /\ \A n \in 1..Len(v) : v[n] # "-"
    BY TextIs, FreeIs
  <1> HIDE DEF t
  <1>5. DOMAIN t = 1..Len(t)
    BY <1>3, TextIs
  <1>6. MatchOs(t) =
          IF P = {} \/ first = 1 THEN Os(t, None, None)
          ELSE IF cuts # {}
          THEN Os(Before(t, first), Some(SubSeq(t, first + 1, Min(cuts) - 1)),
                  Some(After(t, Min(cuts))))
          ELSE IF IsOsVersion(After(t, first))
          THEN Os(Before(t, first), None, Some(After(t, first)))
          ELSE Os(t, None, None)
    BY DEF MatchOs
  <1> HIDE DEF first
  <1>7. ASSUME NEW n \in P, n > first PROVE FALSE
    <2>1. n \in 1..Len(t) /\ t[n] = "-"
      BY <1>5 DEF Positions
    <2>2. n - (Len(f) + 1) \in 1..Len(v) /\ Len(f) + 1 + (n - (Len(f) + 1)) = n
      BY <1>2, <1>3, <1>4, <1>7, <2>1
    <2>3. t[Len(f) + 1 + (n - (Len(f) + 1))] = v[n - (Len(f) + 1)]
      BY <1>3, <2>2
    <2> QED
      BY <1>4, <2>1, <2>2, <2>3
  <1>8. cuts = {} /\ first # 1
    BY <1>2, <1>4, <1>7
  <1> HIDE DEF P, cuts
  <1>9. MatchOs(t) = IF IsOsVersion(v) THEN Os(f, None, Some(v)) ELSE Os(t, None, None)
    BY <1>2, <1>6, <1>8
  <1> QED
    BY <1>9 DEF t

LEMMA TwoDashes ==
    ASSUME NEW f \in Text, NEW a \in Text, NEW v \in Text, f # <<>>,
           Free(f, {"-"}), Free(a, {"-"}), Free(v, {"-"}), IsOsVersion(v)
    PROVE  MatchOs(f \o <<"-">> \o (a \o <<"-">> \o v)) = Os(f, Some(a), Some(v))
  <1> DEFINE r == a \o <<"-">> \o v
             t == f \o <<"-">> \o r
             P == Positions(t, "-")
             first == Min(P)
             cuts == {n \in P : n > first /\ IsOsVersion(After(t, n))}
             second == Len(f) + 1 + (Len(a) + 1)
  <1>1. "-" \in STRING
    BY AtomsAssumption
  <1>2. /\ r \in Text /\ Len(r) = Len(a) + 1 + Len(v)
        /\ \A n \in 1..Len(a) : r[n] = a[n]
        /\ r[Len(a) + 1] = "-"
        /\ \A n \in 1..Len(v) : r[Len(a) + 1 + n] = v[n]
    <2>1. Joins(r, a, "-", v)
      BY <1>1, JoinedIs
    <2> HIDE DEF r
    <2> QED
      BY <2>1 DEF Joins
  <1> HIDE DEF r
  <1>3. first = Len(f) + 1 /\ P # {} /\ Before(t, first) = f
    BY <1>1, <1>2, SplitJoined
  <1>4. /\ t \in Text /\ Len(t) = Len(f) + 1 + Len(r)
        /\ \A n \in 1..Len(r) : t[Len(f) + 1 + n] = r[n]
    BY <1>1, <1>2, JoinedAre
  <1>5. Len(f) \in Nat \ {0} /\ Len(a) \in Nat /\ Len(v) \in Nat
    BY TextIs
  <1>6. (\A n \in 1..Len(a) : a[n] # "-") /\ (\A n \in 1..Len(v) : v[n] # "-")
    BY FreeIs
  <1> HIDE DEF t
  <1>7. DOMAIN t = 1..Len(t)
    BY <1>4, TextIs
  <1>8. MatchOs(t) =
          IF P = {} \/ first = 1 THEN Os(t, None, None)
          ELSE IF cuts # {}
          THEN Os(Before(t, first), Some(SubSeq(t, first + 1, Min(cuts) - 1)),
                  Some(After(t, Min(cuts))))
          ELSE IF IsOsVersion(After(t, first))
          THEN Os(Before(t, first), None, Some(After(t, first)))
          ELSE Os(t, None, None)
    BY DEF MatchOs
  <1> HIDE DEF first
  <1>9. second \in 1..Len(t) /\ Len(a) + 1 \in 1..Len(r)
    BY <1>2, <1>4, <1>5
  <1>10. second \in P /\ second > first
    BY <1>2, <1>3, <1>4, <1>5, <1>7, <1>9 DEF Positions
  <1>11. ASSUME NEW n \in P, n > first PROVE n = second
    <2>1. n \in 1..Len(t) /\ t[n] = "-"
      BY <1>7 DEF Positions
    <2> DEFINE k == n - (Len(f) + 1)
    <2>2. k \in 1..Len(r) /\ Len(f) + 1 + k = n
      BY <1>2, <1>3, <1>4, <1>5, <1>11, <2>1
    <2>3. r[k] = "-"
      BY <1>4, <2>1, <2>2
    <2>4. k \notin 1..Len(a)
      BY <1>2, <1>6, <2>3
    <2>5. k - (Len(a) + 1) \notin 1..Len(v)
      <3> SUFFICES ASSUME k - (Len(a) + 1) \in 1..Len(v) PROVE FALSE
        OBVIOUS
      <3>1. r[Len(a) + 1 + (k - (Len(a) + 1))] = v[k - (Len(a) + 1)]
        BY <1>2
      <3>2. Len(a) + 1 + (k - (Len(a) + 1)) = k
        BY <1>5, <2>2
      <3> QED
        BY <1>6, <2>3, <3>1, <3>2
    <2> QED
      <3> HIDE DEF k
      <3>1. k \in Int /\ 1 <= k /\ k <= Len(a) + 1 + Len(v) /\ Len(f) + 1 + k = n
        BY <1>2, <2>2
      <3>2. k > Len(a)
        BY <1>5, <2>4, <3>1
      <3>3. k = Len(a) + 1
        BY <1>5, <2>5, <3>1, <3>2
      <3> QED
        BY <3>1, <3>3
  <1>12. After(t, second) = v
    <2>1. /\ After(t, second) \in Text /\ Len(After(t, second)) = Len(t) - second
          /\ \A k \in 1..Len(t) - second : After(t, second)[k] = t[second + k]
      BY <1>4, <1>9, CutAt
    <2>2. Len(t) - second = Len(v)
      BY <1>2, <1>4, <1>5
    <2>3. ASSUME NEW k \in 1..Len(v) PROVE After(t, second)[k] = v[k]
      <3>1. Len(a) + 1 + k \in 1..Len(r) /\ second + k = Len(f) + 1 + (Len(a) + 1 + k)
        BY <1>2, <1>5
      <3>2. t[Len(f) + 1 + (Len(a) + 1 + k)] = r[Len(a) + 1 + k]
        BY <1>4, <3>1
      <3> QED
        BY <1>2, <2>1, <2>2, <3>1, <3>2
    <2> HIDE DEF second
    <2> QED
      BY <2>1, <2>2, <2>3, SameText
  <1>13. SubSeq(t, first + 1, second - 1) = a
    <2>1. /\ first + 1 \in 1..Len(t) + 1 /\ second - 1 \in (first + 1) - 1..Len(t)
          /\ (second - 1) - (first + 1) + 1 = Len(a)
      BY <1>2, <1>3, <1>4, <1>5
    <2> DEFINE s == SubSeq(t, first + 1, second - 1)
    <2>2. /\ s \in Text /\ Len(s) = (second - 1) - (first + 1) + 1
          /\ \A k \in 1..(second - 1) - (first + 1) + 1 : s[k] = t[(first + 1) + k - 1]
      <3> HIDE DEF second
      <3> QED
        BY <1>4, <2>1, PartIs
    <2> HIDE DEF s
    <2>3. ASSUME NEW k \in 1..Len(a) PROVE s[k] = a[k]
      <3>1. k \in 1..Len(r) /\ (first + 1) + k - 1 = Len(f) + 1 + k
        BY <1>2, <1>3, <1>5
      <3>2. s[k] = t[(first + 1) + k - 1]
        BY <2>1, <2>2
      <3>3. t[Len(f) + 1 + k] = r[k]
        BY <1>4, <3>1
      <3> QED
        BY <1>2, <3>1, <3>2, <3>3
    <2>4. s = a
      BY <2>1, <2>2, <2>3, SameText
    <2> QED
      BY <2>4 DEF s
  <1>14. cuts = {second} /\ first # 1
    <2>1. second \in cuts
      BY <1>10, <1>12
    <2>2. \A n \in cuts : n = second
      BY <1>11
    <2> QED
      BY <1>3, <1>5, <2>1, <2>2
  <1>15. Min(cuts) = second
    BY <1>14, <1>5, MinWhere
  <1> HIDE DEF P, cuts, second
  <1>16. MatchOs(t) = Os(f, Some(a), Some(v))
    BY <1>3, <1>8, <1>12, <1>13, <1>14, <1>15
  <1> QED
    BY <1>16 DEF t, r

LEMMA FreeEach ==
    ASSUME NEW t \in Text, Free(t, {"-", "/"})
    PROVE  Free(t, {"-"}) /\ Free(t, {"/"})
  BY FreeIs

(* A built operating system, by the parts it has.                          *)
LEMMA BuiltOs ==
    ASSUME NEW o \in [family : Text, uaFamily : OptionOf(Text), version : OptionOf(Text)],
           o.family # <<>>,
           \A t \in {o.family} \cup Range(o.uaFamily) \cup Range(o.version) :
               Free(t, {"-", "/"}) /\ Lowercase(t) = t,
           \A t \in Range(o.version) : IsOsVersion(t)
    PROVE  /\ OsShows(o)
           /\ OsReadsBack(o) <=> (o.uaFamily # None => o.version # None)
  <1> DEFINE f == o.family
             s == ShowOs(o)
             m == MatchOs(Lowercase(s))
             Plain(t) == t \in Text /\ Free(t, {"-"}) /\ Free(t, {"/"}) /\ Free(t, {"IOS"})
  <1>1. ASSUME NEW t \in Text, Free(t, {"-", "/"}), Lowercase(t) = t
        PROVE  Plain(t)
    BY <1>1, FreeEach, LowercaseIs
  <1>2. Plain(f)
    BY <1>1
  <1>3. o = Os(f, o.uaFamily, o.version)
    BY DEF Os
  <1>4. "-" \in STRING /\ "-" \notin {"/"} /\ "-" \notin {"IOS"}
    BY AtomsAssumption
  <1>5. ASSUME NEW a, NEW b, Plain(a), b \in Text, Free(b, {"/"}), Free(b, {"IOS"})
        PROVE  /\ a \o <<"-">> \o b \in Text /\ a \o <<"-">> \o b # <<>>
               /\ Free(a \o <<"-">> \o b, {"/"}) /\ Free(a \o <<"-">> \o b, {"IOS"})
    BY <1>4, <1>5, FreeJoined
  <1>6. ASSUME s \in Text, s # <<>>, Free(s, {"/"}), Free(s, {"IOS"})
        PROVE  OsShows(o) /\ Lowercase(s) = s
    BY <1>6, LowercaseIs DEF OsShows
  <1>7. o.uaFamily \in OptionOf(Text) /\ o.version \in OptionOf(Text) /\ f # <<>>
    OBVIOUS
  <1>8. ASSUME o.uaFamily # None PROVE Plain(o.uaFamily[1]) /\ o.uaFamily = Some(o.uaFamily[1])
    <2>1. o.uaFamily[1] \in Text /\ o.uaFamily = Some(o.uaFamily[1])
          /\ Range(o.uaFamily) = {o.uaFamily[1]}
      BY <1>7, <1>8, OptionIs
    <2>2. Free(o.uaFamily[1], {"-", "/"}) /\ Lowercase(o.uaFamily[1]) = o.uaFamily[1]
      BY <2>1
    <2> QED
      BY <1>1, <2>1, <2>2
  <1>9. ASSUME o.version # None
         PROVE  /\ Plain(o.version[1]) /\ o.version = Some(o.version[1])
                /\ IsOsVersion(o.version[1])
    <2>1. o.version[1] \in Text /\ o.version = Some(o.version[1])
          /\ Range(o.version) = {o.version[1]}
      BY <1>7, <1>9, OptionIs
    <2>2. Free(o.version[1], {"-", "/"}) /\ Lowercase(o.version[1]) = o.version[1]
      BY <2>1
    <2> QED
      BY <1>1, <2>1, <2>2
  <1> HIDE DEF f
  <1>10. CASE o.uaFamily = None /\ o.version = None
    <2>1. o = Os(f, None, None) /\ s = f
      BY <1>2, <1>3, <1>10, ShownOs
    <2>2. OsShows(o) /\ Lowercase(s) = s
      BY <1>2, <1>6, <1>7, <2>1
    <2>3. m = o
      BY <1>2, <2>1, <2>2, NoDash
    <2> QED
      BY <1>10, <2>2, <2>3 DEF OsReadsBack
  <1>11. CASE o.uaFamily = None /\ o.version # None
    <2> DEFINE v == o.version[1]
    <2>1. Plain(v) /\ o.version = Some(v) /\ IsOsVersion(v)
      BY <1>9, <1>11
    <2> HIDE DEF v
    <2>2. o = Os(f, None, Some(v))
      BY <1>3, <1>11, <2>1
    <2>3. s = f \o <<"-">> \o v
      BY <1>2, <2>1, <2>2, ShownOs
    <2>4. OsShows(o) /\ Lowercase(s) = s
      BY <1>2, <1>5, <1>6, <2>1, <2>3
    <2>5. MatchOs(s) = Os(f, None, Some(v))
      BY <1>2, <1>7, <2>1, <2>3, OneDash
    <2> QED
      BY <1>11, <2>2, <2>4, <2>5 DEF OsReadsBack
  <1>12. CASE o.uaFamily # None /\ o.version # None
    <2> DEFINE v == o.version[1]
               a == o.uaFamily[1]
    <2>1. Plain(v) /\ o.version = Some(v) /\ IsOsVersion(v)
      BY <1>9, <1>12
    <2>2. Plain(a) /\ o.uaFamily = Some(a)
      BY <1>8, <1>12
    <2> HIDE DEF v, a
    <2>3. o = Os(f, Some(a), Some(v))
      BY <1>3, <2>1, <2>2
    <2>4. s = f \o <<"-">> \o (a \o <<"-">> \o v)
      <3>1. s = TwoDashed(f, a, v)
        BY <1>2, <2>1, <2>2, <2>3, ShownTwo
      <3> QED
        BY <3>1 DEF TwoDashed
    <2>5. /\ a \o <<"-">> \o v \in Text /\ Free(a \o <<"-">> \o v, {"/"})
          /\ Free(a \o <<"-">> \o v, {"IOS"})
      BY <1>5, <2>1, <2>2
    <2>6. OsShows(o) /\ Lowercase(s) = s
      BY <1>2, <1>5, <1>6, <2>4, <2>5
    <2>7. MatchOs(s) = Os(f, Some(a), Some(v))
      BY <1>2, <1>7, <2>1, <2>2, <2>4, TwoDashes
    <2> QED
      BY <1>12, <2>3, <2>6, <2>7 DEF OsReadsBack
  <1>13. CASE o.uaFamily # None /\ o.version = None
    <2> DEFINE a == o.uaFamily[1]
    <2>1. Plain(a) /\ o.uaFamily = Some(a)
      BY <1>8, <1>13
    <2> HIDE DEF a
    <2>2. o = Os(f, Some(a), None)
      BY <1>3, <1>13, <2>1
    <2>3. s = f \o <<"-">> \o a
      BY <1>2, <2>1, <2>2, ShownOs
    <2>4. OsShows(o) /\ Lowercase(s) = s
      BY <1>2, <1>5, <1>6, <2>1, <2>3
    <2>5. MatchOs(s) = IF IsOsVersion(a) THEN Os(f, None, Some(a)) ELSE Os(s, None, None)
      BY <1>2, <1>7, <2>1, <2>3, OneDash
    <2>6. MatchOs(s).uaFamily = None
      BY <2>5, OsIs
    <2>7. m # o
      BY <1>13, <2>4, <2>6
    <2> QED
      BY <1>13, <2>4, <2>7 DEF OsReadsBack
  <1> QED
    BY <1>10, <1>11, <1>12, <1>13
-----------------------------------------------------------------------------
(* The pieces between the slashes.                                         *)
LEMMA PiecesAre ==
    ASSUME NEW p \in Text, NEW s \in Text, NEW r \in Text, Free(p, {"/"}), Free(s, {"/"})
    PROVE  Pieces(p \o <<"/">> \o (s \o <<"/">> \o r)) = <<p, s>> \o SplitOnce(r, "/")
  <1> DEFINE q == s \o <<"/">> \o r
             t == p \o <<"/">> \o q
  <1>1. "/" \in STRING
    BY AtomsAssumption
  <1>2. q \in Text /\ SplitOnce(q, "/") = <<s, r>>
    BY <1>1, FreeJoined, SplitJoined
  <1> HIDE DEF q
  <1>3. SplitOnce(t, "/") = <<p, q>>
    BY <1>1, <1>2, SplitJoined
  <1> HIDE DEF t
  <1>4. /\ Len(<<p, q>>) # 1 /\ <<p, q>>[1] = p /\ <<p, q>>[2] = q
        /\ Len(<<s, r>>) # 1 /\ <<s, r>>[1] = s /\ <<s, r>>[2] = r
    OBVIOUS
  <1>5. Pieces(t) = <<p, s>> \o SplitOnce(r, "/")
    BY <1>2, <1>3, <1>4 DEF Pieces
  <1> QED
    BY <1>5 DEF t, q

LEMMA PiecesOf ==
    ASSUME NEW t \in Text, ~(Len(Pieces(t)) < 3)
    PROVE  \E p, s, r \in Text :
              /\ Free(p, {"/"}) /\ Free(s, {"/"})
              /\ t = p \o <<"/">> \o (s \o <<"/">> \o r)
  <1>1. "/" \in STRING
    BY AtomsAssumption
  <1>2. ~Free(t, {"/"})
    <2> SUFFICES ASSUME Free(t, {"/"}) PROVE FALSE
      OBVIOUS
    <2>1. SplitOnce(t, "/") = <<t>>
      BY SplitFree
    <2>2. Len(<<t>>) = 1
      OBVIOUS
    <2>3. Pieces(t) = <<t>>
      BY <2>1, <2>2 DEF Pieces
    <2> QED
      BY <2>2, <2>3
  <1>3. PICK p, q \in Text :
           Free(p, {"/"}) /\ t = p \o <<"/">> \o q /\ SplitOnce(t, "/") = <<p, q>>
    BY <1>1, <1>2, SplitAt
  <1>4. ~Free(q, {"/"})
    <2> SUFFICES ASSUME Free(q, {"/"}) PROVE FALSE
      OBVIOUS
    <2>1. SplitOnce(q, "/") = <<q>>
      BY SplitFree
    <2>2. Len(<<q>>) = 1 /\ <<q>>[1] = q /\ Len(<<p, q>>) = 2 /\ <<p, q>>[1] = p /\ <<p, q>>[2] = q
      OBVIOUS
    <2>3. Pieces(t) = <<p, q>>
      BY <1>3, <2>1, <2>2 DEF Pieces
    <2> QED
      BY <2>2, <2>3
  <1>5. PICK s, r \in Text : Free(s, {"/"}) /\ q = s \o <<"/">> \o r
    BY <1>1, <1>4, SplitAt
  <1> QED
    BY <1>3, <1>5
-----------------------------------------------------------------------------
(* User agents: the errors of the parts in their order, then the whole.    *)
Assembled(protocol, sdk, os, id, field) ==
    IF ~protocol.ok THEN protocol
    ELSE IF ~sdk.ok THEN sdk
    ELSE IF ~os.ok THEN os
    ELSE IF ~id.ok THEN id
    ELSE Ok([protocol |-> protocol.value, sdk |-> sdk.value, os |-> os.value, id |-> field])

LEMMA ParsedThree ==
    ASSUME NEW p \in Text, NEW s \in Text, NEW o \in Text,
           Free(p, {"/"}), Free(s, {"/"}), Free(o, {"/"})
    PROVE  ParseValid(p \o <<"/">> \o (s \o <<"/">> \o o)) =
              Assembled(ParseProtocol(p), ParseSdk(s), ParseOs(o), Ok(None), None)
  <1> DEFINE q == s \o <<"/">> \o o
             t == p \o <<"/">> \o q
  <1>1. q \in Text /\ t \in Text /\ t # <<>>
    BY AtomsAssumption, FreeJoined
  <1>2. SplitOnce(o, "/") = <<o>>
    BY SplitFree
  <1>3. Pieces(t) = <<p, s>> \o <<o>>
    <2>1. Pieces(t) = <<p, s>> \o SplitOnce(o, "/")
      BY ONLY p \in Text, s \in Text, o \in Text, Free(p, {"/"}), Free(s, {"/"}), PiecesAre
    <2> QED
      BY <1>2, <2>1
  <1> HIDE DEF q, t
  <1>4. /\ Len(<<p, s>> \o <<o>>) = 3
        /\ (<<p, s>> \o <<o>>)[1] = p /\ (<<p, s>> \o <<o>>)[2] = s /\ (<<p, s>> \o <<o>>)[3] = o
    OBVIOUS
  <1> DEFINE w == <<p, s>> \o <<o>>
  <1>5. Len(w) = 3 /\ w[1] = p /\ w[2] = s /\ w[3] = o /\ Pieces(t) = w
    BY <1>3, <1>4
  <1> HIDE DEF w
  <1>6. ~(t = <<>> \/ Len(w) < 3) /\ Len(w) # 4 /\ Ok(None).ok
    BY <1>1, <1>5 DEF Ok
  <1>7. ParseValid(t) = Assembled(ParseProtocol(w[1]), ParseSdk(w[2]), ParseOs(w[3]), Ok(None), None)
    BY <1>5, <1>6 DEF ParseValid, Assembled
  <1> QED
    BY <1>5, <1>7 DEF t, q

LEMMA ParsedFour ==
    ASSUME NEW p \in Text, NEW s \in Text, NEW o \in Text, NEW i \in Text,
           Free(p, {"/"}), Free(s, {"/"}), Free(o, {"/"})
    PROVE  ParseValid(p \o <<"/">> \o (s \o <<"/">> \o (o \o <<"/">> \o i))) =
              Assembled(ParseProtocol(p), ParseSdk(s), ParseOs(o), ParseId(i), Some(ParseId(i).value))
  <1> DEFINE r == o \o <<"/">> \o i
             q == s \o <<"/">> \o r
             t == p \o <<"/">> \o q
  <1>1. r \in Text /\ SplitOnce(r, "/") = <<o, i>>
    BY AtomsAssumption, FreeJoined, SplitJoined
  <1> HIDE DEF r
  <1>2. q \in Text /\ t \in Text /\ t # <<>>
    BY <1>1, AtomsAssumption, FreeJoined
  <1>3. Pieces(t) = <<p, s>> \o <<o, i>>
    <2>1. Pieces(t) = <<p, s>> \o SplitOnce(r, "/")
      BY <1>1, PiecesAre DEF t, q
    <2> QED
      BY <1>1, <2>1
  <1> HIDE DEF q, t
  <1> DEFINE w == <<p, s>> \o <<o, i>>
  <1>4. Len(w) = 4 /\ w[1] = p /\ w[2] = s /\ w[3] = o /\ w[4] = i
    OBVIOUS
  <1>5. Pieces(t) = w
    BY <1>3
  <1> HIDE DEF w
  <1>6. ~(t = <<>> \/ Len(w) < 3)
    BY <1>2, <1>4
  <1>7. ParseValid(t) = Assembled(ParseProtocol(w[1]), ParseSdk(w[2]), ParseOs(w[3]),
                                  ParseId(w[4]), Some(ParseId(w[4]).value))
    BY <1>4, <1>5, <1>6 DEF ParseValid, Assembled
  <1> QED
    BY <1>4, <1>7 DEF t, q, r

LEMMA AssembledIs ==
    ASSUME NEW protocol, NEW sdk, NEW os, NEW id, NEW field,
           Assembled(protocol, sdk, os, id, field).ok
    PROVE  /\ protocol.ok /\ sdk.ok /\ os.ok /\ id.ok
           /\ Assembled(protocol, sdk, os, id, field) =
                Ok([protocol |-> protocol.value, sdk |-> sdk.value, os |-> os.value, id |-> field])
  BY DEF Assembled

LEMMA ParsedOs ==
    ASSUME NEW t \in Text, Free(t, {"/"}), ParseOs(t).ok
    PROVE  OsShows(ParseOs(t).value) /\ OsReadsBack(ParseOs(t).value)
  <1> DEFINE l == Lowercase(t)
             o == MatchOs(l)
  <1>1. t # <<>> /\ ParseOs(t).value = o
    BY DEF ParseOs, Ok, Fails
  <1>2. l \in Text /\ Len(l) = Len(t) /\ Free(l, {"IOS"}) /\ Free(l, {"/"})
    BY LowercaseIs
  <1>3. l # <<>>
    BY <1>1, <1>2, TextIs
  <1> HIDE DEF l
  <1>4. /\ o \in [family : Text, uaFamily : OptionOf(Text), version : OptionOf(Text)]
        /\ ShowOs(o) = l
    BY <1>2, MatchedShows
  <1>5. Lowercase(l) = l
    BY <1>2, LowercaseIs
  <1>6. OsShows(o)
    BY <1>2, <1>3, <1>4 DEF OsShows
  <1>7. OsReadsBack(o)
    BY <1>4, <1>5 DEF OsReadsBack
  <1> QED
    BY <1>1, <1>6, <1>7

(* What a text is parsed to is shown in a way that is read back.           *)
LEMMA ParsedShows ==
    ASSUME NEW t \in Text, ParseValid(t).ok
    PROVE  Shows(ParseValid(t).value) /\ OsReadsBack(ParseValid(t).value.os)
  <1>1. ~(Len(Pieces(t)) < 3)
    BY DEF ParseValid, Fails
  <1>2. PICK p, s, r \in Text :
           /\ Free(p, {"/"}) /\ Free(s, {"/"})
           /\ t = p \o <<"/">> \o (s \o <<"/">> \o r)
    BY <1>1, PiecesOf
  <1>3. ASSUME NEW o \in Text, Free(o, {"/"}), NEW id, NEW field \in OptionOf([environment : Names, host : OptionOf(Text)]),
               ParseValid(t) = Assembled(ParseProtocol(p), ParseSdk(s), ParseOs(o), id, field),
               id.ok => \A i \in Range(field) : IdFits(i)
        PROVE  Shows(ParseValid(t).value) /\ OsReadsBack(ParseValid(t).value.os)
    <2> DEFINE u == ParseValid(t).value
    <2>1. /\ ParseProtocol(p).ok /\ ParseSdk(s).ok /\ ParseOs(o).ok /\ id.ok
          /\ ParseValid(t) = Ok([protocol |-> ParseProtocol(p).value, sdk |-> ParseSdk(s).value,
                                 os |-> ParseOs(o).value, id |-> field])
      BY <1>3, AssembledIs
    <2>2. u = [protocol |-> ParseProtocol(p).value, sdk |-> ParseSdk(s).value,
               os |-> ParseOs(o).value, id |-> field]
      BY <2>1 DEF Ok
    <2>3. ProtocolFits(ParseProtocol(p).value) /\ SdkFits(ParseSdk(s).value)
      BY <1>2, <2>1, ParsedProtocolFits, ParsedSdkFits
    <2>4. OsShows(ParseOs(o).value) /\ OsReadsBack(ParseOs(o).value)
      BY <1>3, <2>1, ParsedOs
    <2> HIDE DEF u
    <2>5. /\ u.protocol = ParseProtocol(p).value /\ u.sdk = ParseSdk(s).value
          /\ u.os = ParseOs(o).value /\ u.id = field
      BY <2>2
    <2>6. /\ ParseProtocol(p).value \in [kind : Names, version : Text]
          /\ ParseSdk(s).value \in [language : Names, version : Text]
          /\ ParseOs(o).value \in [family : Text, uaFamily : OptionOf(Text), version : OptionOf(Text)]
      BY <2>3, <2>4 DEF ProtocolFits, SdkFits, OsShows
    <2>7. u \in ValidUserAgents
      BY <2>2, <2>6, <1>3 DEF ValidUserAgents
    <2>8. Shows(u)
      BY <1>3, <2>1, <2>3, <2>4, <2>5, <2>7 DEF Shows
    <2> QED
      BY <2>4, <2>5, <2>8 DEF u
  <1>4. CASE Free(r, {"/"})
    <2>1. ParseValid(t) = Assembled(ParseProtocol(p), ParseSdk(s), ParseOs(r), Ok(None), None)
      BY <1>2, <1>4, ParsedThree
    <2>2. None \in OptionOf([environment : Names, host : OptionOf(Text)]) /\ Range(None) = {}
      BY NoneIs
    <2> QED
      BY <1>3, <1>4, <2>1, <2>2
  <1>5. CASE ~Free(r, {"/"})
    <2>1. PICK o, i \in Text : Free(o, {"/"}) /\ r = o \o <<"/">> \o i
      <3> DEFINE o == Before(r, Min(Positions(r, "/")))
                 i == After(r, Min(Positions(r, "/")))
      <3>1. "/" \in STRING
        BY AtomsAssumption
      <3>2. o \in Text /\ i \in Text /\ Free(o, {"/"}) /\ r = o \o <<"/">> \o i
        BY <1>5, <3>1, SplitAt, Zenon
      <3> HIDE DEF o, i
      <3> QED
        BY <3>2
    <2> DEFINE id == ParseId(i)
    <2>2. ParseValid(t) = Assembled(ParseProtocol(p), ParseSdk(s), ParseOs(o), id, Some(id.value))
      BY <1>2, <2>1, ParsedFour
    <2>3. CASE id.ok
      <3>1. IdFits(id.value)
        BY <2>3, ParsedIdFits
      <3>2. id.value \in [environment : Names, host : OptionOf(Text)]
        BY <3>1 DEF IdFits
      <3> HIDE DEF id
      <3>3. /\ Some(id.value) \in OptionOf([environment : Names, host : OptionOf(Text)])
            /\ Range(Some(id.value)) = {id.value}
        BY <3>2, SomeIs
      <3> QED
        BY <1>3, <2>1, <2>2, <3>1, <3>3
    <2>4. CASE ~id.ok
      <3> DEFINE pp == ParseProtocol(p)
                 ps == ParseSdk(s)
                 po == ParseOs(o)
      <3>1. ParseValid(t) = Assembled(pp, ps, po, id, Some(id.value))
        BY <2>2
      <3> HIDE DEF id, pp, ps, po
      <3>2. ~Assembled(pp, ps, po, id, Some(id.value)).ok
        BY <2>4 DEF Assembled
      <3> QED
        BY <3>1, <3>2
    <2> QED
      BY <2>3, <2>4
  <1> QED
    BY <1>4, <1>5

(* The text of a user agent, as it is shown and as it is taken apart.      *)
ShownAs(p, s, o, x, d) == p \o d \o s \o d \o o \o x
TakenAs(p, s, r, d)    == p \o d \o (s \o d \o r)

LEMMA ShownWith ==
    \A p, s, o, x, d :
        p \in Text /\ s \in Text /\ o \in Text /\ x \in Text /\ d \in Text =>
            ShownAs(p, s, o, x, d) = TakenAs(p, s, o \o x, d)
  <1>1. SUFFICES ASSUME NEW p, NEW s, NEW o, NEW x, NEW d,
                        p \in Text, s \in Text, o \in Text, x \in Text, d \in Text
                 PROVE  ShownAs(p, s, o, x, d) = TakenAs(p, s, o \o x, d)
    OBVIOUS
  <1>2. s \in Text
    BY <1>1
  <1>3. o \in Text
    BY <1>1
  <1>4. x \in Text
    BY <1>1
  <1>5. d \in Text
    BY <1>1
  <1> DEFINE h == p \o d
             y == o \o x
  <1>6. h \in Text
    BY <1>1, <1>5, BothAre
  <1>7. y \in Text
    BY <1>3, <1>4, BothAre
  <1> HIDE DEF h
  <1> DEFINE hs == h \o s
             sd == s \o d
  <1>8. hs \in Text
    BY <1>2, <1>6, BothAre
  <1>9. sd \in Text
    BY <1>2, <1>5, BothAre
  <1>10. hs \o d = h \o sd
    BY <1>2, <1>5, <1>6, Regroup
  <1> HIDE DEF hs, sd
  <1> DEFINE hsd == h \o sd
  <1>11. hsd \in Text
    BY <1>6, <1>9, BothAre
  <1> HIDE DEF hsd
  <1>12. (hsd \o o) \o x = hsd \o y
    BY <1>3, <1>4, <1>11, Regroup
  <1> HIDE DEF y
  <1>13. (h \o sd) \o y = h \o (sd \o y)
    BY <1>6, <1>7, <1>9, Regroup
  <1>14. ((hs \o d) \o o) \o x = h \o (sd \o y)
    BY <1>10, <1>12, <1>13 DEF hsd
  <1> QED
    BY <1>14 DEF hs, h, sd, y, ShownAs, TakenAs

LEMMA ShownReadsBack ==
    ASSUME NEW u, Shows(u)
    PROVE  /\ ShowValid(u) # <<>>
           /\ ParseValid(ShowValid(u)) =
                Ok([protocol |-> u.protocol, sdk |-> u.sdk,
                    os |-> MatchOs(Lowercase(ShowOs(u.os))), id |-> u.id])
  <1> DEFINE p == ShowProtocol(u.protocol)
             s == ShowSdk(u.sdk)
             o == ShowOs(u.os)
             x == IF u.id = None THEN <<>> ELSE <<"/">> \o ShowId(u.id[1])
             t == ShowValid(u)
             R == [protocol |-> u.protocol, sdk |-> u.sdk, os |-> MatchOs(Lowercase(o)), id |-> u.id]
  <1>1. p \in Text /\ Free(p, {"/"}) /\ ParseProtocol(p) = Ok(u.protocol)
    BY ProtocolReadsBack DEF Shows
  <1>2. s \in Text /\ Free(s, {"/"}) /\ ParseSdk(s) = Ok(u.sdk)
    BY SdkReadsBack DEF Shows
  <1>3. o \in Text /\ Free(o, {"/"}) /\ o # <<>>
    BY DEF Shows, OsShows
  <1>4. ParseOs(o) = Ok(MatchOs(Lowercase(o)))
    BY <1>3 DEF ParseOs
  <1>5. t = p \o <<"/">> \o s \o <<"/">> \o o \o x
    BY DEF ShowValid
  <1>6. u.id \in OptionOf([environment : Names, host : OptionOf(Text)])
    BY DEF Shows, ValidUserAgents
  <1>7. "/" \in STRING /\ <<"/">> \in Text /\ <<>> \in Text
    BY AtomsAssumption, OneAtom, EmptyText
  <1> HIDE DEF p, s, o, t
  <1>8. ASSUME NEW r \in Text, t = p \o <<"/">> \o (s \o <<"/">> \o r) PROVE t # <<>>
    <2>1. s \o <<"/">> \o r \in Text
      BY <1>2, <1>7, FreeJoined
    <2> QED
      BY <1>1, <1>7, <1>8, <2>1, FreeJoined
  <1>9. ASSUME NEW id, NEW field, id.ok, field = u.id,
               ParseValid(t) = Assembled(ParseProtocol(p), ParseSdk(s), ParseOs(o), id, field)
        PROVE  ParseValid(t) = Ok(R)
    <2> DEFINE pp == ParseProtocol(p)
               ps == ParseSdk(s)
               po == ParseOs(o)
    <2>1. /\ pp.ok /\ pp.value = u.protocol /\ ps.ok /\ ps.value = u.sdk
          /\ po.ok /\ po.value = MatchOs(Lowercase(o))
      BY <1>1, <1>2, <1>4 DEF Ok
    <2>2. ParseValid(t) = Assembled(pp, ps, po, id, field)
      BY <1>9
    <2> HIDE DEF pp, ps, po
    <2>3. Assembled(pp, ps, po, id, field) =
            Ok([protocol |-> pp.value, sdk |-> ps.value, os |-> po.value, id |-> field])
      BY <1>9, <2>1 DEF Assembled
    <2> QED
      BY <1>9, <2>1, <2>2, <2>3
  <1>10. CASE u.id = None
    <2>1. x = <<>>
      BY <1>10
    <2>2. t = p \o <<"/">> \o (s \o <<"/">> \o (o \o <<>>))
      <3> HIDE DEF x
      <3>1. x \in Text
        BY <1>7, <2>1
      <3>2. t = p \o <<"/">> \o (s \o <<"/">> \o (o \o x))
        <4> DEFINE d == <<"/">>
        <4>1. /\ p \in Text /\ s \in Text /\ o \in Text /\ x \in Text /\ d \in Text
              /\ t = ShownAs(p, s, o, x, d)
          BY <1>1, <1>2, <1>3, <1>5, <1>7, <3>1 DEF ShownAs
        <4> HIDE DEF d
        <4>2. t = TakenAs(p, s, o \o x, d)
          BY <4>1, ShownWith
        <4> QED
          BY <4>2 DEF d, TakenAs
      <3> QED
        BY <2>1, <3>2
    <2>3. o \o <<>> = o
      BY <1>3, WithNothing
    <2>4. t = p \o <<"/">> \o (s \o <<"/">> \o o)
      BY <2>2, <2>3
    <2>5. ParseValid(t) = Assembled(ParseProtocol(p), ParseSdk(s), ParseOs(o), Ok(None), None)
      BY <1>1, <1>2, <1>3, <2>4, ParsedThree
    <2>6. Ok(None).ok
      BY DEF Ok
    <2>7. ParseValid(t) = Ok(R)
      BY <1>9, <1>10, <2>5, <2>6
    <2> QED
      BY <1>3, <1>8, <2>4, <2>7 DEF t, o
  <1>11. CASE u.id # None
    <2> DEFINE i == u.id[1]
               e == ShowId(i)
    <2>1. u.id = Some(i) /\ Range(u.id) = {i}
      BY <1>6, <1>11, OptionIs
    <2>2. IdFits(i)
      BY <2>1 DEF Shows
    <2>3. e \in Text /\ ParseId(e) = Ok(i)
      BY <2>2, IdReadsBack
    <2>4. x = <<"/">> \o e
      BY <1>11
    <2> HIDE DEF e, i
    <2>5. <<"/">> \o e \in Text /\ o \o (<<"/">> \o e) = o \o <<"/">> \o e
      <3>1. <<"/">> \o e \in Text
        BY <1>7, <2>3, BothAre
      <3>2. (o \o <<"/">>) \o e = o \o (<<"/">> \o e)
        BY <1>3, <1>7, <2>3, Regroup
      <3> QED
        BY <3>1, <3>2
    <2>6. t = p \o <<"/">> \o (s \o <<"/">> \o (o \o (<<"/">> \o e)))
      <3> HIDE DEF x
      <3>1. x \in Text
        BY <2>4, <2>5
      <3>2. t = p \o <<"/">> \o (s \o <<"/">> \o (o \o x))
        <4> DEFINE d == <<"/">>
        <4>1. /\ p \in Text /\ s \in Text /\ o \in Text /\ x \in Text /\ d \in Text
              /\ t = ShownAs(p, s, o, x, d)
          BY <1>1, <1>2, <1>3, <1>5, <1>7, <3>1 DEF ShownAs
        <4> HIDE DEF d
        <4>2. t = TakenAs(p, s, o \o x, d)
          BY <4>1, ShownWith
        <4> QED
          BY <4>2 DEF d, TakenAs
      <3> QED
        BY <2>4, <3>2
    <2>7. t = p \o <<"/">> \o (s \o <<"/">> \o (o \o <<"/">> \o e))
      BY <2>5, <2>6
    <2>8. ParseValid(t) = Assembled(ParseProtocol(p), ParseSdk(s), ParseOs(o), ParseId(e),
                                    Some(ParseId(e).value))
      BY <1>1, <1>2, <1>3, <2>3, <2>7, ParsedFour
    <2>9. ParseId(e).ok /\ Some(ParseId(e).value) = u.id
      BY <2>1, <2>3 DEF Ok
    <2>10. ParseValid(t) = Ok(R)
      BY <1>9, <2>8, <2>9
    <2>11. o \o <<"/">> \o e \in Text
      BY <1>3, <1>7, <2>3, FreeJoined
    <2> QED
      BY <1>8, <2>7, <2>10, <2>11 DEF t, o
  <1> QED
    BY <1>10, <1>11
-----------------------------------------------------------------------------
(* UserAgent, which keeps a text that is no valid user agent.              *)
LEMMA ShowIs ==
    /\ \A u : Show(Valid(u)) = ShowValid(u)
    /\ \A t : Show(Unknown(t)) = t
  <1>1. \A u : "valid" \in DOMAIN Valid(u) /\ Valid(u).valid = u
    BY DEF Valid
  <1>2. \A t : "valid" \notin DOMAIN Unknown(t) /\ Unknown(t).unknown = t
    BY DEF Unknown
  <1> QED
    BY <1>1, <1>2 DEF Show

LEMMA ShownUserAgent ==
    ASSUME NEW u, Shows(u)
    PROVE  ParseUserAgent(Show(Valid(u))) =
              Ok(Valid([protocol |-> u.protocol, sdk |-> u.sdk,
                        os |-> MatchOs(Lowercase(ShowOs(u.os))), id |-> u.id]))
  <1> DEFINE t == ShowValid(u)
             w == [protocol |-> u.protocol, sdk |-> u.sdk,
                   os |-> MatchOs(Lowercase(ShowOs(u.os))), id |-> u.id]
  <1>1. t # <<>> /\ ParseValid(t) = Ok(w)
    BY ShownReadsBack
  <1>2. Show(Valid(u)) = t
    BY ShowIs
  <1> HIDE DEF t, w
  <1>3. ParseValid(t).ok /\ ParseValid(t).value = w
    BY <1>1 DEF Ok
  <1>4. ParseUserAgent(t) = Ok(Valid(w))
    BY <1>1, <1>3 DEF ParseUserAgent
  <1> QED
    BY <1>2, <1>4 DEF w

(* Whatever text an application parses as its user agent, what the parser  *)
(* made of it is shown as a text that the parser reads as the same, however*)
(* many delimiters the text has and wherever they stand: the split at the  *)
(* first of them and the regular expression of the operating system are    *)
(* undone by fmt() (user_agent.rs).                                        *)
THEOREM ParsedReadsBack ==
    \A t \in Text : ParseUserAgent(t).ok =>
        ParseUserAgent(Show(ParseUserAgent(t).value)) = Ok(ParseUserAgent(t).value)
  <1> SUFFICES ASSUME NEW t \in Text, ParseUserAgent(t).ok
               PROVE  ParseUserAgent(Show(ParseUserAgent(t).value)) = Ok(ParseUserAgent(t).value)
    OBVIOUS
  <1>1. t # <<>>
    BY DEF ParseUserAgent, Fails
  <1>2. CASE ParseValid(t).ok
    <2> DEFINE u == ParseValid(t).value
    <2>1. Shows(u) /\ OsReadsBack(u.os)
      BY <1>2, ParsedShows
    <2>2. ParseUserAgent(t).value = Valid(u)
      BY <1>1, <1>2 DEF ParseUserAgent, Ok
    <2> HIDE DEF u
    <2>3. u = [protocol |-> u.protocol, sdk |-> u.sdk, os |-> u.os, id |-> u.id]
      BY <2>1 DEF Shows, ValidUserAgents
    <2>4. ParseUserAgent(Show(Valid(u))) =
            Ok(Valid([protocol |-> u.protocol, sdk |-> u.sdk,
                      os |-> MatchOs(Lowercase(ShowOs(u.os))), id |-> u.id]))
      BY <2>1, ShownUserAgent
    <2>5. MatchOs(Lowercase(ShowOs(u.os))) = u.os
      BY <2>1 DEF OsReadsBack
    <2>6. ParseUserAgent(Show(Valid(u))) = Ok(Valid(u))
      BY <2>3, <2>4, <2>5
    <2> QED
      BY <2>2, <2>6
  <1>3. CASE ~ParseValid(t).ok
    <2>1. ParseUserAgent(t) = Ok(Unknown(t))
      BY <1>1, <1>3 DEF ParseUserAgent
    <2>2. ParseUserAgent(t).value = Unknown(t)
      BY <2>1 DEF Ok
    <2> QED
      BY <2>1, <2>2, ShowIs
  <1> QED
    BY <1>2, <1>3

LEMMA BuiltShows ==
    ASSUME NEW u \in ValidUserAgents, WellFormed(u)
    PROVE  /\ Shows(u)
           /\ OsReadsBack(u.os) <=> (u.os.uaFamily # None => u.os.version # None)
  <1>1. /\ u.protocol \in [kind : Names, version : Text]
        /\ u.sdk \in [language : Names, version : Text]
        /\ u.os \in [family : Text, uaFamily : OptionOf(Text), version : OptionOf(Text)]
        /\ u.id \in OptionOf([environment : Names, host : OptionOf(Text)])
    BY DEF ValidUserAgents
  <1>2. /\ OsShows(u.os)
        /\ OsReadsBack(u.os) <=> (u.os.uaFamily # None => u.os.version # None)
    BY <1>1, BuiltOs DEF WellFormed
  <1>3. ProtocolFits(u.protocol)
    <2>1. u.protocol.kind.text \in Text
      BY <1>1 DEF Names
    <2>2. Delimited(u.protocol.kind.text, {"-", "/"})
      BY <2>1, FreeEach DEF WellFormed, Delimited
    <2> QED
      BY <1>1, <2>2 DEF WellFormed, ProtocolFits
  <1>4. SdkFits(u.sdk)
    <2>1. u.sdk.language.text \in Text
      BY <1>1 DEF Names
    <2>2. Delimited(u.sdk.language.text, {"-", "/"})
      BY <2>1, FreeEach DEF WellFormed, Delimited
    <2> QED
      BY <1>1, <2>2 DEF WellFormed, SdkFits
  <1>5. ASSUME NEW i \in Range(u.id) PROVE IdFits(i)
    <2>1. i \in [environment : Names, host : OptionOf(Text)]
      <3>1. CASE u.id = None
        BY <3>1, NoneIs
      <3>2. CASE u.id # None
        <4> DEFINE ids == [environment : Names, host : OptionOf(Text)]
        <4>1. u.id \in OptionOf(ids)
          BY <1>1
        <4> HIDE DEF ids
        <4>2. u.id[1] \in ids /\ Range(u.id) = {u.id[1]}
          BY <3>2, <4>1, OptionIs
        <4>3. i \in ids
          BY <4>2
        <4> QED
          BY <4>3 DEF ids
      <3> QED
        BY <3>1, <3>2
    <2> QED
      BY <2>1 DEF WellFormed, IdFits, Delimited
  <1> QED
    BY <1>2, <1>3, <1>4, <1>5 DEF Shows
-----------------------------------------------------------------------------
(* The requests, once the clients have made them, are those of the options.*)
MadeOf(o) == Request(AsUrl(o).value, Headers(o).value)

OptionsInv ==
    /\ options \in Options
    /\ \A r \in {websocket, http} :
          r # NoRequest /\ r.ok => AsUrl(options).ok /\ Headers(options).ok /\ r = MadeOf(options)

LEMMA OptionsInductive == OptionsSpec => []OptionsInv
  <1>1. OptionsInit => OptionsInv
    BY DEF OptionsInit, OptionsInv
  <1>2. OptionsInv /\ [OptionsNext]_optionsVars => OptionsInv'
    <2> SUFFICES ASSUME OptionsInv, [OptionsNext]_optionsVars PROVE OptionsInv'
      OBVIOUS
    <2>1. CASE Connect
      <3>1. options' = options /\ http' = http /\ websocket' = AsWsRequest(options)
        BY <2>1 DEF Connect
      <3>2. AsWsRequest(options).ok =>
              AsUrl(options).ok /\ Headers(options).ok /\ AsWsRequest(options) = MadeOf(options)
        BY DEF AsWsRequest, MadeOf, Fails
      <3> QED
        BY <3>1, <3>2 DEF OptionsInv
    <2>2. CASE NewHttpClient
      <3> DEFINE made == IF ~Headers(options).ok THEN Headers(options)
                         ELSE IF ~AsUrl(options).ok THEN AsUrl(options)
                         ELSE Request(AsUrl(options).value, Headers(options).value)
      <3>1. options' = options /\ websocket' = websocket /\ http' = made
        BY <2>2 DEF NewHttpClient
      <3>2. made.ok => AsUrl(options).ok /\ Headers(options).ok /\ made = MadeOf(options)
        BY DEF MadeOf
      <3> HIDE DEF made
      <3> QED
        BY <3>1, <3>2 DEF OptionsInv
    <2>3. CASE UNCHANGED optionsVars
      BY <2>3 DEF OptionsInv, optionsVars
    <2> QED
      BY <2>1, <2>2, <2>3 DEF OptionsNext
  <1> QED
    BY <1>1, <1>2, PTL DEF OptionsSpec

LEMMA MadeHolds ==
    ASSUME OptionsInv, NEW r \in Made
    PROVE  /\ r.value.url.query = Query(options)
           /\ r.value.headers =
                [authorization |-> IF options.by = "header" THEN Some(options.token) ELSE None,
                 origin |-> IF options.origin = None THEN None ELSE Some(options.origin[1].value)]
  <1>1. AsUrl(options).ok /\ Headers(options).ok /\ r = MadeOf(options)
    BY DEF OptionsInv, Made
  <1>2. AsUrl(options).value = [address |-> options.address, query |-> Query(options)]
    BY <1>1 DEF AsUrl, Fails, Ok
  <1>3. Headers(options).value =
          [authorization |-> IF options.by = "header" THEN Some(options.token) ELSE None,
           origin |-> IF options.origin = None THEN None ELSE Some(options.origin[1].value)]
    BY <1>1 DEF Headers, Fails, Ok
  <1>4. r.value = [url |-> AsUrl(options).value, headers |-> Headers(options).value]
    BY <1>1 DEF MadeOf, Request, Ok
  <1>5. r.value.url = AsUrl(options).value /\ r.value.headers = Headers(options).value
    BY <1>4
  <1> QED
    BY <1>2, <1>3, <1>5

LEMMA SomeOf == \A v : Some(v) # None /\ Some(v)[1] = v
  BY DEF Some, None

(* The relay reads in every request of either client what the application  *)
(* put in the options: the token in one place and not in both, and a user  *)
(* agent that was parsed as the value it was parsed to, for every set of   *)
(* options and every text (lib.rs:80-138, user_agent.rs).                  *)
THEOREM RelayReadsOptionsCorrect == OptionsSpec => []RelayReadsOptions
  <1>1. ASSUME OptionsInv, NEW r \in Made
        PROVE  /\ r.value.url.query.projectId = Some(options.projectId)
               /\ ReadTokens(r) = Some(options.token)
               /\ r.value.headers.origin # None <=> options.origin # None
               /\ r.value.url.query.ua = None <=> options.userAgent = None
               /\ \A ua \in Parsed :
                     options.userAgent = Some(ua) => ReadUserAgent(r) = Ok(ua)
    <2> DEFINE q == r.value.url.query
               h == r.value.headers
    <2>1. /\ q.projectId = Some(options.projectId)
          /\ q.auth = IF options.by = "query" THEN Some(options.token) ELSE None
          /\ q.ua = IF options.userAgent = None THEN None ELSE Some(Show(options.userAgent[1]))
      BY <1>1, MadeHolds DEF Query
    <2>2. /\ h.authorization = IF options.by = "header" THEN Some(options.token) ELSE None
          /\ h.origin = IF options.origin = None THEN None ELSE Some(options.origin[1].value)
      BY <1>1, MadeHolds
    <2>3. options.by \in {"query", "header"}
      BY <1>1 DEF OptionsInv, Options
    <2> HIDE DEF q, h
    <2>4. q.auth \o h.authorization = Some(options.token)
      <3>1. \A v : <<v>> \o <<>> = <<v>> /\ <<>> \o <<v>> = <<v>>
        OBVIOUS
      <3>2. \A v : Some(v) \o None = Some(v) /\ None \o Some(v) = Some(v)
        BY <3>1 DEF Some, None
      <3>3. CASE options.by = "query"
        BY <2>1, <2>2, <3>2, <3>3
      <3>4. CASE options.by = "header"
        BY <2>1, <2>2, <3>2, <3>4
      <3> QED
        BY <2>3, <3>3, <3>4
    <2>5. h.origin # None <=> options.origin # None
      BY <2>2, SomeOf
    <2>6. q.ua = None <=> options.userAgent = None
      BY <2>1, SomeOf
    <2>7. ASSUME NEW ua \in Parsed, options.userAgent = Some(ua)
          PROVE  ParseUserAgent(q.ua[1]) = Ok(ua)
      <3>1. PICK t \in Text : ParseUserAgent(t).ok /\ ua = ParseUserAgent(t).value
        BY OptionsAssumption DEF Parsed
      <3>2. options.userAgent # None /\ options.userAgent[1] = ua
        BY <2>7, SomeOf
      <3>3. q.ua[1] = Show(ua)
        BY <2>1, <3>2, SomeOf
      <3> QED
        BY <3>1, <3>3, ParsedReadsBack
    <2> QED
      BY <2>1, <2>4, <2>5, <2>6, <2>7 DEF ReadTokens, ReadUserAgent, q, h
  <1>2. OptionsInv => RelayReadsOptions
    BY <1>1 DEF RelayReadsOptions
  <1> QED
    BY <1>2, OptionsInductive, PTL

(* A user agent that an application builds of fields without delimiters is *)
(* read back as it is, but when it has a user agent family and no version  *)
(* (user_agent.rs:135-183), whatever the fields are and however long.      *)
THEOREM BuiltReadsBackCorrect == OptionsSpec => []BuiltReadsBack
  <1>1. ASSUME OptionsInv, NEW r \in Made, NEW u \in BuiltAgents,
               options.userAgent = Some(Valid(u)), WellFormed(u)
        PROVE  ReadUserAgent(r) = Ok(Valid(u)) <=> (u.os.uaFamily # None => u.os.version # None)
    <2> DEFINE m == MatchOs(Lowercase(ShowOs(u.os)))
               w == [protocol |-> u.protocol, sdk |-> u.sdk, os |-> m, id |-> u.id]
    <2>1. u \in ValidUserAgents
      BY OptionsAssumption
    <2>2. Shows(u) /\ (m = u.os <=> (u.os.uaFamily # None => u.os.version # None))
      BY <1>1, <2>1, BuiltShows DEF OsReadsBack
    <2>3. ParseUserAgent(Show(Valid(u))) = Ok(Valid(w))
      BY <2>2, ShownUserAgent
    <2>4. r.value.url.query.ua[1] = Show(Valid(u))
      <3>1. options.userAgent # None /\ options.userAgent[1] = Valid(u)
        BY <1>1, SomeOf
      <3>2. r.value.url.query = Query(options)
        BY <1>1, MadeHolds
      <3>3. r.value.url.query.ua = Some(Show(Valid(u)))
        BY <3>1, <3>2 DEF Query
      <3> QED
        BY <3>3, SomeOf
    <2>5. ReadUserAgent(r) = Ok(Valid(w))
      BY <2>3, <2>4 DEF ReadUserAgent
    <2>6. u = [protocol |-> u.protocol, sdk |-> u.sdk, os |-> u.os, id |-> u.id]
      BY <2>1 DEF ValidUserAgents
    <2>7. \A x, y : Ok(Valid(x)) = Ok(Valid(y)) => x = y
      <3>1. \A x : Ok(Valid(x)).value.valid = x
        BY DEF Ok, Valid
      <3> QED
        BY <3>1
    <2>8. w.os = m
      OBVIOUS
    <2> HIDE DEF m
    <2>9. w = u <=> m = u.os
      <3>1. m = u.os => w = u
        BY <2>6
      <3>2. w = u => m = u.os
        BY <2>8
      <3> QED
        BY <3>1, <3>2
    <2> HIDE DEF w
    <2>10. ReadUserAgent(r) = Ok(Valid(u)) <=> w = u
      BY <2>5, <2>7
    <2> QED
      BY <2>2, <2>9, <2>10
  <1>2. OptionsInv => BuiltReadsBack
    BY <1>1 DEF BuiltReadsBack
  <1> QED
    BY <1>2, OptionsInductive, PTL
=============================================================================

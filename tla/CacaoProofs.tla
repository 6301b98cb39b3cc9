----------------------------- MODULE CacaoProofs -----------------------------
(***************************************************************************)
(* Proofs about Cacao, for every set of payloads, wallets and signatures:  *)
(* what two payloads with one message have in common, when both or one of  *)
(* them have no line break in a field, and what follows for what a server  *)
(* accepts and for the key that it takes.                                  *)
(***************************************************************************)
EXTENDS Cacao, SequenceTheorems, WellFoundedInduction, TLAPS
-----------------------------------------------------------------------------
(* A set of numbers with 0 and the successor of each of its members.       *)
LEMMA Induction ==
    ASSUME NEW S, 0 \in S, \A n \in Nat : n \in S => n + 1 \in S
    PROVE  Nat \subseteq S
  <1> DEFINE Less == {ss \in Nat \X Nat : ss[1] < ss[2]}
  <1>1. IsWellFoundedOn(Less, Nat)
    BY NatLessThanWellFounded DEF OpToRel
  <1>2. SUFFICES ASSUME Nat \ S # {} PROVE FALSE
    OBVIOUS
  <1>3. PICK x \in Nat \ S : \A y \in Nat \ S : <<y, x>> \notin Less
    <2>1. Nat \ S \subseteq Nat
      OBVIOUS
    <2> HIDE DEF Less
    <2> QED
      BY <1>1, <1>2, <2>1, WFMin
  <1>4. x - 1 \in Nat /\ x = (x - 1) + 1
    BY <1>3
  <1>5. x - 1 \notin S
    BY <1>3, <1>4
  <1>6. <<x - 1, x>> \in Less
    BY <1>4
  <1> QED
    BY <1>3, <1>4, <1>5, <1>6
-----------------------------------------------------------------------------
(* Texts and their lines.                                                  *)
Labels == {"URI: ", "Version: ", "Chain ID: ", "Nonce: ", "Issued At: ", "Expiration Time: ",
           "Not Before: ", "Request ID: ", "Resources:", "- "}

Wants == " wants you to sign in with your Ethereum account:"

LEMMA AtomsAre ==
    /\ LineBreak \in STRING /\ LineBreak \notin Labels /\ Labels \subseteq STRING
    /\ Wants \in STRING /\ Wants # LineBreak
  <1>1. LineBreak \in STRING
    BY AtomsAssumption DEF LineBreak
  <1>2. Labels \subseteq STRING /\ Wants \in STRING
    BY LabelAssumption DEF Labels, Wants
  <1>3. LineBreak \notin Labels /\ Wants # LineBreak
    BY DEF LineBreak, Labels, Wants
  <1> QED
    BY <1>1, <1>2, <1>3

LEMMA TextIs ==
    ASSUME NEW t \in Text
    PROVE  /\ Len(t) \in Nat /\ DOMAIN t = 1..Len(t)
           /\ t = <<>> <=> Len(t) = 0
           /\ \A n \in 1..Len(t) : t[n] \in STRING
  BY LenProperties, EmptySeq DEF Text

LEMMA SameText ==
    ASSUME NEW s \in Text, NEW t \in Text, Len(s) = Len(t), \A n \in 1..Len(s) : s[n] = t[n]
    PROVE  s = t
  BY SeqEqual DEF Text

LEMMA EmptyText == <<>> \in Text /\ Len(<<>>) = 0
  BY EmptySeq DEF Text

LEMMA BothAre ==
    ASSUME NEW a \in Text, NEW b \in Text
    PROVE  /\ a \o b \in Text /\ Len(a \o b) = Len(a) + Len(b)
           /\ \A n \in 1..Len(a) : (a \o b)[n] = a[n]
           /\ \A n \in 1..Len(b) : (a \o b)[Len(a) + n] = b[n]
  <1> DEFINE c == a \o b
  <1>1. /\ c \in Text /\ Len(c) = Len(a) + Len(b)
        /\ \A n \in 1..Len(a) + Len(b) : c[n] = IF n <= Len(a) THEN a[n] ELSE b[n - Len(a)]
    BY ConcatProperties DEF Text
  <1> HIDE DEF c
  <1>2. Len(a) \in Nat /\ Len(b) \in Nat
    BY TextIs
  <1>3. /\ \A n \in 1..Len(a) : n \in 1..Len(a) + Len(b) /\ n <= Len(a)
        /\ \A n \in 1..Len(b) : /\ Len(a) + n \in 1..Len(a) + Len(b)
                                /\ ~(Len(a) + n <= Len(a)) /\ (Len(a) + n) - Len(a) = n
    BY <1>2
  <1>4. \A n \in 1..Len(a) : c[n] = a[n]
    BY <1>1, <1>3
  <1>5. \A n \in 1..Len(b) : c[Len(a) + n] = b[n]
    BY <1>1, <1>3
  <1> QED
    BY <1>1, <1>4, <1>5 DEF c

LEMMA Regroup ==
    ASSUME NEW a \in Text, NEW b \in Text, NEW c \in Text
    PROVE  (a \o b) \o c = a \o (b \o c)
  BY ConcatAssociative DEF Text

LEMMA WithNothing ==
    ASSUME NEW a \in Text
    PROVE  a \o <<>> = a /\ <<>> \o a = a
  BY ConcatEmptySeq DEF Text

LEMMA CancelBefore ==
    ASSUME NEW a \in Text, NEW b \in Text, NEW c \in Text, a \o b = a \o c
    PROVE  b = c
  BY ConcatSimplifications DEF Text

(* Two parts of a text that are equally long in two readings of it.        *)
LEMMA SameParts ==
    ASSUME NEW a \in Text, NEW b \in Text, NEW c \in Text, NEW d \in Text,
           a \o b = c \o d, Len(a) = Len(c)
    PROVE  a = c /\ b = d
  <1>1. \A n \in 1..Len(a) : (a \o b)[n] = a[n]
    BY BothAre
  <1>2. \A n \in 1..Len(c) : (c \o d)[n] = c[n]
    BY BothAre
  <1>3. a = c
    BY <1>1, <1>2, SameText
  <1> QED
    BY <1>3, CancelBefore

(* A break and the label after it.                                         *)
Mark(l) == <<LineBreak, l>>

LEMMA TwoOf == \A S, x, y : x \in S /\ y \in S => <<x, y>> \in Seq(S)
  OBVIOUS

LEMMA MarkIs ==
    ASSUME NEW l \in STRING
    PROVE  Mark(l) \in Text /\ Len(Mark(l)) = 2 /\ Mark(l)[1] = LineBreak /\ Mark(l)[2] = l
  <1>1. Mark(l) \in Text
    BY AtomsAre, TwoOf DEF Mark, Text
  <1>2. Len(Mark(l)) = 2 /\ Mark(l)[1] = LineBreak /\ Mark(l)[2] = l
    BY DEF Mark
  <1> QED
    BY <1>1, <1>2

(* Text j is v, a break, label l, and r.                                   *)
Reads(j, v, l, r) ==
    /\ j \in Text /\ Len(j) = Len(v) + 2 + Len(r)
    /\ \A n \in 1..Len(v) : j[n] = v[n]
    /\ j[Len(v) + 1] = LineBreak /\ j[Len(v) + 2] = l
    /\ \A n \in 1..Len(r) : j[Len(v) + 2 + n] = r[n]

LEMMA ReadsAs ==
    ASSUME NEW v \in Text, NEW l \in STRING, NEW r \in Text
    PROVE  Mark(l) \o r \in Text /\ Reads(v \o (Mark(l) \o r), v, l, r)
  <1> DEFINE m == Mark(l)
             k == m \o r
             j == v \o k
  <1>1. m \in Text /\ Len(m) = 2 /\ m[1] = LineBreak /\ m[2] = l
    BY MarkIs
  <1>2. Len(v) \in Nat /\ Len(r) \in Nat
    BY TextIs
  <1> HIDE DEF m
  <1>3. /\ k \in Text /\ Len(k) = Len(m) + Len(r)
        /\ \A n \in 1..Len(m) : k[n] = m[n]
        /\ \A n \in 1..Len(r) : k[Len(m) + n] = r[n]
    BY <1>1, BothAre
  <1> HIDE DEF k
  <1>4. /\ j \in Text /\ Len(j) = Len(v) + Len(k)
        /\ \A n \in 1..Len(v) : j[n] = v[n]
        /\ \A n \in 1..Len(k) : j[Len(v) + n] = k[n]
    BY <1>3, BothAre
  <1> HIDE DEF j
  <1>5. Len(k) = 2 + Len(r) /\ k[1] = LineBreak /\ k[2] = l /\ \A n \in 1..Len(r) : k[2 + n] = r[n]
    <2>1. 1 \in 1..Len(m) /\ 2 \in 1..Len(m)
      BY <1>1
    <2> QED
      BY <1>1, <1>3, <2>1
  <1>6. 1 \in 1..Len(k) /\ 2 \in 1..Len(k) /\ \A n \in 1..Len(r) : 2 + n \in 1..Len(k)
    BY <1>2, <1>5
  <1>7. j[Len(v) + 1] = LineBreak /\ j[Len(v) + 2] = l
    BY <1>4, <1>5, <1>6
  <1>8. ASSUME NEW n \in 1..Len(r) PROVE j[Len(v) + 2 + n] = r[n]
    <2>1. j[Len(v) + (2 + n)] = k[2 + n]
      BY <1>4, <1>6
    <2>2. Len(v) + (2 + n) = Len(v) + 2 + n
      BY <1>2
    <2> QED
      BY <1>5, <2>1, <2>2
  <1>9. Len(j) = Len(v) + 2 + Len(r)
    BY <1>2, <1>4, <1>5
  <1>10. Reads(j, v, l, r)
    BY <1>4, <1>7, <1>8, <1>9 DEF Reads
  <1> QED
    BY <1>3, <1>10 DEF m, k, j

LEMMA OneLineIs ==
    ASSUME NEW t \in Text
    PROVE  OneLine(t) <=> \A n \in 1..Len(t) : t[n] # LineBreak
  BY TextIs DEF OneLine, Range
-----------------------------------------------------------------------------
(* The atoms that come after a line break.                                 *)
Heads(t) == {t[n + 1] : n \in {m \in 1..Len(t) - 1 : t[m] = LineBreak}}

LEMMA HeadsAre ==
    ASSUME NEW t \in Text, NEW a
    PROVE  a \in Heads(t) <=>
              \E n \in 1..Len(t) : n + 1 \in 1..Len(t) /\ t[n] = LineBreak /\ t[n + 1] = a
  <1>1. Len(t) \in Nat
    BY TextIs
  <1>2. \A n \in 1..Len(t) : n + 1 \in 1..Len(t) <=> n \in 1..Len(t) - 1
    BY <1>1
  <1>3. \A n \in 1..Len(t) - 1 : n \in 1..Len(t)
    BY <1>1
  <1> QED
    BY <1>2, <1>3 DEF Heads

(* Two readings of one text, with a label l in each.                       *)
TwoReadings(v, r, u, s, l) == v \o (Mark(l) \o r) = u \o (Mark(l) \o s)

(* A label that comes after a break in one place only is there in every    *)
(* reading.                                                                *)
LEMMA OneMark ==
    ASSUME NEW v \in Text, NEW r \in Text, NEW u \in Text, NEW s \in Text,
           NEW l \in Labels, l \notin Heads(v), l \notin Heads(r),
           TwoReadings(v, r, u, s, l)
    PROVE  v = u /\ r = s
  <1> DEFINE j == v \o (Mark(l) \o r)
             n == Len(u) + 1
  <1>1. l \in STRING /\ l # LineBreak
    BY AtomsAre
  <1>2. Reads(j, v, l, r) /\ Mark(l) \o r \in Text
    BY <1>1, ReadsAs
  <1>3. Reads(j, u, l, s) /\ Mark(l) \o s \in Text
    BY <1>1, ReadsAs DEF TwoReadings
  <1>4. Len(v) \in Nat /\ Len(r) \in Nat /\ Len(u) \in Nat /\ Len(s) \in Nat
    BY TextIs
  <1> HIDE DEF j
  <1>5. /\ n \in Nat /\ n >= 1 /\ n + 1 <= Len(v) + 2 + Len(r)
        /\ j[n] = LineBreak /\ j[n + 1] = l
    <2>1. j[Len(u) + 1] = LineBreak /\ j[Len(u) + 2] = l /\ Len(j) = Len(u) + 2 + Len(s)
          /\ Len(j) = Len(v) + 2 + Len(r)
      BY <1>2, <1>3 DEF Reads
    <2>2. n + 1 = Len(u) + 2
      BY <1>4
    <2> QED
      BY <1>4, <2>1, <2>2
  <1> HIDE DEF n
  <1>6. ~(n + 1 <= Len(v))
    <2> SUFFICES ASSUME n + 1 <= Len(v) PROVE FALSE
      OBVIOUS
    <2>1. n \in 1..Len(v) /\ n + 1 \in 1..Len(v)
      BY <1>4, <1>5
    <2>2. v[n] = LineBreak /\ v[n + 1] = l
      BY <1>2, <1>5, <2>1 DEF Reads
    <2> QED
      BY <2>1, <2>2, HeadsAre
  <1>7. n # Len(v)
    BY <1>1, <1>2, <1>5 DEF Reads
  <1>8. n # Len(v) + 2
    BY <1>1, <1>2, <1>5 DEF Reads
  <1>9. ~(n > Len(v) + 2)
    <2> SUFFICES ASSUME n > Len(v) + 2 PROVE FALSE
      OBVIOUS
    <2> DEFINE k == n - (Len(v) + 2)
    <2>1. k \in 1..Len(r) /\ k + 1 \in 1..Len(r)
      BY <1>4, <1>5
    <2>2. Len(v) + 2 + k = n /\ Len(v) + 2 + (k + 1) = n + 1
      BY <1>4, <1>5
    <2> HIDE DEF k
    <2>3. r[k] = LineBreak /\ r[k + 1] = l
      BY <1>2, <1>5, <2>1, <2>2 DEF Reads
    <2> QED
      BY <2>1, <2>3, HeadsAre
  <1>10. n = Len(v) + 1
    BY <1>4, <1>5, <1>6, <1>7, <1>8, <1>9
  <1>11. Len(v) = Len(u)
    BY <1>4, <1>10 DEF n
  <1>12. v = u /\ Mark(l) \o r = Mark(l) \o s
    BY <1>2, <1>3, <1>11, SameParts DEF TwoReadings
  <1> QED
    BY <1>1, <1>12, MarkIs, CancelBefore

(* The last line of a text, when it has no other break in it.              *)
LEMMA LastLineIsNotBefore ==
    ASSUME NEW v \in Text, NEW r \in Text, NEW u \in Text, NEW s \in Text,
           NEW l \in Labels, OneLine(r),
           TwoReadings(v, r, u, s, l)
    PROVE  Len(u) <= Len(v)
  <1> DEFINE j == v \o (Mark(l) \o r)
             n == Len(u) + 1
  <1>1. l \in STRING /\ l # LineBreak
    BY AtomsAre
  <1>2. Reads(j, v, l, r)
    BY <1>1, ReadsAs
  <1>3. Reads(j, u, l, s)
    BY <1>1, ReadsAs DEF TwoReadings
  <1>4. Len(v) \in Nat /\ Len(r) \in Nat /\ Len(u) \in Nat /\ Len(s) \in Nat
    BY TextIs
  <1> HIDE DEF j
  <1>5. /\ n \in Nat /\ n >= 1 /\ n + 1 <= Len(v) + 2 + Len(r) /\ j[n] = LineBreak
    <2>1. j[Len(u) + 1] = LineBreak /\ Len(j) = Len(u) + 2 + Len(s)
          /\ Len(j) = Len(v) + 2 + Len(r)
      BY <1>2, <1>3 DEF Reads
    <2> QED
      BY <1>4, <2>1
  <1> HIDE DEF n
  <1>6. n # Len(v) + 2
    BY <1>1, <1>2, <1>5 DEF Reads
  <1>7. ~(n > Len(v) + 2)
    <2> SUFFICES ASSUME n > Len(v) + 2 PROVE FALSE
      OBVIOUS
    <2> DEFINE k == n - (Len(v) + 2)
    <2>1. k \in 1..Len(r)
      BY <1>4, <1>5
    <2>2. Len(v) + 2 + k = n
      BY <1>4, <1>5
    <2> HIDE DEF k
    <2>3. r[k] = LineBreak
      BY <1>2, <1>5, <2>1, <2>2 DEF Reads
    <2> QED
      BY <2>1, <2>3, OneLineIs
  <1> QED
    BY <1>4, <1>5, <1>6, <1>7 DEF n

LEMMA LastLine ==
    ASSUME NEW v \in Text, NEW r \in Text, NEW u \in Text, NEW s \in Text,
           NEW l \in Labels, OneLine(r), OneLine(s),
           TwoReadings(v, r, u, s, l)
    PROVE  v = u /\ r = s
  <1>1. l \in STRING
    BY AtomsAre
  <1>2. Mark(l) \o r \in Text /\ Mark(l) \o s \in Text /\ Mark(l) \in Text
    BY <1>1, ReadsAs, MarkIs
  <1>3. Len(u) <= Len(v) /\ Len(v) <= Len(u)
    <2>1. TwoReadings(u, s, v, r, l)
      BY DEF TwoReadings
    <2> QED
      BY <2>1, LastLineIsNotBefore
  <1>4. Len(u) = Len(v)
    BY <1>3, TextIs
  <1>5. v = u /\ Mark(l) \o r = Mark(l) \o s
    BY <1>2, <1>4, SameParts DEF TwoReadings
  <1> QED
    BY <1>2, <1>5, CancelBefore

(* What may come after a line: nothing, or another.                        *)
Starting(t) == t = <<>> \/ (t # <<>> /\ t[1] = LineBreak)

LEMMA LineIsNotLonger ==
    ASSUME NEW v \in Text, NEW r \in Text, NEW u \in Text, NEW s \in Text,
           OneLine(u), Starting(r), v \o r = u \o s
    PROVE  Len(u) <= Len(v)
  <1> SUFFICES ASSUME Len(u) > Len(v) PROVE FALSE
    BY TextIs
  <1> DEFINE j == v \o r
             n == Len(v) + 1
  <1>1. /\ Len(j) = Len(v) + Len(r)
        /\ \A k \in 1..Len(r) : j[Len(v) + k] = r[k]
    BY BothAre
  <1>2. Len(j) = Len(u) + Len(s) /\ \A k \in 1..Len(u) : j[k] = u[k]
    BY BothAre
  <1>3. Len(v) \in Nat /\ Len(r) \in Nat /\ Len(u) \in Nat /\ Len(s) \in Nat
    BY TextIs
  <1> HIDE DEF j
  <1>4. Len(r) > 0
    BY <1>1, <1>2, <1>3
  <1>5. r[1] = LineBreak
    BY <1>4, EmptyText DEF Starting
  <1>6. n \in 1..Len(u) /\ 1 \in 1..Len(r)
    BY <1>3, <1>4
  <1>7. u[n] = LineBreak
    BY <1>1, <1>2, <1>5, <1>6
  <1> QED
    BY <1>6, <1>7, OneLineIs

LEMMA FirstLine ==
    ASSUME NEW v \in Text, NEW r \in Text, NEW u \in Text, NEW s \in Text,
           OneLine(v), OneLine(u), Starting(r), Starting(s), v \o r = u \o s
    PROVE  v = u /\ r = s
  <1>1. Len(u) <= Len(v) /\ Len(v) <= Len(u)
    BY LineIsNotLonger
  <1>2. Len(u) = Len(v)
    BY <1>1, TextIs
  <1> QED
    BY <1>2, SameParts

LEMMA MarkStarts ==
    ASSUME NEW l \in Labels, NEW r \in Text
    PROVE  /\ Mark(l) \o r \in Text /\ Len(Mark(l) \o r) = Len(r) + 2
           /\ (Mark(l) \o r)[1] = LineBreak /\ (Mark(l) \o r)[2] = l
           /\ Starting(Mark(l) \o r) /\ l \in Heads(Mark(l) \o r)
           /\ Heads(Mark(l) \o r) \subseteq {l} \cup Heads(r)
  <1> DEFINE j == <<>> \o (Mark(l) \o r)
  <1>1. l \in STRING /\ l # LineBreak /\ <<>> \in Text /\ Len(<<>>) = 0
    BY AtomsAre, EmptyText
  <1>2. Mark(l) \o r \in Text /\ Reads(j, <<>>, l, r)
    BY <1>1, ReadsAs
  <1>3. j = Mark(l) \o r
    BY <1>2, WithNothing
  <1>4. Len(r) \in Nat
    BY TextIs
  <1> HIDE DEF j
  <1>5. /\ j \in Text /\ Len(j) = 2 + Len(r) /\ j[1] = LineBreak /\ j[2] = l
        /\ \A n \in 1..Len(r) : j[2 + n] = r[n]
    <2> DEFINE z == Len(<<>>)
    <2>1. /\ j \in Text /\ Len(j) = z + 2 + Len(r) /\ j[z + 1] = LineBreak /\ j[z + 2] = l
          /\ \A n \in 1..Len(r) : j[z + 2 + n] = r[n]
      BY <1>2 DEF Reads
    <2>2. z = 0
      BY <1>1
    <2> HIDE DEF z
    <2>3. z + 1 = 1 /\ z + 2 = 2 /\ z + 2 + Len(r) = 2 + Len(r)
      BY <1>4, <2>2
    <2> QED
      BY <2>1, <2>3
  <1>6. Starting(j)
    BY <1>4, <1>5, EmptyText DEF Starting
  <1>7. l \in Heads(j)
    <2>1. 1 \in 1..Len(j) /\ 1 + 1 \in 1..Len(j) /\ j[1 + 1] = l
      BY <1>4, <1>5
    <2> QED
      BY <1>5, <2>1, HeadsAre
  <1>8. ASSUME NEW a \in Heads(j) PROVE a \in {l} \cup Heads(r)
    <2>1. PICK n \in 1..Len(j) : n + 1 \in 1..Len(j) /\ j[n] = LineBreak /\ j[n + 1] = a
      BY <1>5, HeadsAre
    <2>2. CASE n = 1
      <3>1. n + 1 = 2
        BY <2>2
      <3> QED
        BY <1>5, <2>1, <3>1
    <2>3. CASE n = 2
      BY <1>1, <1>5, <2>1, <2>3
    <2>4. CASE n > 2
      <3> DEFINE k == n - 2
      <3>1. k \in 1..Len(r) /\ k + 1 \in 1..Len(r) /\ 2 + k = n /\ 2 + (k + 1) = n + 1
        BY <1>4, <1>5, <2>1, <2>4
      <3> HIDE DEF k
      <3>2. r[k] = LineBreak /\ r[k + 1] = a
        BY <1>5, <2>1, <3>1
      <3>3. a \in Heads(r)
        BY <3>1, <3>2, HeadsAre
      <3> QED
        BY <3>3
    <2>5. n = 1 \/ n = 2 \/ n > 2
      BY <1>4, <1>5
    <2> QED
      BY <2>2, <2>3, <2>4, <2>5
  <1> QED
    BY <1>3, <1>4, <1>5, <1>6, <1>7, <1>8

LEMMA LineHeads ==
    ASSUME NEW v \in Text, NEW r \in Text, OneLine(v)
    PROVE  v \o r \in Text /\ Heads(v \o r) = Heads(r)
  <1> DEFINE j == v \o r
  <1>1. /\ j \in Text /\ Len(j) = Len(v) + Len(r)
        /\ \A n \in 1..Len(v) : j[n] = v[n]
        /\ \A n \in 1..Len(r) : j[Len(v) + n] = r[n]
    BY BothAre
  <1>2. Len(v) \in Nat /\ Len(r) \in Nat
    BY TextIs
  <1> HIDE DEF j
  <1>3. ASSUME NEW a \in Heads(j) PROVE a \in Heads(r)
    <2>1. PICK n \in 1..Len(j) : n + 1 \in 1..Len(j) /\ j[n] = LineBreak /\ j[n + 1] = a
      BY <1>1, HeadsAre
    <2>2. ~(n <= Len(v))
      <3> SUFFICES ASSUME n <= Len(v) PROVE FALSE
        OBVIOUS
      <3>1. n \in 1..Len(v)
        BY <1>2, <2>1
      <3> QED
        BY <1>1, <2>1, <3>1, OneLineIs
    <2> DEFINE k == n - Len(v)
    <2>3. k \in 1..Len(r) /\ k + 1 \in 1..Len(r) /\ Len(v) + k = n /\ Len(v) + (k + 1) = n + 1
      BY <1>1, <1>2, <2>1, <2>2
    <2> HIDE DEF k
    <2>4. r[k] = LineBreak /\ r[k + 1] = a
      BY <1>1, <2>1, <2>3
    <2> QED
      BY <2>3, <2>4, HeadsAre
  <1>4. ASSUME NEW a \in Heads(r) PROVE a \in Heads(j)
    <2>1. PICK k \in 1..Len(r) : k + 1 \in 1..Len(r) /\ r[k] = LineBreak /\ r[k + 1] = a
      BY HeadsAre
    <2> DEFINE n == Len(v) + k
    <2>2. n \in 1..Len(j) /\ n + 1 \in 1..Len(j) /\ n + 1 = Len(v) + (k + 1)
      BY <1>1, <1>2, <2>1
    <2>3. j[n] = LineBreak /\ j[n + 1] = a
      BY <1>1, <2>1, <2>2
    <2> HIDE DEF n
    <2> QED
      BY <1>1, <2>2, <2>3, HeadsAre
  <1> QED
    BY <1>1, <1>3, <1>4 DEF j

LEMMA NoHeads == Heads(<<>>) = {}
  <1>1. \A a : a \notin Heads(<<>>)
    BY EmptyText, HeadsAre
  <1> QED
    BY <1>1

LEMMA LineHasNoHeads ==
    ASSUME NEW v \in Text, OneLine(v)
    PROVE  Heads(v) = {}
  BY NoHeads, EmptyText, LineHeads, WithNothing
-----------------------------------------------------------------------------
(* What is optional is there or not.                                       *)
LEMMA OptionIs ==
    ASSUME NEW S, NEW f \in OptionOf(S)
    PROVE  f = None \/ (f # None /\ f[1] \in S /\ f = Some(f[1]) /\ Range(f) = {f[1]})
  <1>1. f \in Seq(S) /\ Len(f) <= 1
    BY DEF OptionOf
  <1>2. CASE Len(f) = 0
    BY <1>1, <1>2, EmptySeq DEF None
  <1>3. CASE Len(f) = 1
    <2>1. DOMAIN f = {1} /\ f[1] \in S
      <3>1. DOMAIN f = 1..Len(f) /\ f \in [1..Len(f) -> S]
        BY <1>1, LenProperties
      <3>2. 1..1 = {1}
        OBVIOUS
      <3> QED
        BY <1>3, <3>1, <3>2
    <2>2. f = Some(f[1])
      <3>1. Some(f[1]) \in Seq(S) /\ Len(Some(f[1])) = 1 /\ Some(f[1])[1] = f[1]
        BY <2>1 DEF Some
      <3>2. \A n \in 1..Len(f) : f[n] = Some(f[1])[n]
        <4>1. \A n \in 1..1 : n = 1
          OBVIOUS
        <4> QED
          BY <1>3, <3>1, <4>1
      <3> HIDE DEF Some
      <3> QED
        BY <1>1, <1>3, <3>1, <3>2, SeqEqual
    <2>3. Range(f) = {f[1]}
      BY <2>1 DEF Range
    <2>4. f # None
      BY <1>3, EmptyText DEF None
    <2> QED
      BY <2>1, <2>2, <2>3, <2>4
  <1>4. Len(f) = 0 \/ Len(f) = 1
    <2>1. Len(f) \in Nat
      BY <1>1, LenProperties
    <2> QED
      BY <1>1, <2>1
  <1> QED
    BY <1>2, <1>3, <1>4

LEMMA OptionalIs ==
    ASSUME NEW f \in OptionOf(Text), NEW l \in Labels, NEW r \in Text
    PROVE  /\ Optional(l, f) \in Text /\ Optional(l, f) \o r \in Text
           /\ f = None => Optional(l, f) \o r = r
           /\ f # None => /\ f[1] \in Text /\ f[1] \o r \in Text
                          /\ Optional(l, f) \o r = Mark(l) \o (f[1] \o r)
  <1>1. CASE f = None
    <2>1. Optional(l, f) = <<>>
      BY <1>1 DEF Optional
    <2> QED
      BY <1>1, <2>1, EmptyText, WithNothing
  <1>2. CASE f # None
    <2>1. f[1] \in Text
      BY <1>2, OptionIs
    <2>2. Optional(l, f) = Mark(l) \o f[1]
      BY <1>2 DEF Optional, Labeled, Mark
    <2>3. Mark(l) \in Text
      BY AtomsAre, MarkIs
    <2>4. Mark(l) \o f[1] \in Text /\ f[1] \o r \in Text /\ (Mark(l) \o f[1]) \o r \in Text
      BY <2>1, <2>3, BothAre
    <2>5. (Mark(l) \o f[1]) \o r = Mark(l) \o (f[1] \o r)
      BY <2>1, <2>3, Regroup
    <2> QED
      BY <1>2, <2>1, <2>2, <2>4, <2>5
  <1> QED
    BY <1>1, <1>2

OneLineEach(f) == \A t \in Range(f) : OneLine(t)

LEMMA OptionalStarts ==
    ASSUME NEW f \in OptionOf(Text), NEW l \in Labels, NEW r \in Text, Starting(r)
    PROVE  /\ Optional(l, f) \o r \in Text /\ Starting(Optional(l, f) \o r)
           /\ OneLineEach(f) => Heads(Optional(l, f) \o r) \subseteq {l} \cup Heads(r)
  <1>1. CASE f = None
    BY <1>1, OptionalIs
  <1>2. CASE f # None
    <2> DEFINE o == Optional(l, f) \o r
               s == f[1] \o r
    <2>1. f[1] \in Text /\ s \in Text /\ o = Mark(l) \o s
      BY <1>2, OptionalIs
    <2>2. o \in Text /\ Starting(o) /\ Heads(o) \subseteq {l} \cup Heads(s)
      <3> HIDE DEF o, s
      <3> QED
        BY <2>1, MarkStarts
    <2>3. OneLineEach(f) => Heads(s) = Heads(r)
      <3>1. OneLineEach(f) => OneLine(f[1])
        BY <1>2, OptionIs DEF OneLineEach
      <3> QED
        BY <2>1, <3>1, LineHeads
    <2> QED
      BY <2>2, <2>3
  <1> QED
    BY <1>1, <1>2

LEMMA NotOneOfTwo ==
    ASSUME NEW f \in OptionOf(Text), NEW l \in Labels, f # None,
           NEW r \in Text, NEW s \in Text, l \notin Heads(s)
    PROVE  Optional(l, f) \o r # s
  <1> DEFINE rest == f[1] \o r
             all == Optional(l, f) \o r
  <1>1. rest \in Text /\ all = Mark(l) \o rest
    BY OptionalIs
  <1> HIDE DEF rest, all
  <1>2. l \in Heads(all)
    BY <1>1, MarkStarts
  <1> QED
    BY <1>2 DEF all

(* An optional line is there in both readings or in none.                  *)
LEMMA OneOptional ==
    ASSUME NEW f \in OptionOf(Text), NEW g \in OptionOf(Text), NEW l \in Labels,
           NEW r \in Text, NEW s \in Text, OneLineEach(f), OneLineEach(g),
           Starting(r), Starting(s), l \notin Heads(r), l \notin Heads(s),
           Optional(l, f) \o r = Optional(l, g) \o s
    PROVE  f = g /\ r = s
  <1>1. CASE f = None /\ g = None
    <2>1. Optional(l, f) \o r = r
      BY <1>1, OptionalIs
    <2>2. Optional(l, g) \o s = s
      BY <1>1, OptionalIs
    <2> QED
      BY <1>1, <2>1, <2>2
  <1>2. CASE f = None /\ g # None
    <2>1. Optional(l, f) \o r = r
      BY <1>2, OptionalIs
    <2> QED
      BY <1>2, <2>1, NotOneOfTwo
  <1>3. CASE f # None /\ g = None
    <2>1. Optional(l, g) \o s = s
      BY <1>3, OptionalIs
    <2> QED
      BY <1>3, <2>1, NotOneOfTwo
  <1>4. CASE f # None /\ g # None
    <2>1. /\ f[1] \in Text /\ f[1] \o r \in Text /\ Optional(l, f) \o r = Mark(l) \o (f[1] \o r)
          /\ g[1] \in Text /\ g[1] \o s \in Text /\ Optional(l, g) \o s = Mark(l) \o (g[1] \o s)
      BY <1>4, OptionalIs
    <2>2. Mark(l) \in Text
      BY AtomsAre, MarkIs
    <2>3. f[1] \o r = g[1] \o s
      BY <2>1, <2>2, CancelBefore
    <2>4. OneLine(f[1]) /\ OneLine(g[1]) /\ f = Some(f[1]) /\ g = Some(g[1])
      BY <1>4, OptionIs DEF OneLineEach
    <2>5. f[1] = g[1] /\ r = s
      BY <2>1, <2>3, <2>4, FirstLine
    <2> QED
      BY <2>4, <2>5
  <1> QED
    BY <1>1, <1>2, <1>3, <1>4
-----------------------------------------------------------------------------
(* FlattenSeq, from one part to the next.                                  *)
JoinsUpTo(f, parts, m) ==
    /\ f[0] = <<>>
    /\ \A n \in 0..m : f[n] \in Text
    /\ \A n \in 1..m : f[n] = f[n - 1] \o parts[n]

Joins(f, parts) == JoinsUpTo(f, parts, Len(parts))

LEMMA JoinsExist ==
    ASSUME NEW parts \in Seq(Text)
    PROVE  \E f : Joins(f, parts)
  <1> DEFINE N == Len(parts)
             S == {m \in Nat : m <= N => \E f : JoinsUpTo(f, parts, m)}
  <1>1. N \in Nat /\ \A n \in 1..N : parts[n] \in Text
    BY LenProperties
  <1>2. 0 \in S
    <2> DEFINE f == [n \in 0..0 |-> <<>>]
    <2>1. f[0] = <<>>
      OBVIOUS
    <2> HIDE DEF f
    <2>2. JoinsUpTo(f, parts, 0)
      BY <2>1, EmptyText DEF JoinsUpTo
    <2> QED
      BY <2>2
  <1>3. ASSUME NEW m \in Nat, m \in S PROVE m + 1 \in S
    <2> SUFFICES ASSUME m + 1 <= N PROVE \E f : JoinsUpTo(f, parts, m + 1)
      OBVIOUS
    <2>1. PICK f : JoinsUpTo(f, parts, m)
      BY <1>1, <1>3
    <2> DEFINE e == f[m] \o parts[m + 1]
               g == [n \in 0..m + 1 |-> IF n = m + 1 THEN e ELSE f[n]]
    <2>2. e \in Text
      <3>1. f[m] \in Text /\ parts[m + 1] \in Text
        BY <1>1, <2>1 DEF JoinsUpTo
      <3> QED
        BY <3>1, BothAre
    <2>3. g[m + 1] = e /\ \A n \in 0..m : g[n] = f[n]
      OBVIOUS
    <2>4. g[0] = <<>> /\ \A n \in 0..m + 1 : g[n] \in Text
      <3>1. \A n \in 0..m + 1 : n \in 0..m \/ n = m + 1
        OBVIOUS
      <3>2. 0 \in 0..m
        OBVIOUS
      <3> HIDE DEF g, e
      <3> QED
        BY <2>1, <2>2, <2>3, <3>1, <3>2 DEF JoinsUpTo
    <2>5. ASSUME NEW n \in 1..m + 1 PROVE g[n] = g[n - 1] \o parts[n]
      <3>1. CASE n = m + 1
        <4>1. n - 1 = m /\ m \in 0..m
          BY <3>1
        <4> HIDE DEF g
        <4> QED
          BY <2>3, <3>1, <4>1
      <3>2. CASE n # m + 1
        <4>1. n \in 1..m /\ n \in 0..m /\ n - 1 \in 0..m
          BY <3>2
        <4> HIDE DEF g
        <4> QED
          BY <2>1, <2>3, <4>1 DEF JoinsUpTo
      <3> QED
        BY <3>1, <3>2
    <2> HIDE DEF g
    <2>6. JoinsUpTo(g, parts, m + 1)
      BY <2>4, <2>5 DEF JoinsUpTo
    <2> QED
      BY <2>6
  <1> HIDE DEF S
  <1>4. Nat \subseteq S
    BY <1>2, <1>3, Induction
  <1>5. N \in S
    BY <1>1, <1>4
  <1>6. PICK f : JoinsUpTo(f, parts, N)
    BY <1>1, <1>5 DEF S
  <1> QED
    BY <1>6 DEF Joins

LEMMA FlattenIs ==
    ASSUME NEW parts \in Seq(Text), parts # <<>>, NEW f, Joins(f, parts)
    PROVE  FlattenSeq(parts) = f[Len(parts)]
  <1> DEFINE N == Len(parts)
             Next(g) == [i \in 1..N |-> IF i = 1 THEN parts[i] ELSE g[i - 1] \o parts[i]]
             g == CHOOSE h : h = Next(h)
             h == [i \in 1..N |-> f[i]]
             S == {n \in Nat : n + 1 <= N => g[n + 1] = f[n + 1]}
  <1>1. N \in Nat /\ N # 0 /\ \A n \in 1..N : parts[n] \in Text
    BY LenProperties, EmptySeq
  <1>2. f[1] = parts[1]
    <2>1. 1 \in 1..N /\ 1 - 1 = 0
      BY <1>1
    <2>2. f[1] = <<>> \o parts[1] /\ parts[1] \in Text
      BY <1>1, <2>1 DEF Joins, JoinsUpTo
    <2> QED
      BY <2>2, WithNothing
  <1>3. h = Next(h)
    <2>1. ASSUME NEW i \in 1..N
          PROVE  h[i] = IF i = 1 THEN parts[i] ELSE h[i - 1] \o parts[i]
      <3>1. CASE i = 1
        BY <1>2, <3>1
      <3>2. CASE i # 1
        <4>1. i - 1 \in 1..N
          BY <1>1, <3>2
        <4> QED
          BY <3>2, <4>1 DEF Joins, JoinsUpTo
      <3> QED
        BY <3>1, <3>2
    <2> QED
      BY <2>1
  <1> HIDE DEF h
  <1>4. g = Next(g)
    BY <1>3
  <1>5. FlattenSeq(parts) = g[N]
    BY <1>1 DEF FlattenSeq
  <1> HIDE DEF g
  <1>6. \A i \in 1..N : g[i] = IF i = 1 THEN parts[i] ELSE g[i - 1] \o parts[i]
    BY <1>4
  <1>7. 0 \in S
    BY <1>1, <1>2, <1>6
  <1>8. ASSUME NEW n \in Nat, n \in S PROVE n + 1 \in S
    <2> SUFFICES ASSUME (n + 1) + 1 <= N PROVE g[(n + 1) + 1] = f[(n + 1) + 1]
      OBVIOUS
    <2> DEFINE i == (n + 1) + 1
    <2>1. i \in 1..N /\ i # 1 /\ i - 1 = n + 1
      BY <1>1
    <2>2. g[n + 1] = f[n + 1]
      BY <1>1, <1>8
    <2> HIDE DEF i
    <2>3. g[i] = g[i - 1] \o parts[i]
      BY <1>6, <2>1
    <2>4. f[i] = f[i - 1] \o parts[i]
      BY <2>1 DEF Joins, JoinsUpTo
    <2> QED
      BY <2>1, <2>2, <2>3, <2>4 DEF i
  <1> HIDE DEF S
  <1>9. Nat \subseteq S
    BY <1>7, <1>8, Induction
  <1>10. N - 1 \in S /\ (N - 1) + 1 = N
    BY <1>1, <1>9
  <1> QED
    BY <1>5, <1>10 DEF S

LEMMA HeadsAfter ==
    ASSUME NEW v \in Text, NEW l \in Labels, NEW r \in Text
    PROVE  Heads(v \o (Mark(l) \o r)) \subseteq Heads(v) \cup {l, LineBreak} \cup Heads(r)
  <1> DEFINE j == v \o (Mark(l) \o r)
  <1>1. l \in STRING /\ l # LineBreak
    BY AtomsAre
  <1>2. Reads(j, v, l, r)
    BY <1>1, ReadsAs
  <1>3. Len(v) \in Nat /\ Len(r) \in Nat
    BY TextIs
  <1> HIDE DEF j
  <1>4. j \in Text
    BY <1>2 DEF Reads
  <1>5. ASSUME NEW a \in Heads(j) PROVE a \in Heads(v) \cup {l, LineBreak} \cup Heads(r)
    <2>1. PICK n \in 1..Len(j) : n + 1 \in 1..Len(j) /\ j[n] = LineBreak /\ j[n + 1] = a
      BY <1>4, HeadsAre
    <2>2. CASE n < Len(v)
      <3>1. n \in 1..Len(v) /\ n + 1 \in 1..Len(v)
        BY <1>3, <2>1, <2>2
      <3>2. v[n] = LineBreak /\ v[n + 1] = a
        BY <1>2, <2>1, <3>1 DEF Reads
      <3>3. a \in Heads(v)
        BY <3>1, <3>2, HeadsAre
      <3> QED
        BY <3>3
    <2>3. CASE n = Len(v)
      BY <1>2, <2>1, <2>3 DEF Reads
    <2>4. CASE n = Len(v) + 1
      <3>1. n + 1 = Len(v) + 2
        BY <1>3, <2>4
      <3> QED
        BY <1>2, <2>1, <3>1 DEF Reads
    <2>5. CASE n = Len(v) + 2
      BY <1>1, <1>2, <2>1, <2>5 DEF Reads
    <2>6. CASE n > Len(v) + 2
      <3> DEFINE k == n - (Len(v) + 2)
      <3>1. /\ k \in 1..Len(r) /\ k + 1 \in 1..Len(r)
            /\ Len(v) + 2 + k = n /\ Len(v) + 2 + (k + 1) = n + 1
        <4>1. Len(j) = Len(v) + 2 + Len(r)
          BY <1>2 DEF Reads
        <4> QED
          BY <1>3, <2>1, <2>6, <4>1
      <3> HIDE DEF k
      <3>2. r[k] = LineBreak /\ r[k + 1] = a
        BY <1>2, <2>1, <3>1 DEF Reads
      <3>3. a \in Heads(r)
        BY <3>1, <3>2, HeadsAre
      <3> QED
        BY <3>3
    <2>7. n < Len(v) \/ n = Len(v) \/ n = Len(v) + 1 \/ n = Len(v) + 2 \/ n > Len(v) + 2
      BY <1>3, <2>1
    <2> QED
      BY <2>2, <2>3, <2>4, <2>5, <2>6, <2>7
  <1> QED
    BY <1>5 DEF j
-----------------------------------------------------------------------------
(* The lines of a list of resources.                                       *)
Items(list) == [n \in DOMAIN list |-> Labeled("- ", list[n])]

LEMMA Dash == "- " \in Labels /\ "Resources:" \in Labels /\ "- " # "Resources:"
  BY DEF Labels

LEMMA ItemsAre ==
    ASSUME NEW list \in Seq(Text)
    PROVE  /\ Items(list) \in Seq(Text) /\ Len(Items(list)) = Len(list)
           /\ \A n \in 1..Len(list) : list[n] \in Text
                                      /\ Items(list)[n] = Mark("- ") \o list[n]
  <1>1. DOMAIN list = 1..Len(list) /\ Len(list) \in Nat
        /\ \A n \in 1..Len(list) : list[n] \in Text
    BY LenProperties
  <1>2. \A n \in 1..Len(list) : /\ Labeled("- ", list[n]) = Mark("- ") \o list[n]
                                /\ Labeled("- ", list[n]) \in Text
    <2> TAKE n \in 1..Len(list)
    <2>1. Labeled("- ", list[n]) = Mark("- ") \o list[n]
      BY DEF Labeled, Mark
    <2>2. Mark("- ") \o list[n] \in Text
      BY <1>1, Dash, MarkStarts
    <2> QED
      BY <2>1, <2>2
  <1>3. Items(list) \in [1..Len(list) -> Text]
    BY <1>1, <1>2 DEF Items
  <1>4. Items(list) \in Seq(Text) /\ Len(Items(list)) = Len(list)
    BY <1>1, <1>3
  <1> QED
    BY <1>1, <1>2, <1>4 DEF Items

(* The first of the lines, and what is after it.                           *)
LEMMA FirstItem ==
    ASSUME NEW list \in Seq(Text), list # <<>>
    PROVE  /\ FlattenSeq(Items(list)) \in Text
           /\ \E r \in Text : /\ Starting(r)
                              /\ FlattenSeq(Items(list)) = Mark("- ") \o (list[1] \o r)
  <1> DEFINE N == Len(list)
             m == Mark("- ")
             parts == Items(list)
  <1>1. N \in Nat /\ N >= 1
    BY LenProperties, EmptySeq
  <1>2. /\ parts \in Seq(Text) /\ Len(parts) = N
        /\ \A n \in 1..N : list[n] \in Text /\ parts[n] = m \o list[n]
    BY ItemsAre
  <1>3. m \in Text
    BY AtomsAre, Dash, MarkIs
  <1> HIDE DEF parts, N
  <1>4. PICK f : Joins(f, parts)
    BY <1>2, JoinsExist
  <1> DEFINE Fits(k) == k <= N => \E r \in Text : Starting(r) /\ f[k] = m \o (list[1] \o r)
             G == {n \in Nat : Fits(n + 1)}
  <1>5. /\ f[0] = <<>> /\ \A n \in 0..N : f[n] \in Text
        /\ \A n \in 1..N : f[n] = f[n - 1] \o parts[n]
    BY <1>2, <1>4 DEF Joins, JoinsUpTo
  <1>6. parts # <<>>
    <2>1. Len(parts) # 0
      <3>1. Len(parts) = N
        BY <1>2
      <3>2. N # 0
        BY <1>1
      <3> QED
        BY <3>1, <3>2
    <2> QED
      BY <2>1, EmptyText
  <1>7. FlattenSeq(parts) = f[N]
    BY <1>2, <1>4, <1>6, FlattenIs
  <1>8. 1 \in 1..N /\ list[1] \in Text
    <2>1. 1 \in 1..N
      BY <1>1
    <2> QED
      BY <1>2, <2>1
  <1> HIDE DEF m
  <1>9. 0 \in G
    <2>1. f[1] = f[0] \o parts[1]
      <3>1. f[1] = f[1 - 1] \o parts[1]
        BY <1>5, <1>8
      <3>2. 1 - 1 = 0
        OBVIOUS
      <3> QED
        BY <3>1, <3>2
    <2>2. f[1] = m \o list[1]
      <3>1. m \o list[1] \in Text
        BY <1>3, <1>8, BothAre
      <3> QED
        BY <1>2, <1>5, <1>8, <2>1, <3>1, WithNothing
    <2>3. f[1] = m \o (list[1] \o <<>>)
      BY <1>8, <2>2, WithNothing
    <2>4. \E r \in Text : Starting(r) /\ f[1] = m \o (list[1] \o r)
      BY <2>3, EmptyText DEF Starting
    <2>5. Fits(1)
      BY <2>4, Zenon
    <2>6. 0 + 1 = 1
      OBVIOUS
    <2> HIDE DEF Fits
    <2> QED
      BY <2>5, <2>6
  <1>10. ASSUME NEW n \in Nat, n \in G PROVE n + 1 \in G
    <2> HIDE DEF Fits
    <2> DEFINE i == (n + 1) + 1
    <2>9. SUFFICES Fits(i)
      OBVIOUS
    <2>10. Fits(n + 1)
      BY <1>10
    <2> SUFFICES ASSUME i <= N
                 PROVE  \E r \in Text : Starting(r) /\ f[i] = m \o (list[1] \o r)
      BY DEF Fits
    <2>11. n + 1 <= N
      BY <1>1
    <2>1. PICK r \in Text : Starting(r) /\ f[n + 1] = m \o (list[1] \o r)
      BY <2>10, <2>11 DEF Fits
    <2> DEFINE x == m \o list[i]
    <2>2. i \in 1..N /\ i - 1 = n + 1
      BY <1>1
    <2> HIDE DEF i
    <2>3. f[i] = (m \o (list[1] \o r)) \o x
      BY <1>2, <1>5, <2>1, <2>2
    <2>4. x \in Text /\ Starting(x)
      BY <1>2, <2>2, Dash, MarkStarts DEF m
    <2> HIDE DEF x
    <2>5. r \o x \in Text /\ Starting(r \o x)
      <3>1. CASE r = <<>>
        BY <2>4, <3>1, WithNothing
      <3>2. CASE r # <<>>
        <4>1. Len(r) \in Nat /\ Len(r) # 0 /\ Len(x) \in Nat
          BY <2>1, <2>4, <3>2, TextIs
        <4>2. r \o x \in Text /\ Len(r \o x) = Len(r) + Len(x) /\ (r \o x)[1] = r[1]
          <5>1. 1 \in 1..Len(r)
            BY <4>1
          <5> QED
            BY <2>1, <2>4, <5>1, BothAre
        <4>3. r \o x # <<>>
          BY <4>1, <4>2, EmptyText
        <4> QED
          BY <2>1, <3>2, <4>2, <4>3 DEF Starting
      <3> QED
        BY <3>1, <3>2
    <2>6. (m \o (list[1] \o r)) \o x = m \o (list[1] \o (r \o x))
      <3>1. list[1] \o r \in Text
        BY <1>8, <2>1, BothAre
      <3>2. (m \o (list[1] \o r)) \o x = m \o ((list[1] \o r) \o x)
        BY <1>3, <2>4, <3>1, Regroup
      <3>3. (list[1] \o r) \o x = list[1] \o (r \o x)
        BY <1>8, <2>1, <2>4, Regroup
      <3> QED
        BY <3>2, <3>3
    <2> QED
      BY <2>3, <2>5, <2>6
  <1> HIDE DEF G, Fits
  <1>11. Nat \subseteq G
    BY <1>9, <1>10, Induction
  <1>12. N - 1 \in Nat /\ (N - 1) + 1 = N /\ N <= N
    BY <1>1
  <1>14. Fits(N)
    <2>1. N - 1 \in G
      BY <1>11, <1>12
    <2> QED
      BY <1>12, <2>1 DEF G
  <1>13. N \in 0..N
    BY <1>1
  <1> QED
    <2>1. \E r \in Text : Starting(r) /\ f[N] = m \o (list[1] \o r)
      BY <1>12, <1>14 DEF Fits
    <2>2. f[N] \in Text
      BY <1>5, <1>13
    <2> QED
      BY <1>7, <2>1, <2>2 DEF m, parts

LEMMA ItemHeads ==
    ASSUME NEW list \in Seq(Text), list # <<>>, \A n \in 1..Len(list) : OneLine(list[n])
    PROVE  Heads(FlattenSeq(Items(list))) \subseteq {"- ", LineBreak}
  <1> DEFINE N == Len(list)
             m == Mark("- ")
             parts == Items(list)
  <1>1. N \in Nat /\ N >= 1 /\ \A n \in 1..N : OneLine(list[n])
    BY LenProperties, EmptySeq
  <1>2. /\ parts \in Seq(Text) /\ Len(parts) = N
        /\ \A n \in 1..N : list[n] \in Text /\ parts[n] = m \o list[n]
    BY ItemsAre
  <1> HIDE DEF parts, N
  <1>3. PICK f : Joins(f, parts)
    BY <1>2, JoinsExist
  <1> DEFINE Fits(k) == k <= N => Heads(f[k]) \subseteq {"- ", LineBreak}
             S == {n \in Nat : Fits(n)}
  <1>4. /\ f[0] = <<>> /\ \A n \in 0..N : f[n] \in Text
        /\ \A n \in 1..N : f[n] = f[n - 1] \o parts[n]
    BY <1>2, <1>3 DEF Joins, JoinsUpTo
  <1>5. FlattenSeq(parts) = f[N]
    <2>1. Len(parts) # 0
      <3>1. Len(parts) = N
        BY <1>2
      <3>2. N # 0
        BY <1>1
      <3> QED
        BY <3>1, <3>2
    <2>2. parts # <<>>
      BY <2>1, EmptyText
    <2> QED
      BY <1>2, <1>3, <2>2, FlattenIs
  <1> HIDE DEF m
  <1>6. 0 \in S
    BY <1>4, NoHeads
  <1>7. ASSUME NEW n \in Nat, n \in S PROVE n + 1 \in S
    <2> HIDE DEF Fits
    <2> DEFINE i == n + 1
    <2>9. SUFFICES Fits(i)
      OBVIOUS
    <2>10. Fits(n)
      BY <1>7
    <2> SUFFICES ASSUME i <= N PROVE Heads(f[i]) \subseteq {"- ", LineBreak}
      BY DEF Fits
    <2>1. i \in 1..N /\ i - 1 = n /\ n \in 0..N /\ n <= N
      BY <1>1
    <2>2. Heads(f[n]) \subseteq {"- ", LineBreak}
      BY <2>1, <2>10 DEF Fits
    <2> HIDE DEF i
    <2>3. f[i] = f[n] \o (m \o list[i]) /\ list[i] \in Text /\ f[n] \in Text
      BY <1>2, <1>4, <2>1
    <2>4. Heads(list[i]) = {}
      BY <1>1, <2>1, <2>3, LineHasNoHeads
    <2>5. Heads(f[i]) \subseteq Heads(f[n]) \cup {"- ", LineBreak} \cup Heads(list[i])
      BY <2>3, Dash, HeadsAfter DEF m
    <2> QED
      BY <2>2, <2>4, <2>5
  <1> HIDE DEF S, Fits
  <1>8. Nat \subseteq S
    BY <1>6, <1>7, Induction
  <1>9. Fits(N) /\ N <= N
    <2>1. N \in S
      BY <1>1, <1>8
    <2> QED
      BY <1>1, <2>1 DEF S
  <1> QED
    BY <1>5, <1>9 DEF Fits, parts

(* Lists of one line each are read in one way.                             *)
LEMMA SameItems ==
    ASSUME NEW a \in Seq(Text), NEW b \in Seq(Text), a # <<>>, b # <<>>,
           \A n \in 1..Len(a) : OneLine(a[n]), \A n \in 1..Len(b) : OneLine(b[n]),
           FlattenSeq(Items(a)) = FlattenSeq(Items(b))
    PROVE  a = b
  <1> DEFINE m == Mark("- ")
             as == Items(a)
             bs == Items(b)
  <1>1. Len(a) \in Nat /\ Len(a) >= 1 /\ Len(b) \in Nat /\ Len(b) >= 1
    BY LenProperties, EmptySeq
  <1>2. /\ as \in Seq(Text) /\ Len(as) = Len(a)
        /\ \A n \in 1..Len(a) : a[n] \in Text /\ as[n] = m \o a[n]
    BY ItemsAre
  <1>3. /\ bs \in Seq(Text) /\ Len(bs) = Len(b)
        /\ \A n \in 1..Len(b) : b[n] \in Text /\ bs[n] = m \o b[n]
    BY ItemsAre
  <1> HIDE DEF as, bs
  <1>4. PICK f : Joins(f, as)
    BY <1>2, JoinsExist
  <1>5. PICK g : Joins(g, bs)
    BY <1>3, JoinsExist
  <1>6. /\ f[0] = <<>> /\ \A n \in 0..Len(a) : f[n] \in Text
        /\ \A n \in 1..Len(a) : f[n] = f[n - 1] \o as[n]
    BY <1>2, <1>4 DEF Joins, JoinsUpTo
  <1>7. /\ g[0] = <<>> /\ \A n \in 0..Len(b) : g[n] \in Text
        /\ \A n \in 1..Len(b) : g[n] = g[n - 1] \o bs[n]
    BY <1>3, <1>5 DEF Joins, JoinsUpTo
  <1>8. f[Len(a)] = g[Len(b)]
    <2>1. as # <<>> /\ bs # <<>>
      <3>1. Len(as) # 0
        <4>1. Len(as) = Len(a)
          BY <1>2
        <4> QED
          BY <1>1, <4>1
      <3>2. Len(bs) # 0
        <4>1. Len(bs) = Len(b)
          BY <1>3
        <4> QED
          BY <1>1, <4>1
      <3> QED
        BY <3>1, <3>2, EmptyText
    <2>2. FlattenSeq(as) = f[Len(a)]
      BY <1>2, <1>4, <2>1, FlattenIs
    <2>3. FlattenSeq(bs) = g[Len(b)]
      BY <1>3, <1>5, <2>1, FlattenIs
    <2> QED
      BY <2>2, <2>3 DEF as, bs
  <1> HIDE DEF m
  (* A prefix is nothing, or a prefix and a line.                          *)
  <1>9. ASSUME NEW u \in Text, NEW x \in Text PROVE u \o (m \o x) # <<>>
    <2>1. Reads(u \o (m \o x), u, "- ", x)
      BY AtomsAre, Dash, ReadsAs DEF m
    <2>2. Len(u \o (m \o x)) = Len(u) + 2 + Len(x)
      BY <2>1 DEF Reads
    <2>3. Len(u) + 2 + Len(x) # 0
      BY TextIs
    <2> QED
      BY <2>2, <2>3, EmptyText
  <1>10. \A n \in 1..Len(a) : /\ f[n] = f[n - 1] \o (m \o a[n])
                              /\ f[n - 1] \in Text /\ a[n] \in Text /\ OneLine(a[n])
    <2> TAKE n \in 1..Len(a)
    <2>1. n - 1 \in 0..Len(a)
      BY <1>1
    <2> QED
      BY <1>2, <1>6, <2>1
  <1>11. \A n \in 1..Len(b) : /\ g[n] = g[n - 1] \o (m \o b[n])
                              /\ g[n - 1] \in Text /\ b[n] \in Text /\ OneLine(b[n])
    <2> TAKE n \in 1..Len(b)
    <2>1. n - 1 \in 0..Len(b)
      BY <1>1
    <2> QED
      BY <1>3, <1>7, <2>1
  <1> DEFINE Agrees(n, k) == n = k /\ \A i \in 1..n : a[i] = b[i]
             S == {n \in Nat : n <= Len(a) => \A k \in 0..Len(b) : f[n] = g[k] => Agrees(n, k)}
  <1>12. 0 \in S
    <2> SUFFICES ASSUME NEW k \in 0..Len(b), f[0] = g[k] PROVE k = 0
      OBVIOUS
    <2> SUFFICES ASSUME k # 0 PROVE FALSE
      OBVIOUS
    <2>1. k \in 1..Len(b)
      BY <1>1
    <2> QED
      BY <1>6, <1>9, <1>11, <2>1
  <1>13. ASSUME NEW n \in Nat, n \in S PROVE n + 1 \in S
    <2> SUFFICES ASSUME n + 1 <= Len(a), NEW k \in 0..Len(b), f[n + 1] = g[k]
                 PROVE  Agrees(n + 1, k)
      OBVIOUS
    <2>1. n + 1 \in 1..Len(a) /\ (n + 1) - 1 = n /\ n <= Len(a)
      BY <1>1
    <2>2. /\ f[n + 1] = f[n] \o (m \o a[n + 1])
          /\ f[n] \in Text /\ a[n + 1] \in Text /\ OneLine(a[n + 1])
      BY <1>10, <2>1
    <2>3. k # 0
      BY <1>7, <1>9, <2>2
    <2>4. k \in 1..Len(b) /\ k - 1 \in 0..Len(b)
      BY <1>1, <2>3
    <2>5. /\ g[k] = g[k - 1] \o (m \o b[k])
          /\ g[k - 1] \in Text /\ b[k] \in Text /\ OneLine(b[k])
      BY <1>11, <2>4
    <2>6. f[n] = g[k - 1] /\ a[n + 1] = b[k]
      <3>1. f[n] \o (Mark("- ") \o a[n + 1]) = g[k - 1] \o (Mark("- ") \o b[k])
        BY <2>2, <2>5 DEF m
      <3>2. "- " \in Labels
        BY Dash
      <3>3. /\ f[n] \in Text /\ a[n + 1] \in Text /\ OneLine(a[n + 1])
            /\ g[k - 1] \in Text /\ b[k] \in Text /\ OneLine(b[k])
        BY <2>2, <2>5
      <3>4. TwoReadings(f[n], a[n + 1], g[k - 1], b[k], "- ")
        BY <3>1 DEF TwoReadings
      <3> QED
        BY ONLY <3>2, <3>3, <3>4, LastLine
    <2>7. n = k - 1 /\ \A i \in 1..n : a[i] = b[i]
      BY <1>13, <2>1, <2>4, <2>6
    <2>8. n + 1 = k
      BY <2>4, <2>7
    <2>9. \A i \in 1..n + 1 : i \in 1..n \/ i = n + 1
      OBVIOUS
    <2> QED
      BY <2>6, <2>7, <2>8, <2>9
  <1> HIDE DEF S
  <1>14. Len(a) \in S
    BY <1>1, <1>12, <1>13, Induction
  <1>15. Len(b) \in 0..Len(b) /\ Len(a) <= Len(a)
    BY <1>1
  <1>16. Len(a) = Len(b) /\ \A i \in 1..Len(a) : a[i] = b[i]
    BY <1>8, <1>14, <1>15 DEF S
  <1> QED
    BY <1>16, SeqEqual
-----------------------------------------------------------------------------
Regrouped(x, a, b) == (x \o a) \o b = x \o (a \o b) /\ x \o a \in Text /\ a \o b \in Text

LEMMA IsRegrouped == \A x, a, b \in Text : Regrouped(x, a, b)
  BY Regroup, BothAre DEF Regrouped

RegroupedThree(x, a, b, c) ==
    x \o a \o b \o c = x \o (a \o (b \o c)) /\ x \o a \o b \o c \in Text

LEMMA AreRegroupedThree == \A x, a, b, c \in Text : RegroupedThree(x, a, b, c)
  <1> TAKE x, a, b, c \in Text
  <1> DEFINE y == x \o a
  <1>1. y \in Text /\ y \o b \in Text /\ (y \o b) \o c \in Text /\ b \o c \in Text
    BY BothAre
  <1>2. Regrouped(y, b, c)
    BY <1>1, IsRegrouped
  <1>3. Regrouped(x, a, b \o c)
    BY <1>1, IsRegrouped
  <1> QED
    BY <1>1, <1>2, <1>3, Zenon DEF Regrouped, RegroupedThree

LEMMA RegroupFour ==
    \A x, a, b, c, d \in Text : x \o a \o b \o c \o d = x \o (a \o (b \o (c \o d)))
  <1> TAKE x, a, b, c, d \in Text
  <1> DEFINE y == x \o a
             z == b \o (c \o d)
  <1>1. y \in Text /\ z \in Text
    BY BothAre
  <1>2. RegroupedThree(y, b, c, d)
    BY <1>1, AreRegroupedThree
  <1>3. Regrouped(x, a, z)
    BY <1>1, IsRegrouped
  <1> QED
    BY <1>2, <1>3, Zenon DEF Regrouped, RegroupedThree

RegroupedFour(x, a, b, c, d) == x \o a \o b \o c \o d = x \o (a \o (b \o (c \o d)))

LEMMA AreRegroupedFour == \A x, a, b, c, d \in Text : RegroupedFour(x, a, b, c, d)
  BY RegroupFour, Zenon DEF RegroupedFour

RegroupedNine(x, a, b, c, d, e, f, g, h, i) ==
    x \o a \o b \o c \o d \o e \o f \o g \o h \o i
        = x \o (a \o (b \o (c \o (d \o (e \o (f \o (g \o (h \o i))))))))

LEMMA RegroupNine ==
    ASSUME NEW x \in Text, NEW a \in Text, NEW b \in Text, NEW c \in Text, NEW d \in Text,
           NEW e \in Text, NEW f \in Text, NEW g \in Text, NEW h \in Text, NEW i \in Text
    PROVE  RegroupedNine(x, a, b, c, d, e, f, g, h, i)
  <1> DEFINE y == x \o a \o b \o c
             z == y \o d \o e \o f
             s == g \o (h \o i)
             t == d \o (e \o (f \o s))
  <1>1. y \in Text
    BY AreRegroupedThree, Zenon DEF RegroupedThree
  <1>2. s \in Text
    BY BothAre
  <1>3. z \in Text
    <2> HIDE DEF y
    <2> QED
      BY <1>1, AreRegroupedThree, Zenon DEF RegroupedThree
  <1>4. t \in Text
    <2> HIDE DEF s
    <2>1. f \o s \in Text
      BY <1>2, BothAre
    <2>2. e \o (f \o s) \in Text
      BY <2>1, BothAre
    <2> QED
      BY <2>2, BothAre
  <1> HIDE DEF y, z, s, t
  <1>5. RegroupedFour(y, d, e, f, s)
    BY <1>1, <1>2, AreRegroupedFour
  <1>6. RegroupedThree(z, g, h, i)
    BY <1>3, AreRegroupedThree
  <1>7. RegroupedFour(x, a, b, c, t)
    BY <1>4, AreRegroupedFour
  <1>8. z \o g \o h \o i = z \o s
    BY <1>6, Zenon DEF RegroupedThree, s
  <1>9. z \o s = y \o t
    BY <1>5, Zenon DEF RegroupedFour, z, t
  <1>10. y \o t = x \o (a \o (b \o (c \o t)))
    BY <1>7, Zenon DEF RegroupedFour, y
  <1>11. z \o g \o h \o i = x \o (a \o (b \o (c \o t)))
    BY <1>8, <1>9, <1>10, Zenon
  <1> QED
    BY <1>11, Zenon DEF y, z, s, t, RegroupedNine
-----------------------------------------------------------------------------
(* The parts of the message, each with all that comes after it.            *)
SignIn == <<Wants, LineBreak>>
Gap    == <<LineBreak, LineBreak>>

Top(p) == p.domain \o SignIn \o Address(p).value \o Gap \o Statement(p)

FromRequest(p) == Optional("Request ID: ", p.requestId) \o ResourceLines(p)
FromNotBefore(p) == Optional("Not Before: ", p.nbf) \o FromRequest(p)
FromExpiration(p) == Optional("Expiration Time: ", p.exp) \o FromNotBefore(p)
FromIssuedAt(p) == p.iat \o FromExpiration(p)
FromNonce(p) == p.nonce \o (Mark("Issued At: ") \o FromIssuedAt(p))
FromChain(p) == ChainId(p).value \o (Mark("Nonce: ") \o FromNonce(p))
FromVersion(p) == p.version \o (Mark("Chain ID: ") \o FromChain(p))
FromAud(p) == p.aud \o (Mark("Version: ") \o FromVersion(p))

LEMMA AtomTexts ==
    /\ SignIn \in Text /\ Len(SignIn) = 2 /\ SignIn[1] # LineBreak /\ SignIn[2] = LineBreak
    /\ Gap \in Text /\ Len(Gap) = 2 /\ Gap[1] = LineBreak /\ Gap[2] = LineBreak
    /\ <<LineBreak>> \in Text /\ Len(<<LineBreak>>) = 1 /\ <<LineBreak>>[1] = LineBreak
  <1>1. SignIn \in Text /\ Gap \in Text
    BY AtomsAre, TwoOf DEF SignIn, Gap, Text
  <1>2. Len(SignIn) = 2 /\ SignIn[1] # LineBreak /\ SignIn[2] = LineBreak
    BY AtomsAre DEF SignIn
  <1>3. Len(Gap) = 2 /\ Gap[1] = LineBreak /\ Gap[2] = LineBreak
    BY DEF Gap
  <1>4. <<LineBreak>> \in Text /\ Len(<<LineBreak>>) = 1 /\ <<LineBreak>>[1] = LineBreak
    <2>1. \A S, x : x \in S => <<x>> \in Seq(S)
      OBVIOUS
    <2> QED
      BY <2>1, AtomsAre DEF Text
  <1> QED
    BY <1>1, <1>2, <1>3, <1>4

LEMMA LabelsAre ==
    {"URI: ", "Version: ", "Chain ID: ", "Nonce: ", "Issued At: ", "Expiration Time: ",
     "Not Before: ", "Request ID: ", "Resources:", "- "} \subseteq Labels
  BY DEF Labels

HasMessage(p) == p \in Payloads /\ Address(p).ok /\ ChainId(p).ok

LEMMA SegmentIs ==
    ASSUME NEW p \in Payloads, NEW n \in Nat, Segment(p, n).ok
    PROVE  Segment(p, n).value \in Text
  <1>1. p.iss \in Seq(Text) /\ n + 1 \in 1..Len(p.iss)
    BY PayloadAssumption, LenProperties DEF Segment, Fails
  <1>2. Segment(p, n).value = p.iss[n + 1]
    BY DEF Segment, Fails, Ok
  <1> QED
    BY <1>1, <1>2, LenProperties

LEMMA FieldsAre ==
    ASSUME NEW p \in Payloads
    PROVE  /\ p.domain \in Text /\ p.aud \in Text /\ p.version \in Text /\ p.nonce \in Text
           /\ p.iat \in Text
           /\ p.statement \in OptionOf(Text) /\ p.exp \in OptionOf(Text)
           /\ p.nbf \in OptionOf(Text) /\ p.requestId \in OptionOf(Text)
           /\ Listed(p) \in Seq(Text)
           /\ HasMessage(p) => Address(p).value \in Text /\ ChainId(p).value \in Text
  <1>1. Listed(p) \in Seq(Text)
    <2>1. p.resources \in OptionOf(Seq(Text))
      BY PayloadAssumption
    <2>2. p.resources # None => p.resources[1] \in Seq(Text)
      BY <2>1, OptionIs
    <2>3. <<>> \in Seq(Text)
      BY EmptySeq
    <2> QED
      BY <2>2, <2>3 DEF Listed
  <1>2. HasMessage(p) => Address(p).value \in Text /\ ChainId(p).value \in Text
    BY SegmentIs DEF HasMessage, Address, ChainId
  <1> QED
    BY <1>1, <1>2, PayloadAssumption

LEMMA LinesAre ==
    ASSUME NEW p \in Payloads, Unbroken(p)
    PROVE  /\ OneLine(p.domain) /\ OneLine(p.aud) /\ OneLine(p.version) /\ OneLine(p.nonce)
           /\ OneLine(p.iat) /\ OneLine(Address(p).value) /\ OneLine(ChainId(p).value)
           /\ OneLineEach(p.statement) /\ OneLineEach(p.exp)
           /\ OneLineEach(p.nbf) /\ OneLineEach(p.requestId)
           /\ \A n \in 1..Len(Listed(p)) : OneLine(Listed(p)[n])
  <1>1. {p.domain, Address(p).value, p.aud, p.version, ChainId(p).value, p.nonce, p.iat}
           \subseteq Written(p)
    BY DEF Written
  <1>2. \A f \in {p.statement, p.exp, p.nbf, p.requestId} : Range(f) \subseteq Written(p)
    BY DEF Written
  <1>3. Range(Listed(p)) \subseteq Written(p)
    BY DEF Written
  <1>4. \A n \in 1..Len(Listed(p)) : Listed(p)[n] \in Range(Listed(p))
    <2>1. DOMAIN Listed(p) = 1..Len(Listed(p))
      BY FieldsAre, LenProperties
    <2> QED
      BY <2>1 DEF Range
  <1> QED
    BY <1>1, <1>2, <1>3, <1>4 DEF Unbroken, OneLineEach

LEMMA ResourceLinesAre ==
    ASSUME NEW p \in Payloads
    PROVE  /\ Listed(p) = <<>> => ResourceLines(p) = <<>>
           /\ Listed(p) # <<>> => /\ FlattenSeq(Items(Listed(p))) \in Text
                                  /\ ResourceLines(p)
                                        = Mark("Resources:") \o FlattenSeq(Items(Listed(p)))
           /\ ResourceLines(p) \in Text /\ Starting(ResourceLines(p))
           /\ Unbroken(p) => Heads(ResourceLines(p)) \subseteq {"Resources:", "- ", LineBreak}
  <1>1. CASE Listed(p) = <<>>
    <2>1. ResourceLines(p) = <<>>
      BY <1>1 DEF ResourceLines
    <2> QED
      BY <1>1, <2>1, EmptyText, NoHeads DEF Starting
  <1>2. CASE Listed(p) # <<>>
    <2> DEFINE t == FlattenSeq(Items(Listed(p)))
    <2>1. ResourceLines(p) = Mark("Resources:") \o t
      BY <1>2 DEF ResourceLines, Items, Mark
    <2>2. t \in Text
      BY <1>2, FieldsAre, FirstItem
    <2>3. Unbroken(p) => Heads(t) \subseteq {"- ", LineBreak}
      BY <1>2, FieldsAre, LinesAre, ItemHeads
    <2> HIDE DEF t
    <2>4. /\ ResourceLines(p) \in Text /\ Starting(ResourceLines(p))
          /\ Heads(ResourceLines(p)) \subseteq {"Resources:"} \cup Heads(t)
      BY <2>1, <2>2, Dash, MarkStarts
    <2> QED
      BY <1>2, <2>1, <2>2, <2>3, <2>4 DEF t
  <1> QED
    BY <1>1, <1>2

LEMMA EndingIs ==
    ASSUME NEW p \in Payloads
    PROVE  /\ FromRequest(p) \in Text /\ Starting(FromRequest(p))
           /\ FromNotBefore(p) \in Text /\ Starting(FromNotBefore(p))
           /\ FromExpiration(p) \in Text /\ Starting(FromExpiration(p))
           /\ FromIssuedAt(p) \in Text
           /\ Unbroken(p) =>
                 /\ Heads(FromRequest(p))
                       \subseteq {"Request ID: ", "Resources:", "- ", LineBreak}
                 /\ Heads(FromNotBefore(p))
                       \subseteq {"Not Before: ", "Request ID: ", "Resources:", "- ", LineBreak}
                 /\ Heads(FromIssuedAt(p))
                       \subseteq {"Expiration Time: ", "Not Before: ", "Request ID: ",
                                  "Resources:", "- ", LineBreak}
  <1> DEFINE a == FromRequest(p)
             b == FromNotBefore(p)
             c == FromExpiration(p)
             d == FromIssuedAt(p)
  <1>1. /\ p.iat \in Text /\ p.exp \in OptionOf(Text)
        /\ p.nbf \in OptionOf(Text) /\ p.requestId \in OptionOf(Text)
    BY FieldsAre
  <1>2. Unbroken(p) => /\ OneLine(p.iat) /\ OneLineEach(p.exp)
                       /\ OneLineEach(p.nbf) /\ OneLineEach(p.requestId)
    BY LinesAre
  <1>3. /\ a \in Text /\ Starting(a)
        /\ OneLineEach(p.requestId) => Heads(a) \subseteq {"Request ID: "} \cup Heads(ResourceLines(p))
    BY <1>1, ResourceLinesAre, LabelsAre, OptionalStarts DEF FromRequest
  <1>4. Unbroken(p) => Heads(ResourceLines(p)) \subseteq {"Resources:", "- ", LineBreak}
    BY ResourceLinesAre
  <1>5. /\ b \in Text /\ Starting(b)
        /\ OneLineEach(p.nbf) => Heads(b) \subseteq {"Not Before: "} \cup Heads(a)
    <2> HIDE DEF a
    <2>1. b = Optional("Not Before: ", p.nbf) \o a
      BY DEF a, FromNotBefore
    <2> HIDE DEF b
    <2> QED
      BY <1>1, <1>3, <2>1, LabelsAre, OptionalStarts
  <1>6. /\ c \in Text /\ Starting(c)
        /\ OneLineEach(p.exp) => Heads(c) \subseteq {"Expiration Time: "} \cup Heads(b)
    <2> HIDE DEF b
    <2>1. c = Optional("Expiration Time: ", p.exp) \o b
      BY DEF b, FromExpiration
    <2> HIDE DEF c
    <2> QED
      BY <1>1, <1>5, <2>1, LabelsAre, OptionalStarts
  <1>7. d \in Text /\ (OneLine(p.iat) => Heads(d) = Heads(c))
    <2> HIDE DEF c
    <2>1. d = p.iat \o c
      BY DEF c, FromIssuedAt
    <2> HIDE DEF d
    <2> QED
      BY <1>1, <1>6, <2>1, BothAre, LineHeads
  <1> HIDE DEF a, b, c, d
  <1>8. Unbroken(p) => /\ Heads(a) \subseteq {"Request ID: ", "Resources:", "- ", LineBreak}
                       /\ Heads(b) \subseteq {"Not Before: "} \cup Heads(a)
                       /\ Heads(d) \subseteq {"Expiration Time: "} \cup Heads(b)
    BY <1>2, <1>3, <1>4, <1>5, <1>6, <1>7
  <1> QED
    BY <1>3, <1>5, <1>6, <1>7, <1>8 DEF a, b, c, d

BothOf(j, a, b) ==
    /\ j \in Text /\ Len(j) = Len(a) + Len(b)
    /\ \A n \in 1..Len(a) : j[n] = a[n]
    /\ \A n \in 1..Len(b) : j[Len(a) + n] = b[n]

LEMMA AreBoth == \A a, b \in Text : BothOf(a \o b, a, b)
  BY BothAre DEF BothOf

SameBoth(a, b, c, d) == a \o b = c \o d

LEMMA AreSameParts ==
    \A a, b, c, d \in Text : SameBoth(a, b, c, d) /\ Len(a) = Len(c) => a = c /\ b = d
  BY SameParts DEF SameBoth

TopOf(d, a, s) == d \o SignIn \o a \o Gap \o s

(* The line breaks of what is before the audience.                         *)
LEMMA TopIs ==
    ASSUME NEW d \in Text, NEW a \in Text, NEW s \in Text
    PROVE  LET x == TopOf(d, a, s)
               k == Len(d) + Len(a)
           IN /\ x \in Text /\ Len(x) = k + 4 + Len(s)
              /\ x[Len(d) + 2] = LineBreak /\ x[k + 3] = LineBreak /\ x[k + 4] = LineBreak
              /\ \A n \in 1..Len(s) : x[k + 4 + n] = s[n]
              /\ OneLine(d) /\ OneLine(a) =>
                    \A n \in 1..k + 4 :
                       x[n] = LineBreak => n = Len(d) + 2 \/ n = k + 3 \/ n = k + 4
  <1> DEFINE D == Len(d)
             A == Len(a)
             S == Len(s)
             t == d \o SignIn
             u == t \o a
             v == u \o Gap
             x == v \o s
  <1>0. D \in Nat /\ A \in Nat /\ S \in Nat
    BY TextIs
  <1> HIDE DEF D, A, S
  <1>1. /\ t \in Text /\ Len(t) = D + 2
        /\ \A n \in 1..D : t[n] = d[n]
        /\ t[D + 1] # LineBreak /\ t[D + 2] = LineBreak
    <2>1. 1 \in 1..Len(SignIn) /\ 2 \in 1..Len(SignIn)
      BY AtomTexts
    <2>2. BothOf(t, d, SignIn)
      BY AtomTexts, AreBoth
    <2> HIDE DEF t
    <2> QED
      BY <2>1, <2>2, AtomTexts DEF D, BothOf
  <1> HIDE DEF t
  <1>2. /\ u \in Text /\ Len(u) = D + 2 + A
        /\ \A n \in 1..D + 2 : u[n] = t[n]
        /\ \A n \in 1..A : u[D + 2 + n] = a[n]
    <2>1. BothOf(u, t, a)
      BY <1>1, AreBoth
    <2> HIDE DEF u
    <2> QED
      BY <1>1, <2>1 DEF A, BothOf
  <1> HIDE DEF u
  <1>3. /\ v \in Text /\ Len(v) = D + 2 + A + 2
        /\ \A n \in 1..D + 2 + A : v[n] = u[n]
        /\ v[D + 2 + A + 1] = LineBreak /\ v[D + 2 + A + 2] = LineBreak
    <2>1. 1 \in 1..Len(Gap) /\ 2 \in 1..Len(Gap)
      BY AtomTexts
    <2>2. BothOf(v, u, Gap)
      BY <1>2, AtomTexts, AreBoth
    <2> HIDE DEF v
    <2> QED
      BY <1>2, <2>1, <2>2, AtomTexts DEF BothOf
  <1> HIDE DEF v
  <1>4. /\ x \in Text /\ Len(x) = D + 2 + A + 2 + S
        /\ \A n \in 1..D + 2 + A + 2 : x[n] = v[n]
        /\ \A n \in 1..S : x[D + 2 + A + 2 + n] = s[n]
    <2>1. BothOf(x, v, s)
      BY <1>3, AreBoth
    <2> HIDE DEF x
    <2> QED
      BY <1>3, <2>1 DEF S, BothOf
  <1> HIDE DEF x
  <1> DEFINE k == D + A
  <1>5. D + 2 + A + 1 = k + 3 /\ D + 2 + A + 2 = k + 4 /\ D + 2 \in 1..D + 2 + A
        /\ D + 2 \in 1..k + 4 /\ k + 3 \in 1..k + 4 /\ k + 4 \in 1..k + 4
    BY <1>0
  <1>6. x[D + 2] = LineBreak /\ x[k + 3] = LineBreak /\ x[k + 4] = LineBreak
    <2>1. D + 2 \in 1..D + 2
      BY <1>0
    <2>2. u[D + 2] = LineBreak
      BY <1>1, <1>2, <2>1
    <2>3. v[D + 2] = LineBreak
      BY <1>3, <1>5, <2>2
    <2>4. v[k + 3] = LineBreak /\ v[k + 4] = LineBreak
      BY <1>3, <1>5
    <2> QED
      BY <1>4, <1>5, <2>3, <2>4
  <1>7. ASSUME OneLine(d), OneLine(a), NEW n \in 1..k + 4, x[n] = LineBreak
        PROVE  n = D + 2 \/ n = k + 3 \/ n = k + 4
    <2>1. x[n] = v[n]
      BY <1>4, <1>5
    <2>2. CASE n \in 1..D + 2 + A
      <3>1. u[n] = LineBreak
        BY <1>3, <1>7, <2>1, <2>2
      <3>2. CASE n \in 1..D + 2
        <4>1. t[n] = LineBreak
          BY <1>2, <3>1, <3>2
        <4>2. n \notin 1..D
          BY <1>1, <1>7, <4>1, OneLineIs DEF D
        <4>3. n # D + 1
          BY <1>1, <4>1
        <4> QED
          BY <1>0, <3>2, <4>2, <4>3
      <3>3. CASE n \notin 1..D + 2
        <4> DEFINE i == n - (D + 2)
        <4>1. i \in 1..A /\ n = D + 2 + i
          BY <1>0, <2>2, <3>3
        <4> HIDE DEF i
        <4>2. a[i] = LineBreak
          BY <1>2, <3>1, <4>1
        <4> QED
          BY <1>7, <4>1, <4>2, OneLineIs DEF A
      <3> QED
        BY <3>2, <3>3
    <2>3. CASE n \notin 1..D + 2 + A
      BY <1>0, <2>3
    <2> QED
      BY <2>2, <2>3
  <1>8. x = TopOf(d, a, s)
    BY DEF x, v, u, t, TopOf
  <1>9. D + 2 + A + 2 + S = k + 4 + S
    BY <1>0
  <1>10. \A n \in 1..S : x[k + 4 + n] = s[n]
    BY <1>4, <1>5
  <1> HIDE DEF k
  <1>11. /\ x \in Text /\ Len(x) = k + 4 + S
         /\ x[D + 2] = LineBreak /\ x[k + 3] = LineBreak /\ x[k + 4] = LineBreak
         /\ \A n \in 1..S : x[k + 4 + n] = s[n]
         /\ OneLine(d) /\ OneLine(a) =>
               \A n \in 1..k + 4 : x[n] = LineBreak => n = D + 2 \/ n = k + 3 \/ n = k + 4
    BY <1>4, <1>6, <1>7, <1>9, <1>10
  <1> QED
    BY <1>8, <1>11 DEF k, D, A, S

LEMMA TopText == \A d, a, s \in Text : TopOf(d, a, s) \in Text
  BY TopIs

(* Such a text with breaks in the same places has the same parts.          *)
LEMMA TopParts ==
    ASSUME NEW d \in Text, NEW a \in Text, NEW s \in Text,
           NEW e \in Text, NEW b \in Text, NEW t \in Text,
           Len(d) = Len(e), Len(a) = Len(b), TopOf(d, a, s) = TopOf(e, b, t)
    PROVE  d = e /\ a = b /\ s = t
  <1> DEFINE x == d \o SignIn
             y == e \o SignIn
             u == x \o a
             v == y \o b
             g == u \o Gap
             h == v \o Gap
  <1>1. BothOf(x, d, SignIn) /\ BothOf(y, e, SignIn) /\ SameBoth(g, s, h, t)
    BY AtomTexts, AreBoth DEF TopOf, SameBoth
  <1>2. /\ x \in Text /\ y \in Text /\ Len(x) = Len(y) /\ SignIn \in Text /\ Gap \in Text
    BY <1>1, AtomTexts DEF BothOf
  <1>3. (x = y => SameBoth(d, SignIn, e, SignIn)) /\ (u = v => SameBoth(x, a, y, b))
        /\ (g = h => SameBoth(u, Gap, v, Gap))
    BY DEF SameBoth
  <1> HIDE DEF x, y
  <1>4. BothOf(u, x, a) /\ BothOf(v, y, b)
    BY <1>2, AreBoth
  <1>5. u \in Text /\ v \in Text /\ Len(u) = Len(v)
    BY <1>2, <1>4 DEF BothOf
  <1> HIDE DEF u, v
  <1>6. BothOf(g, u, Gap) /\ BothOf(h, v, Gap)
    BY <1>2, <1>5, AreBoth
  <1>7. g \in Text /\ h \in Text /\ Len(g) = Len(h)
    BY <1>5, <1>6 DEF BothOf
  <1> HIDE DEF g, h
  <1>8. g = h /\ s = t
    BY <1>1, <1>7, AreSameParts
  <1>9. u = v
    BY <1>2, <1>3, <1>5, <1>8, AreSameParts
  <1>10. x = y /\ a = b
    BY <1>2, <1>3, <1>9, AreSameParts
  <1>11. d = e
    BY <1>2, <1>3, <1>10, AreSameParts
  <1> QED
    BY <1>8, <1>10, <1>11

LEMMA StatementIs ==
    ASSUME NEW p \in Payloads
    PROVE  /\ Statement(p) \in Text
           /\ p.statement = None => Statement(p) = <<>> /\ Len(Statement(p)) = 0
           /\ p.statement # None =>
                 /\ p.statement[1] \in Text /\ p.statement = Some(p.statement[1])
                 /\ Statement(p) = p.statement[1] \o <<LineBreak>>
                 /\ Len(Statement(p)) = Len(p.statement[1]) + 1
           /\ OneLineEach(p.statement) =>
                 \A n \in 1..Len(Statement(p)) :
                    Statement(p)[n] = LineBreak => n = Len(Statement(p))
  <1>1. CASE p.statement = None
    <2>1. Statement(p) = <<>>
      BY <1>1 DEF Statement
    <2>2. \A n \in 1..0 : FALSE
      OBVIOUS
    <2> QED
      BY <1>1, <2>1, <2>2, EmptyText
  <1>2. CASE p.statement # None
    <2> DEFINE w == p.statement[1]
               s == Statement(p)
    <2>1. w \in Text /\ p.statement = Some(w) /\ Range(p.statement) = {w}
      BY <1>2, FieldsAre, OptionIs
    <2>2. s = w \o <<LineBreak>>
      BY <1>2 DEF Statement
    <2> HIDE DEF w, s
    <2>3. s \in Text /\ Len(s) = Len(w) + 1 /\ \A n \in 1..Len(w) : s[n] = w[n]
      BY <2>1, <2>2, AtomTexts, BothAre
    <2>4. OneLineEach(p.statement) => OneLine(w)
      BY <2>1 DEF OneLineEach
    <2>5. ASSUME OneLine(w), NEW n \in 1..Len(s), s[n] = LineBreak PROVE n = Len(s)
      <3>1. n \notin 1..Len(w)
        BY <2>1, <2>3, <2>5, OneLineIs
      <3>2. Len(w) \in Nat
        BY <2>1, TextIs
      <3> QED
        BY <2>3, <3>1, <3>2
    <2> QED
      BY <1>2, <2>1, <2>2, <2>3, <2>4, <2>5 DEF w, s
  <1> QED
    BY <1>1, <1>2

LabeledFits(l, v, r) ==
    /\ Labeled(l, v) \in Text /\ v \o r \in Text
    /\ Labeled(l, v) \o r = Mark(l) \o (v \o r)

LEMMA LabeledIs == \A l \in Labels, v, r \in Text : LabeledFits(l, v, r)
  <1> TAKE l \in Labels, v, r \in Text
  <1> DEFINE k == Mark(l)
  <1>1. k \in Text /\ Labeled(l, v) = k \o v
    BY AtomsAre, MarkIs DEF Labeled, Mark
  <1> HIDE DEF k
  <1>2. Regrouped(k, v, r)
    BY <1>1, IsRegrouped
  <1> QED
    BY <1>1, <1>2, Zenon DEF Regrouped, LabeledFits, k

(* The message, by its parts.                                              *)
LEMMA PartsAre ==
    ASSUME NEW p \in Payloads, HasMessage(p)
    PROVE  /\ Top(p) \in Text /\ FromAud(p) \in Text /\ FromVersion(p) \in Text
           /\ FromChain(p) \in Text /\ FromNonce(p) \in Text /\ FromIssuedAt(p) \in Text
           /\ Mark("Version: ") \o FromVersion(p) \in Text
           /\ Mark("Chain ID: ") \o FromChain(p) \in Text
           /\ Mark("Nonce: ") \o FromNonce(p) \in Text
           /\ Mark("Issued At: ") \o FromIssuedAt(p) \in Text
           /\ Top(p) = TopOf(p.domain, Address(p).value, Statement(p))
  <1>1. FromIssuedAt(p) \in Text
    BY EndingIs
  <1>2. FromNonce(p) \in Text /\ Mark("Issued At: ") \o FromIssuedAt(p) \in Text
    BY <1>1, FieldsAre, LabelsAre, MarkStarts, BothAre DEF FromNonce
  <1>3. FromChain(p) \in Text /\ Mark("Nonce: ") \o FromNonce(p) \in Text
    BY <1>2, FieldsAre, LabelsAre, MarkStarts, BothAre DEF FromChain
  <1>4. FromVersion(p) \in Text /\ Mark("Chain ID: ") \o FromChain(p) \in Text
    BY <1>3, FieldsAre, LabelsAre, MarkStarts, BothAre DEF FromVersion
  <1>5. FromAud(p) \in Text /\ Mark("Version: ") \o FromVersion(p) \in Text
    BY <1>4, FieldsAre, LabelsAre, MarkStarts, BothAre DEF FromAud
  <1>6. Top(p) = TopOf(p.domain, Address(p).value, Statement(p))
    BY DEF Top, TopOf
  <1>7. Top(p) \in Text
    BY <1>6, FieldsAre, StatementIs, TopText
  <1> QED
    BY <1>1, <1>2, <1>3, <1>4, <1>5, <1>6, <1>7

LEMMA MessageIs ==
    ASSUME NEW p \in Payloads, SiweMessage(p).ok
    PROVE  /\ HasMessage(p)
           /\ SiweMessage(p).value = Top(p) \o (Mark("URI: ") \o FromAud(p))
  <1>1. HasMessage(p)
    BY DEF HasMessage, SiweMessage, Fails
  <1> DEFINE x == Top(p)
             a == Labeled("URI: ", p.aud)
             b == Labeled("Version: ", p.version)
             c == Labeled("Chain ID: ", ChainId(p).value)
             d == Labeled("Nonce: ", p.nonce)
             e == Labeled("Issued At: ", p.iat)
             f == Optional("Expiration Time: ", p.exp)
             g == Optional("Not Before: ", p.nbf)
             h == Optional("Request ID: ", p.requestId)
             i == ResourceLines(p)
             t == f \o (g \o (h \o i))
  <1>2. SiweMessage(p).value = x \o a \o b \o c \o d \o e \o f \o g \o h \o i
    BY <1>1 DEF SiweMessage, HasMessage, Top, SignIn, Wants, Gap, Ok
  <1>3. x \in Text /\ a \in Text /\ b \in Text /\ c \in Text /\ d \in Text /\ e \in Text
        /\ f \in Text /\ g \in Text /\ h \in Text /\ i \in Text
    <2>1. x \in Text
      BY <1>1, PartsAre
    <2>2. a \in Text /\ b \in Text /\ c \in Text /\ d \in Text /\ e \in Text
      BY <1>1, FieldsAre, LabelsAre, LabeledIs DEF LabeledFits
    <2>3. f \in Text /\ g \in Text /\ h \in Text
      BY FieldsAre, LabelsAre, OptionalIs
    <2>4. i \in Text
      BY ResourceLinesAre
    <2> QED
      BY <2>1, <2>2, <2>3, <2>4
  <1>4. t = FromExpiration(p)
    BY DEF FromExpiration, FromNotBefore, FromRequest
  <1> HIDE DEF x, a, b, c, d, e, f, g, h, i
  <1>5. x \o a \o b \o c \o d \o e \o f \o g \o h \o i = x \o (a \o (b \o (c \o (d \o (e \o t)))))
    <2>1. RegroupedNine(x, a, b, c, d, e, f, g, h, i)
      BY <1>3, RegroupNine
    <2> QED
      BY <2>1, Zenon DEF RegroupedNine, t
  <1> HIDE DEF t
  <1>6. t \in Text
    BY <1>4, EndingIs
  <1>7. e \o t = Mark("Issued At: ") \o FromIssuedAt(p)
    <2>1. LabeledFits("Issued At: ", p.iat, t)
      BY <1>6, FieldsAre, LabelsAre, LabeledIs
    <2> QED
      BY <1>4, <2>1, Zenon DEF e, FromIssuedAt, LabeledFits
  <1>8. d \o (e \o t) = Mark("Nonce: ") \o FromNonce(p)
    <2> DEFINE r == Mark("Issued At: ") \o FromIssuedAt(p)
    <2>1. r \in Text /\ FromNonce(p) = p.nonce \o r /\ p.nonce \in Text /\ "Nonce: " \in Labels
      BY <1>1, PartsAre, FieldsAre, LabelsAre DEF FromNonce
    <2> HIDE DEF r
    <2>2. d \o r = Mark("Nonce: ") \o FromNonce(p)
      <3>1. LabeledFits("Nonce: ", p.nonce, r)
        BY <2>1, LabeledIs
      <3> QED
        BY <2>1, <3>1, Zenon DEF LabeledFits, d
    <2> QED
      BY <1>7, <2>2, Zenon DEF r
  <1>9. c \o (d \o (e \o t)) = Mark("Chain ID: ") \o FromChain(p)
    <2> DEFINE r == Mark("Nonce: ") \o FromNonce(p)
    <2>1. r \in Text /\ FromChain(p) = ChainId(p).value \o r /\ ChainId(p).value \in Text
          /\ "Chain ID: " \in Labels
      BY <1>1, PartsAre, FieldsAre, LabelsAre DEF FromChain
    <2> HIDE DEF r
    <2>2. c \o r = Mark("Chain ID: ") \o FromChain(p)
      <3>1. LabeledFits("Chain ID: ", ChainId(p).value, r)
        BY <2>1, LabeledIs
      <3> QED
        BY <2>1, <3>1, Zenon DEF LabeledFits, c
    <2> QED
      BY <1>8, <2>2, Zenon DEF r
  <1>10. b \o (c \o (d \o (e \o t))) = Mark("Version: ") \o FromVersion(p)
    <2> DEFINE r == Mark("Chain ID: ") \o FromChain(p)
    <2>1. r \in Text /\ FromVersion(p) = p.version \o r /\ p.version \in Text
          /\ "Version: " \in Labels
      BY <1>1, PartsAre, FieldsAre, LabelsAre DEF FromVersion
    <2> HIDE DEF r
    <2>2. b \o r = Mark("Version: ") \o FromVersion(p)
      <3>1. LabeledFits("Version: ", p.version, r)
        BY <2>1, LabeledIs
      <3> QED
        BY <2>1, <3>1, Zenon DEF LabeledFits, b
    <2> QED
      BY <1>9, <2>2, Zenon DEF r
  <1>11. a \o (b \o (c \o (d \o (e \o t)))) = Mark("URI: ") \o FromAud(p)
    <2> DEFINE r == Mark("Version: ") \o FromVersion(p)
    <2>1. r \in Text /\ FromAud(p) = p.aud \o r /\ p.aud \in Text /\ "URI: " \in Labels
      BY <1>1, PartsAre, FieldsAre, LabelsAre DEF FromAud
    <2> HIDE DEF r
    <2>2. a \o r = Mark("URI: ") \o FromAud(p)
      <3>1. LabeledFits("URI: ", p.aud, r)
        BY <2>1, LabeledIs
      <3> QED
        BY <2>1, <3>1, Zenon DEF LabeledFits, a
    <2> QED
      BY <1>10, <2>2, Zenon DEF r
  <1>12. SiweMessage(p).value = x \o (Mark("URI: ") \o FromAud(p))
    BY <1>2, <1>5, <1>11, Zenon
  <1> QED
    BY <1>1, <1>12 DEF x

LEMMA HeadsOfParts ==
    ASSUME NEW p \in Payloads, HasMessage(p), Unbroken(p)
    PROVE  LET ends == {"Expiration Time: ", "Not Before: ", "Request ID: ", "Resources:",
                        "- ", LineBreak}
           IN /\ Heads(FromIssuedAt(p)) \subseteq ends
              /\ Heads(FromNonce(p)) \subseteq {"Issued At: "} \cup ends
              /\ Heads(FromChain(p)) \subseteq {"Nonce: ", "Issued At: "} \cup ends
              /\ Heads(FromVersion(p)) \subseteq {"Chain ID: ", "Nonce: ", "Issued At: "} \cup ends
              /\ Heads(FromAud(p))
                    \subseteq {"Version: ", "Chain ID: ", "Nonce: ", "Issued At: "} \cup ends
  <1> DEFINE ends == {"Expiration Time: ", "Not Before: ", "Request ID: ", "Resources:",
                      "- ", LineBreak}
  <1>1. /\ p.aud \in Text /\ p.version \in Text /\ p.nonce \in Text /\ ChainId(p).value \in Text
        /\ OneLine(p.aud) /\ OneLine(p.version) /\ OneLine(p.nonce) /\ OneLine(ChainId(p).value)
    BY FieldsAre, LinesAre
  <1>2. /\ FromVersion(p) \in Text /\ FromChain(p) \in Text /\ FromNonce(p) \in Text
        /\ FromIssuedAt(p) \in Text
    BY PartsAre
  <1>3. ASSUME NEW v \in Text, NEW l \in Labels, NEW r \in Text, OneLine(v)
        PROVE  Heads(v \o (Mark(l) \o r)) \subseteq {l} \cup Heads(r)
    <2>1. Mark(l) \o r \in Text /\ Heads(Mark(l) \o r) \subseteq {l} \cup Heads(r)
      BY MarkStarts
    <2> QED
      BY <1>3, <2>1, LineHeads
  <1>4. Heads(FromIssuedAt(p)) \subseteq ends
    BY EndingIs
  <1>5. Heads(FromNonce(p)) \subseteq {"Issued At: "} \cup Heads(FromIssuedAt(p))
    BY <1>1, <1>2, <1>3, LabelsAre DEF FromNonce
  <1>6. Heads(FromChain(p)) \subseteq {"Nonce: "} \cup Heads(FromNonce(p))
    BY <1>1, <1>2, <1>3, LabelsAre DEF FromChain
  <1>7. Heads(FromVersion(p)) \subseteq {"Chain ID: "} \cup Heads(FromChain(p))
    BY <1>1, <1>2, <1>3, LabelsAre DEF FromVersion
  <1>8. Heads(FromAud(p)) \subseteq {"Version: "} \cup Heads(FromVersion(p))
    BY <1>1, <1>2, <1>3, LabelsAre DEF FromAud
  <1> HIDE DEF ends
  <1>9. /\ Heads(FromNonce(p)) \subseteq {"Issued At: "} \cup ends
        /\ Heads(FromChain(p)) \subseteq {"Nonce: ", "Issued At: "} \cup ends
        /\ Heads(FromVersion(p)) \subseteq {"Chain ID: ", "Nonce: ", "Issued At: "} \cup ends
    BY <1>4, <1>5, <1>6, <1>7
  <1>10. Heads(FromAud(p)) \subseteq {"Version: ", "Chain ID: ", "Nonce: ", "Issued At: "} \cup ends
    BY <1>8, <1>9
  <1> QED
    BY <1>4, <1>9, <1>10 DEF ends
-----------------------------------------------------------------------------
(* v has no more than three breaks before its last atom, and u has three.  *)
FewBreaks(v, a, b, c) ==
    /\ a \in Nat /\ b \in Nat /\ c \in Nat /\ a < b /\ b < c
    /\ \A n \in 1..Len(v) : v[n] = LineBreak => n = a \/ n = b \/ n = c \/ n = Len(v)

ThreeBreaks(u, a, b, c) ==
    /\ a \in 1..Len(u) /\ b \in 1..Len(u) /\ c \in 1..Len(u) /\ a < b /\ b < c
    /\ u[a] = LineBreak /\ u[b] = LineBreak /\ u[c] = LineBreak

(* A label that comes after a third break is there in every reading.       *)
LEMMA FourthMark ==
    ASSUME NEW v \in Text, NEW r \in Text, NEW u \in Text, NEW s \in Text,
           NEW l \in Labels, l \notin Heads(r), TwoReadings(v, r, u, s, l),
           NEW a, NEW b, NEW c, FewBreaks(v, a, b, c),
           NEW d, NEW e, NEW f, ThreeBreaks(u, d, e, f)
    PROVE  v = u /\ r = s
  <1> DEFINE j == v \o (Mark(l) \o r)
             n == Len(u) + 1
  <1>1. l \in STRING /\ l # LineBreak
    BY AtomsAre
  <1>2. Reads(j, v, l, r) /\ Mark(l) \o r \in Text
    BY <1>1, ReadsAs
  <1>3. Reads(j, u, l, s) /\ Mark(l) \o s \in Text
    BY <1>1, ReadsAs DEF TwoReadings
  <1>4. Len(v) \in Nat /\ Len(r) \in Nat /\ Len(u) \in Nat /\ Len(s) \in Nat
    BY TextIs
  <1> HIDE DEF j
  <1>5. /\ n \in Nat /\ n >= 1 /\ n + 1 <= Len(v) + 2 + Len(r)
        /\ j[n] = LineBreak /\ j[n + 1] = l
    <2>1. j[Len(u) + 1] = LineBreak /\ j[Len(u) + 2] = l /\ Len(j) = Len(u) + 2 + Len(s)
          /\ Len(j) = Len(v) + 2 + Len(r)
      BY <1>2, <1>3 DEF Reads
    <2>2. n + 1 = Len(u) + 2
      BY <1>4
    <2> QED
      BY <1>4, <2>1, <2>2
  <1>6. /\ d \in Nat /\ e \in Nat /\ f \in Nat /\ d >= 1 /\ d < e /\ e < f /\ f < n
        /\ j[d] = LineBreak /\ j[e] = LineBreak /\ j[f] = LineBreak
    BY <1>3, <1>4 DEF ThreeBreaks, Reads
  <1> HIDE DEF n
  <1>7. ~(n < Len(v))
    <2> SUFFICES ASSUME n < Len(v) PROVE FALSE
      OBVIOUS
    <2>1. \A i \in 1..n : i \in 1..Len(v) /\ i # Len(v) /\ v[i] = j[i]
      BY <1>2, <1>4, <1>5 DEF Reads
    <2>2. \A i \in 1..n : j[i] = LineBreak => i = a \/ i = b \/ i = c
      BY <2>1 DEF FewBreaks
    <2>3. d \in 1..n /\ e \in 1..n /\ f \in 1..n /\ n \in 1..n
      BY <1>5, <1>6
    <2>4. /\ d = a \/ d = b \/ d = c
          /\ e = a \/ e = b \/ e = c
          /\ f = a \/ f = b \/ f = c
          /\ n = a \/ n = b \/ n = c
      BY <1>5, <1>6, <2>2, <2>3
    <2>5. a \in Nat /\ b \in Nat /\ c \in Nat
      BY DEF FewBreaks
    <2> QED
      BY <1>5, <1>6, <2>4, <2>5
  <1>8. n # Len(v)
    BY <1>1, <1>2, <1>5 DEF Reads
  <1>9. n # Len(v) + 2
    BY <1>1, <1>2, <1>5 DEF Reads
  <1>10. ~(n > Len(v) + 2)
    <2> SUFFICES ASSUME n > Len(v) + 2 PROVE FALSE
      OBVIOUS
    <2> DEFINE k == n - (Len(v) + 2)
    <2>1. k \in 1..Len(r) /\ k + 1 \in 1..Len(r)
      BY <1>4, <1>5
    <2>2. Len(v) + 2 + k = n /\ Len(v) + 2 + (k + 1) = n + 1
      BY <1>4, <1>5
    <2> HIDE DEF k
    <2>3. r[k] = LineBreak /\ r[k + 1] = l
      BY <1>2, <1>5, <2>1, <2>2 DEF Reads
    <2> QED
      BY <2>1, <2>3, HeadsAre
  <1>11. Len(v) = Len(u)
    BY <1>4, <1>5, <1>7, <1>8, <1>9, <1>10 DEF n
  <1>12. v = u /\ Mark(l) \o r = Mark(l) \o s
    BY <1>2, <1>3, <1>11, SameParts DEF TwoReadings
  <1> QED
    BY <1>1, <1>12, MarkIs, CancelBefore

(* What the breaks before the audience are.                                *)
LEMMA TopBreaks ==
    ASSUME NEW p \in Payloads, HasMessage(p)
    PROVE  LET d == Len(p.domain)
               k == d + Len(Address(p).value)
           IN /\ ThreeBreaks(Top(p), d + 2, k + 3, k + 4)
              /\ Unbroken(p) => FewBreaks(Top(p), d + 2, k + 3, k + 4)
  <1> DEFINE D == p.domain
             A == Address(p).value
             S == Statement(p)
             x == TopOf(D, A, S)
             k == Len(D) + Len(A)
  <1>1. D \in Text /\ A \in Text /\ S \in Text
    BY FieldsAre, StatementIs
  <1>2. Top(p) = x
    BY PartsAre
  <1>3. Unbroken(p) => OneLine(D) /\ OneLine(A) /\ OneLineEach(p.statement)
    BY LinesAre
  <1>4. OneLineEach(p.statement) => \A n \in 1..Len(S) : S[n] = LineBreak => n = Len(S)
    BY StatementIs
  <1> HIDE DEF D, A, S, x
  <1>5. Len(D) \in Nat /\ Len(A) \in Nat /\ Len(S) \in Nat
    BY <1>1, TextIs
  <1>6. /\ x \in Text /\ Len(x) = k + 4 + Len(S)
        /\ x[Len(D) + 2] = LineBreak /\ x[k + 3] = LineBreak /\ x[k + 4] = LineBreak
        /\ \A n \in 1..Len(S) : x[k + 4 + n] = S[n]
        /\ OneLine(D) /\ OneLine(A) =>
              \A n \in 1..k + 4 :
                 x[n] = LineBreak => n = Len(D) + 2 \/ n = k + 3 \/ n = k + 4
    BY <1>1, TopIs DEF x
  <1>7. ThreeBreaks(x, Len(D) + 2, k + 3, k + 4)
    BY <1>5, <1>6 DEF ThreeBreaks
  <1>8. ASSUME Unbroken(p) PROVE FewBreaks(x, Len(D) + 2, k + 3, k + 4)
    <2>1. ASSUME NEW n \in 1..Len(x), x[n] = LineBreak
          PROVE  n = Len(D) + 2 \/ n = k + 3 \/ n = k + 4 \/ n = Len(x)
      <3>1. CASE n \in 1..k + 4
        BY <1>3, <1>6, <1>8, <2>1, <3>1
      <3>2. CASE n \notin 1..k + 4
        <4> DEFINE i == n - (k + 4)
        <4>1. i \in 1..Len(S) /\ n = k + 4 + i
          BY <1>5, <1>6, <3>2
        <4> HIDE DEF i
        <4>2. S[i] = LineBreak
          BY <1>6, <2>1, <4>1
        <4>3. i = Len(S)
          BY <1>3, <1>4, <1>8, <4>1, <4>2
        <4> QED
          BY <1>6, <4>1, <4>3
      <3> QED
        BY <3>1, <3>2
    <2> QED
      BY <1>5, <2>1 DEF FewBreaks
  <1> QED
    BY <1>2, <1>7, <1>8 DEF D, A

SameMessage(p, q) ==
    /\ HasMessage(p) /\ HasMessage(q)
    /\ TwoReadings(Top(p), FromAud(p), Top(q), FromAud(q), "URI: ")

LEMMA SameBefore ==
    ASSUME NEW p \in Payloads, NEW q \in Payloads, SameMessage(p, q), Unbroken(p)
    PROVE  Top(p) = Top(q) /\ FromAud(p) = FromAud(q)
  <1>1. HasMessage(p) /\ HasMessage(q)
        /\ TwoReadings(Top(p), FromAud(p), Top(q), FromAud(q), "URI: ")
    BY DEF SameMessage
  <1>2. PICK a, b, c : FewBreaks(Top(p), a, b, c)
    BY <1>1, TopBreaks
  <1>3. PICK d, e, f : ThreeBreaks(Top(q), d, e, f)
    BY <1>1, TopBreaks
  <1>4. "URI: " \notin Heads(FromAud(p))
    <2>1. Heads(FromAud(p)) \subseteq {"Version: ", "Chain ID: ", "Nonce: ", "Issued At: ",
              "Expiration Time: ", "Not Before: ", "Request ID: ", "Resources:", "- ", LineBreak}
      BY <1>1, HeadsOfParts
    <2> QED
      BY <2>1 DEF LineBreak
  <1>5. /\ Top(p) \in Text /\ FromAud(p) \in Text /\ Top(q) \in Text /\ FromAud(q) \in Text
        /\ "URI: " \in Labels
    BY <1>1, PartsAre, LabelsAre
  <1> QED
    BY <1>1, <1>2, <1>3, <1>4, <1>5, FourthMark

(* Each line up to the date is the same.                                   *)
LEMMA SameLines ==
    ASSUME NEW p \in Payloads, NEW q \in Payloads, SameMessage(p, q), Unbroken(p)
    PROVE  BindsTheSame(p, q) /\ FromIssuedAt(p) = FromIssuedAt(q)
  <1>1. HasMessage(p) /\ HasMessage(q)
    BY DEF SameMessage
  <1>2. /\ p.aud \in Text /\ p.version \in Text /\ p.nonce \in Text /\ ChainId(p).value \in Text
        /\ q.aud \in Text /\ q.version \in Text /\ q.nonce \in Text /\ ChainId(q).value \in Text
    BY <1>1, FieldsAre
  <1>3. /\ FromVersion(p) \in Text /\ FromChain(p) \in Text /\ FromNonce(p) \in Text
        /\ FromIssuedAt(p) \in Text
        /\ FromVersion(q) \in Text /\ FromChain(q) \in Text /\ FromNonce(q) \in Text
        /\ FromIssuedAt(q) \in Text
    BY <1>1, PartsAre
  <1>4. /\ "Version: " \notin Heads(p.aud) /\ "Chain ID: " \notin Heads(p.version)
        /\ "Nonce: " \notin Heads(ChainId(p).value) /\ "Issued At: " \notin Heads(p.nonce)
    BY <1>2, LinesAre, LineHasNoHeads
  <1>5. /\ "Version: " \notin Heads(FromVersion(p)) /\ "Chain ID: " \notin Heads(FromChain(p))
        /\ "Nonce: " \notin Heads(FromNonce(p)) /\ "Issued At: " \notin Heads(FromIssuedAt(p))
    <2> DEFINE ends == {"Expiration Time: ", "Not Before: ", "Request ID: ", "Resources:",
                        "- ", LineBreak}
    <2>1. /\ Heads(FromIssuedAt(p)) \subseteq ends
          /\ Heads(FromNonce(p)) \subseteq {"Issued At: "} \cup ends
          /\ Heads(FromChain(p)) \subseteq {"Nonce: ", "Issued At: "} \cup ends
          /\ Heads(FromVersion(p)) \subseteq {"Chain ID: ", "Nonce: ", "Issued At: "} \cup ends
      BY <1>1, HeadsOfParts
    <2> QED
      BY <2>1 DEF LineBreak
  <1>6. FromAud(p) = FromAud(q)
    BY SameBefore
  <1>7. TwoReadings(p.aud, FromVersion(p), q.aud, FromVersion(q), "Version: ")
    BY <1>6 DEF TwoReadings, FromAud
  <1>8. p.aud = q.aud /\ FromVersion(p) = FromVersion(q)
    BY <1>2, <1>3, <1>4, <1>5, <1>7, LabelsAre, OneMark
  <1>9. TwoReadings(p.version, FromChain(p), q.version, FromChain(q), "Chain ID: ")
    BY <1>8 DEF TwoReadings, FromVersion
  <1>10. p.version = q.version /\ FromChain(p) = FromChain(q)
    BY <1>2, <1>3, <1>4, <1>5, <1>9, LabelsAre, OneMark
  <1>11. TwoReadings(ChainId(p).value, FromNonce(p), ChainId(q).value, FromNonce(q), "Nonce: ")
    BY <1>10 DEF TwoReadings, FromChain
  <1>12. ChainId(p).value = ChainId(q).value /\ FromNonce(p) = FromNonce(q)
    BY <1>2, <1>3, <1>4, <1>5, <1>11, LabelsAre, OneMark
  <1>13. TwoReadings(p.nonce, FromIssuedAt(p), q.nonce, FromIssuedAt(q), "Issued At: ")
    BY <1>12 DEF TwoReadings, FromNonce
  <1>14. p.nonce = q.nonce /\ FromIssuedAt(p) = FromIssuedAt(q)
    BY <1>2, <1>3, <1>4, <1>5, <1>13, LabelsAre, OneMark
  <1>15. ChainId(p) = ChainId(q)
    BY <1>1, <1>12 DEF HasMessage, ChainId, Segment, Ok, Fails
  <1> QED
    BY <1>8, <1>10, <1>14, <1>15 DEF BindsTheSame
-----------------------------------------------------------------------------
(* Two sets of breaks of one text are the same.                            *)
LEMMA SameBreaks ==
    ASSUME NEW x \in Text, NEW a, NEW b, NEW c, NEW d, NEW e, NEW f,
           ThreeBreaks(x, a, b, c), FewBreaks(x, a, b, c),
           ThreeBreaks(x, d, e, f), FewBreaks(x, d, e, f)
    PROVE  a = d /\ b = e
  <1>1. Len(x) \in Nat
    BY TextIs
  <1>2. /\ a \in 1..Len(x) /\ b \in 1..Len(x) /\ c \in 1..Len(x) /\ a < b /\ b < c
        /\ d \in 1..Len(x) /\ e \in 1..Len(x) /\ f \in 1..Len(x) /\ d < e /\ e < f
    BY DEF ThreeBreaks
  <1>3. /\ d = a \/ d = b \/ d = c \/ d = Len(x)
        /\ e = a \/ e = b \/ e = c \/ e = Len(x)
    BY DEF ThreeBreaks, FewBreaks
  <1>4. /\ a = d \/ a = e \/ a = f \/ a = Len(x)
        /\ b = d \/ b = e \/ b = f \/ b = Len(x)
    BY DEF ThreeBreaks, FewBreaks
  <1> QED
    BY <1>1, <1>2, <1>3, <1>4

LEMMA AddressIs ==
    ASSUME NEW p, NEW q, HasMessage(p), HasMessage(q), Address(p).value = Address(q).value
    PROVE  Address(p) = Address(q)
  BY DEF HasMessage, Address, Segment, Ok, Fails

(* Some(v) and Some(w) with v before a break, and with w.                  *)
LEMMA SameStatement ==
    ASSUME NEW p \in Payloads, NEW q \in Payloads, Unbroken(p), Unbroken(q),
           Statement(p) = Statement(q)
    PROVE  p.statement = q.statement
  <1>1. OneLineEach(p.statement) /\ OneLineEach(q.statement)
    BY LinesAre
  <1>2. \A r \in Payloads :
           r.statement # None =>
              /\ r.statement[1] \in Text /\ r.statement = Some(r.statement[1])
              /\ Statement(r) = r.statement[1] \o <<LineBreak>>
              /\ Len(Statement(r)) # 0
    <2> TAKE r \in Payloads
    <2> HAVE r.statement # None
    <2>1. /\ r.statement[1] \in Text /\ r.statement = Some(r.statement[1])
          /\ Statement(r) = r.statement[1] \o <<LineBreak>>
          /\ Len(Statement(r)) = Len(r.statement[1]) + 1
      BY StatementIs
    <2>2. Len(r.statement[1]) + 1 # 0
      BY <2>1, TextIs
    <2> QED
      BY <2>1, <2>2
  <1>3. \A r \in Payloads : r.statement = None => Len(Statement(r)) = 0
    BY StatementIs
  <1>4. CASE p.statement = None
    BY <1>2, <1>3, <1>4
  <1>5. CASE p.statement # None
    <2>1. q.statement # None
      BY <1>2, <1>3, <1>5
    <2> DEFINE v == p.statement[1]
               w == q.statement[1]
    <2>2. /\ v \in Text /\ p.statement = Some(v) /\ w \in Text /\ q.statement = Some(w)
          /\ v \o <<LineBreak>> = w \o <<LineBreak>>
      BY <1>2, <1>5, <2>1
    <2>3. OneLine(v) /\ OneLine(w)
      BY <1>1, <1>5, <2>1, FieldsAre, OptionIs DEF OneLineEach
    <2>4. <<LineBreak>> \in Text /\ Starting(<<LineBreak>>)
      BY AtomTexts, EmptyText DEF Starting
    <2> HIDE DEF v, w
    <2>5. v = w
      BY <2>2, <2>3, <2>4, FirstLine
    <2> QED
      BY <2>2, <2>5
  <1> QED
    BY <1>4, <1>5

LEMMA SameTop ==
    ASSUME NEW p \in Payloads, NEW q \in Payloads, SameMessage(p, q), Unbroken(p), Unbroken(q)
    PROVE  p.domain = q.domain /\ Address(p) = Address(q) /\ p.statement = q.statement
  <1>1. HasMessage(p) /\ HasMessage(q)
    BY DEF SameMessage
  <1> DEFINE D == Len(p.domain)
             A == Len(Address(p).value)
             E == Len(q.domain)
             B == Len(Address(q).value)
  <1>2. /\ ThreeBreaks(Top(p), D + 2, D + A + 3, D + A + 4)
        /\ FewBreaks(Top(p), D + 2, D + A + 3, D + A + 4)
        /\ ThreeBreaks(Top(q), E + 2, E + B + 3, E + B + 4)
        /\ FewBreaks(Top(q), E + 2, E + B + 3, E + B + 4)
    BY <1>1, TopBreaks
  <1>3. Top(p) = Top(q) /\ Top(p) \in Text
    BY <1>1, SameBefore, PartsAre
  <1>4. /\ p.domain \in Text /\ Address(p).value \in Text /\ Statement(p) \in Text
        /\ q.domain \in Text /\ Address(q).value \in Text /\ Statement(q) \in Text
    BY <1>1, FieldsAre, StatementIs
  <1>5. D \in Nat /\ A \in Nat /\ E \in Nat /\ B \in Nat
    BY <1>4, TextIs
  <1> HIDE DEF D, A, E, B
  <1>6. D + 2 = E + 2 /\ D + A + 3 = E + B + 3
    BY <1>2, <1>3, SameBreaks
  <1>7. D = E /\ A = B
    BY <1>5, <1>6
  <1>8. TopOf(p.domain, Address(p).value, Statement(p))
           = TopOf(q.domain, Address(q).value, Statement(q))
    BY <1>1, <1>3, PartsAre
  <1>9. /\ p.domain = q.domain /\ Address(p).value = Address(q).value
        /\ Statement(p) = Statement(q)
    <2> DEFINE d == p.domain
               a == Address(p).value
               s == Statement(p)
               e == q.domain
               b == Address(q).value
               t == Statement(q)
    <2>1. /\ d \in Text /\ a \in Text /\ s \in Text /\ e \in Text /\ b \in Text /\ t \in Text
          /\ TopOf(d, a, s) = TopOf(e, b, t) /\ Len(d) = Len(e) /\ Len(a) = Len(b)
      BY <1>4, <1>7, <1>8 DEF D, A, E, B
    <2> HIDE DEF d, a, s, e, b, t
    <2>2. d = e /\ a = b /\ s = t
      BY <2>1, TopParts
    <2> QED
      BY <2>2 DEF d, a, s, e, b, t
  <1> QED
    BY <1>1, <1>9, AddressIs, SameStatement

(* The lines after the date, when neither payload has a line break.        *)
LEMMA SameResources ==
    ASSUME NEW p \in Payloads, NEW q \in Payloads, Unbroken(p), Unbroken(q),
           ResourceLines(p) = ResourceLines(q)
    PROVE  Listed(p) = Listed(q)
  <1>1. \A r \in Payloads : Listed(r) = <<>> => Len(ResourceLines(r)) = 0
    BY ResourceLinesAre, EmptyText
  <1>2. \A r \in Payloads :
           Listed(r) # <<>> =>
              /\ Len(ResourceLines(r)) # 0 /\ FlattenSeq(Items(Listed(r))) \in Text
              /\ ResourceLines(r) = Mark("Resources:") \o FlattenSeq(Items(Listed(r)))
    <2> TAKE r \in Payloads
    <2> HAVE Listed(r) # <<>>
    <2> DEFINE t == FlattenSeq(Items(Listed(r)))
    <2>1. t \in Text /\ ResourceLines(r) = Mark("Resources:") \o t
      BY ResourceLinesAre
    <2> HIDE DEF t
    <2>2. Len(ResourceLines(r)) = Len(t) + 2
      BY <2>1, Dash, MarkStarts
    <2>3. Len(t) + 2 # 0
      BY <2>1, TextIs
    <2> QED
      BY <2>1, <2>2, <2>3 DEF t
  <1>3. CASE Listed(p) = <<>>
    BY <1>1, <1>2, <1>3
  <1>4. CASE Listed(p) # <<>>
    <2>1. Listed(q) # <<>>
      BY <1>1, <1>2, <1>4
    <2> DEFINE s == FlattenSeq(Items(Listed(p)))
               t == FlattenSeq(Items(Listed(q)))
    <2>2. s \in Text /\ t \in Text /\ Mark("Resources:") \o s = Mark("Resources:") \o t
      BY <1>2, <1>4, <2>1
    <2>3. Mark("Resources:") \in Text
      BY AtomsAre, Dash, MarkIs
    <2> HIDE DEF s, t
    <2>4. s = t
      BY <2>2, <2>3, CancelBefore
    <2>5. /\ Listed(p) \in Seq(Text) /\ \A n \in 1..Len(Listed(p)) : OneLine(Listed(p)[n])
          /\ Listed(q) \in Seq(Text) /\ \A n \in 1..Len(Listed(q)) : OneLine(Listed(q)[n])
      BY FieldsAre, LinesAre
    <2> QED
      BY <1>4, <2>1, <2>4, <2>5, SameItems DEF s, t
  <1> QED
    BY <1>3, <1>4

SameOptional(l, f, r, g, s) == Optional(l, f) \o r = Optional(l, g) \o s

LEMMA AreSameOptional ==
    ASSUME NEW f \in OptionOf(Text), NEW g \in OptionOf(Text), NEW l \in Labels,
           NEW r \in Text, NEW s \in Text, OneLineEach(f), OneLineEach(g),
           Starting(r), Starting(s), l \notin Heads(r), l \notin Heads(s),
           SameOptional(l, f, r, g, s)
    PROVE  f = g /\ r = s
  BY OneOptional DEF SameOptional

LEMMA SameEnding ==
    ASSUME NEW p \in Payloads, NEW q \in Payloads, Unbroken(p), Unbroken(q),
           FromIssuedAt(p) = FromIssuedAt(q)
    PROVE  /\ p.iat = q.iat /\ p.exp = q.exp /\ p.nbf = q.nbf /\ p.requestId = q.requestId
           /\ Listed(p) = Listed(q)
  <1>1. /\ p.iat \in Text /\ p.exp \in OptionOf(Text)
        /\ p.nbf \in OptionOf(Text) /\ p.requestId \in OptionOf(Text)
        /\ q.iat \in Text /\ q.exp \in OptionOf(Text)
        /\ q.nbf \in OptionOf(Text) /\ q.requestId \in OptionOf(Text)
    BY FieldsAre
  <1>2. /\ OneLine(p.iat) /\ OneLineEach(p.exp) /\ OneLineEach(p.nbf) /\ OneLineEach(p.requestId)
        /\ OneLine(q.iat) /\ OneLineEach(q.exp) /\ OneLineEach(q.nbf) /\ OneLineEach(q.requestId)
    BY LinesAre
  <1>3. \A r \in {p, q} :
           /\ FromExpiration(r) \in Text /\ Starting(FromExpiration(r))
           /\ FromNotBefore(r) \in Text /\ Starting(FromNotBefore(r))
           /\ FromRequest(r) \in Text /\ Starting(FromRequest(r))
           /\ ResourceLines(r) \in Text /\ Starting(ResourceLines(r))
    BY EndingIs, ResourceLinesAre
  <1>4. \A r \in {p, q} :
           /\ "Expiration Time: " \notin Heads(FromNotBefore(r))
           /\ "Not Before: " \notin Heads(FromRequest(r))
           /\ "Request ID: " \notin Heads(ResourceLines(r))
    <2> TAKE r \in {p, q}
    <2>1. /\ Heads(ResourceLines(r)) \subseteq {"Resources:", "- ", LineBreak}
          /\ Heads(FromRequest(r)) \subseteq {"Request ID: ", "Resources:", "- ", LineBreak}
          /\ Heads(FromNotBefore(r))
                \subseteq {"Not Before: ", "Request ID: ", "Resources:", "- ", LineBreak}
      BY EndingIs, ResourceLinesAre
    <2> QED
      BY <2>1 DEF LineBreak
  <1>5. p.iat = q.iat /\ FromExpiration(p) = FromExpiration(q)
    BY <1>1, <1>2, <1>3, FirstLine DEF FromIssuedAt
  <1>6. p.exp = q.exp /\ FromNotBefore(p) = FromNotBefore(q)
    <2>1. /\ p.exp \in OptionOf(Text) /\ OneLineEach(p.exp)
          /\ q.exp \in OptionOf(Text) /\ OneLineEach(q.exp) /\ "Expiration Time: " \in Labels
      BY <1>1, <1>2, LabelsAre
    <2>2. /\ FromNotBefore(p) \in Text /\ Starting(FromNotBefore(p)) /\ "Expiration Time: " \notin Heads(FromNotBefore(p))
          /\ FromNotBefore(q) \in Text /\ Starting(FromNotBefore(q)) /\ "Expiration Time: " \notin Heads(FromNotBefore(q))
      BY <1>3, <1>4
    <2>3. SameOptional("Expiration Time: ", p.exp, FromNotBefore(p), q.exp, FromNotBefore(q))
      BY <1>5 DEF SameOptional, FromExpiration
    <2> QED
      BY ONLY <2>1, <2>2, <2>3, AreSameOptional
  <1>7. p.nbf = q.nbf /\ FromRequest(p) = FromRequest(q)
    <2>1. /\ p.nbf \in OptionOf(Text) /\ OneLineEach(p.nbf)
          /\ q.nbf \in OptionOf(Text) /\ OneLineEach(q.nbf) /\ "Not Before: " \in Labels
      BY <1>1, <1>2, LabelsAre
    <2>2. /\ FromRequest(p) \in Text /\ Starting(FromRequest(p)) /\ "Not Before: " \notin Heads(FromRequest(p))
          /\ FromRequest(q) \in Text /\ Starting(FromRequest(q)) /\ "Not Before: " \notin Heads(FromRequest(q))
      BY <1>3, <1>4
    <2>3. SameOptional("Not Before: ", p.nbf, FromRequest(p), q.nbf, FromRequest(q))
      BY <1>6 DEF SameOptional, FromNotBefore
    <2> QED
      BY ONLY <2>1, <2>2, <2>3, AreSameOptional
  <1>8. p.requestId = q.requestId /\ ResourceLines(p) = ResourceLines(q)
    <2>1. /\ p.requestId \in OptionOf(Text) /\ OneLineEach(p.requestId)
          /\ q.requestId \in OptionOf(Text) /\ OneLineEach(q.requestId) /\ "Request ID: " \in Labels
      BY <1>1, <1>2, LabelsAre
    <2>2. /\ ResourceLines(p) \in Text /\ Starting(ResourceLines(p)) /\ "Request ID: " \notin Heads(ResourceLines(p))
          /\ ResourceLines(q) \in Text /\ Starting(ResourceLines(q)) /\ "Request ID: " \notin Heads(ResourceLines(q))
      BY <1>3, <1>4
    <2>3. SameOptional("Request ID: ", p.requestId, ResourceLines(p), q.requestId, ResourceLines(q))
      BY <1>7 DEF SameOptional, FromRequest
    <2> QED
      BY ONLY <2>1, <2>2, <2>3, AreSameOptional
  <1> QED
    BY <1>5, <1>6, <1>7, <1>8, SameResources

LEMMA MessageIsReadOneWay ==
    ASSUME NEW p \in Payloads, NEW q \in Payloads, SameMessage(p, q), Unbroken(p), Unbroken(q)
    PROVE  SaysTheSame(p, q)
  <1>1. BindsTheSame(p, q) /\ FromIssuedAt(p) = FromIssuedAt(q)
    BY SameLines
  <1>2. p.domain = q.domain /\ Address(p) = Address(q) /\ p.statement = q.statement
    BY SameTop
  <1>3. /\ p.iat = q.iat /\ p.exp = q.exp /\ p.nbf = q.nbf /\ p.requestId = q.requestId
        /\ Listed(p) = Listed(q)
    BY <1>1, SameEnding
  <1> QED
    BY <1>1, <1>2, <1>3 DEF SaysTheSame, BindsTheSame
-----------------------------------------------------------------------------
(* The first resource, when but one of the payloads has no line break.     *)
Dated(p) == p.iat \o Optional("Expiration Time: ", p.exp)
            \o Optional("Not Before: ", p.nbf) \o Optional("Request ID: ", p.requestId)

LEMMA DatedIs ==
    ASSUME NEW p \in Payloads
    PROVE  /\ Dated(p) \in Text /\ FromIssuedAt(p) = Dated(p) \o ResourceLines(p)
           /\ Unbroken(p) => "Resources:" \notin Heads(Dated(p))
  <1> DEFINE a == Optional("Expiration Time: ", p.exp)
             b == Optional("Not Before: ", p.nbf)
             c == Optional("Request ID: ", p.requestId)
             r == ResourceLines(p)
  <1>1. /\ p.iat \in Text /\ p.exp \in OptionOf(Text)
        /\ p.nbf \in OptionOf(Text) /\ p.requestId \in OptionOf(Text)
    BY FieldsAre
  <1>2. a \in Text /\ b \in Text /\ c \in Text /\ r \in Text
    BY <1>1, LabelsAre, OptionalIs, ResourceLinesAre
  <1>3. RegroupedFour(p.iat, a, b, c, r) /\ RegroupedThree(p.iat, a, b, c)
    <2> HIDE DEF a, b, c, r
    <2> QED
      BY <1>1, <1>2, AreRegroupedFour, AreRegroupedThree
  <1>4. Dated(p) \in Text /\ Dated(p) = p.iat \o (a \o (b \o c))
    BY <1>3, Zenon DEF RegroupedThree, Dated
  <1>5. FromIssuedAt(p) = Dated(p) \o r
    BY <1>3, Zenon DEF RegroupedFour, Dated, FromIssuedAt, FromExpiration, FromNotBefore,
                       FromRequest
  <1>6. ASSUME Unbroken(p) PROVE "Resources:" \notin Heads(Dated(p))
    <2>1. /\ OneLine(p.iat) /\ OneLineEach(p.exp) /\ OneLineEach(p.nbf)
          /\ OneLineEach(p.requestId)
      BY <1>6, LinesAre
    <2>2. <<>> \in Text /\ Starting(<<>>) /\ Heads(<<>>) = {}
      BY EmptyText, NoHeads DEF Starting
    <2>3. c \o <<>> \in Text /\ Starting(c \o <<>>) /\ Heads(c \o <<>>) \subseteq {"Request ID: "}
      BY <1>1, <2>1, <2>2, LabelsAre, OptionalStarts
    <2>4. c \in Text /\ Starting(c) /\ Heads(c) \subseteq {"Request ID: "}
      <3> HIDE DEF c
      <3> QED
        BY <1>2, <2>3, WithNothing
    <2>5. /\ b \o c \in Text /\ Starting(b \o c)
          /\ Heads(b \o c) \subseteq {"Not Before: "} \cup Heads(c)
      <3> HIDE DEF c
      <3> QED
        BY <1>1, <2>1, <2>4, LabelsAre, OptionalStarts
    <2> DEFINE d == b \o c
    <2>6. /\ a \o d \in Text /\ Starting(a \o d)
          /\ Heads(a \o d) \subseteq {"Expiration Time: "} \cup Heads(d)
      <3> HIDE DEF d
      <3>1. d \in Text /\ Starting(d)
        BY <2>5 DEF d
      <3> QED
        BY <1>1, <2>1, <3>1, LabelsAre, OptionalStarts
    <2>7. Heads(p.iat \o (a \o d)) = Heads(a \o d)
      <3> HIDE DEF a, d
      <3> QED
        BY <1>1, <2>1, <2>6, LineHeads
    <2>8. Heads(Dated(p)) \subseteq {"Expiration Time: ", "Not Before: ", "Request ID: "}
      <3>1. Heads(Dated(p)) = Heads(a \o d)
        BY <1>4, <2>7
      <3> HIDE DEF d
      <3>2. Heads(d) \subseteq {"Not Before: ", "Request ID: "}
        BY <2>4, <2>5 DEF d
      <3> QED
        BY <2>6, <3>1, <3>2
    <2> QED
      BY <2>8
  <1> QED
    BY <1>4, <1>5, <1>6

LEMMA MarkIsHead ==
    ASSUME NEW v \in Text, NEW l \in Labels, NEW r \in Text
    PROVE  l \in Heads(v \o (Mark(l) \o r))
  <1> DEFINE j == v \o (Mark(l) \o r)
             n == Len(v) + 1
  <1>1. Reads(j, v, l, r)
    BY AtomsAre, ReadsAs
  <1> HIDE DEF j
  <1>2. Len(v) \in Nat /\ Len(r) \in Nat
    BY TextIs
  <1>3. /\ j \in Text /\ n \in 1..Len(j) /\ n + 1 \in 1..Len(j)
        /\ j[n] = LineBreak /\ j[n + 1] = l
    <2>1. /\ j \in Text /\ Len(j) = Len(v) + 2 + Len(r)
          /\ j[Len(v) + 1] = LineBreak /\ j[Len(v) + 2] = l
      BY <1>1 DEF Reads
    <2>2. n + 1 = Len(v) + 2
      BY <1>2
    <2> QED
      BY <1>2, <2>1, <2>2
  <1> HIDE DEF n
  <1>4. l \in Heads(j)
    BY <1>3, HeadsAre
  <1> QED
    BY <1>4 DEF j

LEMMA SameFirstResource ==
    ASSUME NEW p \in Payloads, NEW q \in Payloads, Unbroken(p),
           FromIssuedAt(p) = FromIssuedAt(q), Listed(q) # <<>>, OneLine(Listed(q)[1])
    PROVE  Listed(p) # <<>> /\ Listed(p)[1] = Listed(q)[1]
  <1> DEFINE v == Dated(p)
             u == Dated(q)
             t == FlattenSeq(Items(Listed(q)))
  <1>1. /\ v \in Text /\ FromIssuedAt(p) = v \o ResourceLines(p) /\ "Resources:" \notin Heads(v)
        /\ u \in Text /\ FromIssuedAt(q) = u \o ResourceLines(q)
    BY DatedIs
  <1>2. t \in Text /\ ResourceLines(q) = Mark("Resources:") \o t
    BY ResourceLinesAre
  <1> HIDE DEF v, u, t
  <1>3. v \o ResourceLines(p) = u \o (Mark("Resources:") \o t)
    BY <1>1, <1>2
  <1>4. Listed(p) # <<>>
    <2> SUFFICES ASSUME Listed(p) = <<>> PROVE FALSE
      OBVIOUS
    <2>1. v \o ResourceLines(p) = v
      <3>1. ResourceLines(p) = <<>>
        BY ResourceLinesAre
      <3> QED
        BY <1>1, <3>1, WithNothing
    <2>2. "Resources:" \in Heads(u \o (Mark("Resources:") \o t))
      BY <1>1, <1>2, Dash, MarkIsHead
    <2> QED
      BY <1>1, <1>3, <2>1, <2>2
  <1> DEFINE s == FlattenSeq(Items(Listed(p)))
  <1>5. s \in Text /\ ResourceLines(p) = Mark("Resources:") \o s
    BY <1>4, ResourceLinesAre
  <1>6. /\ Listed(p) \in Seq(Text) /\ Listed(q) \in Seq(Text)
        /\ \A n \in 1..Len(Listed(p)) : OneLine(Listed(p)[n])
    BY FieldsAre, LinesAre
  <1>7. "Resources:" \notin Heads(s)
    <2>1. Heads(s) \subseteq {"- ", LineBreak}
      BY <1>4, <1>6, ItemHeads
    <2> QED
      BY <2>1 DEF LineBreak
  <1>8. s = t
    <2> HIDE DEF s
    <2>1. TwoReadings(v, s, u, t, "Resources:")
      BY <1>3, <1>5 DEF TwoReadings
    <2> QED
      BY <1>1, <1>2, <1>5, <1>7, <2>1, Dash, OneMark
  <1> DEFINE x == Listed(p)[1]
             y == Listed(q)[1]
             m == Mark("- ")
  <1>9. PICK a \in Text : Starting(a) /\ s = m \o (x \o a)
    BY <1>4, <1>6, FirstItem
  <1>10. PICK b \in Text : Starting(b) /\ t = m \o (y \o b)
    BY <1>6, FirstItem DEF t
  <1>11. x \in Text /\ y \in Text /\ OneLine(x) /\ OneLine(y) /\ m \in Text
    <2>1. \A list \in Seq(Text) : list # <<>> => 1 \in 1..Len(list)
      BY LenProperties, EmptySeq
    <2>2. 1 \in 1..Len(Listed(p)) /\ 1 \in 1..Len(Listed(q))
      BY <1>4, <1>6, <2>1
    <2>3. x \in Text /\ y \in Text
      BY <1>6, <2>2, ItemsAre
    <2> QED
      BY <1>6, <2>2, <2>3, AtomsAre, Dash, MarkIs
  <1> HIDE DEF s, x, y, m
  <1>12. x \o a \in Text /\ y \o b \in Text
    BY <1>9, <1>10, <1>11, BothAre
  <1>13. m \o (x \o a) = m \o (y \o b)
    BY <1>8, <1>9, <1>10
  <1>14. x \o a = y \o b
    BY <1>11, <1>12, <1>13, CancelBefore
  <1>15. x = y
    BY <1>9, <1>10, <1>11, <1>14, FirstLine
  <1> QED
    BY <1>4, <1>15 DEF x, y
-----------------------------------------------------------------------------
(* Every signed Cacao has the message of its payload, what is received has *)
(* the message and the signer of one that was signed, and what is found    *)
(* out is found out about what was received.                               *)
SignedInv ==
    \A c \in signed :
        /\ c.payload \in Payloads /\ c.header = "eip4361"
        /\ SiweMessage(c.payload) = Ok(c.signature.message)
        /\ c.signature.signer \in Wallets /\ c.signature.t = "eip191"
        /\ c.signature.form.hex /\ c.signature.form.scalars /\ c.signature.form.length = 65
        /\ c.signature.parity \in {0, 1}
        /\ c.signature.form.recovery \in {c.signature.parity, c.signature.parity + 27}

ReceivedInv ==
    received # NoCacao =>
        /\ received.payload \in Payloads
        /\ \E c \in signed : /\ received.signature.message = c.signature.message
                             /\ received.signature.signer = c.signature.signer

CacaoInv ==
    /\ SignedInv /\ ReceivedInv
    /\ verdict = Nothing \/ (received # NoCacao /\ verdict = VerifyCacao(received))
    /\ identity = Nothing \/ (verdict.ok /\ identity = ResolveIdentity(received.payload))

LEMMA MessageMade ==
    ASSUME NEW p, SiweMessage(p).ok
    PROVE  SiweMessage(p) = Ok(SiweMessage(p).value) /\ Address(p).ok /\ ChainId(p).ok
  BY DEF SiweMessage, Ok, Fails

LEMMA CacaoInvariant == CacaoSpec => []CacaoInv
  <1>1. CacaoInit => CacaoInv
    BY DEF CacaoInit, CacaoInv, SignedInv, ReceivedInv
  <1>2. CacaoInv /\ [CacaoNext]_cacaoVars => CacaoInv'
    <2> SUFFICES ASSUME CacaoInv, [CacaoNext]_cacaoVars PROVE CacaoInv'
      OBVIOUS
    <2>1. ASSUME NEW w \in Wallets, SignCacao(w) PROVE CacaoInv'
      <3>1. UNCHANGED <<received, verdict, identity>> /\ received = NoCacao
        BY <2>1 DEF SignCacao, CacaoInv, ReceivedInv
      <3>2. SignedInv'
        <4>1. PICK p \in Payloads, parity \in {0, 1}, form \in Signatures :
                /\ SiweMessage(p).ok
                /\ form.hex /\ form.scalars /\ form.length = 65
                /\ form.recovery \in {parity, parity + 27}
                /\ signed' = {[header |-> "eip4361", payload |-> p,
                               signature |-> [t |-> "eip191", signer |-> w, parity |-> parity,
                                              message |-> SiweMessage(p).value, form |-> form]]}
          BY <2>1 DEF SignCacao
        <4>2. SiweMessage(p) = Ok(SiweMessage(p).value)
          BY <4>1, MessageMade
        <4> DEFINE message == SiweMessage(p).value
        <4>3. ASSUME NEW c \in signed'
              PROVE  /\ c.payload = p /\ c.header = "eip4361" /\ c.signature.message = message
                     /\ c.signature.signer = w /\ c.signature.t = "eip191"
                     /\ c.signature.parity = parity /\ c.signature.form = form
          <5> HIDE DEF message
          <5>1. c = [header |-> "eip4361", payload |-> p,
                     signature |-> [t |-> "eip191", signer |-> w, parity |-> parity,
                                    message |-> message, form |-> form]]
            BY <4>1, <4>3 DEF message
          <5> QED
            BY <5>1
        <4> QED
          BY <4>1, <4>2, <4>3 DEF SignedInv
      <3> QED
        BY <3>1, <3>2 DEF CacaoInv, ReceivedInv
    <2>2. ASSUME NEW c \in signed, Receive(c) PROVE CacaoInv'
      <3>1. received = NoCacao /\ received' \in Arrivals(c) /\ UNCHANGED <<signed, verdict, identity>>
        BY <2>2 DEF Receive
      <3>2. /\ received'.payload \in Payloads
            /\ received'.signature.message = c.signature.message
            /\ received'.signature.signer = c.signature.signer
        BY <3>1 DEF Arrivals, CacaoInv, SignedInv
      <3>3. verdict = Nothing /\ identity = Nothing
        BY <3>1 DEF CacaoInv, Nothing
      <3> QED
        BY <3>1, <3>2, <3>3 DEF CacaoInv, SignedInv, ReceivedInv
    <2>3. CASE Verify
      <3>1. identity = Nothing
        BY <2>3 DEF Verify, CacaoInv, Nothing
      <3> QED
        BY <2>3, <3>1 DEF Verify, CacaoInv, SignedInv, ReceivedInv
    <2>4. CASE TakeIdentity
      BY <2>4 DEF TakeIdentity, CacaoInv, SignedInv, ReceivedInv
    <2>5. CASE UNCHANGED cacaoVars
      BY <2>5 DEF cacaoVars, CacaoInv, SignedInv, ReceivedInv
    <2> QED
      BY <2>1, <2>2, <2>3, <2>4, <2>5 DEF CacaoNext
  <1> QED
    BY <1>1, <1>2, PTL DEF CacaoSpec
-----------------------------------------------------------------------------
LEMMA AcceptedMeans ==
    ASSUME NEW c, VerifyCacao(c) = Ok(TRUE)
    PROVE  /\ SiweMessage(c.payload).ok
           /\ Recovered(c.signature, SiweMessage(c.payload).value) # Nobody
           /\ Recovered(c.signature, SiweMessage(c.payload).value)
                = AddressOf[Address(c.payload).value]
  <1>1. VerifyCacao(c).ok
    BY DEF Ok
  <1>2. c.header = "eip4361" /\ VerifySignature(c).ok
    BY <1>1 DEF VerifyCacao, Fails
  <1>3. /\ SiweMessage(c.payload).ok
        /\ VerifyEip191(c.signature, Address(c.payload).value,
                        SiweMessage(c.payload).value).ok
    BY <1>2 DEF VerifySignature, Fails
  <1> DEFINE m == SiweMessage(c.payload).value
             a == Address(c.payload).value
             s == c.signature
  <1>4. VerifyEip191(s, a, m).ok => SameAddress(s, a, m)
    <2> HIDE DEF m, a, s
    <2> QED
      BY DEF VerifyEip191, Fails
  <1> QED
    BY <1>3, <1>4 DEF SameAddress

(* What is accepted has the message that was signed, by the wallet of the  *)
(* address in it.                                                          *)
LEMMA AcceptedWasSigned ==
    ASSUME CacaoInv, verdict = Ok(TRUE)
    PROVE  \E c \in signed :
              /\ c.signature.signer = AddressOf[Address(received.payload).value]
              /\ SameMessage(c.payload, received.payload)
              /\ c.payload \in Payloads /\ received.payload \in Payloads
  <1> DEFINE m == SiweMessage(received.payload).value
  <1>1. received # NoCacao /\ VerifyCacao(received) = Ok(TRUE)
    BY DEF CacaoInv, Nothing, Ok
  <1>2. /\ SiweMessage(received.payload).ok
        /\ Recovered(received.signature, m) # Nobody
        /\ Recovered(received.signature, m) = AddressOf[Address(received.payload).value]
    BY <1>1, AcceptedMeans
  <1>3. m = received.signature.message
        /\ Recovered(received.signature, m) = received.signature.signer
    <2> HIDE DEF m
    <2> QED
      BY <1>2 DEF Recovered
  <1>4. PICK c \in signed : /\ received.signature.message = c.signature.message
                            /\ received.signature.signer = c.signature.signer
    BY <1>1 DEF CacaoInv, ReceivedInv
  <1>5. /\ c.payload \in Payloads /\ received.payload \in Payloads
        /\ SiweMessage(c.payload) = Ok(c.signature.message)
    BY <1>1 DEF CacaoInv, SignedInv, ReceivedInv
  <1>6. SiweMessage(received.payload) = Ok(m)
    BY <1>2, MessageMade
  <1>7. SiweMessage(c.payload) = SiweMessage(received.payload)
    BY <1>3, <1>4, <1>5, <1>6
  <1>8. SiweMessage(c.payload).ok /\ SiweMessage(c.payload).value = SiweMessage(received.payload).value
    BY <1>2, <1>7
  <1>9. SameMessage(c.payload, received.payload)
    <2> DEFINE p == c.payload
               q == received.payload
    <2>1. /\ p \in Payloads /\ SiweMessage(p).ok /\ q \in Payloads /\ SiweMessage(q).ok
          /\ SiweMessage(p).value = SiweMessage(q).value
      BY <1>2, <1>5, <1>8
    <2> HIDE DEF p, q
    <2>2. SameMessage(p, q)
      BY <2>1, MessageIs DEF SameMessage, TwoReadings
    <2> QED
      BY <2>2 DEF p, q
  <1> QED
    BY <1>2, <1>3, <1>4, <1>5, <1>9

LEMMA SameEitherWay ==
    ASSUME NEW p, NEW q, SameMessage(p, q)
    PROVE  SameMessage(q, p)
  BY DEF SameMessage, TwoReadings

(* A server only accepts a Cacao when the wallet of the address in it      *)
(* signed a message for it: for the same audience, chain and nonce if      *)
(* either payload has no line break in a field, and one that says the same *)
(* in every field if neither has (cacao.rs:72-133, signature.rs:34-66).    *)
THEOREM VerifiedWasSignedCorrect == CacaoSpec => []VerifiedWasSigned
  <1>1. CacaoInv => VerifiedWasSigned
    <2> SUFFICES ASSUME CacaoInv, verdict = Ok(TRUE) PROVE VerifiedWasSigned
      BY DEF VerifiedWasSigned
    <2> DEFINE q == received.payload
    <2>1. PICK c \in signed : /\ c.signature.signer = AddressOf[Address(q).value]
                              /\ SameMessage(c.payload, q)
                              /\ c.payload \in Payloads /\ q \in Payloads
      BY AcceptedWasSigned
    <2> DEFINE p == c.payload
    <2> HIDE DEF p, q
    <2>2. p \in Payloads /\ q \in Payloads /\ SameMessage(p, q) /\ SameMessage(q, p)
      BY <2>1, SameEitherWay DEF p
    <2>3. Unbroken(p) => BindsTheSame(p, q)
      BY <2>2, SameLines
    <2>4. Unbroken(q) => BindsTheSame(p, q)
      <3>1. Unbroken(q) => BindsTheSame(q, p)
        BY <2>2, SameLines
      <3> QED
        BY <3>1 DEF BindsTheSame
    <2>5. Unbroken(p) /\ Unbroken(q) => SaysTheSame(p, q)
      BY <2>2, MessageIsReadOneWay
    <2> QED
      BY <2>1, <2>3, <2>4, <2>5 DEF VerifiedWasSigned, p, q
  <1> QED
    BY <1>1, CacaoInvariant, PTL

(* A Cacao that a wallet signed for its own address is accepted, and no    *)
(* other that arrives as it was signed (cacao.rs:72-133,                   *)
(* signature.rs:34-66).                                                    *)
THEOREM SignedVerifiesCorrect == CacaoSpec => []SignedVerifies
  <1>1. CacaoInv => SignedVerifies
    <2> SUFFICES ASSUME CacaoInv, NEW c \in signed, received = c, verdict # Nothing
                 PROVE  verdict = Ok(TRUE)
                           <=> c.signature.signer = AddressOf[Address(c.payload).value]
      BY DEF SignedVerifies
    <2> DEFINE m == c.signature.message
               s == c.signature
               a == Address(c.payload).value
    <2>1. /\ c.header = "eip4361" /\ SiweMessage(c.payload) = Ok(m)
          /\ s.signer \in Wallets /\ s.t = "eip191"
          /\ s.form.hex /\ s.form.scalars /\ s.form.length = 65
          /\ s.parity \in {0, 1} /\ s.form.recovery \in {s.parity, s.parity + 27}
      BY DEF CacaoInv, SignedInv
    <2>2. verdict = VerifyCacao(c)
      BY DEF CacaoInv
    <2>3. SiweMessage(c.payload).ok /\ SiweMessage(c.payload).value = m
      <3> HIDE DEF m
      <3> QED
        BY <2>1 DEF Ok
    <2>4. verdict = VerifyEip191(s, a, m)
      BY <2>1, <2>2, <2>3 DEF VerifyCacao, VerifySignature
    <2>5. s.form.recovery % 27 = s.parity
      <3>1. \A n \in {0, 1} : n % 27 = n /\ (n + 27) % 27 = n
        OBVIOUS
      <3> QED
        BY <2>1, <3>1
    <2>6. Recovered(s, m) = s.signer /\ s.signer # Nobody
      BY <2>1, <2>5, CacaoAssumption DEF Recovered
    <2>7. SameAddress(s, a, m) <=> s.signer = AddressOf[a]
      <3> HIDE DEF s, a, m
      <3> QED
        BY <2>6 DEF SameAddress
    <2>8. s.form.recovery % 27 \in 0..3
      BY <2>1, <2>5
    <2>9. verdict = (IF SameAddress(s, a, m) THEN Ok(TRUE) ELSE Fails("verification"))
      <3>1. /\ s.form.hex /\ s.form.scalars
            /\ ~(s.form.length < 64) /\ ~(s.form.length < 65)
            /\ ~(s.form.recovery % 27 \notin 0..3)
        BY <2>1, <2>8
      <3> HIDE DEF s, a, m
      <3>2. VerifyEip191(s, a, m)
              = IF SameAddress(s, a, m) THEN Ok(TRUE) ELSE Fails("verification")
        BY <3>1, Zenon DEF VerifyEip191
      <3> QED
        BY <2>4, <3>2
    <2>10. Fails("verification") # Ok(TRUE)
      BY DEF Ok, Fails
    <2> HIDE DEF s, a, m
    <2>11. verdict = Ok(TRUE) <=> s.signer = AddressOf[a]
      BY <2>7, <2>9, <2>10
    <2> QED
      BY <2>11 DEF s, a
  <1> QED
    BY <1>1, CacaoInvariant, PTL
-----------------------------------------------------------------------------
LEMMA SequenceIs ==
    ASSUME NEW S, NEW m \in Nat, NEW d \in [1..m -> S]
    PROVE  d \in Seq(S) /\ Len(d) = m
  OBVIOUS

LEMMA BothIs ==
    ASSUME NEW S, NEW a \in Seq(S), NEW b \in Seq(S)
    PROVE  /\ a \o b \in Seq(S) /\ Len(a \o b) = Len(a) + Len(b)
           /\ \A n \in DOMAIN a : (a \o b)[n] = a[n]
           /\ \A n \in DOMAIN b : (a \o b)[n + Len(a)] = b[n]
  <1>1. a \o b \in Seq(S) /\ Len(a \o b) = Len(a) + Len(b)
    OBVIOUS
  <1>2. \A n \in DOMAIN a : (a \o b)[n] = a[n]
    OBVIOUS
  <1>3. \A n \in DOMAIN b : (a \o b)[n + Len(a)] = b[n]
    OBVIOUS
  <1> QED
    BY <1>1, <1>2, <1>3

LEMMA FourBefore ==
    ASSUME NEW S, NEW w \in S, NEW x \in S, NEW y \in S, NEW z \in S, NEW d \in Seq(S)
    PROVE  LET u == <<w, x, y, z>> \o d
           IN /\ u \in Seq(S) /\ Len(u) = 4 + Len(d)
              /\ u[1] = w /\ u[2] = x /\ u[3] = y /\ u[4] = z
              /\ \A n \in 1..Len(d) : u[n + 4] = d[n]
  <1> DEFINE h == <<w, x, y, z>>
             u == h \o d
  <1>1. h \in Seq(S) /\ Len(h) = 4
    OBVIOUS
  <1>2. h[1] = w /\ h[2] = x /\ h[3] = y /\ h[4] = z
    OBVIOUS
  <1> HIDE DEF h
  <1>3. /\ u \in Seq(S) /\ Len(u) = 4 + Len(d)
        /\ \A n \in 1..4 : u[n] = h[n]
        /\ \A n \in 1..Len(d) : u[n + 4] = d[n]
    <2>1. /\ u \in Seq(S) /\ Len(u) = Len(h) + Len(d)
          /\ \A n \in DOMAIN h : u[n] = h[n]
          /\ \A n \in DOMAIN d : u[n + Len(h)] = d[n]
      <3>1. u \in Seq(S) /\ Len(u) = Len(h) + Len(d)
        BY <1>1, BothIs
      <3>2. \A n \in DOMAIN h : u[n] = h[n]
        BY <1>1, BothIs
      <3>3. \A n \in DOMAIN d : u[n + Len(h)] = d[n]
        BY <1>1, BothIs
      <3> QED
        BY <3>1, <3>2, <3>3
    <2> HIDE DEF u
    <2>2. DOMAIN h = 1..4 /\ DOMAIN d = 1..Len(d)
      BY <1>1
    <2> QED
      BY <1>1, <2>1, <2>2
  <1> QED
    BY <1>2, <1>3 DEF h

LEMMA DidIs ==
    ASSUME NEW t \in Seq(STRING), ExtractDidData(t, "key").ok
    PROVE  LET data == ExtractDidData(t, "key").value
           IN /\ ExtractDidData(t, "key") = Ok(data)
              /\ data \in Seq(STRING) /\ t = CombineDidData("key", data)
  <1> DEFINE t1 == Tail(t)
             t2 == Tail(t1)
             t3 == Tail(t2)
             data == SubSeq(t, 5, Len(t))
  <1>1. /\ HasPrefix(t, "did") /\ HasPrefix(t1, ":")
        /\ HasPrefix(t2, "key") /\ HasPrefix(t3, ":")
        /\ ExtractDidData(t, "key") = Ok(data)
    BY DEF ExtractDidData, Fails
  <1>2. ExtractDidData(t, "key").value = data
    <2> HIDE DEF data
    <2> QED
      BY <1>1 DEF Ok
  <1>3. t # <<>> /\ t[1] = "did" /\ t1 \in Seq(STRING) /\ Len(t1) = Len(t) - 1
        /\ \A n \in 1..Len(t1) : t1[n] = t[n + 1]
    BY <1>1 DEF HasPrefix
  <1> HIDE DEF t1
  <1>4. t1 # <<>> /\ t1[1] = ":" /\ t2 \in Seq(STRING) /\ Len(t2) = Len(t1) - 1
        /\ \A n \in 1..Len(t2) : t2[n] = t1[n + 1]
    BY <1>1, <1>3 DEF HasPrefix
  <1> HIDE DEF t2
  <1>5. t2 # <<>> /\ t2[1] = "key" /\ t3 \in Seq(STRING) /\ Len(t3) = Len(t2) - 1
        /\ \A n \in 1..Len(t3) : t3[n] = t2[n + 1]
    BY <1>1, <1>4 DEF HasPrefix
  <1> HIDE DEF t3
  <1>6. t3 # <<>> /\ t3[1] = ":"
    BY <1>1 DEF HasPrefix
  <1>7. Len(t) \in Nat /\ Len(t1) \in Nat /\ Len(t2) \in Nat /\ Len(t3) \in Nat
        /\ Len(t3) # 0
    <2>1. Len(t) \in Nat /\ Len(t1) \in Nat /\ Len(t2) \in Nat /\ Len(t3) \in Nat
      BY <1>3, <1>4, <1>5
    <2>2. \A u \in Seq(STRING) : u # <<>> => Len(u) # 0
      OBVIOUS
    <2> QED
      BY <1>5, <1>6, <2>1, <2>2
  <1>8. Len(t) >= 4
    BY <1>3, <1>4, <1>5, <1>7
  <1>9. t[1] = "did" /\ t[2] = ":" /\ t[3] = "key" /\ t[4] = ":"
    <2>1. t1[1] = t[2] /\ t1[2] = t[3] /\ t1[3] = t[4]
      BY <1>3, <1>8
    <2>2. t2[1] = t1[2] /\ t2[2] = t1[3]
      BY <1>3, <1>4, <1>8
    <2>3. t3[1] = t2[2]
      BY <1>3, <1>4, <1>5, <1>8
    <2> QED
      BY <1>3, <1>4, <1>5, <1>6, <2>1, <2>2, <2>3
  <1>10. data \in Seq(STRING) /\ Len(data) = Len(t) - 4
         /\ \A n \in 1..Len(data) : data[n] = t[n + 4]
    <2>1. Len(t) \in Nat /\ Len(t) - 5 + 1 = Len(t) - 4 /\ Len(t) - 4 \in Nat
      BY <1>7, <1>8
    <2>2. \A n \in 5..Len(t) : t[n] \in STRING
      BY <2>1
    <2>3. data = [n \in 1..(Len(t) - 4) |-> t[n + 4]]
      BY <2>1
    <2>4. \A n \in 1..(Len(t) - 4) : n + 4 \in 5..Len(t)
      BY <2>1
    <2> HIDE DEF data
    <2>5. data \in [1..(Len(t) - 4) -> STRING] /\ \A n \in 1..(Len(t) - 4) : data[n] = t[n + 4]
      BY <2>2, <2>3, <2>4
    <2>6. data \in Seq(STRING) /\ Len(data) = Len(t) - 4
      <3> DEFINE m == Len(t) - 4
      <3>1. m \in Nat /\ data \in [1..m -> STRING]
        BY <2>1, <2>5
      <3> HIDE DEF m
      <3>2. data \in Seq(STRING) /\ Len(data) = m
        BY <3>1, SequenceIs
      <3> QED
        BY <3>2 DEF m
    <2> QED
      BY <2>5, <2>6
  <1> HIDE DEF data
  <1>11. t = CombineDidData("key", data)
    <2> DEFINE u == CombineDidData("key", data)
    <2>1. u \in Seq(STRING) /\ Len(u) = 4 + Len(data)
          /\ u[1] = "did" /\ u[2] = ":" /\ u[3] = "key" /\ u[4] = ":"
          /\ \A n \in 1..Len(data) : u[n + 4] = data[n]
      <3>1. "did" \in STRING /\ ":" \in STRING /\ "key" \in STRING
        <4>1. t[1] \in STRING /\ t[2] \in STRING /\ t[3] \in STRING
          BY <1>8
        <4> QED
          BY <4>1, <1>9
      <3> QED
        BY <1>10, <3>1, FourBefore DEF CombineDidData
    <2>2. \A n \in 1..Len(t) : u[n] = t[n]
      <3> HIDE DEF u
      <3> TAKE n \in 1..Len(t)
      <3>1. CASE n <= 4
        <4>1. n = 1 \/ n = 2 \/ n = 3 \/ n = 4
          BY <3>1, <1>8
        <4> QED
          BY <4>1, <2>1, <1>9
      <3>2. CASE n > 4
        <4>1. n - 4 \in 1..Len(data) /\ (n - 4) + 4 = n
          BY <3>2, <1>10
        <4> QED
          BY <4>1, <1>10, <2>1
      <3> QED
        BY <3>1, <3>2
    <2> HIDE DEF u
    <2>3. Len(u) = Len(t)
      BY <1>10, <2>1
    <2>4. u = t
      BY <2>1, <2>2, <2>3
    <2> QED
      BY <2>4 DEF u
  <1> QED
    BY <1>1, <1>2, <1>10, <1>11

(* A client id is read from what shows it, and from nothing else.          *)
LEMMA ClientIdIs ==
    ASSUME NEW t \in Seq(STRING), ParseClientId(t).ok
    PROVE  LET bytes == ParseClientId(t).value
           IN ParseClientId(t) = Ok(bytes) /\ t = ShowClientId(bytes)
  <1> DEFINE bytes == Base58[t[2]].bytes
             code == [length |-> Ed25519Length, header |-> TRUE, bytes |-> bytes]
  <1>1. /\ HasPrefix(t, "z") /\ Len(t) = 2 /\ t[2] \in DOMAIN Base58
        /\ ~(Base58[t[2]].length > Ed25519Length) /\ ~(Base58[t[2]].length < Ed25519Length)
        /\ Base58[t[2]].header /\ ParseClientId(t) = Ok(bytes)
    BY DEF ParseClientId, Fails
  <1>2. Base58[t[2]] \in [length : Nat, header : BOOLEAN, bytes : Bytes]
        /\ Ed25519Length \in Nat
    BY <1>1, ClientIdAssumption
  <1>3. Base58[t[2]] = code
    <2>1. Base58[t[2]].length = Ed25519Length /\ Base58[t[2]].header = TRUE
      BY <1>1, <1>2
    <2> QED
      BY <1>2, <2>1
  <1> HIDE DEF code
  <1>4. \A atom \in DOMAIN Base58 : Base58[atom] = code => atom = t[2]
    BY <1>1, <1>3, ClientIdAssumption
  <1>5. Encoded(bytes) = t[2]
    <2>1. Encoded(bytes) = CHOOSE atom \in DOMAIN Base58 : Base58[atom] = code
      BY DEF Encoded, code
    <2> QED
      BY <1>1, <1>3, <1>4, <2>1
  <1>6. ParseClientId(t).value = bytes
    <2> HIDE DEF bytes
    <2> QED
      BY <1>1 DEF Ok
  <1>7. t = <<"z", t[2]>>
    BY <1>1 DEF HasPrefix
  <1> QED
    BY <1>1, <1>5, <1>6, <1>7 DEF ShowClientId

LEMMA DidKeyIs ==
    ASSUME NEW t \in Seq(STRING), NEW data, NEW bytes,
           ExtractDidData(t, "key").ok, data = ExtractDidData(t, "key").value,
           ParseClientId(data).ok, bytes = ParseClientId(data).value
    PROVE  t = ToDidKey(bytes) /\ TryFromDidKey(t) = Ok(bytes)
  <1>1. /\ ExtractDidData(t, "key") = Ok(data)
        /\ data \in Seq(STRING) /\ t = CombineDidData("key", data)
    BY DidIs
  <1>2. ParseClientId(data) = Ok(bytes) /\ data = ShowClientId(bytes)
    BY <1>1, ClientIdIs
  <1> QED
    BY <1>1, <1>2 DEF ToDidKey, TryFromDidKey

LEMMA DidKeyIsOneLine ==
    ASSUME NEW t \in Text, ExtractDidData(t, "key").ok,
           ParseClientId(ExtractDidData(t, "key").value).ok
    PROVE  OneLine(t)
  <1> DEFINE data == ExtractDidData(t, "key").value
  <1>1. t \in Seq(STRING)
    BY DEF Text
  <1>2. data \in Seq(STRING) /\ t = CombineDidData("key", data)
    BY <1>1, DidIs
  <1>3. ParseClientId(data).ok
    OBVIOUS
  <1> HIDE DEF data
  <1>4. HasPrefix(data, "z") /\ Len(data) = 2 /\ data[2] \in DOMAIN Base58
    BY <1>3 DEF ParseClientId, Fails
  <1>5. data[1] = "z" /\ data[1] # LineBreak /\ data[2] # LineBreak
    <2>1. data[1] = "z"
      BY <1>4 DEF HasPrefix
    <2> QED
      BY <1>4, <2>1, LabelAssumption DEF LineBreak
  <1> DEFINE S == STRING \cup {"did", ":", "key"}
             u == <<"did", ":", "key", ":">> \o data
  <1>6. /\ Len(u) = 4 + Len(data)
        /\ u[1] = "did" /\ u[2] = ":" /\ u[3] = "key" /\ u[4] = ":"
        /\ \A n \in 1..Len(data) : u[n + 4] = data[n]
    <2>1. data \in Seq(S) /\ "did" \in S /\ ":" \in S /\ "key" \in S
      BY <1>2
    <2> HIDE DEF S
    <2> QED
      BY <2>1, FourBefore
  <1>7. t = u
    BY <1>2 DEF CombineDidData
  <1> HIDE DEF u
  <1>8. Len(u) = 6 /\ u[5] = data[1] /\ u[6] = data[2]
    <2>1. u[1 + 4] = data[1] /\ u[2 + 4] = data[2]
      BY <1>4, <1>6
    <2> QED
      BY <1>4, <1>6, <2>1
  <1>9. \A n \in 1..6 : u[n] # LineBreak
    <2>1. \A n \in 1..6 : n = 1 \/ n = 2 \/ n = 3 \/ n = 4 \/ n = 5 \/ n = 6
      OBVIOUS
    <2>2. "did" # LineBreak /\ ":" # LineBreak /\ "key" # LineBreak
      BY DEF LineBreak
    <2> QED
      BY <1>5, <1>6, <1>8, <2>1, <2>2
  <1> QED
    BY <1>7, <1>8, <1>9, OneLineIs

(* The key that a server takes from a Cacao is one that was named in what  *)
(* the wallet signed, in the audience or in the first resource, if that    *)
(* has no line break in a field; and its DID is written in only one way    *)
(* (payload.rs:76-97, domain.rs:99-195).                                   *)
THEOREM KeyWasNamedCorrect == CacaoSpec => []KeyWasNamed
  <1>1. CacaoInv => KeyWasNamed
    <2> SUFFICES ASSUME CacaoInv, identity.ok PROVE KeyWasNamed
      BY DEF KeyWasNamed
    <2> DEFINE q == received.payload
               k == IdentityKey(q).value
               bytes == ParseClientId(k).value
    <2>1. verdict.ok /\ identity = ResolveIdentity(q)
          /\ verdict = VerifyCacao(received)
      BY DEF CacaoInv, Nothing
    <2>2. verdict = Ok(TRUE)
      BY <2>1 DEF VerifyCacao, VerifySignature, VerifyEip191, Fails
    <2>3. PICK c \in signed : SameMessage(c.payload, q) /\ c.payload \in Payloads
                              /\ q \in Payloads
      BY <2>2, AcceptedWasSigned
    <2> DEFINE p == c.payload
    <2> SUFFICES ASSUME Unbroken(p)
                 PROVE  /\ TryFromDidKey(ToDidKey(identity.value)) = Ok(identity.value)
                        /\ IF ExtractDidData(p.aud, "key").ok
                           THEN p.aud = ToDidKey(identity.value)
                           ELSE /\ Listed(p) # <<>>
                                /\ Listed(p)[1] = ToDidKey(identity.value)
      BY DEF KeyWasNamed
    <2>4. /\ p.aud = q.aud /\ FromIssuedAt(p) = FromIssuedAt(q)
          /\ q.aud \in Text /\ Listed(q) \in Seq(Text)
      <3>1. BindsTheSame(p, q) /\ FromIssuedAt(p) = FromIssuedAt(q)
        <4> HIDE DEF p, q
        <4> QED
          BY <2>3, SameLines DEF p
      <3> QED
        BY <2>3, <3>1, FieldsAre DEF BindsTheSame
    <2>5. /\ IdentityKey(q).ok /\ ParseClientId(k).ok
          /\ AsPublicKey(bytes).ok /\ identity = AsPublicKey(bytes)
      <3>1. ResolveIdentity(q).ok
        BY <2>1
      <3> QED
        BY <2>1, <3>1 DEF ResolveIdentity
    <2>6. identity.value = bytes
      <3> HIDE DEF bytes
      <3> QED
        BY <2>5 DEF AsPublicKey, Ok, Fails
    <2>7. CASE ExtractDidData(q.aud, "key").ok
      <3>1. IdentityKey(q) = ExtractDidData(q.aud, "key")
        BY <2>7 DEF IdentityKey, IdentityKeyFromAudience
      <3> HIDE DEF q, k, bytes
      <3>2. k = ExtractDidData(q.aud, "key").value
        BY <3>1 DEF k
      <3>3. bytes = ParseClientId(k).value
        BY DEF bytes
      <3>4. q.aud = ToDidKey(bytes) /\ TryFromDidKey(q.aud) = Ok(bytes)
        BY <2>4, <2>5, <2>7, <3>2, <3>3, DidKeyIs DEF Text
      <3> QED
        BY <2>4, <2>6, <2>7, <3>4
    <2>8. CASE ~ExtractDidData(q.aud, "key").ok
      <3> DEFINE r == q.resources[1][1]
      <3>1. IdentityKey(q) = IdentityKeyFromResources(q)
        BY <2>8 DEF IdentityKey, IdentityKeyFromAudience
      <3>2. /\ q.resources # None /\ q.resources[1] # <<>>
            /\ ExtractDidData(r, "key").ok
            /\ IdentityKeyFromResources(q) = ExtractDidData(r, "key")
        <4> HIDE DEF q
        <4>1. IdentityKeyFromResources(q).ok
          BY <2>5, <3>1
        <4>2. q.resources # None /\ q.resources[1] # <<>>
          BY <4>1 DEF IdentityKeyFromResources, Fails
        <4>3. IdentityKeyFromResources(q) = IF ExtractDidData(r, "key").ok
                                            THEN ExtractDidData(r, "key")
                                            ELSE Fails("payloadIdentityKey")
          BY <4>2 DEF IdentityKeyFromResources
        <4>4. ~Fails("payloadIdentityKey").ok
          BY DEF Fails
        <4> QED
          BY <4>1, <4>2, <4>3, <4>4
      <3>3. Listed(q) # <<>> /\ Listed(q)[1] = r
        BY <3>2 DEF Listed
      <3> HIDE DEF p, q, k, bytes, r
      <3>4. r \in Text
        <4>1. 1 \in 1..Len(Listed(q))
          BY <2>4, <3>3, LenProperties, EmptySeq
        <4> QED
          BY <2>4, <3>3, <4>1, ItemsAre
      <3>5. k = ExtractDidData(r, "key").value
        BY <3>1, <3>2 DEF k
      <3>6. bytes = ParseClientId(k).value
        BY DEF bytes
      <3>7. r = ToDidKey(bytes) /\ TryFromDidKey(r) = Ok(bytes)
        BY <2>5, <3>2, <3>4, <3>5, <3>6, DidKeyIs DEF Text
      <3>8. OneLine(r)
        BY <2>5, <3>2, <3>4, <3>5, DidKeyIsOneLine
      <3>9. Listed(p) # <<>> /\ Listed(p)[1] = r
        BY <2>3, <2>4, <3>3, <3>8, SameFirstResource DEF p
      <3> QED
        BY <2>4, <2>6, <2>8, <3>7, <3>9
    <2> QED
      BY <2>7, <2>8
  <1> QED
    BY <1>1, CacaoInvariant, PTL
-----------------------------------------------------------------------------
(* What Encoded chooses is there, and decodes to the bytes.                *)
LEMMA EncodedDecodes ==
    ASSUME NEW bytes \in Bytes
    PROVE  /\ Encoded(bytes) \in DOMAIN Base58
           /\ Base58[Encoded(bytes)] = [length |-> Ed25519Length, header |-> TRUE, bytes |-> bytes]
  <1> DEFINE code == [length |-> Ed25519Length, header |-> TRUE, bytes |-> bytes]
  <1>1. \E atom \in DOMAIN Base58 : Base58[atom] = code
    BY ClientIdAssumption
  <1> HIDE DEF code
  <1>2. Encoded(bytes) = CHOOSE atom \in DOMAIN Base58 : Base58[atom] = code
    BY DEF Encoded, code
  <1>3. Encoded(bytes) \in DOMAIN Base58 /\ Base58[Encoded(bytes)] = code
    BY <1>1, <1>2
  <1> QED
    BY <1>3 DEF code

LEMMA ShownIsParsed ==
    ASSUME NEW bytes \in Bytes
    PROVE  ParseClientId(ShowClientId(bytes)) = Ok(bytes)
  <1> DEFINE atom == Encoded(bytes)
             t == <<"z", atom>>
             decoded == Base58[atom]
  <1>1. /\ atom \in DOMAIN Base58 /\ decoded.length = Ed25519Length
        /\ decoded.header = TRUE /\ decoded.bytes = bytes
    <2>1. /\ atom \in DOMAIN Base58
          /\ decoded = [length |-> Ed25519Length, header |-> TRUE, bytes |-> bytes]
      BY EncodedDecodes
    <2> HIDE DEF decoded
    <2> QED
      BY <2>1
  <1>2. t[2] = atom /\ Len(t) = 2 /\ HasPrefix(t, "z")
    BY DEF HasPrefix
  <1>3. ShowClientId(bytes) = t
    BY DEF ShowClientId
  <1>4. ~(Ed25519Length > Ed25519Length) /\ ~(Ed25519Length < Ed25519Length)
    BY ClientIdAssumption
  <1> HIDE DEF t, atom
  <1>5. ParseClientId(t) = Ok(decoded.bytes)
    BY <1>1, <1>2, <1>4 DEF ParseClientId
  <1> QED
    BY <1>1, <1>3, <1>5

(* Taking the first atom off a text.                                       *)
LEMMA TailIs ==
    ASSUME NEW S, NEW t \in Seq(S), Len(t) > 0
    PROVE  /\ Tail(t) \in Seq(S) /\ Len(Tail(t)) = Len(t) - 1
           /\ \A n \in 1..(Len(t) - 1) : Tail(t)[n] = t[n + 1]
  OBVIOUS

LEMMA KeyBefore ==
    ASSUME NEW S, {"did", ":", "key"} \subseteq S, NEW d \in Seq(S), Len(d) = 2
    PROVE  LET t == CombineDidData("key", d)
           IN /\ t \in Seq(S) /\ Len(t) = 6
              /\ t[1] = "did" /\ t[2] = ":" /\ t[3] = "key" /\ t[4] = ":"
              /\ t[5] = d[1] /\ t[6] = d[2]
  <1> DEFINE h == <<"did", ":", "key", ":">>
             t == h \o d
  <1>1. h \in Seq(S) /\ Len(h) = 4
    OBVIOUS
  <1>2. h[1] = "did" /\ h[2] = ":" /\ h[3] = "key" /\ h[4] = ":"
    OBVIOUS
  <1>3. CombineDidData("key", d) = t
    BY DEF CombineDidData
  <1> HIDE DEF h
  <1>4. t \in Seq(S) /\ Len(t) = Len(h) + Len(d)
    BY <1>1, BothIs
  <1>5. \A n \in DOMAIN h : t[n] = h[n]
    BY <1>1, BothIs
  <1>6. \A n \in DOMAIN d : t[n + Len(h)] = d[n]
    BY <1>1, BothIs
  <1> HIDE DEF t
  <1>7. DOMAIN h = 1..4 /\ DOMAIN d = 1..2
    BY <1>1
  <1>8. t[1] = "did" /\ t[2] = ":" /\ t[3] = "key" /\ t[4] = ":"
    BY <1>2, <1>5, <1>7
  <1>9. t[1 + 4] = d[1] /\ t[2 + 4] = d[2]
    BY <1>1, <1>6, <1>7
  <1>10. t[5] = d[1] /\ t[6] = d[2]
    BY <1>9
  <1> QED
    BY <1>1, <1>3, <1>4, <1>8, <1>10

LEMMA CombinedIsExtracted ==
    ASSUME NEW w, NEW v
    PROVE  ExtractDidData(CombineDidData("key", <<w, v>>), "key") = Ok(<<w, v>>)
  <1> DEFINE S == {"did", ":", "key", w, v}
             d == <<w, v>>
             t == CombineDidData("key", d)
             t1 == Tail(t)
             t2 == Tail(t1)
             t3 == Tail(t2)
  <1>1. d \in Seq(S) /\ Len(d) = 2 /\ {"did", ":", "key"} \subseteq S
    OBVIOUS
  <1> HIDE DEF d, S
  <1>2. /\ t \in Seq(S) /\ Len(t) = 6
        /\ t[1] = "did" /\ t[2] = ":" /\ t[3] = "key" /\ t[4] = ":"
        /\ t[5] = d[1] /\ t[6] = d[2]
    BY <1>1, KeyBefore
  <1> HIDE DEF t
  <1>3. t1 \in Seq(S) /\ Len(t1) = 5 /\ \A n \in 1..5 : t1[n] = t[n + 1]
    <2>1. Len(t) > 0
      BY <1>2
    <2>2. /\ t1 \in Seq(S) /\ Len(t1) = Len(t) - 1
          /\ \A n \in 1..(Len(t) - 1) : t1[n] = t[n + 1]
      BY <1>2, <2>1, TailIs
    <2> HIDE DEF t1
    <2> QED
      BY <1>2, <2>2
  <1> HIDE DEF t1
  <1>4. t1[1] = ":" /\ t1[2] = "key" /\ t1[3] = ":"
    <2>1. t1[1] = t[1 + 1] /\ t1[2] = t[2 + 1] /\ t1[3] = t[3 + 1]
      BY <1>3
    <2> QED
      BY <1>2, <2>1
  <1>5. t2 \in Seq(S) /\ Len(t2) = 4 /\ \A n \in 1..4 : t2[n] = t1[n + 1]
    <2>1. Len(t1) > 0
      BY <1>3
    <2>2. /\ t2 \in Seq(S) /\ Len(t2) = Len(t1) - 1
          /\ \A n \in 1..(Len(t1) - 1) : t2[n] = t1[n + 1]
      BY <1>3, <2>1, TailIs
    <2> HIDE DEF t2
    <2> QED
      BY <1>3, <2>2
  <1> HIDE DEF t2
  <1>6. t2[1] = "key" /\ t2[2] = ":"
    <2>1. t2[1] = t1[1 + 1] /\ t2[2] = t1[2 + 1]
      BY <1>5
    <2> QED
      BY <1>4, <2>1
  <1>7. t3 \in Seq(S) /\ Len(t3) = 3 /\ t3[1] = ":"
    <2>1. t3 \in Seq(S) /\ Len(t3) = 3 /\ \A n \in 1..3 : t3[n] = t2[n + 1]
      <3>1. Len(t2) > 0
        BY <1>5
      <3>2. /\ t3 \in Seq(S) /\ Len(t3) = Len(t2) - 1
            /\ \A n \in 1..(Len(t2) - 1) : t3[n] = t2[n + 1]
        BY <1>5, <3>1, TailIs
      <3> HIDE DEF t3
      <3> QED
        BY <1>5, <3>2
    <2> HIDE DEF t3
    <2>2. t3[1] = t2[1 + 1]
      BY <2>1
    <2> QED
      BY <1>6, <2>1, <2>2
  <1> HIDE DEF t3
  <1>8. SubSeq(t, 5, Len(t)) = d
    <2>1. SubSeq(t, 5, 6) = [n \in 1..2 |-> t[n + 4]]
      BY <1>2
    <2>2. t[1 + 4] = d[1] /\ t[2 + 4] = d[2]
      BY <1>2
    <2>3. \A n \in 1..2 : t[n + 4] = d[n]
      BY <2>2
    <2>4. d = [n \in 1..2 |-> d[n]]
      BY <1>1
    <2> QED
      BY <1>2, <2>1, <2>3, <2>4
  <1>9. HasPrefix(t, "did") /\ HasPrefix(t1, ":") /\ HasPrefix(t2, "key") /\ HasPrefix(t3, ":")
    <2>1. Len(t) > 0 /\ Len(t1) > 0 /\ Len(t2) > 0 /\ Len(t3) > 0
      BY <1>2, <1>3, <1>5, <1>7
    <2>2. \A u \in Seq(S) : Len(u) > 0 => u # <<>>
      OBVIOUS
    <2>3. t # <<>> /\ t1 # <<>> /\ t2 # <<>> /\ t3 # <<>>
      BY <1>2, <1>3, <1>5, <1>7, <2>1, <2>2
    <2> QED
      BY <1>2, <1>4, <1>6, <1>7, <2>3 DEF HasPrefix
  <1>10. ExtractDidData(t, "key") = Ok(SubSeq(t, 5, Len(t)))
    BY <1>9 DEF ExtractDidData, t1, t2, t3
  <1> QED
    BY <1>8, <1>10 DEF t, d

(* A client id and its did:key are one text each: what DecodedClientId and *)
(* DidKey show of a key is read back to that key, and no other text is     *)
(* read as it (domain.rs:85-195, did.rs:20-49).                            *)
THEOREM ClientIdsReadBack ==
    /\ \A bytes \in Bytes :
          /\ ParseClientId(ShowClientId(bytes)) = Ok(bytes)
          /\ TryFromDidKey(ToDidKey(bytes)) = Ok(bytes)
    /\ \A t \in Seq(STRING) :
          /\ ParseClientId(t).ok => t = ShowClientId(ParseClientId(t).value)
          /\ TryFromDidKey(t).ok => t = ToDidKey(TryFromDidKey(t).value)
  <1>1. ASSUME NEW bytes \in Bytes
        PROVE  /\ ParseClientId(ShowClientId(bytes)) = Ok(bytes)
               /\ TryFromDidKey(ToDidKey(bytes)) = Ok(bytes)
    <2> DEFINE data == ShowClientId(bytes)
               taken == ExtractDidData(CombineDidData("key", data), "key")
    <2>1. ParseClientId(data) = Ok(bytes)
      BY ShownIsParsed
    <2>2. taken = Ok(data)
      BY CombinedIsExtracted DEF ShowClientId
    <2> HIDE DEF data
    <2>3. taken.ok /\ taken.value = data
      BY <2>2 DEF Ok
    <2>4. TryFromDidKey(ToDidKey(bytes)) = IF taken.ok THEN ParseClientId(taken.value) ELSE taken
      BY DEF TryFromDidKey, ToDidKey, data
    <2> HIDE DEF taken
    <2>5. TryFromDidKey(ToDidKey(bytes)) = Ok(bytes)
      BY <2>1, <2>3, <2>4
    <2> QED
      BY <2>1, <2>5 DEF data
  <1>2. ASSUME NEW t \in Seq(STRING), ParseClientId(t).ok
        PROVE  t = ShowClientId(ParseClientId(t).value)
    BY <1>2, ClientIdIs
  <1>3. ASSUME NEW t \in Seq(STRING), TryFromDidKey(t).ok
        PROVE  t = ToDidKey(TryFromDidKey(t).value)
    <2> DEFINE data == ExtractDidData(t, "key")
    <2>1. TryFromDidKey(t) = IF data.ok THEN ParseClientId(data.value) ELSE data
      BY DEF TryFromDidKey
    <2> HIDE DEF data
    <2>2. data.ok /\ TryFromDidKey(t) = ParseClientId(data.value)
      BY <1>3, <2>1
    <2> QED
      BY <1>3, <2>2, DidKeyIs DEF data
  <1> QED
    BY <1>1, <1>2, <1>3
=============================================================================

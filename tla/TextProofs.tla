------------------------------ MODULE TextProofs -------------------------------
(***************************************************************************)
(* How messages and reports are cut into fields, for texts of any length    *)
(* over any characters: explode yields the fields, and what follows from    *)
(* that for the order feed (OrderWire) and for logins (Messages).           *)
(*                                                                         *)
(* The loop of explode is a recursive function; what holds after every      *)
(* character is shown by induction over sets of numbers (Upwards).          *)
(***************************************************************************)
EXTENDS OrderWire, Messages, SequenceTheorems, FiniteSetTheorems, WellFoundedInduction, TLAPS

-----------------------------------------------------------------------------
(* Numbers *)

(* A nonempty set of naturals has a least element. *)
LEMMA Least ==
  ASSUME NEW N \in SUBSET Nat, N # {}
  PROVE  \E m \in N : \A k \in N : m <= k
<1>1. PICK m \in N : \A k \in N : ~(<<k, m>> \in OpToRel(<, Nat))
  BY NatLessThanWellFounded, WFMin, Zenon
<1>2. ASSUME NEW k \in N PROVE m <= k
  <2>1. ~(<<k, m>> \in OpToRel(<, Nat)) BY <1>1
  <2>2. k \in Nat /\ m \in Nat OBVIOUS
  <2>3. ~(k < m) BY <2>1, <2>2 DEF OpToRel
  <2> QED BY <2>2, <2>3
<1> QED BY <1>2

(* Induction up to n, over the set of the numbers something holds of. *)
LEMMA Upwards ==
  ASSUME NEW n \in Nat, NEW G, 0 \in G, \A k \in 0..(n - 1) : k \in G => k + 1 \in G
  PROVE  \A k \in 0..n : k \in G
<1> DEFINE bad == (0..n) \ G
<1> SUFFICES ASSUME bad # {} PROVE FALSE OBVIOUS
<1>1. PICK m \in bad : \A k \in bad : m <= k
  <2>1. bad \in SUBSET Nat OBVIOUS
  <2> HIDE DEF bad
  <2> QED BY <2>1, Least
<1>2. m \in 0..n /\ m \notin G OBVIOUS
<1>3. m # 0 BY <1>2
<1>4. m - 1 \in 0..(n - 1) /\ (m - 1) + 1 = m BY <1>2, <1>3
<1>5. m - 1 \in G
  <2>1. m - 1 \notin bad BY <1>1, <1>4
  <2> QED BY <1>4, <2>1
<1> QED BY <1>2, <1>4, <1>5

-----------------------------------------------------------------------------
(* The loop of explode *)

Start == [v |-> <<>>, buff |-> <<>>]

(* The recursive function is what its definition says. *)
LEMMA Reads ==
  ASSUME NEW S, NEW s \in Seq(S), NEW c
  PROVE  /\ Reading(s, c)[0] = Start
         /\ \A n \in 1..Len(s) : Reading(s, c)[n] = Turn(Reading(s, c)[n - 1], s[n], c)
<1> DEFINE loop(g, k) == [n \in 0..k |-> IF n = 0 THEN [v |-> <<>>, buff |-> <<>>]
                                         ELSE Turn(g[n - 1], s[n], c)]
           G == {k \in 0..Len(s) : \E g : g = loop(g, k)}
<1>1. Len(s) \in Nat BY LenProperties
<1>2. 0 \in G
  <2> DEFINE g == [n \in 0..0 |-> [v |-> <<>>, buff |-> <<>>]]
  <2>1. g = loop(g, 0) OBVIOUS
  <2> HIDE DEF g
  <2> QED BY <1>1, <2>1
<1>3. ASSUME NEW k \in 0..(Len(s) - 1), k \in G PROVE k + 1 \in G
  <2>1. PICK g : g = loop(g, k) BY <1>3
  <2>2. PICK h : h = loop(g, k + 1) OBVIOUS
  <2>3. ASSUME NEW n \in 1..(k + 1) PROVE h[n - 1] = g[n - 1]
    <3>1. n - 1 \in 0..k /\ n - 1 \in 0..(k + 1) BY <1>1
    <3>2. loop(g, k)[n - 1] = loop(g, k + 1)[n - 1] BY <3>1
    <3> HIDE DEF loop
    <3> QED BY <2>1, <2>2, <3>2
  <2>4. h = loop(h, k + 1)
    <3>1. ASSUME NEW n \in 0..(k + 1), n # 0 PROVE h[n - 1] = g[n - 1]
      BY <1>1, <2>3, <3>1
    <3>2. loop(g, k + 1) = loop(h, k + 1) BY <3>1
    <3> HIDE DEF loop
    <3> QED BY <2>2, <3>2
  <2>5. k + 1 \in 0..Len(s) BY <1>1
  <2> HIDE DEF loop
  <2> QED BY <2>4, <2>5
<1>4. \E g : g = loop(g, Len(s))
  <2>1. Len(s) \in 0..Len(s) BY <1>1
  <2>2. Len(s) \in G
    <3> HIDE DEF G
    <3> QED BY <1>1, <1>2, <1>3, <2>1, Upwards
  <2> HIDE DEF loop
  <2> QED BY <2>2
<1>5. Reading(s, c) = CHOOSE g : g = loop(g, Len(s))
  BY DEF Reading
<1>6. Reading(s, c) = loop(Reading(s, c), Len(s))
  <2> HIDE DEF loop
  <2> QED BY <1>4, <1>5
<1> DEFINE R == Reading(s, c)
<1> HIDE DEF R
<1>7. R = loop(R, Len(s)) BY <1>6 DEF R
<1>8. R[0] = Start
  <2>1. loop(R, Len(s))[0] = Start BY <1>1 DEF Start
  <2> HIDE DEF loop
  <2> QED BY <1>7, <2>1
<1>9. ASSUME NEW n \in 1..Len(s) PROVE R[n] = Turn(R[n - 1], s[n], c)
  <2>1. loop(R, Len(s))[n] = Turn(R[n - 1], s[n], c) BY <1>1
  <2> HIDE DEF loop
  <2> QED BY <1>7, <2>1
<1> QED BY <1>8, <1>9 DEF R

-----------------------------------------------------------------------------
(* What the loop holds *)

Piece(S, c) == {f \in Seq(S) : \A i \in 1..Len(f) : f[i] # c}
Field(S, c) == Piece(S, c) \ {<<>>}

LEMMA PushType ==
  ASSUME NEW S, NEW c, NEW v \in Seq(Field(S, c)), NEW buff \in Piece(S, c)
  PROVE  /\ PushField(v, buff) \in Seq(Field(S, c))
         /\ buff = <<>> => PushField(v, buff) = v
         /\ buff # <<>> => /\ Len(PushField(v, buff)) = Len(v) + 1
                           /\ PushField(v, buff)[Len(v) + 1] = buff
                           /\ \A k \in 1..Len(v) : PushField(v, buff)[k] = v[k]
<1>1. CASE buff = <<>> BY <1>1 DEF PushField
<1>2. CASE buff # <<>>
  <2>1. buff \in Field(S, c) BY <1>2 DEF Field
  <2> QED BY <1>2, <2>1, AppendProperties DEF PushField
<1> QED BY <1>1, <1>2

LEMMA PieceGrows ==
  ASSUME NEW S, NEW c, NEW buff \in Piece(S, c), NEW x \in S, x # c
  PROVE  Append(buff, x) \in Field(S, c)
<1>1. buff \in Seq(S) /\ \A i \in 1..Len(buff) : buff[i] # c BY DEF Piece
<1>2. /\ Append(buff, x) \in Seq(S) /\ Append(buff, x) # <<>>
      /\ Len(Append(buff, x)) = Len(buff) + 1
      /\ \A i \in 1..Len(buff) : Append(buff, x)[i] = buff[i]
      /\ Append(buff, x)[Len(buff) + 1] = x
  BY <1>1, AppendProperties
<1>3. Len(buff) \in Nat BY <1>1, LenProperties
<1>4. \A i \in 1..Len(Append(buff, x)) : Append(buff, x)[i] # c BY <1>1, <1>2, <1>3
<1> QED BY <1>2, <1>4 DEF Piece, Field

(* The loop holds whole fields, and a piece without separators. *)
LEMMA ReadingType ==
  ASSUME NEW S, NEW s \in Seq(S), NEW c, NEW n \in 0..Len(s)
  PROVE  /\ Reading(s, c)[n].v \in Seq(Field(S, c))
         /\ Reading(s, c)[n].buff \in Piece(S, c)
<1> DEFINE ok(m) == /\ Reading(s, c)[m].v \in Seq(Field(S, c))
                    /\ Reading(s, c)[m].buff \in Piece(S, c)
           G == {m \in 0..Len(s) : ok(m)}
<1>1. Len(s) \in Nat BY LenProperties
<1>2. <<>> \in Piece(S, c) BY DEF Piece
<1>3. 0 \in G
  <2>1. Reading(s, c)[0] = Start BY Reads
  <2>2. Reading(s, c)[0].v = <<>> /\ Reading(s, c)[0].buff = <<>> BY <2>1 DEF Start
  <2>3. <<>> \in Seq(Field(S, c)) OBVIOUS
  <2>4. ok(0) BY <1>2, <2>2, <2>3
  <2>5. 0 \in 0..Len(s) BY <1>1
  <2> HIDE DEF ok
  <2> QED BY <2>4, <2>5
<1>4. ASSUME NEW m \in 0..(Len(s) - 1), m \in G PROVE m + 1 \in G
  <2>1. m + 1 \in 1..Len(s) /\ m + 1 \in 0..Len(s) /\ (m + 1) - 1 = m BY <1>1
  <2>2. s[m + 1] \in S BY <2>1, ElementOfSeq
  <2>3. Reading(s, c)[m + 1] = Turn(Reading(s, c)[m], s[m + 1], c) BY <2>1, Reads
  <2>4. ok(m) BY <1>4
  <2>5. ok(m + 1)
    <3>1. CASE s[m + 1] # c
      <4>1. Append(Reading(s, c)[m].buff, s[m + 1]) \in Field(S, c) BY <2>2, <2>4, <3>1, PieceGrows
      <4> QED BY <2>3, <2>4, <3>1, <4>1 DEF Turn, Field
    <3>2. CASE s[m + 1] = c BY <1>2, <2>3, <2>4, <3>2, PushType DEF Turn
    <3> QED BY <3>1, <3>2
  <2> QED BY <2>1, <2>5
<1>5. n \in G
  <2> HIDE DEF G
  <2> QED BY <1>1, <1>3, <1>4, Upwards
<1> QED BY <1>5

(* explode yields fields: nonempty, and without separators. *)
LEMMA ExplodeType ==
  ASSUME NEW S, NEW s \in Seq(S), NEW c
  PROVE  explode(s, c) \in Seq(Field(S, c))
<1>1. Len(s) \in 0..Len(s) BY LenProperties
<1> QED BY <1>1, ReadingType, PushType DEF explode

(* What the loop holds after the first characters depends on these alone. *)
LEMMA ReadingFirst ==
  ASSUME NEW S, NEW s \in Seq(S), NEW t \in Seq(S), NEW c, NEW n \in 0..Len(s)
  PROVE  Reading(s \o t, c)[n] = Reading(s, c)[n]
<1> DEFINE G == {m \in 0..Len(s) : Reading(s \o t, c)[m] = Reading(s, c)[m]}
<1>1. /\ Len(s) \in Nat /\ Len(t) \in Nat /\ s \o t \in Seq(S)
      /\ Len(s \o t) = Len(s) + Len(t)
      /\ \A m \in 1..Len(s) : (s \o t)[m] = s[m]
  <2>1. Len(s) \in Nat /\ Len(t) \in Nat BY LenProperties
  <2> QED BY <2>1, ConcatProperties
<1>2. 0 \in G
  <2>1. Reading(s, c)[0] = Start BY Reads
  <2>2. Reading(s \o t, c)[0] = Start BY <1>1, Reads
  <2> QED BY <1>1, <2>1, <2>2
<1>3. ASSUME NEW m \in 0..(Len(s) - 1), m \in G PROVE m + 1 \in G
  <2>1. /\ m + 1 \in 1..Len(s) /\ m + 1 \in 0..Len(s) /\ (m + 1) - 1 = m
        /\ m + 1 \in 1..Len(s \o t)
    BY <1>1
  <2>2. Reading(s, c)[m + 1] = Turn(Reading(s, c)[m], s[m + 1], c) BY <2>1, Reads
  <2>3. Reading(s \o t, c)[m + 1] = Turn(Reading(s \o t, c)[m], (s \o t)[m + 1], c)
    BY <1>1, <2>1, Reads
  <2> QED BY <1>1, <1>3, <2>1, <2>2, <2>3
<1>4. n \in G
  <2> HIDE DEF G
  <2> QED BY <1>1, <1>2, <1>3, Upwards
<1> QED BY <1>4

(* The turns of the loop. *)
Turns(s, c) == \A n \in 0..(Len(s) - 1) :
  /\ s[n + 1] # c => /\ Reading(s, c)[n + 1].v = Reading(s, c)[n].v
                     /\ Reading(s, c)[n + 1].buff = Append(Reading(s, c)[n].buff, s[n + 1])
  /\ s[n + 1] = c => /\ Reading(s, c)[n + 1].v = PushField(Reading(s, c)[n].v, Reading(s, c)[n].buff)
                     /\ Reading(s, c)[n + 1].buff = <<>>

LEMMA ReadingStep ==
  ASSUME NEW S, NEW s \in Seq(S), NEW c
  PROVE  Turns(s, c)
<1> SUFFICES ASSUME NEW n \in 0..(Len(s) - 1)
             PROVE  /\ s[n + 1] # c => /\ Reading(s, c)[n + 1].v = Reading(s, c)[n].v
                                       /\ Reading(s, c)[n + 1].buff = Append(Reading(s, c)[n].buff, s[n + 1])
                    /\ s[n + 1] = c => /\ Reading(s, c)[n + 1].v = PushField(Reading(s, c)[n].v, Reading(s, c)[n].buff)
                                       /\ Reading(s, c)[n + 1].buff = <<>>
  BY DEF Turns
<1>1. Len(s) \in Nat BY LenProperties
<1>2. n + 1 \in 1..Len(s) /\ (n + 1) - 1 = n BY <1>1
<1>3. Reading(s, c)[n + 1] = Turn(Reading(s, c)[(n + 1) - 1], s[n + 1], c) BY <1>2, Reads
<1> QED BY <1>2, <1>3 DEF Turn

LEMMA ReadingStart ==
  ASSUME NEW S, NEW s \in Seq(S), NEW c
  PROVE  Reading(s, c)[0].v = <<>> /\ Reading(s, c)[0].buff = <<>>
<1>1. Reading(s, c)[0] = Start BY Reads
<1> QED BY <1>1 DEF Start

LEMMA AppendConcat ==
  ASSUME NEW S, NEW p \in Seq(S), NEW q \in Seq(S), NEW x \in S
  PROVE  p \o Append(q, x) = Append(p \o q, x)
<1>1. Append(q, x) = q \o <<x>> /\ Append(p \o q, x) = (p \o q) \o <<x>>
  BY ConcatProperties, AppendIsConcat
<1>2. <<x>> \in Seq(S) OBVIOUS
<1> QED BY <1>1, <1>2, ConcatAssociative

(* A text without separators is a single field. *)
LEMMA ExplodePlain ==
  ASSUME NEW S, NEW c, NEW f \in Field(S, c)
  PROVE  explode(f, c) = <<f>>
<1> DEFINE ok(m) == Reading(f, c)[m].v = <<>> /\ Reading(f, c)[m].buff = SubSeq(f, 1, m)
           G == {m \in 0..Len(f) : ok(m)}
<1>1. f \in Seq(S) /\ f # <<>> /\ \A i \in 1..Len(f) : f[i] # c BY DEF Field, Piece
<1>2. Len(f) \in Nat BY <1>1, LenProperties
<1>3. 0 \in G
  <2>1. SubSeq(f, 1, 0) = <<>> BY SubSeqEmpty
  <2>2. ok(0) BY <1>1, <2>1, ReadingStart
  <2> HIDE DEF ok
  <2> QED BY <1>2, <2>2
<1>4. ASSUME NEW m \in 0..(Len(f) - 1), m \in G PROVE m + 1 \in G
  <2>1. m + 1 \in 1..Len(f) /\ m + 1 \in 0..Len(f) /\ (m + 1) - 1 = m BY <1>2
  <2>2. f[m + 1] # c /\ f[m + 1] \in S BY <1>1, <2>1, ElementOfSeq
  <2>3. /\ Reading(f, c)[m + 1].v = Reading(f, c)[m].v
        /\ Reading(f, c)[m + 1].buff = Append(Reading(f, c)[m].buff, f[m + 1])
    BY <1>1, <2>2, ReadingStep DEF Turns
  <2>4. ok(m) BY <1>4
  <2>5. SubSeq(f, 1, m + 1) = Append(SubSeq(f, 1, m), f[m + 1])
    BY <1>1, <1>2, <2>1
  <2>6. ok(m + 1) BY <2>3, <2>4, <2>5
  <2> HIDE DEF ok
  <2> QED BY <2>1, <2>6
<1>5. Len(f) \in G
  <2>1. Len(f) \in 0..Len(f) BY <1>2
  <2> HIDE DEF G
  <2> QED BY <1>2, <1>3, <1>4, <2>1, Upwards
<1>6. ok(Len(f)) BY <1>5
<1>7. SubSeq(f, 1, Len(f)) = f BY <1>1, SubSeqFull
<1>8. explode(f, c) = PushField(<<>>, f) BY <1>6, <1>7 DEF explode
<1>9. Append(<<>>, f) = <<f>> OBVIOUS
<1> QED BY <1>1, <1>8, <1>9 DEF PushField

(* Two texts with a separator between them: the fields of the one, then of *)
(* the other.                                                              *)
LEMMA ExplodeJoin ==
  ASSUME NEW S, NEW x \in Seq(S), NEW y \in Seq(S), NEW c \in S, NEW d, d = <<c>>
  PROVE  explode((x \o d) \o y, c) = explode(x, c) \o explode(y, c)
<1> DEFINE xc == x \o d
           w == xc \o y
           B == Len(x) + 1
           P == explode(x, c)
           T == Seq(Field(S, c))
           ok(a) == /\ Reading(w, c)[B + a].v = P \o Reading(y, c)[a].v
                    /\ Reading(w, c)[B + a].buff = Reading(y, c)[a].buff
           G == {a \in 0..Len(y) : ok(a)}
<1>0. Len(x) \in Nat /\ Len(y) \in Nat BY LenProperties
<1>1. d \in Seq(S) /\ Len(d) = 1 /\ d[1] = c OBVIOUS
<1>2. xc \in Seq(S) /\ Len(xc) = B BY <1>1, ConcatProperties
<1>3. xc[B] = c
  <2>1. B \in 1..(Len(x) + Len(d)) /\ ~(B <= Len(x)) /\ B - Len(x) = 1 BY <1>0, <1>1
  <2>2. xc[B] = d[B - Len(x)] BY <1>1, <2>1, ConcatProperties
  <2> QED BY <1>1, <2>1, <2>2
<1>4. /\ w \in Seq(S) /\ Len(w) = B + Len(y)
      /\ \A a \in 1..Len(y) : w[B + a] = y[a]
  <2>1. w \in Seq(S) /\ Len(w) = B + Len(y) BY <1>2, ConcatProperties
  <2>2. ASSUME NEW a \in 1..Len(y) PROVE w[B + a] = y[a]
    <3>1. B + a \in 1..(Len(xc) + Len(y)) /\ ~(B + a <= Len(xc)) /\ (B + a) - Len(xc) = a
      BY <1>0, <1>2
    <3>2. w[B + a] = y[(B + a) - Len(xc)] BY <1>2, <3>1, ConcatProperties
    <3> QED BY <3>1, <3>2
  <2> QED BY <2>1, <2>2
<1>5. P \in T /\ \A a \in 0..Len(y) : Reading(y, c)[a].v \in T /\ Reading(y, c)[a].buff \in Piece(S, c)
  BY ExplodeType, ReadingType
<1>6. 0 \in G
  <2>1. Len(x) \in 0..Len(x) /\ Len(x) \in 0..Len(xc) /\ B \in 1..Len(xc) /\ B \in 0..Len(xc) /\ B - 1 = Len(x)
    BY <1>0, <1>2
  <2>2. Reading(xc, c)[Len(x)] = Reading(x, c)[Len(x)]
    <3>1. \A t \in Seq(S) : \A n \in 0..Len(x) : Reading(x \o t, c)[n] = Reading(x, c)[n]
      BY ReadingFirst
    <3> QED BY <1>1, <2>1, <3>1
  <2>3. Reading(xc, c)[B].v = P /\ Reading(xc, c)[B].buff = <<>>
    <3>1. Len(x) \in 0..(Len(xc) - 1) BY <1>0, <1>2
    <3> HIDE DEF xc
    <3>2. xc[Len(x) + 1] = c => /\ Reading(xc, c)[Len(x) + 1].v = PushField(Reading(xc, c)[Len(x)].v, Reading(xc, c)[Len(x)].buff)
                                /\ Reading(xc, c)[Len(x) + 1].buff = <<>>
      <4>1. Turns(xc, c) BY <1>2, ReadingStep
      <4> QED BY <3>1, <4>1 DEF Turns
    <3> QED BY <1>3, <2>2, <3>2 DEF explode
  <2>4. Reading(w, c)[B] = Reading(xc, c)[B]
    <3> HIDE DEF xc, B
    <3> QED BY <1>2, <2>1, ReadingFirst
  <2>5. Reading(y, c)[0].v = <<>> /\ Reading(y, c)[0].buff = <<>> BY ReadingStart
  <2>6. P \o <<>> = P BY <1>5, ConcatEmptySeq
  <2>7. B + 0 = B BY <1>0
  <2>8. ok(0)
    <3> HIDE DEF w, B, P
    <3> QED BY <2>3, <2>4, <2>5, <2>6, <2>7
  <2> HIDE DEF ok
  <2> QED BY <1>0, <2>8
<1>7. ASSUME NEW a \in 0..(Len(y) - 1), a \in G PROVE a + 1 \in G
  <2>1. /\ a + 1 \in 1..Len(y) /\ a + 1 \in 0..Len(y) /\ (a + 1) - 1 = a /\ a \in 0..Len(y)
        /\ B + (a + 1) \in 1..Len(w) /\ (B + (a + 1)) - 1 = B + a
    BY <1>0, <1>4
  <2>2. ok(a) BY <1>7
  <2>3. w[B + (a + 1)] = y[a + 1] BY <1>4, <2>1
  <2> DEFINE old == Reading(w, c)[B + a]
             new == Reading(w, c)[B + (a + 1)]
             yold == Reading(y, c)[a]
             ynew == Reading(y, c)[a + 1]
  <2>4. /\ y[a + 1] # c => new.v = old.v /\ new.buff = Append(old.buff, y[a + 1])
        /\ y[a + 1] = c => new.v = PushField(old.v, old.buff) /\ new.buff = <<>>
    <3>1. B + a \in 0..(Len(w) - 1) /\ (B + a) + 1 = B + (a + 1) BY <1>0, <1>4
    <3> HIDE DEF w, B
    <3>2. /\ w[(B + a) + 1] # c => /\ Reading(w, c)[(B + a) + 1].v = Reading(w, c)[B + a].v
                                   /\ Reading(w, c)[(B + a) + 1].buff = Append(Reading(w, c)[B + a].buff, w[(B + a) + 1])
          /\ w[(B + a) + 1] = c => /\ Reading(w, c)[(B + a) + 1].v = PushField(Reading(w, c)[B + a].v, Reading(w, c)[B + a].buff)
                                   /\ Reading(w, c)[(B + a) + 1].buff = <<>>
      <4>1. Turns(w, c) BY <1>4, ReadingStep
      <4> QED BY <3>1, <4>1 DEF Turns
    <3> QED BY <2>3, <3>1, <3>2
  <2>5. /\ y[a + 1] # c => ynew.v = yold.v /\ ynew.buff = Append(yold.buff, y[a + 1])
        /\ y[a + 1] = c => ynew.v = PushField(yold.v, yold.buff) /\ ynew.buff = <<>>
    BY ReadingStep DEF Turns
  <2>6. PushField(P \o yold.v, yold.buff) = P \o PushField(yold.v, yold.buff)
    <3>1. yold.v \in T /\ yold.buff \in Piece(S, c) BY <1>5, <2>1
    <3>2. CASE yold.buff = <<>> BY <3>2 DEF PushField
    <3>3. CASE yold.buff # <<>>
      <4>1. yold.buff \in Field(S, c) BY <3>1, <3>3 DEF Field
      <4>2. P \o Append(yold.v, yold.buff) = Append(P \o yold.v, yold.buff)
        <5> HIDE DEF P, yold
        <5> QED BY <1>5, <3>1, <4>1, AppendConcat
      <4> QED BY <3>3, <4>2 DEF PushField
    <3> QED BY <3>2, <3>3
  <2>7. ok(a + 1)
    <3>1. old.v = P \o yold.v /\ old.buff = yold.buff BY <2>2
    <3>2. new.v = P \o ynew.v /\ new.buff = ynew.buff
      <4> HIDE DEF old, new, yold, ynew, P
      <4> QED BY <2>4, <2>5, <2>6, <3>1
    <3> QED BY <3>2
  <2> HIDE DEF ok
  <2> QED BY <2>1, <2>7
<1>8. ok(Len(y))
  <2>1. Len(y) \in 0..Len(y) BY <1>0
  <2>2. Len(y) \in G
    <3> HIDE DEF G
    <3> QED BY <1>0, <1>6, <1>7, <2>1, Upwards
  <2> QED BY <2>2
<1> DEFINE A == Reading(y, c)[Len(y)]
<1>9. explode(w, c) = PushField(P \o A.v, A.buff)
  <2>1. explode(w, c) = PushField(Reading(w, c)[Len(w)].v, Reading(w, c)[Len(w)].buff) BY DEF explode
  <2>2. Len(w) = B + Len(y) BY <1>4
  <2>3. Reading(w, c)[B + Len(y)].v = P \o A.v /\ Reading(w, c)[B + Len(y)].buff = A.buff BY <1>8
  <2> HIDE DEF w, B, P, A
  <2> QED BY <2>1, <2>2, <2>3
<1>10. A.v \in T /\ A.buff \in Piece(S, c)
  <2>1. Len(y) \in 0..Len(y) BY <1>0
  <2> QED BY <1>5, <2>1
<1>11. PushField(P \o A.v, A.buff) = P \o PushField(A.v, A.buff)
  <2>1. CASE A.buff = <<>> BY <2>1 DEF PushField
  <2>2. CASE A.buff # <<>>
    <3>1. A.buff \in Field(S, c) BY <1>10, <2>2 DEF Field
    <3>2. P \o Append(A.v, A.buff) = Append(P \o A.v, A.buff)
      <4> HIDE DEF P, A
      <4> QED BY <1>5, <1>10, <3>1, AppendConcat
    <3> QED BY <2>2, <3>2 DEF PushField
  <2> QED BY <2>1, <2>2
<1>12. explode(y, c) = PushField(A.v, A.buff) BY DEF explode
<1> QED BY <1>9, <1>11, <1>12

-----------------------------------------------------------------------------
(* Longer texts *)

Begins(f, g) == Len(g) <= Len(f) /\ \A i \in 1..Len(g) : f[i] = g[i]

(* f has the fields E and perhaps more: of a field or of fields. *)
Covers(f, E) ==
  /\ Len(E) <= Len(f)
  /\ \A k \in 1..(Len(E) - 1) : f[k] = E[k]
  /\ Begins(f[Len(E)], E[Len(E)])

LEMMA CoversMore ==
  ASSUME NEW S, NEW c, NEW v \in Seq(Field(S, c)), NEW buff \in Piece(S, c),
         NEW x \in S, x # c, NEW E \in Seq(Field(S, c)), E # <<>>,
         Covers(PushField(v, buff), E)
  PROVE  Covers(PushField(v, Append(buff, x)), E)
<1> DEFINE old == PushField(v, buff)
           more == Append(buff, x)
           new == PushField(v, more)
           K == Len(E)
<1>1. more \in Field(S, c) BY PieceGrows
<1>2. more \in Piece(S, c) /\ more # <<>> BY <1>1 DEF Field
<1>3. /\ Len(new) = Len(v) + 1 /\ new[Len(v) + 1] = more
      /\ \A k \in 1..Len(v) : new[k] = v[k]
  <2> HIDE DEF more
  <2> QED BY <1>2, PushType
<1>4. K \in Nat /\ K >= 1 /\ Len(v) \in Nat BY EmptySeq, LenProperties
<1>5. K <= Len(old) /\ (\A k \in 1..(K - 1) : old[k] = E[k]) /\ Begins(old[K], E[K]) BY DEF Covers
<1>6. CASE buff = <<>>
  <2>1. old = v BY <1>6 DEF PushField
  <2>2. K <= Len(new) /\ K \in 1..Len(v) /\ \A k \in 1..K : new[k] = old[k]
    <3> HIDE DEF old, new, K
    <3> QED BY <1>3, <1>4, <1>5, <2>1
  <2>3. \A k \in 1..(K - 1) : new[k] = E[k]
    <3> HIDE DEF old, new, K
    <3> QED BY <1>4, <1>5, <2>2
  <2>4. Begins(new[K], E[K])
    <3>1. K \in 1..K BY <1>4
    <3> HIDE DEF old, new, K
    <3> QED BY <1>5, <2>2, <3>1
  <2> QED BY <2>2, <2>3, <2>4 DEF Covers
<1>7. CASE buff # <<>>
  <2>1. /\ Len(old) = Len(v) + 1 /\ old[Len(v) + 1] = buff
        /\ \A k \in 1..Len(v) : old[k] = v[k]
    BY <1>7, PushType
  <2>2. Len(new) = Len(old) /\ \A k \in 1..Len(v) : new[k] = old[k]
    <3> HIDE DEF old, new
    <3> QED BY <1>3, <2>1
  <2>3. Begins(more, buff)
    <3>1. buff \in Seq(S) BY DEF Piece
    <3>2. Len(buff) \in Nat BY <3>1, LenProperties
    <3>3. Len(more) = Len(buff) + 1 /\ \A i \in 1..Len(buff) : more[i] = buff[i]
      BY <3>1, AppendProperties
    <3> QED BY <3>2, <3>3 DEF Begins
  <2>4. \A k \in 1..(K - 1) : new[k] = E[k]
    <3> HIDE DEF old, new, K
    <3> QED BY <1>4, <1>5, <2>1, <2>2
  <2>5. Begins(new[K], E[K])
    <3>1. CASE K <= Len(v)
      <4> HIDE DEF old, new, K
      <4>1. new[K] = old[K] BY <1>4, <2>2, <3>1
      <4> QED BY <1>5, <4>1
    <3>2. CASE ~(K <= Len(v))
      <4>1. K = Len(v) + 1
        <5> HIDE DEF old, new, K
        <5> QED BY <1>4, <1>5, <2>1, <3>2
      <4>2. new[K] = more /\ old[K] = buff
        <5> HIDE DEF old, new, K, more
        <5> QED BY <1>3, <2>1, <4>1
      <4>3. Begins(more, buff) /\ Begins(buff, E[K])
        <5> HIDE DEF old, new, K, more
        <5> QED BY <1>5, <2>3, <4>2
      <4>4. Len(E[K]) \in Nat /\ Len(buff) \in Nat /\ Len(more) \in Nat
        <5>1. E[K] \in Field(S, c)
          <6>1. K \in 1..Len(E) BY <1>4
          <6> HIDE DEF K
          <6> QED BY <6>1, ElementOfSeq
        <5>2. E[K] \in Seq(S) /\ buff \in Seq(S) /\ more \in Seq(S) BY <1>2, <5>1 DEF Field, Piece
        <5> HIDE DEF K, more
        <5> QED BY <5>2, LenProperties
      <4>5. Begins(more, E[K])
        <5> HIDE DEF K, more
        <5> QED BY <4>3, <4>4 DEF Begins
      <4> HIDE DEF new, K, more
      <4> QED BY <4>2, <4>5
    <3> QED BY <3>1, <3>2
  <2>6. K <= Len(new)
    <3> HIDE DEF old, new, K
    <3> QED BY <1>5, <2>2
  <2> QED BY <2>4, <2>5, <2>6 DEF Covers
<1> QED BY <1>6, <1>7

(* A text that goes on has the fields it had: the last may go on too. *)
LEMMA ExplodeExtends ==
  ASSUME NEW S, NEW s \in Seq(S), NEW t \in Seq(S), NEW c, explode(s, c) # <<>>
  PROVE  Covers(explode(s \o t, c), explode(s, c))
<1> DEFINE E == explode(s, c)
           w == s \o t
           sl == Len(s)
           got(a) == PushField(Reading(w, c)[sl + a].v, Reading(w, c)[sl + a].buff)
           G == {a \in 0..Len(t) : Covers(got(a), E)}
<1>1. sl \in Nat /\ Len(t) \in Nat BY LenProperties
<1>2. w \in Seq(S) /\ Len(w) = sl + Len(t) BY ConcatProperties
<1>3. E \in Seq(Field(S, c)) BY ExplodeType
<1>4. 0 \in G
  <2>1. sl + 0 = sl /\ sl \in 0..sl /\ 0 \in 0..Len(t) BY <1>1
  <2>2. Reading(w, c)[sl] = Reading(s, c)[sl] BY <2>1, ReadingFirst
  <2>3. got(0) = E
    <3> HIDE DEF w, sl
    <3> QED BY <2>1, <2>2 DEF explode, sl
  <2>4. Len(E) \in Nat /\ Len(E) >= 1 BY <1>3, EmptySeq
  <2>5. Len(E) \in 1..Len(E) BY <2>4
  <2>6. E[Len(E)] \in Seq(S)
    <3> HIDE DEF E
    <3>1. E[Len(E)] \in Field(S, c) BY <1>3, <2>5, ElementOfSeq
    <3> QED BY <3>1 DEF Field, Piece
  <2>7. Covers(E, E)
    <3> HIDE DEF E
    <3>1. Len(E[Len(E)]) \in Nat BY <2>6, LenProperties
    <3> QED BY <2>4, <3>1 DEF Covers, Begins
  <2> HIDE DEF got
  <2> QED BY <2>1, <2>3, <2>7
<1>5. ASSUME NEW a \in 0..(Len(t) - 1), a \in G PROVE a + 1 \in G
  <2> DEFINE v == Reading(w, c)[sl + a].v
             buff == Reading(w, c)[sl + a].buff
             x == w[sl + (a + 1)]
  <2>1. /\ sl + a \in 0..(Len(w) - 1) /\ sl + a \in 0..Len(w) /\ (sl + a) + 1 = sl + (a + 1)
        /\ sl + (a + 1) \in 1..Len(w) /\ a + 1 \in 0..Len(t)
    BY <1>1, <1>2
  <2>2. v \in Seq(Field(S, c)) /\ buff \in Piece(S, c)
    <3> HIDE DEF w, sl
    <3> QED BY <1>2, <2>1, ReadingType
  <2>3. x \in S
    <3> HIDE DEF w, sl
    <3> QED BY <1>2, <2>1, ElementOfSeq
  <2>4. /\ x # c => /\ Reading(w, c)[sl + (a + 1)].v = v
                    /\ Reading(w, c)[sl + (a + 1)].buff = Append(buff, x)
        /\ x = c => /\ Reading(w, c)[sl + (a + 1)].v = PushField(v, buff)
                    /\ Reading(w, c)[sl + (a + 1)].buff = <<>>
    <3> HIDE DEF w, sl
    <3>1. Turns(w, c) BY <1>2, ReadingStep
    <3> QED BY <2>1, <3>1 DEF Turns
  <2>5. Covers(PushField(v, buff), E) BY <1>5
  <2>6. Covers(got(a + 1), E)
    <3>1. CASE x # c
      <4>1. got(a + 1) = PushField(v, Append(buff, x)) BY <2>4, <3>1
      <4>2. Covers(PushField(v, Append(buff, x)), E)
        <5> HIDE DEF v, buff, x, E
        <5>1. E # <<>> BY DEF E
        <5> QED BY <1>3, <2>2, <2>3, <2>5, <3>1, <5>1, CoversMore
      <4> QED BY <4>1, <4>2
    <3>2. CASE x = c
      <4>1. got(a + 1) = PushField(PushField(v, buff), <<>>) BY <2>4, <3>2
      <4>2. got(a + 1) = PushField(v, buff) BY <4>1 DEF PushField
      <4> QED BY <2>5, <4>2
    <3> QED BY <3>1, <3>2
  <2> HIDE DEF got
  <2> QED BY <2>1, <2>6
<1>6. Len(t) \in G
  <2>1. Len(t) \in 0..Len(t) BY <1>1
  <2> HIDE DEF G
  <2> QED BY <1>1, <1>4, <1>5, <2>1, Upwards
<1>7. got(Len(t)) = explode(w, c)
  <2> HIDE DEF w, sl
  <2> QED BY <1>2 DEF explode
<1> QED BY <1>6, <1>7

-----------------------------------------------------------------------------
(* C strings *)

LEMMA MinIs ==
  ASSUME NEW T \in SUBSET Nat, NEW m \in T, \A k \in T : m <= k
  PROVE  Min(T) = m
<1> DEFINE lowest(k) == \A l \in T : k <= l
<1>1. Min(T) = CHOOSE k \in T : lowest(k) BY DEF Min
<1>2. \E k \in T : lowest(k) OBVIOUS
<1>3. Min(T) \in T /\ lowest(Min(T))
  <2> HIDE DEF lowest
  <2> QED BY <1>1, <1>2
<1>4. Min(T) <= m /\ m <= Min(T) BY <1>3
<1>5. Min(T) \in Nat /\ m \in Nat BY <1>3
<1> QED BY <1>4, <1>5

(* A C string ends before the first terminator, wherever that is. *)
LEMMA CStringIs ==
  ASSUME NEW S, NEW w \in Seq(S), NEW z, NEW k \in 0..Len(w),
         \A i \in 1..k : w[i] # z, k = Len(w) \/ w[k + 1] = z
  PROVE  CString(w, z) = SubSeq(w, 1, k)
<1> DEFINE ends == {i \in 1..Len(w) : w[i] = z}
<1>1. Len(w) \in Nat BY LenProperties
<1>2. CASE k = Len(w)
  <2>1. ends = {} BY <1>2
  <2>2. SubSeq(w, 1, k) = w BY <1>2, SubSeqFull
  <2> QED BY <2>1, <2>2 DEF CString
<1>3. CASE k # Len(w)
  <2>1. k + 1 \in 1..Len(w) BY <1>1, <1>3
  <2>2. k + 1 \in ends /\ ends \in SUBSET Nat BY <1>3, <2>1
  <2>3. \A i \in ends : k + 1 <= i BY <1>1
  <2>4. Min(ends) = k + 1
    <3> HIDE DEF ends
    <3> QED BY <2>2, <2>3, MinIs
  <2>5. CString(w, z) = SubSeq(w, 1, Min(ends) - 1) BY <2>2 DEF CString
  <2> HIDE DEF ends
  <2> QED BY <1>1, <2>4, <2>5
<1> QED BY <1>2, <1>3

LEMMA CStringEnds ==
  ASSUME NEW S, NEW w \in Seq(S), NEW z
  PROVE  \E k \in 0..Len(w) : (\A i \in 1..k : w[i] # z) /\ (k = Len(w) \/ w[k + 1] = z)
<1> DEFINE ends == {i \in 1..Len(w) : w[i] = z}
<1>1. Len(w) \in Nat BY LenProperties
<1>2. CASE ends = {}
  <2>1. Len(w) \in 0..Len(w) /\ \A i \in 1..Len(w) : w[i] # z BY <1>1, <1>2
  <2> QED BY <2>1
<1>3. CASE ends # {}
  <2>1. PICK m \in ends : \A i \in ends : m <= i
    <3>1. ends \in SUBSET Nat OBVIOUS
    <3> HIDE DEF ends
    <3> QED BY <1>3, <3>1, Least
  <2>2. m \in 1..Len(w) /\ w[m] = z OBVIOUS
  <2>3. m - 1 \in 0..Len(w) /\ (m - 1) + 1 = m BY <1>1, <2>2
  <2>4. ASSUME NEW i \in 1..(m - 1) PROVE w[i] # z
    <3>1. i \in 1..Len(w) /\ ~(m <= i) BY <1>1, <2>2
    <3> QED BY <2>1, <3>1
  <2> QED BY <2>2, <2>3, <2>4
<1> QED BY <1>2, <1>3

LEMMA CStringType ==
  ASSUME NEW S, NEW w \in Seq(S), NEW z
  PROVE  /\ CString(w, z) \in Seq(S \ {z})
         /\ Len(CString(w, z)) <= Len(w)
<1>1. PICK k \in 0..Len(w) : (\A i \in 1..k : w[i] # z) /\ (k = Len(w) \/ w[k + 1] = z)
  BY CStringEnds
<1>2. CString(w, z) = SubSeq(w, 1, k) BY <1>1, CStringIs
<1>3. Len(w) \in Nat BY LenProperties
<1>4. \A i \in 1..k : w[i] \in S \ {z} BY <1>1, <1>3, ElementOfSeq
<1>5. SubSeq(w, 1, k) \in Seq(S \ {z}) /\ Len(SubSeq(w, 1, k)) = IF 1 <= k THEN k - 1 + 1 ELSE 0
  BY <1>4, SubSeqProperties
<1> QED BY <1>2, <1>3, <1>5

(* Without a terminator in it, a text is kept, with what follows. *)
LEMMA CStringConcat ==
  ASSUME NEW S, NEW z, NEW s \in Seq(S \ {z}), NEW t \in Seq(S)
  PROVE  CString(s \o t, z) = s \o CString(t, z)
<1> DEFINE w == s \o t
<1>1. PICK k \in 0..Len(t) : (\A i \in 1..k : t[i] # z) /\ (k = Len(t) \/ t[k + 1] = z)
  BY CStringEnds
<1>2. CString(t, z) = SubSeq(t, 1, k) BY <1>1, CStringIs
<1>3. s \in Seq(S) BY SeqMonotonic
<1>4. Len(s) \in Nat /\ Len(t) \in Nat BY LenProperties
<1>5. /\ w \in Seq(S) /\ Len(w) = Len(s) + Len(t)
      /\ \A i \in 1..(Len(s) + Len(t)) : w[i] = IF i <= Len(s) THEN s[i] ELSE t[i - Len(s)]
  BY <1>3, ConcatProperties
<1> DEFINE K == Len(s) + k
<1>6. K \in 0..Len(w) BY <1>4, <1>5
<1>7. ASSUME NEW i \in 1..K PROVE w[i] # z
  <2>1. i \in 1..(Len(s) + Len(t)) BY <1>4
  <2>2. CASE i <= Len(s)
    <3>1. i \in 1..Len(s) BY <2>2
    <3>2. s[i] \in S \ {z} BY <3>1, ElementOfSeq
    <3> QED BY <1>5, <2>1, <2>2, <3>2
  <2>3. CASE ~(i <= Len(s))
    <3>1. i - Len(s) \in 1..k BY <1>4, <2>3
    <3>2. w[i] = t[i - Len(s)] BY <1>5, <2>1, <2>3
    <3> QED BY <1>1, <3>1, <3>2
  <2> QED BY <2>2, <2>3
<1>8. K = Len(w) \/ w[K + 1] = z
  <2>1. CASE k = Len(t) BY <1>5, <2>1
  <2>2. CASE k # Len(t)
    <3>1. K + 1 \in 1..(Len(s) + Len(t)) /\ ~(K + 1 <= Len(s)) /\ (K + 1) - Len(s) = k + 1
      BY <1>4, <2>2
    <3>2. w[K + 1] = t[(K + 1) - Len(s)] BY <1>5, <3>1
    <3> QED BY <1>1, <2>2, <3>1, <3>2
  <2> QED BY <2>1, <2>2
<1>9. CString(w, z) = SubSeq(w, 1, K)
  <2> HIDE DEF w, K
  <2> QED BY <1>5, <1>6, <1>7, <1>8, CStringIs
<1>10. SubSeq(w, 1, K) = s \o SubSeq(t, 1, k)
  <2> DEFINE p == SubSeq(t, 1, k)
             l == SubSeq(w, 1, K)
  <2>1. \A i \in 1..k : t[i] \in S BY <1>4, ElementOfSeq
  <2>2. /\ p \in Seq(S) /\ Len(p) = IF 1 <= k THEN k - 1 + 1 ELSE 0
        /\ \A i \in 1..(k - 1 + 1) : p[i] = t[1 + i - 1]
    BY <2>1, SubSeqProperties
  <2>3. \A i \in 1..K : w[i] \in S
    <3>1. \A i \in 1..K : i \in 1..Len(w) BY <1>4, <1>5
    <3> HIDE DEF w, K
    <3> QED BY <1>5, <3>1, ElementOfSeq
  <2>4. K \in Int BY <1>4
  <2>5. /\ l \in Seq(S) /\ Len(l) = IF 1 <= K THEN K - 1 + 1 ELSE 0
        /\ \A i \in 1..(K - 1 + 1) : l[i] = w[1 + i - 1]
    <3> HIDE DEF w, K
    <3> QED BY <2>3, <2>4, SubSeqProperties
  <2>6. Len(p) = k /\ (\A i \in 1..k : p[i] = t[i]) /\ Len(l) = K /\ \A i \in 1..K : l[i] = w[i]
    <3> HIDE DEF w, p, l
    <3> QED BY <1>4, <2>2, <2>5
  <2>7. /\ s \o p \in Seq(S) /\ Len(s \o p) = K
        /\ \A i \in 1..(Len(s) + Len(p)) : (s \o p)[i] = IF i <= Len(s) THEN s[i] ELSE p[i - Len(s)]
    <3> HIDE DEF p
    <3> QED BY <1>3, <2>2, <2>6, ConcatProperties
  <2>8. ASSUME NEW i \in 1..K PROVE l[i] = (s \o p)[i]
    <3>1. l[i] = w[i] BY <2>6
    <3>2. i \in 1..(Len(s) + Len(t)) /\ i \in 1..(Len(s) + Len(p)) BY <1>4, <2>6
    <3>3. CASE i <= Len(s)
      <4> HIDE DEF w, l, p
      <4> QED BY <1>5, <2>7, <3>1, <3>2, <3>3
    <3>4. CASE ~(i <= Len(s))
      <4>1. i - Len(s) \in 1..k BY <1>4, <3>4
      <4> HIDE DEF w, l, p
      <4> QED BY <1>5, <2>6, <2>7, <3>1, <3>2, <3>4, <4>1
    <3> QED BY <3>3, <3>4
  <2> HIDE DEF w, l, p, K
  <2>9. l = s \o p BY <2>5, <2>6, <2>7, <2>8, SeqEqual
  <2> QED BY <2>9 DEF l, p
<1> QED BY <1>2, <1>9, <1>10

-----------------------------------------------------------------------------
(* explode yields the maximal runs *)

(* st is where the runs among the first n characters begin, in order. *)
Starts(s, c, n, st) ==
  /\ st \in Seq(Nat)
  /\ \A j, k \in 1..Len(st) : j < k => st[j] < st[k]
  /\ \A k \in 1..Len(st) : st[k] \in 1..n /\ st[k] \in Firsts(s, c)
  /\ \A i \in 1..n : i \in Firsts(s, c) => \E k \in 1..Len(st) : st[k] = i

LEMMA StartsStay ==
  ASSUME NEW s, NEW c, NEW n \in Nat, NEW st, Starts(s, c, n, st), n + 1 \notin Firsts(s, c)
  PROVE  Starts(s, c, n + 1, st)
<1>1. \A k \in 1..Len(st) : st[k] \in 1..(n + 1) /\ st[k] \in Firsts(s, c) BY DEF Starts
<1>2. \A i \in 1..(n + 1) : i \in Firsts(s, c) => \E k \in 1..Len(st) : st[k] = i
  <2>1. \A i \in 1..(n + 1) : i \in 1..n \/ i = n + 1 OBVIOUS
  <2> QED BY <2>1 DEF Starts
<1> QED BY <1>1, <1>2 DEF Starts

LEMMA StartsGrow ==
  ASSUME NEW s, NEW c, NEW n \in Nat, NEW st, Starts(s, c, n, st), n + 1 \in Firsts(s, c)
  PROVE  Starts(s, c, n + 1, Append(st, n + 1))
<1> DEFINE new == Append(st, n + 1)
           K == Len(st)
<1>1. st \in Seq(Nat) /\ n + 1 \in Nat BY DEF Starts
<1>2. /\ new \in Seq(Nat) /\ Len(new) = K + 1 /\ K \in Nat
      /\ \A k \in 1..K : new[k] = st[k]
      /\ new[K + 1] = n + 1
  BY <1>1, AppendProperties, LenProperties
<1>3. \A k \in 1..K : st[k] \in 1..n /\ st[k] \in Firsts(s, c) BY DEF Starts
<1> HIDE DEF new
<1>4. ASSUME NEW j \in 1..Len(new), NEW k \in 1..Len(new), j < k PROVE new[j] < new[k]
  <2>1. j \in 1..K BY <1>2, <1>4
  <2>2. CASE k = K + 1 BY <1>2, <1>3, <2>1, <2>2
  <2>3. CASE k # K + 1
    <3>1. k \in 1..K BY <1>2, <2>3
    <3> QED BY <1>2, <1>4, <2>1, <3>1 DEF Starts
  <2> QED BY <2>2, <2>3
<1>5. ASSUME NEW k \in 1..Len(new) PROVE new[k] \in 1..(n + 1) /\ new[k] \in Firsts(s, c)
  <2>1. CASE k = K + 1 BY <1>2, <2>1
  <2>2. CASE k # K + 1
    <3>1. k \in 1..K BY <1>2, <2>2
    <3> QED BY <1>2, <1>3, <3>1
  <2> QED BY <2>1, <2>2
<1>6. ASSUME NEW i \in 1..(n + 1), i \in Firsts(s, c) PROVE \E k \in 1..Len(new) : new[k] = i
  <2>1. CASE i = n + 1
    <3>1. K + 1 \in 1..Len(new) BY <1>2
    <3> QED BY <1>2, <2>1, <3>1
  <2>2. CASE i # n + 1
    <3>1. i \in 1..n BY <2>2
    <3>2. PICK k \in 1..K : st[k] = i BY <1>6, <3>1 DEF Starts
    <3>3. k \in 1..Len(new) /\ new[k] = i BY <1>2, <3>2
    <3> QED BY <3>3
  <2> QED BY <2>1, <2>2
<1>7. Starts(s, c, n + 1, new) BY <1>2, <1>4, <1>5, <1>6 DEF Starts
<1> QED BY <1>7 DEF new

(* The k-th beginning is the one with k beginnings up to it. *)
LEMMA Ranks ==
  ASSUME NEW S, NEW s \in Seq(S), NEW c, NEW st, Starts(s, c, Len(s), st)
  PROVE  /\ Cardinality(Firsts(s, c)) = Len(st)
         /\ \A k \in 1..Len(st) : Cardinality({j \in Firsts(s, c) : j <= st[k]}) = k
<1> DEFINE T == Firsts(s, c)
           K == Len(st)
           upto(k) == {st[m] : m \in 1..k}
<1>0. Len(s) \in Nat BY LenProperties
<1>1. st \in Seq(Nat) /\ K \in Nat BY LenProperties DEF Starts
<1>2. \A k \in 1..K : st[k] \in Nat /\ st[k] \in T BY <1>1, ElementOfSeq DEF Starts
<1>3. \A j, k \in 1..K : j < k => st[j] < st[k] BY DEF Starts
<1>4. \A i \in T : i \in Nat /\ \E k \in 1..K : st[k] = i
  <2>1. \A i \in T : i \in 1..Len(s) BY DEF Firsts
  <2> HIDE DEF T
  <2>2. \A i \in 1..Len(s) : i \in T => \E k \in 1..K : st[k] = i BY DEF Starts, T
  <2> QED BY <1>0, <2>1, <2>2
<1> HIDE DEF T, K
<1>5. ASSUME NEW k \in 0..K PROVE Cardinality(upto(k)) = k
  <2> DEFINE f == [m \in 1..k |-> st[m]]
  <2>1. f \in Surjection(1..k, upto(k)) BY DEF Surjection
  <2>2. f \in Injection(1..k, upto(k))
    <3>1. f \in [1..k -> upto(k)] OBVIOUS
    <3>2. ASSUME NEW a \in 1..k, NEW b \in 1..k, f[a] = f[b] PROVE a = b
      <4>1. a \in 1..K /\ b \in 1..K /\ st[a] = st[b] BY <1>1, <3>2 DEF K
      <4>2. ~(st[a] < st[b]) /\ ~(st[b] < st[a]) BY <1>2, <4>1
      <4>3. ~(a < b) /\ ~(b < a) BY <1>3, <4>1, <4>2
      <4> QED BY <4>3
    <3>3. DOMAIN f = 1..k OBVIOUS
    <3> HIDE DEF f, upto
    <3> QED BY <3>1, <3>2, <3>3 DEF Injection, IsInjective
  <2>3. ExistsBijection(1..k, upto(k))
    <3> HIDE DEF f, upto
    <3> QED BY <2>1, <2>2 DEF ExistsBijection, Bijection
  <2>4. IsFiniteSet(1..k) /\ Cardinality(1..k) = k
    <3>1. k \in Int /\ 1 \in Int /\ (IF 1 > k THEN 0 ELSE k - 1 + 1) = k BY <1>1 DEF K
    <3> QED BY <3>1, FS_Interval
  <2> HIDE DEF upto
  <2> QED BY <2>3, <2>4, FS_Bijection
<1>6. upto(K) = T BY <1>2, <1>4
<1>7. K \in 0..K BY <1>1 DEF K
<1>8. Cardinality(T) = K
  <2> HIDE DEF upto
  <2> QED BY <1>5, <1>6, <1>7
<1>9. ASSUME NEW k \in 1..K PROVE Cardinality({j \in T : j <= st[k]}) = k
  <2>1. {j \in T : j <= st[k]} = upto(k)
    <3>1. ASSUME NEW j \in T, j <= st[k] PROVE j \in upto(k)
      <4>1. PICK m \in 1..K : st[m] = j BY <1>4
      <4>2. ~(k < m) BY <1>2, <1>3, <3>1, <4>1
      <4>3. m \in 1..k BY <1>1, <4>2 DEF K
      <4> QED BY <4>1, <4>3
    <3>2. ASSUME NEW m \in 1..k PROVE st[m] \in T /\ st[m] <= st[k]
      <4>1. m \in 1..K /\ (m < k \/ m = k) BY <1>1 DEF K
      <4>2. CASE m < k BY <1>2, <1>3, <4>1, <4>2
      <4>3. CASE m = k BY <1>2, <4>3
      <4> QED BY <4>1, <4>2, <4>3
    <3> QED BY <3>1, <3>2
  <2>2. k \in 0..K BY <1>1 DEF K
  <2> HIDE DEF upto
  <2> QED BY <1>5, <2>1, <2>2
<1> QED BY <1>8, <1>9 DEF T, K

(* A run ends where the next character is a separator or the text ends. *)
LEMMA LastIs ==
  ASSUME NEW S, NEW s \in Seq(S), NEW c, NEW i \in 1..Len(s), NEW e \in i..Len(s),
         \A j \in i..e : s[j] # c, ~Inside(s, c, e + 1)
  PROVE  LastOf(s, c, i) = e
<1> DEFINE T == {j \in i..Len(s) : ~Inside(s, c, j + 1)}
<1>0. Len(s) \in Nat BY LenProperties
<1>1. T \in SUBSET Nat /\ e \in T BY <1>0
<1>2. ASSUME NEW j \in T PROVE e <= j
  <2> SUFFICES ASSUME ~(e <= j) PROVE FALSE OBVIOUS
  <2>1. j \in i..Len(s) /\ ~Inside(s, c, j + 1) OBVIOUS
  <2>2. j + 1 \in i..e /\ j + 1 \in 1..Len(s) BY <1>0, <2>1
  <2> QED BY <2>1, <2>2 DEF Inside
<1> HIDE DEF T
<1>3. Min(T) = e BY <1>1, <1>2, MinIs
<1> QED BY <1>3 DEF LastOf, T

(* What the loop holds after n characters: the runs that have ended, and    *)
(* the one it is in.                                                       *)
Runs(s, c, st, v) == \A k \in 1..Len(v) : v[k] = SubSeq(s, st[k], LastOf(s, c, st[k]))
Between(s, c, n, st, v, buff) ==
  buff = <<>> /\ ~Inside(s, c, n) /\ Len(v) = Len(st) /\ Runs(s, c, st, v)
Within(s, c, n, st, v, buff) ==
  /\ buff # <<>> /\ Inside(s, c, n) /\ Len(st) = Len(v) + 1 /\ Runs(s, c, st, v)
  /\ buff = SubSeq(s, st[Len(st)], n) /\ \A j \in st[Len(st)]..n : s[j] # c

LEMMA RunsPush ==
  ASSUME NEW S, NEW s \in Seq(S), NEW c, NEW n \in 0..Len(s), NEW st, Starts(s, c, n, st),
         NEW v \in Seq(Field(S, c)), NEW buff \in Piece(S, c), ~Inside(s, c, n + 1),
         Between(s, c, n, st, v, buff) \/ Within(s, c, n, st, v, buff)
  PROVE  Len(PushField(v, buff)) = Len(st) /\ Runs(s, c, st, PushField(v, buff))
<1>1. CASE buff = <<>> BY <1>1 DEF Between, Within, PushField
<1>2. CASE buff # <<>>
  <2> DEFINE K == Len(st)
             new == PushField(v, buff)
  <2>1. /\ K = Len(v) + 1 /\ Runs(s, c, st, v)
        /\ buff = SubSeq(s, st[K], n) /\ \A j \in st[K]..n : s[j] # c
    BY <1>2 DEF Between, Within
  <2>2. /\ Len(new) = Len(v) + 1 /\ new[Len(v) + 1] = buff
        /\ \A k \in 1..Len(v) : new[k] = v[k]
    BY <1>2, PushType
  <2>3. Len(v) \in Nat /\ Len(s) \in Nat BY LenProperties
  <2>4. LastOf(s, c, st[K]) = n
    <3>1. K \in 1..K BY <2>1, <2>3
    <3>2. st[K] \in 1..n BY <3>1 DEF Starts
    <3>3. st[K] \in 1..Len(s) /\ n \in st[K]..Len(s) BY <2>3, <3>2
    <3> HIDE DEF K
    <3> QED BY <2>1, <3>3, LastIs
  <2> HIDE DEF new, K
  <2>5. ASSUME NEW k \in 1..Len(new) PROVE new[k] = SubSeq(s, st[k], LastOf(s, c, st[k]))
    <3>1. CASE k = K BY <2>1, <2>2, <2>4, <3>1
    <3>2. CASE k # K
      <4>1. k \in 1..Len(v) BY <2>1, <2>2, <2>3, <3>2
      <4> QED BY <2>1, <2>2, <4>1 DEF Runs
    <3> QED BY <3>1, <3>2
  <2>6. Len(new) = K BY <2>1, <2>2
  <2>7. Runs(s, c, st, new) BY <2>5 DEF Runs
  <2> QED BY <2>6, <2>7 DEF new, K
<1> QED BY <1>1, <1>2

LEMMA LoopRuns ==
  ASSUME NEW S, NEW s \in Seq(S), NEW c
  PROVE  \E st : /\ Starts(s, c, Len(s), st)
                 /\ \/ Between(s, c, Len(s), st, Reading(s, c)[Len(s)].v, Reading(s, c)[Len(s)].buff)
                    \/ Within(s, c, Len(s), st, Reading(s, c)[Len(s)].v, Reading(s, c)[Len(s)].buff)
<1> DEFINE v(n) == Reading(s, c)[n].v
           buff(n) == Reading(s, c)[n].buff
           ok(n, st) == /\ Starts(s, c, n, st)
                        /\ Between(s, c, n, st, v(n), buff(n)) \/ Within(s, c, n, st, v(n), buff(n))
           G == {n \in 0..Len(s) : \E st : ok(n, st)}
<1>1. Len(s) \in Nat BY LenProperties
<1>2. 0 \in G
  <2>1. v(0) = <<>> /\ buff(0) = <<>> BY ReadingStart
  <2>2. Starts(s, c, 0, <<>>)
    <3>1. <<>> \in Seq(Nat) /\ Len(<<>>) = 0 OBVIOUS
    <3> QED BY <3>1 DEF Starts
  <2>3. Between(s, c, 0, <<>>, <<>>, <<>>) BY DEF Between, Inside, Runs
  <2>4. ok(0, <<>>) BY <2>1, <2>2, <2>3
  <2> HIDE DEF ok
  <2> QED BY <1>1, <2>4
<1>3. ASSUME NEW n \in 0..(Len(s) - 1), n \in G PROVE n + 1 \in G
  <2>1. PICK st : ok(n, st) BY <1>3
  <2>2. n + 1 \in 1..Len(s) /\ n \in 0..Len(s) /\ n + 1 \in 0..Len(s) /\ n \in Nat BY <1>1
  <2>3. v(n) \in Seq(Field(S, c)) /\ buff(n) \in Piece(S, c) BY <2>2, ReadingType
  <2>4. /\ s[n + 1] # c => v(n + 1) = v(n) /\ buff(n + 1) = Append(buff(n), s[n + 1])
        /\ s[n + 1] = c => v(n + 1) = PushField(v(n), buff(n)) /\ buff(n + 1) = <<>>
    BY ReadingStep DEF Turns
  <2>5. Inside(s, c, n + 1) <=> s[n + 1] # c BY <2>2 DEF Inside
  <2>6. n + 1 \in Firsts(s, c) <=> s[n + 1] # c /\ ~Inside(s, c, n)
    <3>1. (n + 1) - 1 = n BY <2>2
    <3> QED BY <2>2, <2>5, <3>1 DEF Firsts
  <2>7. Starts(s, c, n, st) /\ (Between(s, c, n, st, v(n), buff(n)) \/ Within(s, c, n, st, v(n), buff(n)))
    BY <2>1
  <2> HIDE DEF v, buff, G
  <2>8. \E new : ok(n + 1, new)
    <3>1. CASE s[n + 1] = c
      <4>1. Starts(s, c, n + 1, st) BY <2>2, <2>6, <2>7, <3>1, StartsStay
      <4>2. Len(v(n + 1)) = Len(st) /\ Runs(s, c, st, v(n + 1))
        BY <2>2, <2>3, <2>4, <2>5, <2>7, <3>1, RunsPush
      <4>3. Between(s, c, n + 1, st, v(n + 1), buff(n + 1)) BY <2>4, <2>5, <3>1, <4>2 DEF Between
      <4> QED BY <4>1, <4>3
    <3>2. CASE s[n + 1] # c /\ Between(s, c, n, st, v(n), buff(n))
      <4> DEFINE new == Append(st, n + 1)
                 K == Len(st)
      <4>1. n + 1 \in Firsts(s, c) BY <2>6, <3>2 DEF Between
      <4>2. Starts(s, c, n + 1, new) BY <2>2, <2>7, <4>1, StartsGrow
      <4>3. st \in Seq(Nat) /\ n + 1 \in Nat BY <2>2, <2>7 DEF Starts
      <4>4. /\ Len(new) = K + 1 /\ new[K + 1] = n + 1 /\ K \in Nat
            /\ \A k \in 1..K : new[k] = st[k]
        BY <4>3, AppendProperties, LenProperties
      <4> HIDE DEF new
      <4>5. buff(n + 1) = <<s[n + 1]>> /\ v(n + 1) = v(n) /\ Len(v(n)) = K
        <5>1. buff(n) = <<>> /\ Len(v(n)) = K BY <3>2 DEF Between
        <5> QED BY <2>4, <3>2, <5>1
      <4>6. Runs(s, c, new, v(n + 1)) BY <3>2, <4>4, <4>5 DEF Runs, Between
      <4>7. SubSeq(s, n + 1, n + 1) = <<s[n + 1]>>
        <5>1. n + 1 \in (n + 1)..Len(s) /\ n < n + 1 /\ (n + 1) - 1 = n BY <1>1, <2>2
        <5>2. SubSeq(s, n + 1, n + 1) = SubSeq(s, n + 1, n) \o <<s[n + 1]>>
          BY <2>2, <5>1, SubSeqRecursiveSecond
        <5>3. SubSeq(s, n + 1, n) = <<>> BY <2>2, <5>1, SubSeqEmpty
        <5>4. <<s[n + 1]>> \in Seq(S)
          <6>1. s[n + 1] \in S BY <2>2, ElementOfSeq
          <6> QED BY <6>1
        <5> QED BY <5>2, <5>3, <5>4, ConcatEmptySeq
      <4>8. \A j \in (n + 1)..(n + 1) : s[j] # c BY <2>2, <3>2
      <4>9. new[Len(new)] = n + 1 /\ Len(new) = Len(v(n + 1)) + 1 BY <4>4, <4>5
      <4>10. buff(n + 1) # <<>>
        <5>1. buff(n) \in Seq(S) /\ s[n + 1] \in S BY <2>2, <2>3, ElementOfSeq DEF Piece
        <5> QED BY <2>4, <3>2, <5>1, AppendProperties
      <4>11. Within(s, c, n + 1, new, v(n + 1), buff(n + 1))
        BY <2>5, <3>2, <4>5, <4>6, <4>7, <4>8, <4>9, <4>10 DEF Within
      <4> QED BY <4>2, <4>11
    <3>3. CASE s[n + 1] # c /\ Within(s, c, n, st, v(n), buff(n))
      <4> DEFINE b == st[Len(st)]
      <4>1. n + 1 \notin Firsts(s, c) BY <2>6, <3>3 DEF Within
      <4>2. Starts(s, c, n + 1, st) BY <2>2, <2>7, <4>1, StartsStay
      <4>3. v(n + 1) = v(n) /\ buff(n + 1) = Append(buff(n), s[n + 1]) BY <2>4, <3>3
      <4>4. /\ Len(st) = Len(v(n)) + 1 /\ Runs(s, c, st, v(n))
            /\ buff(n) = SubSeq(s, b, n) /\ \A j \in b..n : s[j] # c
        BY <3>3 DEF Within
      <4>5. b \in 1..n
        <5>1. Len(st) \in 1..Len(st)
          <6>1. Len(v(n)) \in Nat BY <2>3, LenProperties
          <6> QED BY <4>4, <6>1
        <5> QED BY <2>7, <5>1 DEF Starts
      <4> HIDE DEF b
      <4>6. SubSeq(s, b, n + 1) = Append(SubSeq(s, b, n), s[n + 1])
        <5>1. b \in 1..Len(s) /\ n + 1 \in b..Len(s) /\ (n + 1) - 1 = n BY <1>1, <2>2, <4>5
        <5>2. SubSeq(s, b, n + 1) = SubSeq(s, b, n) \o <<s[n + 1]>>
          BY <5>1, SubSeqRecursiveSecond
        <5>3. s[n + 1] \in S BY <2>2, ElementOfSeq
        <5>4. buff(n) \in Seq(S) BY <2>3 DEF Piece
        <5>5. Append(buff(n), s[n + 1]) = buff(n) \o <<s[n + 1]>> BY <5>3, <5>4, AppendIsConcat
        <5> QED BY <4>4, <5>2, <5>5
      <4>7. buff(n + 1) = SubSeq(s, b, n + 1) BY <4>3, <4>4, <4>6
      <4>8. \A j \in b..(n + 1) : s[j] # c
        <5>1. \A j \in b..(n + 1) : j \in b..n \/ j = n + 1 BY <2>2, <4>5
        <5> QED BY <3>3, <4>4, <5>1
      <4>9. buff(n + 1) # <<>>
        <5>1. buff(n) \in Seq(S) /\ s[n + 1] \in S BY <2>2, <2>3, ElementOfSeq DEF Piece
        <5> QED BY <4>3, <5>1, AppendProperties
      <4>10. Within(s, c, n + 1, st, v(n + 1), buff(n + 1))
        BY <2>5, <3>3, <4>3, <4>4, <4>7, <4>8, <4>9 DEF Within, b
      <4> QED BY <4>2, <4>10
    <3> QED BY <2>7, <3>1, <3>2, <3>3
  <2> HIDE DEF ok
  <2> QED BY <2>2, <2>8 DEF G
<1>4. Len(s) \in G
  <2>1. Len(s) \in 0..Len(s) BY <1>1
  <2> HIDE DEF G
  <2> QED BY <1>1, <1>2, <1>3, <2>1, Upwards
<1> QED BY <1>4

(* manager::explode (dbmanager.h:79-92) yields the maximal runs of          *)
(* characters other than the separator, in their order, of every text.     *)
THEOREM ExplodeIsFields ==
  ASSUME NEW S, NEW s \in Seq(S), NEW c
  PROVE  explode(s, c) = Fields(s, c)
<1> DEFINE T == Firsts(s, c)
           n == Len(s)
           e == explode(s, c)
           A == Reading(s, c)[n]
           first(k) == CHOOSE i \in T : Cardinality({j \in T : j <= i}) = k
<1>1. n \in Nat /\ n \in 0..n BY LenProperties
<1>2. PICK st : Starts(s, c, n, st) /\ (Between(s, c, n, st, A.v, A.buff) \/ Within(s, c, n, st, A.v, A.buff))
  BY LoopRuns
<1>3. A.v \in Seq(Field(S, c)) /\ A.buff \in Piece(S, c) BY <1>1, ReadingType
<1>4. ~Inside(s, c, n + 1) BY <1>1 DEF Inside
<1>5. e = PushField(A.v, A.buff) BY DEF explode
<1>6. Len(e) = Len(st) /\ Runs(s, c, st, e)
  <2>1. Len(PushField(A.v, A.buff)) = Len(st) /\ Runs(s, c, st, PushField(A.v, A.buff))
    <3> HIDE DEF A
    <3> QED BY <1>1, <1>2, <1>3, <1>4, RunsPush
  <2> HIDE DEF e, A
  <2> QED BY <1>5, <2>1
<1>7. Cardinality(T) = Len(st) /\ \A k \in 1..Len(st) : Cardinality({j \in T : j <= st[k]}) = k
  BY <1>2, Ranks
<1>8. ASSUME NEW k \in 1..Len(st) PROVE first(k) = st[k]
  <2>1. st[k] \in T BY <1>2 DEF Starts
  <2>2. ASSUME NEW i \in T, Cardinality({j \in T : j <= i}) = k PROVE i = st[k]
    <3>1. i \in 1..n BY DEF Firsts
    <3>2. PICK m \in 1..Len(st) : st[m] = i BY <1>2, <3>1 DEF Starts
    <3>3. m = k BY <1>7, <2>2, <3>2
    <3> QED BY <3>2, <3>3
  <2>3. Cardinality({j \in T : j <= st[k]}) = k BY <1>7
  <2> DEFINE ranked(i) == Cardinality({j \in T : j <= i}) = k
  <2>4. first(k) = CHOOSE i \in T : ranked(i) OBVIOUS
  <2>5. ranked(st[k]) /\ \A i \in T : ranked(i) => i = st[k] BY <2>2, <2>3
  <2> HIDE DEF ranked, T, first
  <2> QED BY <2>1, <2>4, <2>5
<1>9. Fields(s, c) = [k \in 1..Len(st) |-> SubSeq(s, first(k), LastOf(s, c, first(k)))]
  <2>1. Fields(s, c) = [k \in 1..Cardinality(T) |-> SubSeq(s, first(k), LastOf(s, c, first(k)))] BY DEF Fields
  <2> HIDE DEF T, first
  <2> QED BY <1>7, <2>1
<1>10. e \in Seq(Field(S, c)) BY ExplodeType
<1>11. e = [k \in 1..Len(st) |-> e[k]]
  <2> HIDE DEF e
  <2>1. e \in [1..Len(e) -> Field(S, c)] BY <1>10, LenProperties
  <2> QED BY <1>6, <2>1
<1>12. \A k \in 1..Len(st) : e[k] = SubSeq(s, st[k], LastOf(s, c, st[k]))
  <2> HIDE DEF e
  <2> QED BY <1>6 DEF Runs
<1> HIDE DEF e, first, T
<1>13. Fields(s, c) = [k \in 1..Len(st) |-> e[k]] BY <1>8, <1>9, <1>12
<1> QED BY <1>11, <1>13 DEF e

-----------------------------------------------------------------------------
(* The order feed *)

LEMMA ReportsAreTexts ==
  /\ \A r \in Reports : r \in Seq(Cells) /\ Len(r) \in 1..(BufLen - 1) /\ Len(explode(r, "|")) = 4
  /\ \A b \in Beyond : b \in Seq(Cells) /\ Len(b) \in Nat
  /\ BufLen \in Nat /\ BufLen >= 1
<1>1. ASSUME NEW t \in Reports \cup Beyond PROVE t \in Seq(Cells)
  <2>1. t \in Seq(ToSet(t)) BY WireAssumption
  <2>2. ToSet(t) \subseteq Cells BY DEF Cells
  <2> QED BY <2>1, <2>2, SeqMonotonic
<1>2. \A b \in Beyond : Len(b) \in Nat BY <1>1, LenProperties
<1> QED BY <1>1, <1>2, WireAssumption

LEMMA AtMost ==
  ASSUME NEW a \in Nat, NEW b \in Nat, NEW n \in 1..Min({a, b})
  PROVE  n \in 1..a /\ n \in 1..b
<1>1. CASE a <= b
  <2>1. Min({a, b}) = a BY <1>1, MinIs
  <2> QED BY <1>1, <2>1
<1>2. CASE ~(a <= b)
  <2>1. Min({a, b}) = b BY <1>2, MinIs
  <2> QED BY <1>2, <2>1
<1> QED BY <1>1, <1>2

LEMMA WireInitType == WireInit => TypeOK
<1> SUFFICES ASSUME WireInit PROVE TypeOK OBVIOUS
<1>1. sent = <<>> /\ net = <<>> /\ text = <<>> /\ orders = {} /\ running = TRUE BY DEF WireInit
<1>2. recvbuf \in [1..BufLen -> Cells] BY WireAssumption DEF WireAssumption, WireInit, Cells
<1>3. Len(text) <= BufLen + Len(<<>>) BY <1>1, ReportsAreTexts
<1>4. \E b \in Beyond \cup {<<>>} : Len(text) <= BufLen + Len(b) BY <1>3
<1> QED BY <1>1, <1>2, <1>4 DEF TypeOK

(* The buffer as it is read, and what is behind it. *)
LEMMA ReceivedType ==
  ASSUME TypeOK, NEW n \in 1..Len(net), NEW behind \in Beyond
  PROVE  /\ Received(n) \in [1..BufLen -> Cells]
         /\ Received(n) \in Seq(Cells) /\ Len(Received(n)) = BufLen
         /\ Received(n) \o behind \in Seq(Cells)
         /\ Len(Received(n) \o behind) = BufLen + Len(behind)
<1>1. BufLen \in Nat /\ behind \in Seq(Cells) BY ReportsAreTexts
<1>2. net \in Seq(Cells) /\ recvbuf \in [1..BufLen -> Cells] BY DEF TypeOK
<1>3. \A i \in 1..n : net[i] \in Cells
  <2>1. Len(net) \in Nat BY <1>2, LenProperties
  <2>2. \A i \in 1..n : i \in 1..Len(net) BY <2>1
  <2> QED BY <1>2, <2>2, ElementOfSeq
<1>4. Nul \in Cells BY DEF Cells
<1>5. ASSUME NEW i \in 1..BufLen
      PROVE  (IF i > 1 /\ (IF i <= n THEN net[i] ELSE recvbuf[i]) = CC THEN Nul
              ELSE IF i <= n THEN net[i] ELSE recvbuf[i]) \in Cells
  <2>1. CASE i <= n
    <3>1. i \in 1..n BY <1>1, <2>1
    <3> QED BY <1>3, <1>4, <2>1, <3>1
  <2>2. CASE ~(i <= n)
    <3>1. recvbuf[i] \in Cells BY <1>2
    <3> QED BY <1>4, <2>2, <3>1
  <2> QED BY <2>1, <2>2
<1>6. Received(n) \in [1..BufLen -> Cells] BY <1>5 DEF Received
<1>7. Received(n) \in Seq(Cells) BY <1>1, <1>6, SeqDef
<1>8. Len(Received(n)) = BufLen BY <1>1, <1>6
<1> QED BY <1>1, <1>6, <1>7, <1>8, ConcatProperties

LEMMA LevelType == \A code : accessLevel(code) \in 0..4
BY DEF accessLevel

LEMMA WireSendType ==
  ASSUME TypeOK, NEW r \in Reports, Send(r)
  PROVE  TypeOK'
<1>1. sent' \in Seq(Reports) BY AppendProperties DEF TypeOK, Send
<1>2. net' \in Seq(Cells) BY ReportsAreTexts, ConcatProperties DEF TypeOK, Send
<1>3. recvbuf' = recvbuf /\ text' = text /\ orders' = orders /\ running' = running BY DEF Send
<1> QED BY <1>1, <1>2, <1>3 DEF TypeOK

LEMMA WireRecvType ==
  ASSUME TypeOK, NEW n \in 1..BufLen, NEW behind \in Beyond, Recv(n, behind)
  PROVE  TypeOK' /\ n \in 1..Len(net)
<1>0. net \in Seq(Cells) /\ Len(net) \in Nat /\ BufLen \in Nat BY ReportsAreTexts, LenProperties DEF TypeOK
<1>1. n \in 1..Len(net)
  <2>1. n \in 1..Min({Len(net), BufLen}) BY DEF Recv
  <2> QED BY <1>0, <2>1, AtMost
<1>2. net' \in Seq(Cells)
  <2>1. \A i \in (n + 1)..Len(net) : i \in 1..Len(net) BY <1>0
  <2>2. \A i \in (n + 1)..Len(net) : net[i] \in Cells BY <1>0, <2>1, ElementOfSeq
  <2>3. n + 1 \in Int /\ Len(net) \in Int BY <1>0
  <2>4. SubSeq(net, n + 1, Len(net)) \in Seq(Cells) BY <2>2, <2>3, SubSeqProperties
  <2> QED BY <2>4 DEF Recv
<1>3. recvbuf' = Received(n) /\ text' = CString(recvbuf' \o behind, Nul) /\ sent' = sent BY DEF Recv
<1>4. recvbuf' \in [1..BufLen -> Cells] BY <1>1, <1>3, ReceivedType
<1>5. text' \in Seq(Cells \ {Nul}) /\ Len(text') <= BufLen + Len(behind)
  <2>1. Received(n) \o behind \in Seq(Cells) /\ Len(Received(n) \o behind) = BufLen + Len(behind)
    BY <1>1, ReceivedType
  <2>2. text' = CString(Received(n) \o behind, Nul) BY <1>3
  <2>3. /\ CString(Received(n) \o behind, Nul) \in Seq(Cells \ {Nul})
        /\ Len(CString(Received(n) \o behind, Nul)) <= Len(Received(n) \o behind)
    BY <2>1, CStringType
  <2> QED BY <2>1, <2>2, <2>3
<1>6. \A o \in orders' : o.level \in 0..4 /\ o.paid \in BOOLEAN
  <2>1. \A o \in orders : o.level \in 0..4 /\ o.paid \in BOOLEAN BY DEF TypeOK
  <2>2. PICK info : orders' \subseteq orders \cup {Order(info)} BY DEF Recv
  <2>3. Order(info).level \in 0..4 /\ Order(info).paid \in BOOLEAN BY LevelType DEF Order
  <2> QED BY <2>1, <2>2, <2>3
<1>7. running' \in BOOLEAN BY DEF Recv, TypeOK
<1>8. sent' \in Seq(Reports) BY <1>3 DEF TypeOK
<1>9. \E b \in Beyond \cup {<<>>} : Len(text') <= BufLen + Len(b) BY <1>5
<1> QED BY <1>1, <1>2, <1>4, <1>5, <1>6, <1>7, <1>8, <1>9 DEF TypeOK

LEMMA WireType == TypeOK /\ [WireNext]_wireVars => TypeOK'
<1> SUFFICES ASSUME TypeOK, [WireNext]_wireVars PROVE TypeOK' OBVIOUS
<1>1. CASE WireNext BY <1>1, WireSendType, WireRecvType DEF WireNext
<1>2. CASE UNCHANGED wireVars BY <1>2 DEF TypeOK, wireVars
<1> QED BY <1>1, <1>2

(* The text made of the buffer never holds a terminator, nor more than the  *)
(* buffer and what lies behind it, however reports are cut up on the way    *)
(* and whatever was in the buffer (clienthandler.cpp:386-387, 453-461).     *)
THEOREM WireTypeCorrect == WireSpec => []TypeOK
<1>1. WireInit => TypeOK BY WireInitType
<1>2. TypeOK /\ [WireNext]_wireVars => TypeOK' BY WireType
<1> QED BY <1>1, <1>2, PTL DEF WireSpec

(* What is on its way is the last report, and whatever was read is entered. *)
OneReportAtATime == net # <<>> => sent # <<>> /\ net = sent[Len(sent)]
ReadIsEntered == \A i \in 1..Len(sent) :
  i < Len(sent) \/ net = <<>> => doesOrderExist(IdOf(sent[i]))

(* The inductive invariant of whole, plain reports. *)
WireInv == TypeOK /\ OrdersKeepComing /\ OneReportAtATime /\ ReadIsEntered /\ EnteredAsReported

(* The text of a whole report is the report and perhaps more. *)
LEMMA TextBegins ==
  ASSUME TypeOK, PlainReports, NEW r \in Reports, net = r,
         NEW behind \in Beyond
  PROVE  \E u \in Seq(Cells) : CString(Received(Len(r)) \o behind, Nul) = r \o u
<1> DEFINE n == Len(r)
           w == Received(n) \o behind
           q == SubSeq(w, n + 1, Len(w))
<1>1. r \in Seq(Cells) /\ n \in 1..(BufLen - 1) /\ BufLen \in Nat BY ReportsAreTexts
<1>2. \A i \in 1..n : r[i] # Nul /\ r[i] # CC
  <2>1. ToSet(r) \cap {Nul, CC} = {} BY DEF PlainReports
  <2>2. \A i \in 1..n : r[i] \in ToSet(r) BY <1>1, LenProperties DEF ToSet
  <2> QED BY <2>1, <2>2
<1>3. n \in 1..Len(net) BY <1>1
<1>4. /\ Received(n) \in Seq(Cells) /\ Len(Received(n)) = BufLen
      /\ w \in Seq(Cells) /\ Len(w) = BufLen + Len(behind)
  BY <1>3, ReceivedType
<1>5. behind \in Seq(Cells) /\ Len(behind) \in Nat BY ReportsAreTexts
<1>6. ASSUME NEW i \in 1..n PROVE w[i] = r[i]
  <2>1. i \in 1..BufLen /\ i <= n BY <1>1
  <2>2. Received(n)[i] = r[i] BY <1>2, <2>1 DEF Received
  <2>3. w[i] = Received(n)[i] BY <1>4, <1>5, <2>1, ConcatProperties
  <2> QED BY <2>2, <2>3
<1>7. w = SubSeq(w, 1, n) \o q
  <2> HIDE DEF w
  <2>1. /\ 1 \in 1..(Len(w) + 1) /\ n \in (1 - 1)..Len(w) /\ Len(w) \in n..Len(w)
    BY <1>1, <1>4, <1>5
  <2>2. SubSeq(w, 1, n) \o SubSeq(w, n + 1, Len(w)) = SubSeq(w, 1, Len(w))
    BY <1>4, <2>1, ConcatAdjacentSubSeq
  <2>3. SubSeq(w, 1, Len(w)) = w BY <1>4, SubSeqFull
  <2> QED BY <2>2, <2>3
<1>8. \A i \in 1..Len(w) : w[i] \in Cells
  <2> HIDE DEF w
  <2> QED BY <1>4, ElementOfSeq
<1>9. SubSeq(w, 1, n) = r
  <2> DEFINE p == SubSeq(w, 1, n)
  <2> HIDE DEF w
  <2>1. \A i \in 1..n : i \in 1..Len(w) BY <1>1, <1>4, <1>5
  <2>2. \A i \in 1..n : w[i] \in Cells BY <1>8, <2>1
  <2>3. /\ p \in Seq(Cells) /\ Len(p) = IF 1 <= n THEN n - 1 + 1 ELSE 0
        /\ \A i \in 1..(n - 1 + 1) : p[i] = w[1 + i - 1]
    BY <1>1, <2>2, SubSeqProperties
  <2>4. Len(p) = n /\ \A i \in 1..n : p[i] = w[i]
    <3> HIDE DEF p
    <3> QED BY <1>1, <2>3
  <2>5. \A i \in 1..Len(p) : p[i] = r[i]
    <3> HIDE DEF p
    <3> QED BY <1>6, <2>4
  <2> HIDE DEF p
  <2>6. p = r BY <1>1, <2>3, <2>4, <2>5, SeqEqual
  <2> QED BY <2>6 DEF p
<1>10. q \in Seq(Cells)
  <2> HIDE DEF w
  <2>1. \A i \in (n + 1)..Len(w) : i \in 1..Len(w) BY <1>1, <1>4, <1>5
  <2>2. \A i \in (n + 1)..Len(w) : w[i] \in Cells BY <1>8, <2>1
  <2>3. n + 1 \in Int /\ Len(w) \in Int BY <1>1, <1>4, <1>5
  <2> QED BY <2>2, <2>3, SubSeqProperties
<1>11. r \in Seq(Cells \ {Nul})
  <2>1. r \in [1..n -> Cells] BY <1>1, LenProperties
  <2>2. r \in [1..n -> Cells \ {Nul}] BY <1>2, <2>1
  <2>3. n \in Nat BY <1>1
  <2> QED BY <2>2, <2>3, SeqDef
<1>12. CString(r \o q, Nul) = r \o CString(q, Nul)
  <2> HIDE DEF q
  <2> QED BY <1>10, <1>11, CStringConcat
<1>13. CString(q, Nul) \in Seq(Cells)
  <2> HIDE DEF q
  <2>1. CString(q, Nul) \in Seq(Cells \ {Nul}) BY <1>10, CStringType
  <2> QED BY <2>1, SeqMonotonic
<1>14. w = r \o q
  <2> HIDE DEF w, q
  <2> QED BY <1>7, <1>9
<1> HIDE DEF q, w
<1>15. CString(w, Nul) = r \o CString(q, Nul) BY <1>12, <1>14
<1> QED BY <1>13, <1>15 DEF w

(* Its fields are the report's: all but a payment, which may have grown.    *)
LEMMA FieldsBegin ==
  ASSUME PlainReports, NEW r \in Reports, NEW u \in Seq(Cells)
  PROVE  LET info == explode(r \o u, "|")
         IN  /\ Len(info) >= 4
             /\ Order(info).orderid = IdOf(r) /\ info[1] = IdOf(r)
             /\ Order(info).date = Order(explode(r, "|")).date
             /\ Order(info).level = Order(explode(r, "|")).level
             /\ Order(explode(r, "|")).paid => Order(info).paid
<1> DEFINE E == explode(r, "|")
           info == explode(r \o u, "|")
<1>1. r \in Seq(Cells) /\ Len(E) = 4 BY ReportsAreTexts
<1>2. E # <<>>
  <2> SUFFICES ASSUME E = <<>> PROVE FALSE OBVIOUS
  <2>1. Len(E) = 0 OBVIOUS
  <2> HIDE DEF E
  <2> QED BY <1>1, <2>1
<1>3. Covers(info, E) BY <1>1, <1>2, ExplodeExtends
<1>4. E \in Seq(Field(Cells, "|")) /\ info \in Seq(Field(Cells, "|"))
  <2>1. r \o u \in Seq(Cells) BY <1>1, ConcatProperties
  <2> QED BY <1>1, <2>1, ExplodeType
<1> HIDE DEF E, info
<1>5. Len(info) >= 4
  <2>1. Len(info) \in Nat BY <1>4, LenProperties
  <2> QED BY <1>1, <1>3, <2>1 DEF Covers
<1>6. info[1] = E[1] /\ info[2] = E[2] /\ info[3] = E[3] BY <1>1, <1>3 DEF Covers
<1>7. E[4] # Null => info[4] # Null
  <2> SUFFICES ASSUME info[4] = Null PROVE E[4] = Null OBVIOUS
  <2>1. Begins(Null, E[4]) BY <1>1, <1>3 DEF Covers
  <2>2. ~IsStrictPrefix(E[4], Null) BY DEF PlainReports, E
  <2>3. E[4] \in Seq(Cells)
    <3>1. 4 \in 1..Len(E) BY <1>1
    <3>2. E[4] \in Field(Cells, "|") BY <1>4, <3>1, ElementOfSeq
    <3> QED BY <3>2 DEF Field, Piece
  <2>4. Null \in Seq(Cells)
    <3>1. Len(info) \in Nat BY <1>4, LenProperties
    <3>2. 4 \in 1..Len(info) BY <1>5, <3>1
    <3>3. info[4] \in Field(Cells, "|") BY <1>4, <3>2, ElementOfSeq
    <3> QED BY <3>3 DEF Field, Piece
  <2> DEFINE m == Len(E[4])
  <2>5. m \in Nat /\ Len(Null) \in Nat /\ m <= Len(Null) BY <2>1, <2>3, <2>4, LenProperties DEF Begins
  <2>6. SubSeq(Null, 1, m) = E[4]
    <3>1. \A i \in 1..m : i \in 1..Len(Null) BY <2>5
    <3>2. \A i \in 1..m : Null[i] \in Cells BY <2>4, <3>1, ElementOfSeq
    <3> DEFINE p == SubSeq(Null, 1, m)
    <3> HIDE DEF m
    <3>3. /\ p \in Seq(Cells) /\ Len(p) = IF 1 <= m THEN m - 1 + 1 ELSE 0
          /\ \A i \in 1..(m - 1 + 1) : p[i] = Null[1 + i - 1]
      BY <2>5, <3>2, SubSeqProperties
    <3>4. Len(p) = m /\ \A i \in 1..m : p[i] = Null[i]
      <4> HIDE DEF p
      <4> QED BY <2>5, <3>3
    <3>5. \A i \in 1..m : Null[i] = E[4][i] BY <2>1 DEF Begins, m
    <3>6. Len(p) = Len(E[4]) /\ \A i \in 1..Len(p) : p[i] = E[4][i]
      <4> HIDE DEF p
      <4> QED BY <3>4, <3>5 DEF m
    <3> HIDE DEF p
    <3>7. p = E[4] BY <2>3, <3>3, <3>6, SeqEqual
    <3> QED BY <3>7 DEF p
  <2>7. SubSeq(E[4], 1, m) = E[4] BY <2>3, SubSeqFull
  <2>8. IsPrefix(E[4], Null) BY <2>5, <2>6, <2>7 DEF IsPrefix
  <2> QED BY <2>2, <2>8 DEF IsStrictPrefix
<1>8. IdOf(r) = E[1] BY DEF IdOf, E
<1>9. /\ Order(info).orderid = info[1] /\ Order(info).date = info[3]
      /\ Order(info).level = accessLevel(info[2]) /\ Order(info).paid = (info[4] # Null)
      /\ Order(E).date = E[3] /\ Order(E).level = accessLevel(E[2]) /\ Order(E).paid = (E[4] # Null)
  BY DEF Order
<1>10. Order(info).paid <=> info[4] # Null BY <1>9
<1>11. Order(E).paid <=> E[4] # Null BY <1>9
<1>12. Order(E).paid => Order(info).paid BY <1>7, <1>10, <1>11
<1>13. /\ Order(info).orderid = IdOf(r) /\ info[1] = IdOf(r)
       /\ Order(info).date = Order(E).date /\ Order(info).level = Order(E).level
  BY <1>6, <1>8, <1>9
<1> QED BY <1>5, <1>12, <1>13 DEF E, info

LEMMA FirstIs ==
  ASSUME NEW q \in Seq(Reports), NEW m \in 1..Len(q),
         \A i \in 1..(m - 1) : IdOf(q[i]) # IdOf(q[m])
  PROVE  Min({i \in 1..Len(q) : IdOf(q[i]) = IdOf(q[m])}) = m
<1> DEFINE T == {i \in 1..Len(q) : IdOf(q[i]) = IdOf(q[m])}
<1>1. T \in SUBSET Nat /\ m \in T OBVIOUS
<1>2. \A i \in T : m <= i OBVIOUS
<1> HIDE DEF T
<1>3. Min(T) = m BY <1>1, <1>2, MinIs
<1> QED BY <1>3 DEF T

LEMMA WireInitInv == WireInit => WireInv
<1> SUFFICES ASSUME WireInit PROVE WireInv OBVIOUS
<1>1. sent = <<>> /\ net = <<>> /\ orders = {} /\ running = TRUE BY DEF WireInit
<1>2. OrdersKeepComing BY <1>1 DEF OrdersKeepComing
<1>3. OneReportAtATime BY <1>1 DEF OneReportAtATime
<1>4. ReadIsEntered BY <1>1 DEF ReadIsEntered
<1>5. EnteredAsReported BY <1>1 DEF EnteredAsReported
<1> QED BY <1>2, <1>3, <1>4, <1>5, WireInitType DEF WireInv

(* A report sent: what was reported first stays so. *)
LEMMA WireSendInv ==
  ASSUME WireInv, WholeReports, NEW r \in Reports, Send(r)
  PROVE  WireInv'
<1>1. TypeOK' BY WireSendType DEF WireInv
<1>2. /\ net = <<>> /\ sent' = Append(sent, r) /\ net' = net \o r
      /\ orders' = orders /\ running' = running
  BY DEF Send
<1>3. /\ sent \in Seq(Reports) /\ Len(sent) \in Nat /\ sent' \in Seq(Reports) /\ sent' # <<>>
      /\ Len(sent') = Len(sent) + 1 /\ sent'[Len(sent')] = r
      /\ \A i \in 1..Len(sent) : sent'[i] = sent[i]
  <2>1. sent \in Seq(Reports) /\ Len(sent) \in Nat BY LenProperties DEF WireInv, TypeOK
  <2> QED BY <1>2, <2>1, AppendProperties
<1>4. net' = r /\ net' # <<>>
  <2>1. r \in Seq(Cells) /\ Len(r) >= 1 BY ReportsAreTexts
  <2>2. <<>> \o r = r BY <2>1, ConcatEmptySeq
  <2>3. r # <<>> BY <2>1
  <2> QED BY <1>2, <2>2, <2>3
<1>5. OrdersKeepComing' BY <1>2 DEF WireInv, OrdersKeepComing
<1>6. OneReportAtATime' BY <1>3, <1>4 DEF OneReportAtATime
<1>7. ReadIsEntered'
  <2> SUFFICES ASSUME NEW i \in 1..Len(sent'), i < Len(sent') \/ net' = <<>>
               PROVE  \E o \in orders' : o.orderid = IdOf(sent'[i])
    BY DEF ReadIsEntered, doesOrderExist, IdOf
  <2>1. i \in 1..Len(sent) /\ sent'[i] = sent[i] BY <1>3, <1>4
  <2>2. doesOrderExist(IdOf(sent[i])) BY <1>2, <2>1 DEF WireInv, ReadIsEntered
  <2> QED BY <1>2, <2>1, <2>2 DEF doesOrderExist
<1>8. ASSUME NEW o \in orders
      PROVE  /\ \E i \in 1..Len(sent') : IdOf(sent'[i]) = o.orderid
             /\ FirstReport(o.orderid)' = FirstReport(o.orderid)
  <2> DEFINE T == {i \in 1..Len(sent) : IdOf(sent[i]) = o.orderid}
  <2>1. T # {} BY DEF WireInv, EnteredAsReported
  <2>2. PICK m \in T : \A i \in T : m <= i
    <3>1. T \in SUBSET Nat OBVIOUS
    <3> HIDE DEF T
    <3> QED BY <2>1, <3>1, Least
  <2>3. m \in 1..Len(sent) /\ IdOf(sent[m]) = o.orderid OBVIOUS
  <2>4. \A i \in 1..(m - 1) : IdOf(sent[i]) # IdOf(sent[m])
    <3>1. \A i \in 1..(m - 1) : i \in 1..Len(sent) /\ ~(m <= i) BY <1>3, <2>3
    <3> QED BY <2>2, <2>3, <3>1
  <2>5. Min(T) = m
    <3>1. Min({i \in 1..Len(sent) : IdOf(sent[i]) = IdOf(sent[m])}) = m
      BY <1>3, <2>3, <2>4, FirstIs
    <3> QED BY <2>3, <3>1
  <2>6. /\ m \in 1..Len(sent') /\ sent'[m] = sent[m]
        /\ \A i \in 1..(m - 1) : IdOf(sent'[i]) # IdOf(sent'[m])
    BY <1>3, <2>3, <2>4
  <2>7. Min({i \in 1..Len(sent') : IdOf(sent'[i]) = o.orderid}) = m
    <3>1. Min({i \in 1..Len(sent') : IdOf(sent'[i]) = IdOf(sent'[m])}) = m
      BY <1>3, <2>6, FirstIs
    <3> QED BY <2>3, <2>6, <3>1
  <2>8. FirstReport(o.orderid) = Order(explode(sent[m], "|"))
    <3> HIDE DEF T
    <3>1. FirstReport(o.orderid) = Order(explode(sent[Min(T)], "|")) BY DEF FirstReport, T
    <3> QED BY <2>5, <3>1
  <2>9. FirstReport(o.orderid)' = Order(explode(sent'[m], "|"))
    <3>1. FirstReport(o.orderid)' = Order(explode(sent'[Min({i \in 1..Len(sent') : IdOf(sent'[i]) = o.orderid})], "|"))
      BY DEF FirstReport, Order, explode, IdOf
    <3> QED BY <2>7, <3>1
  <2> QED BY <2>3, <2>6, <2>8, <2>9
<1>9. EnteredAsReported' BY <1>2, <1>8 DEF WireInv, EnteredAsReported
<1> QED BY <1>1, <1>5, <1>6, <1>7, <1>9 DEF WireInv

(* A report read: it is the last one sent, and the first of its id unless   *)
(* its order is there already.                                             *)
LEMMA WireRecvInv ==
  ASSUME WireInv, WholeReports, PlainReports, NEW n \in 1..BufLen, NEW behind \in Beyond,
         Recv(n, behind)
  PROVE  WireInv'
<1> DEFINE nth == Len(sent)
           r == sent[nth]
           info == explode(text', "|")
<1>1. TypeOK' /\ n \in 1..Len(net) BY WireRecvType DEF WireInv
<1>2. TypeOK /\ sent \in Seq(Reports) /\ nth \in Nat /\ sent' = sent
  BY LenProperties DEF WireInv, TypeOK, Recv
<1>3. net # <<>> /\ n = Len(net)
  <2>1. net # <<>> BY <1>1
  <2> QED BY <2>1 DEF Recv
<1>4. net = r /\ nth \in 1..nth /\ r \in Reports
  <2>1. sent # <<>> /\ net = r BY <1>3 DEF WireInv, OneReportAtATime
  <2>2. nth \in 1..nth BY <1>2, <2>1, EmptySeq
  <2> QED BY <1>2, <2>1, <2>2, ElementOfSeq
<1>5. PICK u \in Seq(Cells) : text' = r \o u
  <2>1. text' = CString(Received(n) \o behind, Nul) BY DEF Recv
  <2>2. text' = CString(Received(Len(net)) \o behind, Nul) BY <1>3, <2>1
  <2> HIDE DEF r
  <2>3. \E u \in Seq(Cells) : CString(Received(Len(r)) \o behind, Nul) = r \o u
    BY <1>2, <1>4, TextBegins
  <2> QED BY <1>4, <2>2, <2>3
<1>6. /\ Len(info) >= 4
      /\ Order(info).orderid = IdOf(r) /\ info[1] = IdOf(r)
      /\ Order(info).date = Order(explode(r, "|")).date
      /\ Order(info).level = Order(explode(r, "|")).level
      /\ Order(explode(r, "|")).paid => Order(info).paid
  <2> HIDE DEF r
  <2> QED BY <1>4, <1>5, FieldsBegin
<1>7. /\ orders' = IF doesOrderExist(info[1]) THEN orders ELSE orders \cup {Order(info)}
      /\ running' = running
  <2>1. ~(Len(info) < 4)
    <3>1. Len(info) \in Int
      <4>1. r \o u \in Seq(Cells) BY <1>4, ReportsAreTexts, ConcatProperties
      <4>2. info \in Seq(Field(Cells, "|")) BY <1>5, <4>1, ExplodeType
      <4> HIDE DEF info
      <4> QED BY <4>2, LenProperties
    <3> HIDE DEF info
    <3> QED BY <1>6, <3>1
  <2> QED BY <2>1 DEF Recv
<1>8. net' = <<>>
  <2>1. net' = SubSeq(net, n + 1, Len(net)) BY DEF Recv
  <2>2. n + 1 \in Int /\ Len(net) \in Int /\ Len(net) < n + 1 BY <1>3
  <2> QED BY <2>1, <2>2, SubSeqEmpty
<1>9. OrdersKeepComing' BY <1>7 DEF WireInv, OrdersKeepComing
<1>10. OneReportAtATime' BY <1>8 DEF OneReportAtATime
<1> HIDE DEF info, r
<1>11. \E o \in orders' : o.orderid = IdOf(r) BY <1>6, <1>7 DEF doesOrderExist
<1>12. ReadIsEntered'
  <2> SUFFICES ASSUME NEW i \in 1..nth PROVE \E o \in orders' : o.orderid = IdOf(sent[i])
    BY <1>2 DEF ReadIsEntered, doesOrderExist, IdOf
  <2>1. CASE i = nth BY <1>11, <2>1 DEF r
  <2>2. CASE i # nth
    <3>1. i < Len(sent) BY <1>2, <2>2
    <3>2. \E o \in orders : o.orderid = IdOf(sent[i]) BY <3>1 DEF WireInv, ReadIsEntered, doesOrderExist
    <3> QED BY <1>7, <3>2
  <2> QED BY <2>1, <2>2
<1>13. \A id : FirstReport(id)' = FirstReport(id) BY <1>2 DEF FirstReport, Order, explode, IdOf
<1>14. EnteredAsReported'
  <2> SUFFICES ASSUME NEW o \in orders'
               PROVE  /\ \E i \in 1..nth : IdOf(sent[i]) = o.orderid
                      /\ o.date = FirstReport(o.orderid).date
                      /\ o.level = FirstReport(o.orderid).level
                      /\ FirstReport(o.orderid).paid => o.paid
    BY <1>2, <1>13 DEF EnteredAsReported, IdOf
  <2>1. CASE o \in orders BY <2>1 DEF WireInv, EnteredAsReported
  <2>2. CASE o \notin orders
    <3>1. o = Order(info) /\ ~doesOrderExist(IdOf(r)) BY <1>6, <1>7, <2>2
    <3>2. \A i \in 1..(nth - 1) : IdOf(sent[i]) # IdOf(r)
      <4>1. \A i \in 1..(nth - 1) : i \in 1..nth /\ i < nth BY <1>2
      <4> QED BY <3>1, <4>1 DEF WireInv, ReadIsEntered
    <3>3. Min({i \in 1..Len(sent) : IdOf(sent[i]) = IdOf(r)}) = nth
      BY <1>2, <1>4, <3>2, FirstIs DEF r
    <3>4. FirstReport(IdOf(r)) = Order(explode(r, "|"))
      <4>1. FirstReport(IdOf(r)) = Order(explode(sent[Min({i \in 1..Len(sent) : IdOf(sent[i]) = IdOf(r)})], "|"))
        BY DEF FirstReport
      <4> QED BY <3>3, <4>1 DEF r
    <3>5. o.orderid = IdOf(r) BY <1>6, <3>1
    <3>6. \E i \in 1..nth : IdOf(sent[i]) = o.orderid BY <1>4, <3>5 DEF r
    <3> QED BY <1>6, <3>1, <3>4, <3>5, <3>6
  <2> QED BY <2>1, <2>2
<1> QED BY <1>1, <1>9, <1>10, <1>12, <1>14 DEF WireInv

LEMMA WireInvariant ==
  ASSUME WholeReports, PlainReports
  PROVE  WireSpec => []WireInv
<1>1. WireInit => WireInv BY WireInitInv
<1>2. WireInv /\ [WireNext]_wireVars => WireInv'
  <2> SUFFICES ASSUME WireInv, [WireNext]_wireVars PROVE WireInv' OBVIOUS
  <2>1. CASE WireNext BY <2>1, WireSendInv, WireRecvInv DEF WireNext
  <2>2. CASE UNCHANGED wireVars
    <3>1. /\ sent' = sent /\ net' = net /\ recvbuf' = recvbuf /\ text' = text
          /\ orders' = orders /\ running' = running
      BY <2>2 DEF wireVars
    <3>2. TypeOK' BY <3>1 DEF WireInv, TypeOK
    <3>3. OrdersKeepComing' BY <3>1 DEF WireInv, OrdersKeepComing
    <3>4. OneReportAtATime' BY <3>1 DEF WireInv, OneReportAtATime
    <3>5. ReadIsEntered' BY <3>1 DEF WireInv, ReadIsEntered, doesOrderExist
    <3>6. EnteredAsReported' BY <3>1 DEF WireInv, EnteredAsReported, FirstReport
    <3> QED BY <3>2, <3>3, <3>4, <3>5, <3>6 DEF WireInv
  <2> QED BY <2>1, <2>2
<1> QED BY <1>1, <1>2, PTL DEF WireSpec

(* If every recv returns a whole report, and reports are plain, every order *)
(* entered has the date and the product of the first report of its id, and  *)
(* is paid if that was: whatever an older and longer report, an             *)
(* uninitialised buffer or the memory behind it add to the text             *)
(* (clienthandler.cpp:386, 453-484).                                       *)
THEOREM EntersWhatWasReported ==
  WholeReports /\ PlainReports => (WireSpec => []EnteredAsReported)
<1> SUFFICES ASSUME WholeReports, PlainReports PROVE WireSpec => []EnteredAsReported OBVIOUS
<1>1. WireSpec => []WireInv BY WireInvariant
<1>2. WireInv => EnteredAsReported BY DEF WireInv
<1> QED BY <1>1, <1>2, PTL

(* Then the loop never ends either: the index out of range that a report in *)
(* two pieces causes (clienthandler.cpp:466-479) is out of reach.           *)
THEOREM WholeReportsKeepComing ==
  WholeReports /\ PlainReports => (WireSpec => []OrdersKeepComing)
<1> SUFFICES ASSUME WholeReports, PlainReports PROVE WireSpec => []OrdersKeepComing OBVIOUS
<1>1. WireSpec => []WireInv BY WireInvariant
<1>2. WireInv => OrdersKeepComing BY DEF WireInv
<1> QED BY <1>1, <1>2, PTL

-----------------------------------------------------------------------------
(* The encryption *)

(* XOR is its own inverse, and only '#' becomes a terminator. *)
LEMMA XorTwice ==
  \A x \in 0..127 : /\ XorHash(x) \in 0..127
                    /\ XorHash(XorHash(x)) = x
                    /\ XorHash(x) = NUL <=> x = Hash
<1> SUFFICES ASSUME NEW x \in 0..127
             PROVE  /\ XorHash(x) \in 0..127
                    /\ XorHash(XorHash(x)) = x
                    /\ XorHash(x) = NUL <=> x = Hash
  OBVIOUS
<1>1. XorHash(x) \in 0..127 BY Z3 DEF XorHash, Flip
<1>2. XorHash(XorHash(x)) = x BY Z3 DEF XorHash, Flip
<1>3. XorHash(x) = NUL <=> x = Hash BY Z3 DEF XorHash, Flip, NUL, Hash
<1> QED BY <1>1, <1>2, <1>3

LEMMA EncryptType ==
  ASSUME NEW m \in Seq(0..127)
  PROVE  /\ encryptDecrypt(m) \in Seq(0..127) /\ Len(encryptDecrypt(m)) = Len(m)
         /\ \A i \in 1..Len(m) : encryptDecrypt(m)[i] = XorHash(m[i])
<1> DEFINE x == encryptDecrypt(m)
<1>1. Len(m) \in Nat BY LenProperties
<1>2. \A i \in 1..Len(m) : XorHash(m[i]) \in 0..127 BY ElementOfSeq, XorTwice
<1>3. x \in [1..Len(m) -> 0..127] BY <1>2 DEF encryptDecrypt
<1>4. x \in Seq(0..127) BY <1>1, <1>3, SeqDef
<1>5. Len(x) = Len(m) BY <1>1, <1>3
<1> QED BY <1>4, <1>5 DEF encryptDecrypt

(* What the server makes of a message: the characters before its first '#', *)
(* which XOR turns into a terminator (clienthandler.cpp:116-146).           *)
THEOREM ArrivesUpToHash ==
  ASSUME NEW m \in Seq(1..127)
  PROVE  receivepacket(encryptDecrypt(m)) = CString(m, Hash)
<1> DEFINE x == encryptDecrypt(m)
<1>0. m \in Seq(0..127) BY SeqMonotonic
<1>1. PICK k \in 0..Len(m) : (\A i \in 1..k : m[i] # Hash) /\ (k = Len(m) \/ m[k + 1] = Hash)
  BY CStringEnds
<1>2. Len(m) \in Nat BY LenProperties
<1>3. x \in Seq(0..127) /\ Len(x) = Len(m) /\ \A i \in 1..Len(m) : x[i] = XorHash(m[i])
  BY <1>0, EncryptType
<1>4. \A i \in 1..Len(m) : m[i] \in 1..127 BY ElementOfSeq
<1>5. ASSUME NEW i \in 1..Len(m) PROVE x[i] = NUL <=> m[i] = Hash
  <2>1. m[i] \in 0..127 BY <1>4
  <2>2. XorHash(m[i]) = NUL <=> m[i] = Hash BY <2>1, XorTwice
  <2> HIDE DEF x
  <2> QED BY <1>3, <2>2
<1> HIDE DEF x
<1>6. \A i \in 1..k : i \in 1..Len(m) BY <1>2
<1>7. CString(x, NUL) = SubSeq(x, 1, k)
  <2>1. k \in 0..Len(x) BY <1>3
  <2>2. \A i \in 1..k : x[i] # NUL BY <1>1, <1>5, <1>6
  <2>3. k = Len(x) \/ x[k + 1] = NUL
    <3>1. k # Len(m) => k + 1 \in 1..Len(m) BY <1>2
    <3> QED BY <1>1, <1>3, <1>5, <3>1
  <2> QED BY <1>3, <2>1, <2>2, <2>3, CStringIs
<1> DEFINE p == SubSeq(x, 1, k)
           q == encryptDecrypt(p)
           r == SubSeq(m, 1, k)
<1>8. p \in Seq(0..127) /\ Len(p) = k /\ \A i \in 1..k : p[i] = x[i]
  <2>1. \A i \in 1..k : x[i] \in 0..127 BY <1>3, <1>6, ElementOfSeq
  <2>2. /\ p \in Seq(0..127) /\ Len(p) = IF 1 <= k THEN k - 1 + 1 ELSE 0
        /\ \A i \in 1..(k - 1 + 1) : p[i] = x[1 + i - 1]
    BY <2>1, SubSeqProperties
  <2> HIDE DEF p
  <2> QED BY <2>2
<1>9. r \in Seq(0..127) /\ Len(r) = k /\ \A i \in 1..k : r[i] = m[i]
  <2>1. \A i \in 1..k : m[i] \in 0..127 BY <1>0, <1>6, ElementOfSeq
  <2>2. /\ r \in Seq(0..127) /\ Len(r) = IF 1 <= k THEN k - 1 + 1 ELSE 0
        /\ \A i \in 1..(k - 1 + 1) : r[i] = m[1 + i - 1]
    BY <2>1, SubSeqProperties
  <2> HIDE DEF r
  <2> QED BY <2>2
<1> HIDE DEF p, r
<1>10. q \in Seq(0..127) /\ Len(q) = k /\ \A i \in 1..k : q[i] = XorHash(p[i])
  BY <1>8, EncryptType
<1> HIDE DEF q
<1>11. \A i \in 1..k : q[i] = m[i]
  <2>1. \A i \in 1..k : q[i] = XorHash(XorHash(m[i])) BY <1>3, <1>6, <1>8, <1>10
  <2>2. \A i \in 1..k : m[i] \in 0..127 BY <1>4, <1>6
  <2> QED BY <2>1, <2>2, XorTwice
<1>12. q = r BY <1>9, <1>10, <1>11, SeqEqual
<1>13. CString(q, NUL) = q
  <2>1. ASSUME NEW i \in 1..k PROVE q[i] # NUL
    <3>1. q[i] \in 1..127 BY <1>4, <1>6, <1>11
    <3>2. NUL \notin 1..127 BY DEF NUL
    <3> QED BY <3>1, <3>2
  <2>2. k \in 0..Len(q) /\ k = Len(q) BY <1>10
  <2>3. CString(q, NUL) = SubSeq(q, 1, k) BY <1>10, <2>1, <2>2, CStringIs
  <2> QED BY <1>10, <2>3, SubSeqFull
<1>14. CString(m, Hash) = r BY <1>1, CStringIs DEF r
<1>15. receivepacket(encryptDecrypt(m)) = CString(encryptDecrypt(CString(x, NUL)), NUL) BY DEF receivepacket, x
<1>16. CString(encryptDecrypt(CString(x, NUL)), NUL) = CString(q, NUL) BY <1>7 DEF q, p
<1> QED BY <1>12, <1>13, <1>14, <1>15, <1>16

-----------------------------------------------------------------------------
(* Logins *)

(* Names are kept as they were typed, without bad characters. *)
GoodAccounts == \A a \in accounts : ToSet(a) \cap badchars = {}
ArrivedText == message \in Seq(1..127) /\ buf = CString(message, Hash)
MessagesInv == GoodAccounts /\ ArrivedText /\ DOMAIN told = Names /\ PlainNamesCanSignIn

Chars == (1..127) \ {Hash, Substitute}

LEMMA PartsAreTexts ==
  /\ \A n \in Names : n \in Seq(1..127) /\ n # <<>>
  /\ PwdHash \in Seq(Chars) /\ PwdHash \in Field(Chars, Dash)
  /\ Hwid \in Seq(Chars) /\ Hwid \in Field(Chars, Dash)
  /\ \A n \in Names : ToSet(n) \cap (badchars \cup Unforeseen) = {}
                      => n \in Seq(Chars) /\ n \in Field(Chars, Dash)
<1>1. ASSUME NEW t, t # <<>>, t \in Seq(1..127), ToSet(t) \cap {Hash, Dash, Substitute} = {}
      PROVE  t \in Seq(Chars) /\ t \in Field(Chars, Dash)
  <2>1. Len(t) \in Nat /\ t \in [1..Len(t) -> 1..127] /\ DOMAIN t = 1..Len(t) BY <1>1, LenProperties
  <2>2. \A i \in 1..Len(t) : t[i] \in ToSet(t) BY <2>1 DEF ToSet
  <2>3. \A i \in 1..Len(t) : t[i] # Hash /\ t[i] # Dash /\ t[i] # Substitute BY <1>1, <2>2
  <2>4. t \in [1..Len(t) -> Chars] BY <2>1, <2>3 DEF Chars
  <2>5. t \in Seq(Chars) BY <2>1, <2>4, SeqDef
  <2> QED BY <1>1, <2>3, <2>5 DEF Field, Piece
<1>2. \A n \in Names \cup {PwdHash, Hwid} : n # <<>> /\ n \in Seq(1..127) BY MessagesAssumption
<1>3. /\ ToSet(PwdHash) \cap {Hash, Dash, Substitute} = {}
      /\ ToSet(Hwid) \cap {Hash, Dash, Substitute} = {}
  <2>1. PwdHash \in Seq(1..127) /\ Hwid \in Seq(1..127) BY <1>2
  <2>2. Range(PwdHash \o Hwid) = Range(PwdHash) \cup Range(Hwid) BY <2>1, RangeConcatenation
  <2>3. \A t : ToSet(t) = Range(t) BY DEF ToSet, Range
  <2>4. ToSet(PwdHash \o Hwid) \cap {Hash, Dash, Substitute} = {} BY MessagesAssumption
  <2> QED BY <2>2, <2>3, <2>4
<1>4. Hash \in badchars /\ Dash \in Unforeseen /\ Substitute \in Unforeseen BY DEF badchars, Unforeseen
<1> QED BY <1>1, <1>2, <1>3, <1>4

LEMMA FirstOf ==
  ASSUME NEW S, NEW x \in Seq(S), NEW y \in Seq(S), x # <<>>
  PROVE  x \o y # <<>> /\ (x \o y)[1] = x[1]
<1>1. Len(x) \in Nat /\ Len(x) >= 1 /\ Len(y) \in Nat BY EmptySeq, LenProperties
<1>2. 1 \in 1..(Len(x) + Len(y)) /\ 1 <= Len(x) BY <1>1
<1>3. (x \o y)[1] = x[1] BY <1>2, ConcatProperties
<1>4. x \o y # <<>> BY ConcatEqualIffEmpty
<1> QED BY <1>3, <1>4

(* A list with one more element. *)
LEMMA OneMore ==
  ASSUME NEW S, NEW x \in Seq(S), NEW k \in Nat, Len(x) = k, NEW z \in S, NEW y, y = x \o <<z>>
  PROVE  /\ y \in Seq(S) /\ Len(y) = k + 1 /\ y[k + 1] = z
         /\ \A i \in 1..k : y[i] = x[i]
<1>1. y = Append(x, z) BY AppendIsConcat, Zenon
<1>2. /\ Append(x, z) \in Seq(S) /\ Len(Append(x, z)) = k + 1 /\ Append(x, z)[k + 1] = z
      /\ \A i \in 1..k : Append(x, z)[i] = x[i]
  BY AppendProperties
<1> QED BY <1>1, <1>2

LEMMA FiveFields ==
  ASSUME NEW S, NEW a \in S, NEW b \in S, NEW c \in S, NEW d \in S, NEW e \in S
  PROVE  LET f == (((<<a>> \o <<b>>) \o <<c>>) \o <<d>>) \o <<e>>
         IN  Len(f) = 5 /\ f[2] = b /\ f[3] = c /\ f[4] = d /\ f[5] = e
<1>1. <<a>> \in Seq(S) /\ Len(<<a>>) = 1 OBVIOUS
<1>2. PICK y1 : y1 = <<a>> OBVIOUS
<1>3. PICK y2 : y2 = y1 \o <<b>> OBVIOUS
<1>4. PICK y3 : y3 = y2 \o <<c>> OBVIOUS
<1>5. PICK y4 : y4 = y3 \o <<d>> OBVIOUS
<1>6. PICK y5 : y5 = y4 \o <<e>> OBVIOUS
<1>7. y1 \in Seq(S) /\ Len(y1) = 1 BY <1>1, <1>2
<1>8. y2 \in Seq(S) /\ Len(y2) = 1 + 1 /\ y2[1 + 1] = b BY <1>3, <1>7, OneMore
<1>9. y2 \in Seq(S) /\ Len(y2) = 2 BY <1>8
<1>10. y3 \in Seq(S) /\ Len(y3) = 2 + 1 /\ y3[2 + 1] = c /\ \A i \in 1..2 : y3[i] = y2[i]
  BY <1>4, <1>9, OneMore, SMTT(60)
<1>11. y3 \in Seq(S) /\ Len(y3) = 3 BY <1>10
<1>12. y4 \in Seq(S) /\ Len(y4) = 3 + 1 /\ y4[3 + 1] = d /\ \A i \in 1..3 : y4[i] = y3[i]
  BY <1>5, <1>11, OneMore, SMTT(60)
<1>13. y4 \in Seq(S) /\ Len(y4) = 4 BY <1>12
<1>14. y5 \in Seq(S) /\ Len(y5) = 4 + 1 /\ y5[4 + 1] = e /\ \A i \in 1..4 : y5[i] = y4[i]
  BY <1>6, <1>13, OneMore, SMTT(60)
<1>15. Len(y5) = 5 /\ y5[2] = b /\ y5[3] = c /\ y5[4] = d /\ y5[5] = e
  BY <1>8, <1>10, <1>12, <1>14
<1>16. y5 = (((<<a>> \o <<b>>) \o <<c>>) \o <<d>>) \o <<e>> BY <1>2, <1>3, <1>4, <1>5, <1>6, Zenon
<1> QED BY <1>15, <1>16, Zenon

(* The login of a plain name is understood. *)
LEMMA LoginUnderstood ==
  ASSUME NEW n \in Names, n \in accounts, ToSet(n) \cap (badchars \cup Unforeseen) = {},
         NEW m, m = <<L, Dash>> \o n \o <<Dash>> \o PwdHash \o <<Dash>> \o Hwid \o <<Dash>> \o Version
  PROVE  answer(CString(m, Hash)) = "L-ok"
<1> DEFINE T == Seq(Chars)
           l == <<L>>
           d == <<Dash>>
           x1 == l \o d
           x2 == x1 \o n
           x3 == x2 \o d
           x4 == x3 \o PwdHash
           x5 == x4 \o d
           x6 == x5 \o Hwid
           x7 == x6 \o d
           x8 == x7 \o Version
<1>1. L \in Chars /\ Dash \in Chars /\ L # Dash /\ L # F BY DEF Chars, L, Dash, Hash, F, Substitute
<1>2. l \in T /\ d \in T /\ Version \in T /\ l # <<>> BY <1>1 DEF Version, Chars, Hash, Substitute
<1>3. n \in T /\ PwdHash \in T /\ Hwid \in T BY PartsAreTexts
<1>4. <<L, Dash>> = l \o d OBVIOUS
<1>5. m = x8 BY <1>4
<1>6. l \in Field(Chars, Dash) /\ Version \in Field(Chars, Dash)
  <2>1. Len(l) = 1 /\ l[1] = L /\ Len(Version) = 1 /\ Version[1] = 118 /\ Version # <<>> BY DEF Version
  <2>2. \A i \in 1..1 : i = 1 OBVIOUS
  <2>3. Dash # 118 BY DEF Dash
  <2> HIDE DEF l
  <2> QED BY <1>1, <1>2, <2>1, <2>2, <2>3 DEF Field, Piece
<1> HIDE DEF l, d, T
<1>7. /\ x1 \in T /\ x2 \in T /\ x3 \in T /\ x4 \in T /\ x5 \in T /\ x6 \in T /\ x7 \in T /\ x8 \in T
  <2>1. x1 \in T BY <1>2, ConcatProperties DEF T
  <2> HIDE DEF x1
  <2>2. x2 \in T BY <1>3, <2>1, ConcatProperties DEF T
  <2> HIDE DEF x2
  <2>3. x3 \in T BY <1>2, <2>2, ConcatProperties DEF T
  <2> HIDE DEF x3
  <2>4. x4 \in T BY <1>3, <2>3, ConcatProperties DEF T
  <2> HIDE DEF x4
  <2>5. x5 \in T BY <1>2, <2>4, ConcatProperties DEF T
  <2> HIDE DEF x5
  <2>6. x6 \in T BY <1>3, <2>5, ConcatProperties DEF T
  <2> HIDE DEF x6
  <2>7. x7 \in T BY <1>2, <2>6, ConcatProperties DEF T
  <2> HIDE DEF x7
  <2>8. x8 \in T BY <1>2, <2>7, ConcatProperties DEF T
  <2> QED BY <2>1, <2>2, <2>3, <2>4, <2>5, <2>6, <2>7, <2>8
<1>8. /\ x1 # <<>> /\ x1[1] = L /\ x8 # <<>> /\ x8[1] = L
  <2>0. l[1] = L BY DEF l
  <2> DEFINE good(x) == x # <<>> /\ x[1] = L
  <2>1. \A x, y \in T : good(x) => good(x \o y) BY FirstOf DEF T
  <2>2. good(l) BY <1>2, <2>0
  <2> HIDE DEF good
  <2>3. good(x1) BY <1>2, <2>1, <2>2
  <2> HIDE DEF x1
  <2>4. good(x2) BY <1>3, <1>7, <2>1, <2>3
  <2> HIDE DEF x2
  <2>5. good(x3) BY <1>2, <1>7, <2>1, <2>4
  <2> HIDE DEF x3
  <2>6. good(x4) BY <1>3, <1>7, <2>1, <2>5
  <2> HIDE DEF x4
  <2>7. good(x5) BY <1>2, <1>7, <2>1, <2>6
  <2> HIDE DEF x5
  <2>8. good(x6) BY <1>3, <1>7, <2>1, <2>7
  <2> HIDE DEF x6
  <2>9. good(x7) BY <1>2, <1>7, <2>1, <2>8
  <2> HIDE DEF x7
  <2>10. good(x8) BY <1>2, <1>7, <2>1, <2>9
  <2> HIDE DEF x8
  <2> QED BY <2>3, <2>10 DEF good
<1>9. explode(x8, Dash) = (((<<l>> \o <<n>>) \o <<PwdHash>>) \o <<Hwid>>) \o <<Version>>
  <2>1. \A f \in Field(Chars, Dash) : explode(f, Dash) = <<f>> BY ExplodePlain
  <2>2. \A x, y \in T : explode((x \o d) \o y, Dash) = explode(x, Dash) \o explode(y, Dash)
    <3>1. d = <<Dash>> BY DEF d
    <3> QED BY <1>1, <3>1, ExplodeJoin DEF T
  <2>3. n \in Field(Chars, Dash) /\ PwdHash \in Field(Chars, Dash) /\ Hwid \in Field(Chars, Dash)
    BY PartsAreTexts
  <2>4. explode(x2, Dash) = <<l>> \o <<n>>
    <3>1. explode(x2, Dash) = explode(l, Dash) \o explode(n, Dash) BY <1>2, <1>3, <2>2
    <3> QED BY <1>6, <2>1, <2>3, <3>1
  <2>5. explode(x4, Dash) = (<<l>> \o <<n>>) \o <<PwdHash>>
    <3> HIDE DEF x2
    <3>1. explode(x4, Dash) = explode(x2, Dash) \o explode(PwdHash, Dash) BY <1>3, <1>7, <2>2
    <3> QED BY <2>1, <2>3, <2>4, <3>1
  <2>6. explode(x6, Dash) = ((<<l>> \o <<n>>) \o <<PwdHash>>) \o <<Hwid>>
    <3> HIDE DEF x4
    <3>1. explode(x6, Dash) = explode(x4, Dash) \o explode(Hwid, Dash) BY <1>3, <1>7, <2>2
    <3> QED BY <2>1, <2>3, <2>5, <3>1
  <2> HIDE DEF x6
  <2>7. explode(x8, Dash) = explode(x6, Dash) \o explode(Version, Dash) BY <1>2, <1>7, <2>2
  <2> QED BY <1>6, <2>1, <2>6, <2>7
<1> DEFINE field == explode(x8, Dash)
           FS == Field(Chars, Dash)
<1>10. n \in FS /\ PwdHash \in FS /\ Hwid \in FS /\ Version \in FS /\ l \in FS BY <1>6, PartsAreTexts
<1>11. /\ Len(field) = 5 /\ field[2] = n /\ field[3] = PwdHash /\ field[4] = Hwid /\ field[5] = Version
  <2> DEFINE f == (((<<l>> \o <<n>>) \o <<PwdHash>>) \o <<Hwid>>) \o <<Version>>
  <2>1. Len(f) = 5 /\ f[2] = n /\ f[3] = PwdHash /\ f[4] = Hwid /\ f[5] = Version
    <3> HIDE DEF FS
    <3> QED BY <1>10, FiveFields
  <2> HIDE DEF x8, f
  <2>2. field = f BY <1>9 DEF f
  <2> HIDE DEF field
  <2> QED BY <2>1, <2>2
<1>12. CString(x8, Hash) = x8
  <2> HIDE DEF x8
  <2>1. x8 \in Seq(Chars) /\ Len(x8) \in Nat BY <1>7, LenProperties DEF T
  <2>2. \A i \in 1..Len(x8) : x8[i] # Hash BY <2>1, ElementOfSeq DEF Chars
  <2>3. Len(x8) \in 0..Len(x8) BY <2>1
  <2>4. CString(x8, Hash) = SubSeq(x8, 1, Len(x8)) BY <2>1, <2>2, <2>3, CStringIs
  <2> QED BY <2>1, <2>4, SubSeqFull
<1> HIDE DEF x8, field
<1>13. answer(x8) = answerLogin(field[2], field[3], field[4], field[5])
  <2>1. ~(x8 # <<>> /\ x8[1] = F) /\ x8 # <<>> /\ x8[1] = L BY <1>1, <1>8
  <2>2. Substitute \notin ToSet(x8)
    <3>1. x8 \in Seq(Chars) BY <1>7 DEF T
    <3>2. \A i \in 1..Len(x8) : x8[i] \in Chars BY <3>1, ElementOfSeq
    <3>3. DOMAIN x8 = 1..Len(x8) BY <3>1, LenProperties
    <3> QED BY <3>2, <3>3 DEF ToSet, Chars
  <2>3. answer(x8) = IF Len(field) < 5 THEN "fault"
                     ELSE answerLogin(field[2], field[3], field[4], field[5])
    BY <2>1, <2>2 DEF answer, field
  <2> QED BY <1>11, <2>3
<1>14. answerLogin(n, PwdHash, Hwid, Version) = "L-ok"
  <2>1. refused \subseteq badchars \cup Unforeseen BY DEF refused, badchars, Unforeseen
  <2>2. ToSet(n) \cap refused = {} BY <2>1
  <2> QED BY <2>2 DEF answerLogin
<1> QED BY <1>5, <1>11, <1>12, <1>13, <1>14

LEMMA MessagesInitInv == MessagesInit => MessagesInv
<1> SUFFICES ASSUME MessagesInit PROVE MessagesInv OBVIOUS
<1>1. accounts = {} /\ message = <<>> /\ buf = <<>> /\ told = [n \in Names |-> "none"] BY DEF MessagesInit
<1>2. GoodAccounts BY <1>1 DEF GoodAccounts
<1>3. ArrivedText
  <2>1. {i \in 1..Len(<<>>) : <<>>[i] = Hash} = {} OBVIOUS
  <2>2. CString(<<>>, Hash) = <<>> BY <2>1 DEF CString
  <2> QED BY <1>1, <2>2 DEF ArrivedText
<1>4. DOMAIN told = Names /\ PlainNamesCanSignIn BY <1>1 DEF PlainNamesCanSignIn
<1> QED BY <1>2, <1>3, <1>4 DEF MessagesInv

LEMMA RegInv ==
  ASSUME MessagesInv, NEW n, Reg(n)
  PROVE  MessagesInv'
<1>1. message' = message /\ buf' = buf /\ told' = told BY DEF Reg
<1>2. GoodAccounts'
  <2> DEFINE uname == words(n)[2]
  <2>1. accounts' = accounts \cup {uname} /\ ToSet(uname) \cap badchars = {} BY DEF Reg
  <2> HIDE DEF uname
  <2> QED BY <2>1 DEF MessagesInv, GoodAccounts
<1>3. ArrivedText' BY <1>1 DEF MessagesInv, ArrivedText
<1>4. DOMAIN told' = Names BY <1>1 DEF MessagesInv
<1>5. PlainNamesCanSignIn' BY <1>1 DEF MessagesInv, PlainNamesCanSignIn
<1> QED BY <1>2, <1>3, <1>4, <1>5 DEF MessagesInv

LEMMA ReceiveArrives ==
  ASSUME NEW m \in Seq(1..127), Receive(m)
  PROVE  ArrivedText' /\ message' = m
<1>1. message' = m /\ buf' = receivepacket(encryptDecrypt(m)) BY DEF Receive
<1>2. buf' = CString(m, Hash) BY <1>1, ArrivesUpToHash
<1> QED BY <1>1, <1>2 DEF ArrivedText

LEMMA FirstConnectInv ==
  ASSUME MessagesInv, FirstConnect
  PROVE  MessagesInv'
<1>1. <<F, Dash>> \o Hwid \in Seq(1..127)
  <2>1. <<F, Dash>> \in Seq(1..127) BY DEF F, Dash
  <2>2. Hwid \in Seq(1..127) BY MessagesAssumption
  <2> QED BY <2>1, <2>2, ConcatProperties
<1>2. ArrivedText' BY <1>1, ReceiveArrives DEF FirstConnect
<1>3. accounts' = accounts /\ told' = told BY DEF FirstConnect
<1> QED BY <1>2, <1>3 DEF MessagesInv, GoodAccounts, PlainNamesCanSignIn

LEMMA SignInInv ==
  ASSUME MessagesInv, NEW n \in Names, SignIn(n)
  PROVE  MessagesInv'
<1> DEFINE m == <<L, Dash>> \o n \o <<Dash>> \o PwdHash \o <<Dash>> \o Hwid \o <<Dash>> \o Version
           T == Seq(1..127)
<1>1. m \in T
  <2>1. <<L, Dash>> \in T /\ <<Dash>> \in T /\ Version \in T BY DEF L, Dash, Version
  <2>2. n \in T /\ PwdHash \in T /\ Hwid \in T BY MessagesAssumption
  <2>3. \A x, y \in T : x \o y \in T BY ConcatProperties
  <2> HIDE DEF T
  <2> QED BY <2>1, <2>2, <2>3
<1>2. ArrivedText' /\ message' = m
  <2>1. Receive(m) BY DEF SignIn
  <2> HIDE DEF m
  <2> QED BY <1>1, <2>1, ReceiveArrives
<1>3. buf' = CString(m, Hash)
  <2> HIDE DEF m
  <2> QED BY <1>2 DEF ArrivedText
<1>4. /\ accounts' = accounts
      /\ told' = IF n \in accounts THEN [told EXCEPT ![n] = answer(buf')] ELSE told
  BY DEF SignIn
<1>5. GoodAccounts' BY <1>4 DEF MessagesInv, GoodAccounts
<1>6. DOMAIN told' = Names BY <1>4 DEF MessagesInv
<1>7. PlainNamesCanSignIn'
  <2> SUFFICES ASSUME NEW a \in Names, ToSet(a) \cap Unforeseen = {}
               PROVE  told'[a] \in {"none", "L-ok"}
    BY DEF PlainNamesCanSignIn
  <2>1. told[a] \in {"none", "L-ok"} BY DEF MessagesInv, PlainNamesCanSignIn
  <2>2. CASE a = n /\ n \in accounts
    <3>1. ToSet(n) \cap badchars = {} BY <2>2 DEF MessagesInv, GoodAccounts
    <3>2. ToSet(n) \cap (badchars \cup Unforeseen) = {} BY <2>2, <3>1
    <3>3. answer(CString(m, Hash)) = "L-ok" BY <2>2, <3>2, LoginUnderstood
    <3>4. told'[n] = answer(buf')
      <4>1. n \in DOMAIN told BY DEF MessagesInv
      <4> QED BY <1>4, <2>2, <4>1
    <3> HIDE DEF m
    <3> QED BY <1>3, <2>2, <3>3, <3>4
  <2>3. CASE ~(a = n /\ n \in accounts)
    <3>1. told'[a] = told[a]
      <4>1. a \in DOMAIN told BY DEF MessagesInv
      <4> QED BY <1>4, <2>3, <4>1
    <3> QED BY <2>1, <3>1
  <2> QED BY <2>2, <2>3
<1> QED BY <1>2, <1>5, <1>6, <1>7 DEF MessagesInv

LEMMA MessagesInvariant == MessagesSpec => []MessagesInv
<1>1. MessagesInit => MessagesInv BY MessagesInitInv
<1>2. MessagesInv /\ [MessagesNext]_messagesVars => MessagesInv'
  <2> SUFFICES ASSUME MessagesInv, [MessagesNext]_messagesVars PROVE MessagesInv' OBVIOUS
  <2>1. CASE MessagesNext BY <2>1, RegInv, SignInInv, FirstConnectInv DEF MessagesNext
  <2>2. CASE UNCHANGED messagesVars
    BY <2>2 DEF messagesVars, MessagesInv, GoodAccounts, ArrivedText, PlainNamesCanSignIn
  <2> QED BY <2>1, <2>2
<1> QED BY <1>1, <1>2, PTL DEF MessagesSpec

(* Whoever registered a name without the five characters the bot does not   *)
(* foresee is never refused a login with it, whatever names are: what       *)
(* onMessage accepts (discordbot.h:187-198), handleConnection understands   *)
(* (clienthandler.cpp:179-180, 214-225).                                    *)
THEOREM PlainNamesSignIn == MessagesSpec => []PlainNamesCanSignIn
<1>1. MessagesInv => PlainNamesCanSignIn BY DEF MessagesInv
<1> QED BY <1>1, MessagesInvariant, PTL

(* What the server reads is the message up to its first '#', as its maximal *)
(* runs between dashes, for every message a client can send                 *)
(* (clienthandler.cpp:116-146; dbmanager.h:79-92).                          *)
THEOREM EveryFieldArrives == MessagesSpec => []FieldsArrive
<1>1. MessagesInv => FieldsArrive
  <2> SUFFICES ASSUME MessagesInv PROVE FieldsArrive OBVIOUS
  <2>1. message \in Seq(1..127) /\ buf = CString(message, Hash) BY DEF MessagesInv, ArrivedText
  <2>2. CString(message, Hash) \in Seq((1..127) \ {Hash}) BY <2>1, CStringType
  <2>3. explode(CString(message, Hash), Dash) = Fields(CString(message, Hash), Dash)
    BY <2>2, ExplodeIsFields
  <2> QED BY <2>1, <2>3 DEF FieldsArrive
<1> QED BY <1>1, MessagesInvariant, PTL
================================================================================

---------------------------- MODULE SequenceFacts ----------------------------
(***************************************************************************)
(* Facts about sequences that the proofs of several components cite: what    *)
(* adding an element to a list, or taking one from it, does to the positions *)
(* and to the set of its elements.                                          *)
(***************************************************************************)
EXTENDS Naturals, Sequences, SequenceTheorems, FunctionTheorems, FiniteSetTheorems, TLAPS

-----------------------------------------------------------------------------
(* Induction.  The least number outside S would be mapped to one below it, so *)
(* there is none: a finite set is in no one-to-one relation with a smaller one. *)

LEMMA Induction ==
  ASSUME NEW S, 0 \in S, \A n \in Nat : n \in S => n + 1 \in S
  PROVE  \A n \in Nat : n \in S
  <1> SUFFICES ASSUME NEW m \in Nat, m \notin S PROVE FALSE
    OBVIOUS
  <1> DEFINE U == {n \in 0 .. m : n \notin S}
             f == [n \in U |-> n - 1]
  <1>1. IsFiniteSet(U) /\ m \in U
    <2>1. IsFiniteSet(0 .. m)
      BY FS_Interval
    <2> QED BY <2>1, FS_Subset
  <1>2. IsFiniteSet(U \ {m}) /\ Cardinality(U \ {m}) = Cardinality(U) - 1
    BY <1>1, FS_RemoveElement
  <1>3. Cardinality(U) \in Nat
    BY <1>1, FS_CardinalityType
  <1>4. f \in [U -> U \ {m}]
    <2>1. ASSUME NEW n \in U PROVE n - 1 \in U \ {m}
      <3>1. n \in Nat /\ n # 0 /\ n <= m /\ n \notin S
        OBVIOUS
      <3>2. n - 1 \in Nat /\ (n - 1) + 1 = n
        BY <3>1
      <3> QED BY <3>1, <3>2
    <2> QED BY <2>1
  <1>5. \E x, y \in U : x # y /\ f[x] = f[y]
    <2>1. Cardinality(U \ {m}) < Cardinality(U)
      BY <1>2, <1>3
    <2> HIDE DEF U, f
    <2> QED BY <2>1, <1>1, <1>2, <1>4, FS_PigeonHole
  <1> QED BY <1>5

-----------------------------------------------------------------------------

\* The elements of a list, in no order.
Those(s) == {s[k] : k \in DOMAIN s}

\* An element put in front.
LEMMA ConsFacts ==
  ASSUME NEW S, NEW s \in Seq(S), NEW c \in S
  PROVE  /\ <<c>> \o s \in Seq(S)
         /\ Len(<<c>> \o s) = Len(s) + 1
         /\ (<<c>> \o s)[1] = c
         /\ \A k \in 1 .. Len(s) : (<<c>> \o s)[k + 1] = s[k]
         /\ Those(<<c>> \o s) = {c} \cup Those(s)
  <1>1. /\ <<c>> \o s \in Seq(S)
        /\ Len(<<c>> \o s) = Len(s) + 1
        /\ (<<c>> \o s)[1] = c
        /\ \A k \in 1 .. Len(s) : (<<c>> \o s)[k + 1] = s[k]
    OBVIOUS
  <1>2. DOMAIN (<<c>> \o s) = 1 .. Len(s) + 1 /\ DOMAIN s = 1 .. Len(s) /\ Len(s) \in Nat
    BY <1>1
  <1>3. ASSUME NEW x \in Those(<<c>> \o s) PROVE x \in {c} \cup Those(s)
    <2>1. PICK k \in 1 .. Len(s) + 1 : x = (<<c>> \o s)[k]
      BY <1>2, <1>3 DEF Those
    <2>2. CASE k = 1
      BY <1>1, <2>1, <2>2
    <2>3. CASE k # 1
      <3>1. k - 1 \in 1 .. Len(s) /\ k = (k - 1) + 1
        BY <1>2, <2>3
      <3> QED BY <1>1, <1>2, <2>1, <3>1 DEF Those
    <2> QED BY <2>2, <2>3
  <1>4. ASSUME NEW x \in {c} \cup Those(s) PROVE x \in Those(<<c>> \o s)
    <2>1. CASE x = c
      BY <1>1, <1>2, <2>1 DEF Those
    <2>2. CASE x \in Those(s)
      <3>1. PICK k \in 1 .. Len(s) : x = s[k]
        BY <1>2, <2>2 DEF Those
      <3>2. k + 1 \in 1 .. Len(s) + 1
        BY <1>2
      <3> QED BY <1>1, <1>2, <3>1, <3>2 DEF Those
    <2> QED BY <1>4, <2>1, <2>2
  <1> QED BY <1>1, <1>3, <1>4

\* A list without its first element.
LEMMA TailFacts ==
  ASSUME NEW S, NEW s \in Seq(S), s # <<>>
  PROVE  /\ Len(s) \in Nat \ {0} /\ s[1] \in S
         /\ Tail(s) \in Seq(S)
         /\ Len(Tail(s)) = Len(s) - 1
         /\ \A k \in 1 .. Len(s) - 1 : Tail(s)[k] = s[k + 1]
         /\ Those(s) = {s[1]} \cup Those(Tail(s))
  <1>1. Len(s) \in Nat \ {0}
    BY EmptySeq
  <1>2. Tail(s) \in Seq(S) /\ Len(Tail(s)) = Len(s) - 1
    BY HeadTailProperties
  <1>3. \A k \in 1 .. Len(s) - 1 : Tail(s)[k] = s[k + 1]
    BY <1>1, HeadTailProperties
  <1>4. DOMAIN Tail(s) = 1 .. Len(s) - 1 /\ DOMAIN s = 1 .. Len(s)
    BY <1>1, <1>2
  <1>5. s[1] \in S /\ s[1] \in Those(s)
    BY <1>1, <1>4 DEF Those
  <1>6. ASSUME NEW x \in Those(s) PROVE x \in {s[1]} \cup Those(Tail(s))
    <2>1. PICK k \in 1 .. Len(s) : x = s[k]
      BY <1>4, <1>6 DEF Those
    <2>2. CASE k # 1
      <3>1. k - 1 \in 1 .. Len(s) - 1 /\ k = (k - 1) + 1
        BY <1>1, <2>2
      <3> QED BY <1>3, <1>4, <2>1, <3>1 DEF Those
    <2> QED BY <2>1, <2>2
  <1>7. ASSUME NEW x \in Those(Tail(s)) PROVE x \in Those(s)
    <2>1. PICK k \in 1 .. Len(s) - 1 : x = Tail(s)[k]
      BY <1>4, <1>7 DEF Those
    <2>2. k + 1 \in 1 .. Len(s)
      BY <1>1
    <2> QED BY <1>3, <1>4, <2>1, <2>2 DEF Those
  <1> QED BY <1>1, <1>2, <1>3, <1>5, <1>6, <1>7

\* One list after another.
LEMMA ConcatFacts ==
  ASSUME NEW S, NEW s \in Seq(S), NEW t \in Seq(S)
  PROVE  /\ s \o t \in Seq(S)
         /\ Len(s \o t) = Len(s) + Len(t)
         /\ \A k \in 1 .. Len(s) : (s \o t)[k] = s[k]
         /\ \A k \in 1 .. Len(t) : (s \o t)[Len(s) + k] = t[k]
         /\ Those(s \o t) = Those(s) \cup Those(t)
  <1>1. /\ s \o t \in Seq(S)
        /\ Len(s \o t) = Len(s) + Len(t)
        /\ \A k \in 1 .. Len(s) : (s \o t)[k] = s[k]
    OBVIOUS
  <1>2. /\ DOMAIN (s \o t) = 1 .. Len(s) + Len(t) /\ DOMAIN s = 1 .. Len(s)
        /\ DOMAIN t = 1 .. Len(t) /\ Len(s) \in Nat /\ Len(t) \in Nat
    BY <1>1
  <1>3. \A k \in 1 .. Len(s) + Len(t) : k > Len(s) => (s \o t)[k] = t[k - Len(s)]
    BY <1>2, ConcatProperties
  <1>4. ASSUME NEW k \in 1 .. Len(t)
        PROVE  Len(s) + k \in 1 .. Len(s) + Len(t) /\ (s \o t)[Len(s) + k] = t[k]
    <2>1. PICK j \in 1 .. Len(s) + Len(t) : j = Len(s) + k
      BY <1>2
    <2>2. j > Len(s) /\ j - Len(s) = k
      BY <1>2, <2>1
    <2> QED BY <1>3, <2>1, <2>2
  <1>5. ASSUME NEW x \in Those(s \o t) PROVE x \in Those(s) \cup Those(t)
    <2>1. PICK k \in 1 .. Len(s) + Len(t) : x = (s \o t)[k]
      BY <1>2, <1>5 DEF Those
    <2>2. CASE k \in 1 .. Len(s)
      BY <1>1, <1>2, <2>1, <2>2 DEF Those
    <2>3. CASE k > Len(s)
      <3>1. k - Len(s) \in 1 .. Len(t)
        BY <1>2, <2>3
      <3> QED BY <1>2, <1>3, <2>1, <2>3, <3>1 DEF Those
    <2>4. k \in 1 .. Len(s) \/ k > Len(s)
      BY <1>2
    <2> QED BY <2>2, <2>3, <2>4
  <1>6. ASSUME NEW x \in Those(s) PROVE x \in Those(s \o t)
    <2>1. PICK k \in 1 .. Len(s) : x = s[k]
      BY <1>2, <1>6 DEF Those
    <2>2. k \in 1 .. Len(s) + Len(t)
      BY <1>2
    <2> QED BY <1>1, <1>2, <2>1, <2>2 DEF Those
  <1>7. ASSUME NEW x \in Those(t) PROVE x \in Those(s \o t)
    <2>1. PICK k \in 1 .. Len(t) : x = t[k]
      BY <1>2, <1>7 DEF Those
    <2> QED BY <1>2, <1>4, <2>1 DEF Those
  <1>8. Those(s \o t) = Those(s) \cup Those(t)
    BY <1>5, <1>6, <1>7
  <1> QED BY <1>1, <1>4, <1>8

\* An element put at the end.
LEMMA AppendFacts ==
  ASSUME NEW S, NEW s \in Seq(S), NEW c \in S
  PROVE  /\ Append(s, c) \in Seq(S)
         /\ Len(Append(s, c)) = Len(s) + 1
         /\ \A k \in 1 .. Len(s) : Append(s, c)[k] = s[k]
         /\ Append(s, c)[Len(s) + 1] = c
         /\ Those(Append(s, c)) = Those(s) \cup {c}
  <1>1. /\ Append(s, c) \in Seq(S)
        /\ Len(Append(s, c)) = Len(s) + 1
        /\ \A k \in 1 .. Len(s) : Append(s, c)[k] = s[k]
        /\ Append(s, c)[Len(s) + 1] = c
    OBVIOUS
  <1>2. <<c>> \in Seq(S) /\ Append(s, c) = s \o <<c>>
    BY AppendIsConcat
  <1>3. Those(<<c>>) = {c}
    BY DEF Those
  <1>4. Those(s \o <<c>>) = Those(s) \cup Those(<<c>>)
    BY <1>2, ConcatFacts
  <1>5. Those(Append(s, c)) = Those(s) \cup {c}
    BY <1>2, <1>3, <1>4
  <1> QED BY <1>1, <1>5

\* A list without its i-th element.
LEMMA DropFacts ==
  ASSUME NEW S, NEW s \in Seq(S), NEW i \in 1 .. Len(s)
  PROVE  LET d == SubSeq(s, 1, i - 1) \o SubSeq(s, i + 1, Len(s))
         IN  /\ d \in Seq(S) /\ Len(d) = Len(s) - 1
             /\ \A k \in 1 .. Len(s) - 1 : d[k] = IF k < i THEN s[k] ELSE s[k + 1]
  <1>1. DOMAIN s = 1 .. Len(s) /\ Len(s) \in Nat
    OBVIOUS
  <1> DEFINE front == SubSeq(s, 1, i - 1)
             back == SubSeq(s, i + 1, Len(s))
  <1>2. /\ front \in Seq(S) /\ Len(front) = i - 1
        /\ \A k \in 1 .. i - 1 : front[k] = s[k]
    <2>1. \A k \in 1 .. i - 1 : s[k] \in S
      BY <1>1
    <2>2. /\ front \in Seq(S) /\ Len(front) = IF 1 <= i - 1 THEN (i - 1) - 1 + 1 ELSE 0
          /\ \A k \in 1 .. (i - 1) - 1 + 1 : front[k] = s[1 + k - 1]
      BY <1>1, <2>1, SubSeqProperties
    <2> QED BY <1>1, <2>2
  <1>3. /\ back \in Seq(S) /\ Len(back) = Len(s) - i
        /\ \A k \in 1 .. Len(s) - i : back[k] = s[i + k]
    <2>1. \A k \in i + 1 .. Len(s) : s[k] \in S
      BY <1>1
    <2>2. /\ back \in Seq(S)
          /\ Len(back) = IF i + 1 <= Len(s) THEN Len(s) - (i + 1) + 1 ELSE 0
          /\ \A k \in 1 .. Len(s) - (i + 1) + 1 : back[k] = s[(i + 1) + k - 1]
      BY <1>1, <2>1, SubSeqProperties
    <2> HIDE DEF back
    <2>3. ASSUME NEW k \in 1 .. Len(s) - i
          PROVE  back[k] = s[i + k]
      <3>1. k \in 1 .. Len(s) - (i + 1) + 1 /\ (i + 1) + k - 1 = i + k
        BY <1>1
      <3> QED BY <2>2, <3>1
    <2>4. Len(back) = Len(s) - i
      <3>1. Len(s) \in Nat /\ i \in 1 .. Len(s)
        BY <1>1
      <3>2. Len(back) = IF i + 1 <= Len(s) THEN Len(s) - (i + 1) + 1 ELSE 0
        BY <2>2
      <3>3. (IF i + 1 <= Len(s) THEN Len(s) - (i + 1) + 1 ELSE 0) = Len(s) - i
        BY <3>1
      <3> QED BY ONLY <3>2, <3>3
    <2> QED BY <2>2, <2>3, <2>4
  <1> HIDE DEF front, back
  <1>4. /\ front \o back \in Seq(S) /\ Len(front \o back) = Len(s) - 1
        /\ \A k \in 1 .. Len(s) - 1 : (front \o back)[k] = IF k < i THEN s[k] ELSE s[k + 1]
    <2>1. /\ front \o back \in Seq(S) /\ Len(front \o back) = Len(front) + Len(back)
          /\ \A k \in 1 .. Len(front) : (front \o back)[k] = front[k]
          /\ \A k \in 1 .. Len(back) : (front \o back)[Len(front) + k] = back[k]
      <3>1. front \in Seq(S) /\ back \in Seq(S)
        BY <1>2, <1>3
      <3> QED BY <3>1, ConcatFacts
    <2>2. ASSUME NEW k \in 1 .. Len(s) - 1
          PROVE  (front \o back)[k] = IF k < i THEN s[k] ELSE s[k + 1]
      <3>1. CASE k < i
        BY <1>1, <1>2, <2>1, <3>1
      <3>2. CASE k >= i
        <4> DEFINE j == k - (i - 1)
        <4>1. j \in 1 .. Len(s) - i /\ k = (i - 1) + j /\ k + 1 = i + j
          BY <1>1, <3>2
        <4> HIDE DEF j
        <4>2. (front \o back)[(i - 1) + j] = back[j]
          BY <1>2, <1>3, <2>1, <4>1
        <4>3. back[j] = s[i + j]
          BY <1>3, <4>1
        <4>4. (front \o back)[k] = s[k + 1]
          BY <4>1, <4>2, <4>3
        <4>5. ~(k < i)
          BY <1>1, <3>2
        <4> QED BY <4>4, <4>5
      <3>3. k < i \/ k >= i
        BY <1>1
      <3> QED BY <3>1, <3>2, <3>3
    <2> QED BY <1>1, <1>2, <1>3, <2>1, <2>2
  <1> QED BY <1>4 DEF front, back

\* A list without its last element, or with another in its place.
LEMMA LastFacts ==
  ASSUME NEW S, NEW s \in Seq(S), s # <<>>, NEW c \in S
  PROVE  /\ SubSeq(s, 1, Len(s) - 1) \in Seq(S)
         /\ Len(SubSeq(s, 1, Len(s) - 1)) = Len(s) - 1
         /\ \A p \in 1 .. Len(s) - 1 : SubSeq(s, 1, Len(s) - 1)[p] = s[p]
         /\ [s EXCEPT ![Len(s)] = c] \in Seq(S)
         /\ Len([s EXCEPT ![Len(s)] = c]) = Len(s)
         /\ [s EXCEPT ![Len(s)] = c][Len(s)] = c
         /\ \A p \in 1 .. Len(s) - 1 : [s EXCEPT ![Len(s)] = c][p] = s[p]
  <1> DEFINE n == Len(s)
  <1>1. n \in Nat /\ n > 0 /\ DOMAIN s = 1 .. n
    BY EmptySeq
  <1> HIDE DEF n
  <1>2. ASSUME NEW p \in 1 .. n - 1
        PROVE  p \in 1 .. n /\ p # n /\ 1 + p - 1 = p /\ p \in Int
    BY <1>1
  <1>3. ASSUME NEW p \in 1 .. n - 1
        PROVE  s[p] \in S
    BY <1>1, <1>2
  <1>4. /\ SubSeq(s, 1, n - 1) \in Seq(S)
        /\ Len(SubSeq(s, 1, n - 1)) = n - 1
        /\ \A p \in 1 .. n - 1 : SubSeq(s, 1, n - 1)[p] = s[p]
    <2>1. 1 \in Int /\ n - 1 \in Int /\ n - 1 >= 0
      BY <1>1
    <2>2. /\ SubSeq(s, 1, n - 1) \in Seq(S)
          /\ Len(SubSeq(s, 1, n - 1)) = IF 1 <= n - 1 THEN (n - 1) - 1 + 1 ELSE 0
          /\ \A p \in 1 .. (n - 1) - 1 + 1 : SubSeq(s, 1, n - 1)[p] = s[1 + p - 1]
      BY <1>3, <2>1, SubSeqProperties
    <2>3. (n - 1) - 1 + 1 = n - 1 /\ (IF 1 <= n - 1 THEN (n - 1) - 1 + 1 ELSE 0) = n - 1
      BY <1>1
    <2> QED BY <1>2, <2>2, <2>3
  <1>5. [s EXCEPT ![n] = c] \in Seq(S) /\ Len([s EXCEPT ![n] = c]) = n
    BY <1>1 DEF n
  <1>6. [s EXCEPT ![n] = c][n] = c
    BY <1>1
  <1>7. ASSUME NEW p \in 1 .. n - 1
        PROVE  [s EXCEPT ![n] = c][p] = s[p]
    BY <1>1, <1>2
  <1> QED BY <1>4, <1>5, <1>6, <1>7 DEF n
=============================================================================

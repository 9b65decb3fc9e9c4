---------------------------- MODULE ListingsProofs ----------------------------
(***************************************************************************)
(* What holds of a walk through any listing, with pages and tables of any  *)
(* size: the rows that a client misses or gets again are no more than the  *)
(* rows that moved.                                                        *)
(***************************************************************************)
EXTENDS Listings, SequenceTheorems, FiniteSetTheorems, TLAPS

-------------------------------------------------------------------------------
(* Sequences that gain an element or lose some *)

\* t is s with x at the given place.
Gains(t, s, place, x) ==
    /\ Len(t) = Len(s) + 1
    /\ \A i \in 1 .. Len(t) : t[i] = IF i < place THEN s[i]
                                     ELSE IF i = place THEN x ELSE s[i - 1]

\* t has no element that is not in s at the same place or a later one, in the order of s.
Loses(t, s) ==
    \E from \in [1 .. Len(t) -> 1 .. Len(s)] :
        /\ \A i \in 1 .. Len(t) : t[i] = s[from[i]] /\ i <= from[i]
        /\ \A i, j \in 1 .. Len(t) : i < j => from[i] < from[j]

\* Decreasing sequences: the newest row first.
Newest(s) == \A i, j \in DOMAIN s : i < j => s[i] > s[j]

\* The elements of a sequence are its values at the places it has.
LEMMA ElementsOfSeq ==
    ASSUME NEW S, NEW s \in Seq(S)
    PROVE  /\ Len(s) \in Nat /\ DOMAIN s = 1 .. Len(s)
           /\ \A i \in 1 .. Len(s) : s[i] \in S
           /\ ToSet(s) = {s[i] : i \in 1 .. Len(s)}
           /\ ToSet(s) \subseteq S
           /\ IsFiniteSet(ToSet(s))
           /\ Cardinality(ToSet(s)) <= Len(s)
<1>1. Len(s) \in Nat /\ DOMAIN s = 1 .. Len(s) /\ s \in [1 .. Len(s) -> S]
  BY LenProperties
<1>2. ToSet(s) = {s[i] : i \in 1 .. Len(s)} /\ ToSet(s) \subseteq S
  BY <1>1 DEF ToSet
<1>3. s \in Surjection(1 .. Len(s), ToSet(s))
  BY <1>1, <1>2 DEF Surjection
<1>4. IsFiniteSet(1 .. Len(s)) /\ Cardinality(1 .. Len(s)) = Len(s)
  BY <1>1, FS_Interval
<1>5. IsFiniteSet(ToSet(s)) /\ Cardinality(ToSet(s)) <= Cardinality(1 .. Len(s))
  BY <1>3, <1>4, FS_Surjection
<1> QED
  BY <1>1, <1>2, <1>4, <1>5

\* InsertAt puts an element at its place.
LEMMA InsertGains ==
    ASSUME NEW S, NEW s \in Seq(S), NEW x \in S, NEW place \in 1 .. Len(s) + 1
    PROVE  InsertAt(s, place, x) \in Seq(S) /\ Gains(InsertAt(s, place, x), s, place, x)
<1>1. Len(s) \in Nat /\ DOMAIN s = 1 .. Len(s) /\ \A i \in 1 .. Len(s) : s[i] \in S
  BY ElementsOfSeq
<1> DEFINE one == SubSeq(s, 1, place - 1)
           mid == <<x>>
           two == SubSeq(s, place, Len(s))
<1>2. /\ one \in Seq(S) /\ Len(one) = place - 1
      /\ \A i \in 1 .. place - 1 : one[i] = s[i]
  <2>1. 1 \in Int /\ place - 1 \in Int /\ \A i \in 1 .. place - 1 : s[i] \in S
    BY <1>1
  <2> HIDE DEF one
  <2>2. /\ one \in Seq(S)
        /\ Len(one) = IF 1 <= place - 1 THEN place - 1 - 1 + 1 ELSE 0
        /\ \A i \in 1 .. place - 1 - 1 + 1 : one[i] = s[1 + i - 1]
    BY <2>1, SubSeqProperties DEF one
  <2> QED
    BY <1>1, <2>2
<1>3. /\ two \in Seq(S) /\ Len(two) = Len(s) - place + 1
      /\ \A i \in 1 .. Len(s) - place + 1 : two[i] = s[place + i - 1]
  <2>1. place \in Int /\ Len(s) \in Int /\ \A i \in place .. Len(s) : s[i] \in S
    BY <1>1
  <2> HIDE DEF two
  <2>2. /\ two \in Seq(S)
        /\ Len(two) = IF place <= Len(s) THEN Len(s) - place + 1 ELSE 0
        /\ \A i \in 1 .. Len(s) - place + 1 : two[i] = s[place + i - 1]
    BY <2>1, SubSeqProperties DEF two
  <2> QED
    BY <1>1, <2>2
<1>4. mid \in Seq(S) /\ Len(mid) = 1 /\ mid[1] = x
  OBVIOUS
<1> HIDE DEF one, mid, two
<1>5. /\ one \o mid \in Seq(S) /\ Len(one \o mid) = place
      /\ \A i \in 1 .. place : (one \o mid)[i] = IF i < place THEN s[i] ELSE x
  <2>1. /\ one \o mid \in Seq(S) /\ Len(one \o mid) = Len(one) + Len(mid)
        /\ \A i \in 1 .. Len(one) + Len(mid) :
               (one \o mid)[i] = IF i <= Len(one) THEN one[i] ELSE mid[i - Len(one)]
    BY <1>2, <1>4, ConcatProperties
  <2> QED
    BY <1>1, <1>2, <1>4, <2>1
<1> DEFINE start == one \o mid
<1> HIDE DEF start
<1>6. /\ start \o two \in Seq(S) /\ Len(start \o two) = Len(start) + Len(two)
      /\ \A i \in 1 .. Len(start) + Len(two) :
             (start \o two)[i] = IF i <= Len(start) THEN start[i] ELSE two[i - Len(start)]
  BY <1>3, <1>5, ConcatProperties DEF start
<1>7. InsertAt(s, place, x) = start \o two
  BY DEF InsertAt, start, one, mid, two
<1>8. Len(start) = place /\ \A i \in 1 .. place : start[i] = IF i < place THEN s[i] ELSE x
  BY <1>5 DEF start
<1> DEFINE t == InsertAt(s, place, x)
<1> HIDE DEF t
<1>9. Len(t) = Len(s) + 1
  BY <1>1, <1>3, <1>6, <1>7, <1>8 DEF t
<1>10. ASSUME NEW i \in 1 .. Len(t)
       PROVE  t[i] = IF i < place THEN s[i] ELSE IF i = place THEN x ELSE s[i - 1]
  <2>1. i \in 1 .. Len(start) + Len(two) /\ i \in Nat
    BY <1>1, <1>3, <1>8, <1>9
  <2>2. t[i] = IF i <= place THEN start[i] ELSE two[i - place]
    BY <1>6, <1>7, <1>8, <2>1 DEF t
  <2>3. CASE i <= place
    BY <1>1, <1>8, <2>1, <2>2, <2>3
  <2>4. CASE i > place
    <3>1. i - place \in 1 .. Len(s) - place + 1 /\ place + (i - place) - 1 = i - 1
      BY <1>1, <1>9, <2>1, <2>4
    <3> QED
      BY <1>1, <1>3, <2>1, <2>2, <2>4, <3>1
  <2> QED
    BY <2>1, <2>3, <2>4
<1> QED
  BY <1>6, <1>7, <1>9, <1>10 DEF Gains, t

\* An element before a sequence is at its first place.
LEMMA PrependGains ==
    ASSUME NEW S, NEW s \in Seq(S), NEW x \in S
    PROVE  <<x>> \o s \in Seq(S) /\ Gains(<<x>> \o s, s, 1, x)
<1>1. Len(s) \in Nat
  BY ElementsOfSeq
<1> DEFINE one == <<x>>
<1>2. one \in Seq(S) /\ Len(one) = 1 /\ one[1] = x
  OBVIOUS
<1> HIDE DEF one
<1>3. /\ one \o s \in Seq(S) /\ Len(one \o s) = Len(one) + Len(s)
      /\ \A i \in 1 .. Len(one) + Len(s) :
             (one \o s)[i] = IF i <= Len(one) THEN one[i] ELSE s[i - Len(one)]
  BY <1>2, ConcatProperties
<1> DEFINE t == one \o s
<1> HIDE DEF t
<1>4. ASSUME NEW i \in 1 .. Len(t)
      PROVE  t[i] = IF i < 1 THEN s[i] ELSE IF i = 1 THEN x ELSE s[i - 1]
  BY <1>1, <1>2, <1>3 DEF t
<1> QED
  BY <1>1, <1>2, <1>3, <1>4 DEF Gains, t, one

\* RemoveAt loses the element at its place, and those after it move up.
LEMMA RemoveSkips ==
    ASSUME NEW S, NEW s \in Seq(S), NEW place \in 1 .. Len(s)
    PROVE  /\ RemoveAt(s, place) \in Seq(S)
           /\ \E from \in [1 .. Len(RemoveAt(s, place)) -> 1 .. Len(s)] :
                 /\ \A i \in 1 .. Len(RemoveAt(s, place)) :
                        /\ RemoveAt(s, place)[i] = s[from[i]]
                        /\ i <= from[i] /\ from[i] # place
                 /\ \A i, j \in 1 .. Len(RemoveAt(s, place)) : i < j => from[i] < from[j]
<1>1. Len(s) \in Nat /\ DOMAIN s = 1 .. Len(s) /\ \A i \in 1 .. Len(s) : s[i] \in S
  BY ElementsOfSeq
<1> DEFINE one == SubSeq(s, 1, place - 1)
           two == SubSeq(s, place + 1, Len(s))
           t == RemoveAt(s, place)
           from == [i \in 1 .. Len(t) |-> IF i < place THEN i ELSE i + 1]
<1>2. /\ one \in Seq(S) /\ Len(one) = place - 1
      /\ \A i \in 1 .. place - 1 : one[i] = s[i]
  <2>1. 1 \in Int /\ place - 1 \in Int /\ \A i \in 1 .. place - 1 : s[i] \in S
    BY <1>1
  <2> HIDE DEF one
  <2>2. /\ one \in Seq(S)
        /\ Len(one) = IF 1 <= place - 1 THEN place - 1 - 1 + 1 ELSE 0
        /\ \A i \in 1 .. place - 1 - 1 + 1 : one[i] = s[1 + i - 1]
    BY <2>1, SubSeqProperties DEF one
  <2> QED
    BY <1>1, <2>2
<1>3. /\ two \in Seq(S) /\ Len(two) = Len(s) - place
      /\ \A i \in 1 .. Len(s) - place : two[i] = s[place + i]
  <2>1. place + 1 \in Int /\ Len(s) \in Int /\ \A i \in place + 1 .. Len(s) : s[i] \in S
    BY <1>1
  <2> HIDE DEF two
  <2>2. /\ two \in Seq(S)
        /\ Len(two) = IF place + 1 <= Len(s) THEN Len(s) - (place + 1) + 1 ELSE 0
        /\ \A i \in 1 .. Len(s) - (place + 1) + 1 : two[i] = s[(place + 1) + i - 1]
    BY <2>1, SubSeqProperties DEF two
  <2>3. Len(two) = Len(s) - place /\ Len(s) - (place + 1) + 1 = Len(s) - place
    <3>1. /\ place \in Int /\ Len(s) - (place + 1) + 1 = Len(s) - place
          /\ place + 1 <= Len(s) \/ place = Len(s)
      <4>1. Len(s) \in Nat
        BY <1>1
      <4> DEFINE n == Len(s)
      <4> HIDE DEF n
      <4>2. n \in Nat /\ place \in 1 .. n
        BY <4>1 DEF n
      <4>3. /\ place \in Int /\ n - (place + 1) + 1 = n - place
            /\ place + 1 <= n \/ place = n
        BY <4>2
      <4> QED
        BY <4>3 DEF n
    <3>2. CASE place + 1 <= Len(s)
      BY <2>2, <3>1, <3>2
    <3>3. CASE place = Len(s)
      BY <1>1, <2>2, <3>1, <3>3
    <3> QED
      BY <3>1, <3>2, <3>3
  <2>4. ASSUME NEW i \in 1 .. Len(s) - place PROVE two[i] = s[place + i]
    <3>1. (place + 1) + i - 1 = place + i
      BY <1>1
    <3> QED
      BY <2>2, <2>3, <3>1
  <2> QED
    BY <2>2, <2>3, <2>4
<1>4. t = one \o two
  BY DEF RemoveAt
<1> HIDE DEF one, two, t
<1>5. /\ one \o two \in Seq(S) /\ Len(one \o two) = Len(one) + Len(two)
      /\ \A i \in 1 .. Len(one) + Len(two) :
             (one \o two)[i] = IF i <= Len(one) THEN one[i] ELSE two[i - Len(one)]
  BY <1>2, <1>3, ConcatProperties
<1>6. Len(t) = Len(s) - 1
  BY <1>1, <1>2, <1>3, <1>4, <1>5
<1>7. from \in [1 .. Len(t) -> 1 .. Len(s)]
  BY <1>1, <1>6
<1>8. ASSUME NEW i \in 1 .. Len(t) PROVE t[i] = s[from[i]] /\ i <= from[i]
  <2>1. t[i] = IF i < place THEN one[i] ELSE two[i - (place - 1)]
    BY <1>1, <1>2, <1>3, <1>4, <1>5, <1>6
  <2>2. CASE i < place
    BY <1>1, <1>2, <1>6, <2>1, <2>2
  <2>3. CASE i >= place
    <3>1. i - (place - 1) \in 1 .. Len(s) - place /\ place + (i - (place - 1)) = i + 1
      BY <1>1, <1>6, <2>3
    <3> QED
      BY <1>1, <1>3, <1>6, <2>1, <2>3, <3>1
  <2> QED
    BY <1>1, <1>6, <2>2, <2>3
<1>9. \A i, j \in 1 .. Len(t) : i < j => from[i] < from[j]
  BY <1>1, <1>6
<1>10. \A i \in 1 .. Len(t) : from[i] # place
  BY <1>1, <1>6
<1> HIDE DEF from
<1> QED
  BY <1>4, <1>5, <1>7, <1>8, <1>9, <1>10 DEF t

\* What RemoveAt leaves has lost one element.
LEMMA RemoveLoses ==
    ASSUME NEW S, NEW s \in Seq(S), NEW place \in 1 .. Len(s)
    PROVE  RemoveAt(s, place) \in Seq(S) /\ Loses(RemoveAt(s, place), s)
BY RemoveSkips DEF Loses

\* The beginning of a sequence has lost the rest.
LEMMA BeginningLoses ==
    ASSUME NEW S, NEW s \in Seq(S), NEW kept \in 0 .. Len(s)
    PROVE  SubSeq(s, 1, kept) \in Seq(S) /\ Loses(SubSeq(s, 1, kept), s)
<1>1. Len(s) \in Nat /\ DOMAIN s = 1 .. Len(s) /\ \A i \in 1 .. Len(s) : s[i] \in S
  BY ElementsOfSeq
<1> DEFINE t == SubSeq(s, 1, kept)
           from == [i \in 1 .. Len(t) |-> i]
<1>2. 1 \in Int /\ kept \in Int /\ \A i \in 1 .. kept : s[i] \in S
  BY <1>1
<1> HIDE DEF t
<1>3. /\ t \in Seq(S)
      /\ Len(t) = IF 1 <= kept THEN kept - 1 + 1 ELSE 0
      /\ \A i \in 1 .. kept - 1 + 1 : t[i] = s[1 + i - 1]
  BY <1>2, SubSeqProperties DEF t
<1>4. Len(t) = kept /\ \A i \in 1 .. kept : t[i] = s[i]
  BY <1>1, <1>3
<1>5. from \in [1 .. Len(t) -> 1 .. Len(s)] /\ \A i \in 1 .. Len(t) : from[i] = i
  BY <1>1, <1>4
<1> HIDE DEF from
<1>6. Loses(t, s)
  <2>1. \A i \in 1 .. Len(t) : t[i] = s[from[i]] /\ i <= from[i]
    BY <1>1, <1>4, <1>5
  <2>2. \A i, j \in 1 .. Len(t) : i < j => from[i] < from[j]
    BY <1>5
  <2> QED
    BY <1>5, <2>1, <2>2 DEF Loses
<1> QED
  BY <1>3, <1>6 DEF t

\* The elements after the first ones.
After(s, first) == {s[i] : i \in first + 1 .. Len(s)}

\* What a sequence that gains an element has: at most one element more after any place, for
\* whatever was there moves down by one.
LEMMA GainedElements ==
    ASSUME NEW S, NEW s \in Seq(S), NEW t \in Seq(S), NEW x,
           NEW place \in 1 .. Len(s) + 1, Gains(t, s, place, x), NEW first \in Nat
    PROVE  /\ ToSet(t) = ToSet(s) \cup {x}
           /\ \E z : After(t, first) \subseteq After(s, first) \cup {z}
<1>1. /\ Len(s) \in Nat /\ ToSet(s) = {s[i] : i \in 1 .. Len(s)}
      /\ Len(t) \in Nat /\ ToSet(t) = {t[i] : i \in 1 .. Len(t)}
  BY ElementsOfSeq
<1>2. /\ Len(t) = Len(s) + 1
      /\ \A i \in 1 .. Len(t) : t[i] = IF i < place THEN s[i]
                                       ELSE IF i = place THEN x ELSE s[i - 1]
  BY DEF Gains
<1>3. ToSet(t) \subseteq ToSet(s) \cup {x}
  <2>1. ASSUME NEW i \in 1 .. Len(t) PROVE t[i] \in ToSet(s) \cup {x}
    <3>1. CASE i < place
      BY <1>1, <1>2, <3>1
    <3>2. CASE i = place
      BY <1>2, <3>2
    <3>3. CASE i > place
      <4>1. i - 1 \in 1 .. Len(s) /\ t[i] = s[i - 1]
        BY <1>1, <1>2, <3>3
      <4> QED
        BY <1>1, <4>1
    <3> QED
      BY <1>1, <3>1, <3>2, <3>3
  <2> QED
    BY <1>1, <2>1
<1>4. ToSet(s) \cup {x} \subseteq ToSet(t)
  <2>1. t[place] = x /\ place \in 1 .. Len(t)
    BY <1>1, <1>2
  <2>2. ASSUME NEW i \in 1 .. Len(s) PROVE s[i] \in ToSet(t)
    <3>1. CASE i < place
      <4>1. t[i] = s[i] /\ i \in 1 .. Len(t)
        BY <1>1, <1>2, <3>1
      <4> QED
        BY <1>1, <4>1
    <3>2. CASE i >= place
      <4>1. t[i + 1] = s[i] /\ i + 1 \in 1 .. Len(t)
        BY <1>1, <1>2, <3>2
      <4> QED
        BY <1>1, <4>1
    <3> QED
      BY <1>1, <3>1, <3>2
  <2> QED
    BY <1>1, <2>1, <2>2
<1>5. \E z : After(t, first) \subseteq After(s, first) \cup {z}
  <2>1. CASE place > first
    <3>1. ASSUME NEW i \in first + 1 .. Len(t) PROVE t[i] \in After(s, first) \cup {x}
      <4>1. CASE i < place
        <5>1. i \in first + 1 .. Len(s) /\ t[i] = s[i]
          BY <1>1, <1>2, <4>1
        <5> QED
          BY <5>1 DEF After
      <4>2. CASE i = place
        BY <1>1, <1>2, <4>2
      <4>3. CASE i > place
        <5>1. i - 1 \in first + 1 .. Len(s) /\ t[i] = s[i - 1]
          BY <1>1, <1>2, <2>1, <4>3
        <5> QED
          BY <5>1 DEF After
      <4> QED
        BY <1>1, <4>1, <4>2, <4>3
    <3> QED
      BY <3>1 DEF After
  <2>2. CASE place <= first
    <3>1. ASSUME NEW i \in first + 1 .. Len(t) PROVE t[i] \in After(s, first) \cup {t[first + 1]}
      <4>1. CASE i = first + 1
        BY <4>1
      <4>2. CASE i > first + 1
        <5>1. i - 1 \in first + 1 .. Len(s) /\ t[i] = s[i - 1]
          BY <1>1, <1>2, <2>2, <4>2
        <5> QED
          BY <5>1 DEF After
      <4> QED
        BY <1>1, <4>1, <4>2
    <3> QED
      BY <3>1 DEF After
  <2>3. place \in Int /\ (place > first \/ place <= first)
    BY <1>1
  <2> QED
    BY <2>1, <2>2, <2>3
<1> QED
  BY <1>3, <1>4, <1>5

\* What a sequence that loses elements has: no more after any place, for what stays moves up.
LEMMA LostElements ==
    ASSUME NEW S, NEW s \in Seq(S), NEW t \in Seq(S), Loses(t, s), NEW first \in Nat
    PROVE  /\ Len(t) <= Len(s)
           /\ ToSet(t) \subseteq ToSet(s)
           /\ After(t, first) \subseteq After(s, first)
<1>1. /\ Len(s) \in Nat /\ ToSet(s) = {s[i] : i \in 1 .. Len(s)}
      /\ Len(t) \in Nat /\ ToSet(t) = {t[i] : i \in 1 .. Len(t)}
  BY ElementsOfSeq
<1>2. PICK from \in [1 .. Len(t) -> 1 .. Len(s)] :
          /\ \A i \in 1 .. Len(t) : t[i] = s[from[i]] /\ i <= from[i]
          /\ \A i, j \in 1 .. Len(t) : i < j => from[i] < from[j]
  BY DEF Loses
<1>3. Len(t) <= Len(s)
  <2>1. CASE Len(t) = 0
    BY <1>1, <2>1
  <2>2. CASE Len(t) # 0
    <3>1. Len(t) \in 1 .. Len(t)
      BY <1>1, <2>2
    <3>2. Len(t) <= from[Len(t)] /\ from[Len(t)] \in 1 .. Len(s)
      BY <1>2, <3>1
    <3> QED
      BY <1>1, <3>2
  <2> QED
    BY <2>1, <2>2
<1>4. ToSet(t) \subseteq ToSet(s)
  <2>1. ASSUME NEW i \in 1 .. Len(t) PROVE t[i] \in ToSet(s)
    <3>1. t[i] = s[from[i]] /\ from[i] \in 1 .. Len(s)
      BY <1>2
    <3> QED
      BY <1>1, <3>1
  <2> QED
    BY <1>1, <2>1
<1>5. After(t, first) \subseteq After(s, first)
  <2>1. ASSUME NEW i \in first + 1 .. Len(t) PROVE t[i] \in After(s, first)
    <3>1. i \in 1 .. Len(t)
      BY <1>1
    <3>2. t[i] = s[from[i]] /\ from[i] \in 1 .. Len(s) /\ i <= from[i]
      BY <1>2, <3>1
    <3>3. from[i] \in first + 1 .. Len(s)
      BY <1>1, <3>2
    <3> QED
      BY <3>2, <3>3 DEF After
  <2> QED
    BY <2>1 DEF After
<1> QED
  BY <1>3, <1>4, <1>5

\* A row that takes the place of its creation leaves the newest first.
LEMMA GainStaysNewest ==
    ASSUME NEW s \in Seq(Nat), NEW t \in Seq(Nat), NEW x \in Nat,
           NEW place \in 1 .. Len(s) + 1, Gains(t, s, place, x),
           Newest(s), x \notin ToSet(s), \A i \in DOMAIN s : s[i] > x <=> i < place
    PROVE  Newest(t)
<1>1. /\ Len(s) \in Nat /\ DOMAIN s = 1 .. Len(s) /\ ToSet(s) = {s[i] : i \in 1 .. Len(s)}
      /\ Len(t) \in Nat /\ DOMAIN t = 1 .. Len(t)
      /\ \A i \in 1 .. Len(s) : s[i] \in Nat
  BY ElementsOfSeq
<1>2. /\ Len(t) = Len(s) + 1
      /\ \A i \in 1 .. Len(t) : t[i] = IF i < place THEN s[i]
                                       ELSE IF i = place THEN x ELSE s[i - 1]
  BY DEF Gains
<1> SUFFICES ASSUME NEW i \in 1 .. Len(t), NEW j \in 1 .. Len(t), i < j PROVE t[i] > t[j]
  BY <1>1 DEF Newest
<1>3. \A k, l \in 1 .. Len(s) : k < l => s[k] > s[l]
  BY <1>1 DEF Newest
<1>4. i \in Nat /\ j \in Nat /\ place \in Nat
  BY <1>1
<1>5. CASE j < place
  <2>1. i \in 1 .. Len(s) /\ j \in 1 .. Len(s) /\ t[i] = s[i] /\ t[j] = s[j]
    BY <1>1, <1>2, <1>4, <1>5
  <2> QED
    BY <1>3, <2>1
<1>6. CASE j = place
  <2>1. i \in 1 .. Len(s) /\ t[i] = s[i] /\ t[j] = x /\ i < place
    BY <1>1, <1>2, <1>4, <1>6
  <2> QED
    BY <1>1, <2>1
<1>7. CASE j > place /\ i < place
  <2>1. i \in 1 .. Len(s) /\ j - 1 \in 1 .. Len(s) /\ t[i] = s[i] /\ t[j] = s[j - 1] /\ i < j - 1
    BY <1>1, <1>2, <1>4, <1>7
  <2> QED
    BY <1>3, <2>1
<1>8. CASE i = place
  <2>1. j - 1 \in 1 .. Len(s) /\ t[i] = x /\ t[j] = s[j - 1] /\ ~ (j - 1 < place)
    BY <1>1, <1>2, <1>4, <1>8
  <2>2. ~ (s[j - 1] > x) /\ s[j - 1] # x /\ s[j - 1] \in Nat
    BY <1>1, <2>1
  <2>3. x > s[j - 1]
    BY <2>2
  <2> QED
    BY <2>1, <2>3
<1>9. CASE i > place
  <2>1. /\ i - 1 \in 1 .. Len(s) /\ j - 1 \in 1 .. Len(s) /\ i - 1 < j - 1
        /\ t[i] = s[i - 1] /\ t[j] = s[j - 1]
    BY <1>1, <1>2, <1>4, <1>9
  <2> QED
    BY <1>3, <2>1
<1>10. j < place \/ j = place \/ (j > place /\ i < place) \/ i = place \/ i > place
  BY <1>4
<1> QED
  BY <1>5, <1>6, <1>7, <1>8, <1>9, <1>10

\* What is left keeps its order.
LEMMA LossStaysNewest ==
    ASSUME NEW s \in Seq(Nat), NEW t \in Seq(Nat), Loses(t, s), Newest(s)
    PROVE  Newest(t)
<1>1. DOMAIN s = 1 .. Len(s) /\ DOMAIN t = 1 .. Len(t)
  BY ElementsOfSeq
<1>2. PICK from \in [1 .. Len(t) -> 1 .. Len(s)] :
          /\ \A i \in 1 .. Len(t) : t[i] = s[from[i]] /\ i <= from[i]
          /\ \A i, j \in 1 .. Len(t) : i < j => from[i] < from[j]
  BY DEF Loses
<1>3. ASSUME NEW i \in 1 .. Len(t), NEW j \in 1 .. Len(t), i < j PROVE t[i] > t[j]
  <2>1. /\ from[i] \in 1 .. Len(s) /\ from[j] \in 1 .. Len(s) /\ from[i] < from[j]
        /\ t[i] = s[from[i]] /\ t[j] = s[from[j]]
    BY <1>2, <1>3
  <2> QED
    BY <1>1, <2>1 DEF Newest
<1> QED
  BY <1>1, <1>3 DEF Newest

\* The first elements of a sequence.
First(s, n) == {s[i] : i \in (1 .. n) \cap (1 .. Len(s))}

\* In a sequence without repetitions the first n elements are n, if it has as many.
LEMMA FirstCounted ==
    ASSUME NEW s \in Seq(Nat), Newest(s), NEW n \in Nat
    PROVE  /\ IsFiniteSet(First(s, n))
           /\ Cardinality(First(s, n)) <= n
           /\ n <= Len(s) => Cardinality(First(s, n)) = n
<1> DEFINE places == (1 .. n) \cap (1 .. Len(s))
           value == [i \in places |-> s[i]]
<1>1. Len(s) \in Nat /\ DOMAIN s = 1 .. Len(s) /\ \A i \in 1 .. Len(s) : s[i] \in Nat
  BY ElementsOfSeq
<1>2. IsFiniteSet(1 .. n) /\ Cardinality(1 .. n) = n
  BY FS_Interval
<1>3. places \in SUBSET (1 .. n) /\ (n <= Len(s) => places = 1 .. n)
  BY <1>1
<1>4. First(s, n) = {value[i] : i \in places}
  BY DEF First
<1>5. \A i, j \in places : s[i] = s[j] => i = j
  <2> SUFFICES ASSUME NEW i \in places, NEW j \in places, i # j PROVE s[i] # s[j]
    OBVIOUS
  <2>1. i \in 1 .. Len(s) /\ j \in 1 .. Len(s) /\ (i < j \/ j < i)
    OBVIOUS
  <2>2. s[i] \in Nat /\ s[j] \in Nat /\ (s[i] > s[j] \/ s[j] > s[i])
    BY <1>1, <2>1 DEF Newest
  <2> QED
    BY <2>2
<1> HIDE DEF places
<1>6. IsFiniteSet(places) /\ Cardinality(places) <= n /\ Cardinality(places) \in Nat
  <2>1. IsFiniteSet(places) /\ Cardinality(places) <= Cardinality(1 .. n)
    BY <1>2, <1>3, FS_Subset
  <2> QED
    BY <1>2, <2>1, FS_CardinalityType
<1>7. /\ value \in Surjection(places, First(s, n)) /\ value \in Injection(places, First(s, n))
  <2>1. value \in [places -> First(s, n)]
    BY <1>4
  <2>2. \A e \in First(s, n) : \E i \in places : value[i] = e
    BY <1>4
  <2>3. \A i, j \in places : value[i] = value[j] => i = j
    BY <1>5
  <2> QED
    BY <2>1, <2>2, <2>3 DEF Surjection, Injection, IsInjective
<1>8. IsFiniteSet(First(s, n)) /\ Cardinality(First(s, n)) = Cardinality(places)
  BY <1>6, <1>7, FS_Surjection
<1>9. n <= Len(s) => Cardinality(places) = n
  BY <1>2, <1>3
<1> QED
  BY <1>6, <1>8, <1>9

\* The elements after the first n are what is left.
LEMMA AfterCounted ==
    ASSUME NEW S, NEW s \in Seq(S), NEW n \in Nat
    PROVE  /\ IsFiniteSet(After(s, n)) /\ After(s, n) \subseteq ToSet(s)
           /\ n <= Len(s) => Cardinality(After(s, n)) <= Len(s) - n
           /\ n >= Len(s) => After(s, n) = {}
<1> DEFINE places == n + 1 .. Len(s)
           value == [i \in places |-> s[i]]
<1>1. Len(s) \in Nat /\ ToSet(s) = {s[i] : i \in 1 .. Len(s)}
  BY ElementsOfSeq
<1>2. IsFiniteSet(places) /\ (n <= Len(s) => Cardinality(places) = Len(s) - n)
  <2>1. /\ IsFiniteSet(places)
        /\ Cardinality(places) = IF n + 1 > Len(s) THEN 0 ELSE Len(s) - (n + 1) + 1
    <3>1. n + 1 \in Int /\ Len(s) \in Int
      BY <1>1
    <3> QED
      BY <3>1, FS_Interval
  <2> HIDE DEF places
  <2> QED
    BY <1>1, <2>1
<1>3. After(s, n) = {value[i] : i \in places} /\ places \subseteq 1 .. Len(s)
  BY <1>1 DEF After
<1>4. After(s, n) \subseteq ToSet(s)
  BY <1>1 DEF After
<1>5. n >= Len(s) => places = {}
  BY <1>1
<1>6. n >= Len(s) => After(s, n) = {}
  BY <1>3, <1>5
<1> HIDE DEF places
<1>7. value \in Surjection(places, After(s, n))
  BY <1>3 DEF Surjection
<1>8. IsFiniteSet(After(s, n)) /\ Cardinality(After(s, n)) <= Cardinality(places)
  BY <1>2, <1>7, FS_Surjection
<1> QED
  BY <1>2, <1>4, <1>6, <1>8

\* A page has the elements at its places.
LEMMA PageElements ==
    ASSUME NEW S, NEW s \in Seq(S), NEW n \in Nat, NEW upto \in Nat, upto <= Len(s)
    PROVE  /\ SubSeq(s, n + 1, upto) \in Seq(S)
           /\ ToSet(SubSeq(s, n + 1, upto)) = {s[i] : i \in n + 1 .. upto}
<1>1. Len(s) \in Nat /\ \A i \in 1 .. Len(s) : s[i] \in S
  BY ElementsOfSeq
<1> DEFINE t == SubSeq(s, n + 1, upto)
<1> HIDE DEF t
<1>2. n + 1 \in Int /\ upto \in Int /\ \A i \in n + 1 .. upto : s[i] \in S
  BY <1>1
<1>3. /\ t \in Seq(S) /\ Len(t) = IF n + 1 <= upto THEN upto - (n + 1) + 1 ELSE 0
      /\ \A i \in 1 .. upto - (n + 1) + 1 : t[i] = s[(n + 1) + i - 1]
  BY <1>2, SubSeqProperties DEF t
<1>4. ToSet(t) = {t[i] : i \in 1 .. Len(t)}
  BY <1>3, ElementsOfSeq
<1>5. upto - (n + 1) + 1 = upto - n /\ 1 .. Len(t) = 1 .. upto - n
  BY <1>3
<1>6. \A i \in 1 .. upto - n : t[i] = s[n + i]
  <2>1. ASSUME NEW i \in 1 .. upto - n PROVE t[i] = s[n + i]
    <3>1. (n + 1) + i - 1 = n + i
      OBVIOUS
    <3> QED
      BY <1>3, <1>5, <3>1
  <2> QED
    BY <2>1
<1>7. ToSet(t) \subseteq {s[i] : i \in n + 1 .. upto}
  <2>1. ASSUME NEW i \in 1 .. upto - n PROVE t[i] \in {s[j] : j \in n + 1 .. upto}
    <3>1. t[i] = s[n + i] /\ n + i \in n + 1 .. upto
      BY <1>6
    <3> QED
      BY <3>1
  <2> QED
    BY <1>4, <1>5, <2>1
<1>8. {s[i] : i \in n + 1 .. upto} \subseteq ToSet(t)
  <2>1. ASSUME NEW j \in n + 1 .. upto PROVE s[j] \in ToSet(t)
    <3>1. j - n \in 1 .. upto - n /\ n + (j - n) = j
      OBVIOUS
    <3>2. t[j - n] = s[j]
      BY <1>6, <3>1
    <3> QED
      BY <1>4, <1>5, <3>1, <3>2
  <2> QED
    BY <2>1
<1> QED
  BY <1>3, <1>7, <1>8 DEF t

-------------------------------------------------------------------------------
(* The invariant *)

\* What the client has been given, the page at hand included.
Covered == seen \cup ToSet(found)

\* The place in the table up to which findMany has looked.
End == IF "findMany" \in pending THEN Skip ELSE page * Limit

\* The rows of the table that are no older than one that the client was given.
PassedRows == Passed \cap ToSet(rows)

\* The rows that were there all along and that the walk went past, or has not come to.
Missed == (throughout \ Covered) \cap Passed
Ahead == throughout \ Passed

\* The table is in its order, and a client gets what was made.
TableOK ==
    /\ Newest(rows)
    /\ ToSet(rows) \cup others \cup Covered \subseteq 1 .. made
    /\ ToSet(rows) \cap others = {}
    /\ throughout \subseteq ToSet(rows)

\* A walk that has not begun has nothing, and one that asks for a page has none of it.
WalkOK ==
    /\ page = 0 => pending = {} /\ Covered = {} /\ ~ done
    /\ done => pending = {} /\ found = << >> /\ total = 0
    /\ "findMany" \in pending => found = << >>

\* What came pushed no more rows than it is to places beyond the one the walk has come to.
RepeatedCounted ==
    repeated + Cardinality(seen \cap ToSet(found)) + Cardinality(Covered \cap After(rows, End))
        <= came

\* What left let no more rows pass, and either nothing more can be missed or the rows that
\* findMany has looked at were passed but for as many as left.
MissedCounted ==
    /\ Cardinality(Missed) <= left
    /\ \/ Cardinality(Missed) + Cardinality(Ahead) <= left
       \/ Cardinality(Missed) + End <= left + Cardinality(PassedRows)

\* The count of a page is too low only by what came since.
RacedCounted == pending = {"findMany"} => Len(rows) <= total + raced

\* A page that is the last leaves out no more than what left and what raced.
LastCounted ==
    page > 0 /\ pending = {} /\ ~ HasNext => Cardinality(throughout \ Covered) <= left + raced

Inductive == /\ TypeOK /\ TableOK /\ WalkOK
             /\ RepeatedCounted /\ MissedCounted /\ RacedCounted /\ LastCounted

\* What the sets of rows are: finite, with numbers of elements.
LEMMA FiniteRows ==
    ASSUME TypeOK
    PROVE  /\ rows \in Seq(Nat) /\ found \in Seq(Nat)
           /\ {ToSet(rows), ToSet(found), Covered, Passed} \subseteq SUBSET Row
           /\ IsFiniteSet(Row)
           /\ \A s : s \subseteq Row => IsFiniteSet(s) /\ Cardinality(s) \in Nat
           /\ page \in Nat /\ Limit \in Nat \ {0} /\ page * Limit \in Nat
           /\ page # 0 => page - 1 \in Nat /\ Skip \in Nat /\ Skip + Limit = page * Limit
<1>1. MaxRows \in Nat /\ Limit \in Nat \ {0} /\ page \in Nat
  BY ListingsAssumption DEF TypeOK
<1>2. IsFiniteSet(Row) /\ Row \subseteq Nat
  BY <1>1, FS_Interval DEF Row
<1>3. \A s : s \subseteq Row => IsFiniteSet(s) /\ Cardinality(s) \in Nat
  BY <1>2, FS_Subset, FS_CardinalityType
<1>4. rows \in Seq(Row) /\ found \in Seq(Row) /\ seen \subseteq Row
  BY DEF TypeOK
<1>5. rows \in Seq(Nat) /\ found \in Seq(Nat)
  BY <1>2, <1>4, SeqMonotonic
<1>6. ToSet(rows) \subseteq Row /\ ToSet(found) \subseteq Row
  BY <1>4, ElementsOfSeq
<1>7. Covered \subseteq Row /\ Passed \subseteq Row
  BY <1>4, <1>6 DEF Covered, Passed
<1>8. page * Limit \in Nat
  BY <1>1
<1>9. page # 0 => page - 1 \in Nat /\ Skip \in Nat /\ Skip + Limit = page * Limit
  BY <1>1 DEF Skip
<1> QED
  BY <1>1, <1>2, <1>3, <1>5, <1>6, <1>7, <1>8, <1>9

\* Either no row of the first d that was there all along is still ahead, or these and the
\* rows passed are among the first d: for a row ahead is older than every row passed.
LEMMA PassedFirst ==
    ASSUME TypeOK, TableOK, NEW d \in Nat
    PROVE  \/ Ahead \cap First(rows, d) = {}
           \/ Cardinality(PassedRows) + Cardinality(Ahead \cap First(rows, d)) <= d
<1> DEFINE ahead == Ahead \cap First(rows, d)
<1> SUFFICES ASSUME ahead # {}
             PROVE  Cardinality(PassedRows) + Cardinality(ahead) <= d
  OBVIOUS
<1>1. /\ rows \in Seq(Nat) /\ Newest(rows) /\ ToSet(rows) \subseteq Row /\ Passed \subseteq Row
      /\ \A s : s \subseteq Row => IsFiniteSet(s) /\ Cardinality(s) \in Nat
  BY FiniteRows DEF TableOK
<1>2. /\ Len(rows) \in Nat /\ DOMAIN rows = 1 .. Len(rows)
      /\ ToSet(rows) = {rows[i] : i \in 1 .. Len(rows)}
      /\ \A i \in 1 .. Len(rows) : rows[i] \in Nat
  BY <1>1, ElementsOfSeq
<1>3. First(rows, d) \subseteq ToSet(rows)
  BY <1>2 DEF First
<1>4. PICK a : a \in ahead
  OBVIOUS
<1>5. PICK i \in (1 .. d) \cap (1 .. Len(rows)) : a = rows[i]
  BY <1>4 DEF First
<1>6. a \in Row /\ a \notin Passed
  BY <1>1, <1>3, <1>4 DEF Ahead
<1>7. PassedRows \subseteq First(rows, d)
  <2> SUFFICES ASSUME NEW p \in PassedRows PROVE p \in First(rows, d)
    OBVIOUS
  <2>1. p \in Row /\ p \in ToSet(rows) /\ p \in Passed
    BY <1>1 DEF PassedRows
  <2>2. PICK other \in seen \cup ToSet(found) : p >= other
    BY <2>1 DEF Passed
  <2>3. other \in Row
    BY FiniteRows DEF Covered
  <2>4. ~ (a >= other)
    BY <1>6 DEF Passed
  <2>5. p > a
    BY <1>6, <2>1, <2>2, <2>3, <2>4, ListingsAssumption DEF Row
  <2>6. PICK j \in 1 .. Len(rows) : p = rows[j]
    BY <1>2, <2>1
  <2>7. ~ (i < j)
    <3> SUFFICES ASSUME i < j PROVE FALSE
      OBVIOUS
    <3>1. i \in 1 .. Len(rows) /\ rows[i] > rows[j]
      BY <1>1, <1>2, <1>5, <2>6 DEF Newest
    <3> QED
      BY <1>2, <1>5, <2>5, <2>6, <3>1
  <2>8. j \in (1 .. d) \cap (1 .. Len(rows))
    BY <1>2, <1>5, <2>6, <2>7
  <2> QED
    BY <2>6, <2>8 DEF First
<1>8. ahead \cap PassedRows = {}
  BY DEF Ahead, PassedRows
<1>9. PassedRows \cup ahead \subseteq First(rows, d)
  BY <1>7
<1>10. IsFiniteSet(First(rows, d)) /\ Cardinality(First(rows, d)) <= d
  BY <1>1, FirstCounted
<1>11. PassedRows \subseteq Row /\ ahead \subseteq Row /\ First(rows, d) \subseteq Row
  BY <1>1, <1>3 DEF PassedRows
<1> HIDE DEF ahead
<1>12. Cardinality(PassedRows \cup ahead) = Cardinality(PassedRows) + Cardinality(ahead)
  <2>1. IsFiniteSet(PassedRows) /\ IsFiniteSet(ahead)
    BY <1>1, <1>11
  <2>2. /\ Cardinality(PassedRows) \in Nat /\ Cardinality(ahead) \in Nat
    BY <1>1, <1>11
  <2>3. PassedRows \cap ahead = {}
    BY <1>8
  <2>4. Cardinality(PassedRows \cap ahead) = 0
    BY <2>3, FS_EmptySet
  <2>5. Cardinality(PassedRows \cup ahead)
            = Cardinality(PassedRows) + Cardinality(ahead) - Cardinality(PassedRows \cap ahead)
    BY <2>1, FS_Union
  <2> QED
    BY <2>2, <2>4, <2>5
<1>13. Cardinality(PassedRows \cup ahead) <= Cardinality(First(rows, d))
  BY <1>9, <1>10, FS_Subset
<1>14. /\ Cardinality(PassedRows \cup ahead) \in Nat /\ Cardinality(First(rows, d)) \in Nat
  BY <1>1, <1>9, <1>11
<1> QED
  BY <1>10, <1>12, <1>13, <1>14

\* Hence all the rows passed and ahead are no more than the table has.
LEMMA PassedAndAhead ==
    ASSUME TypeOK, TableOK
    PROVE  \/ Cardinality(Ahead) = 0
           \/ Cardinality(PassedRows) + Cardinality(Ahead) <= Len(rows)
<1>1. rows \in Seq(Nat)
  BY FiniteRows
<1>2. Len(rows) \in Nat /\ ToSet(rows) = {rows[i] : i \in 1 .. Len(rows)}
  BY <1>1, ElementsOfSeq
<1>3. First(rows, Len(rows)) = ToSet(rows)
  BY <1>2 DEF First
<1>4. Ahead \cap First(rows, Len(rows)) = Ahead
  BY <1>3 DEF Ahead, TableOK
<1>5. Ahead = {} \/ Cardinality(PassedRows) + Cardinality(Ahead) <= Len(rows)
  BY <1>2, <1>4, PassedFirst
<1> QED
  BY <1>5, FS_EmptySet

-------------------------------------------------------------------------------
(* The steps of the other requests *)

\* A row comes: the table keeps its order, and has at most one row more after any place.
LEMMA RowComes ==
    ASSUME TypeOK, TableOK, Add \/ Enter
    PROVE  /\ TypeOK' /\ TableOK' /\ Arrive
           /\ Len(rows') = Len(rows) + 1
           /\ ToSet(rows) \subseteq ToSet(rows')
           /\ \A first \in Nat : \E z : After(rows', first) \subseteq After(rows, first) \cup {z}
<1>1. /\ rows \in Seq(Row) /\ rows \in Seq(Nat) /\ Newest(rows) /\ Row \subseteq Nat
      /\ made \in 0 .. MaxRows /\ MaxRows \in Nat
  BY FiniteRows, ListingsAssumption DEF TypeOK, TableOK, Row
<1>2. Len(rows) \in Nat /\ DOMAIN rows = 1 .. Len(rows) /\ ToSet(rows) = {rows[i] : i \in 1 .. Len(rows)}
  BY <1>1, ElementsOfSeq
<1>3. Arrive
  BY DEF Add, Enter
<1>4. Covered' = Covered /\ throughout' = throughout
  BY <1>3 DEF Arrive, Covered
<1>5. PICK x \in Row, place \in 1 .. Len(rows) + 1 :
          /\ rows' \in Seq(Row) /\ Gains(rows', rows, place, x) /\ x \notin ToSet(rows)
          /\ \A i \in DOMAIN rows : rows[i] > x <=> i < place
          /\ made' \in 0 .. MaxRows /\ x \in 1 .. made' /\ 1 .. made \subseteq 1 .. made'
          /\ others' \subseteq others /\ x \notin others'
          /\ returns' \in 0 .. MaxReturns
  <2>1. CASE Add
    <3>1. made' = made + 1 /\ made' \in 0 .. MaxRows /\ made' \in Row
      BY <1>1, <2>1 DEF Add, Row
    <3>2. rows' = <<made'>> \o rows /\ others' = others /\ returns' = returns
      BY <2>1 DEF Add
    <3>3. rows' \in Seq(Row) /\ Gains(rows', rows, 1, made')
      BY <1>1, <3>1, <3>2, PrependGains
    <3>4. \A i \in DOMAIN rows : rows[i] \in 1 .. made /\ i \in 1 .. Len(rows)
      BY <1>2 DEF TableOK
    <3>5. /\ made' \notin ToSet(rows) /\ made' \notin others'
          /\ \A i \in DOMAIN rows : rows[i] > made' <=> i < 1
      <4>1. made' \notin 1 .. made
        BY <1>1, <3>1
      <4>2. made' \notin ToSet(rows) /\ made' \notin others'
        BY <3>2, <4>1 DEF TableOK
      <4>3. ASSUME NEW i \in DOMAIN rows PROVE ~ (rows[i] > made') /\ ~ (i < 1)
        <5>1. rows[i] \in 1 .. made /\ i \in 1 .. Len(rows)
          BY <3>4
        <5> QED
          BY <1>1, <1>2, <3>1, <5>1
      <4> QED
        BY <4>2, <4>3
    <3>6. 1 \in 1 .. Len(rows) + 1
      BY <1>2
    <3>7. returns' \in 0 .. MaxReturns /\ made' \in 1 .. made' /\ 1 .. made \subseteq 1 .. made'
      BY <1>1, <3>1, <3>2 DEF TypeOK
    <3> QED
      BY <3>1, <3>2, <3>3, <3>5, <3>6, <3>7
  <2>2. CASE Enter
    <3>1. PICK row \in others, place \in 1 .. Len(rows) + 1 :
              /\ \A i \in DOMAIN rows : rows[i] > row <=> i < place
              /\ rows' = InsertAt(rows, place, row)
              /\ others' = others \ {row}
      BY <2>2 DEF Enter
    <3>2. row \in Row /\ row \notin ToSet(rows) /\ row \in 1 .. made
      BY DEF TypeOK, TableOK
    <3>3. rows' \in Seq(Row) /\ Gains(rows', rows, place, row)
      BY <1>1, <3>1, <3>2, InsertGains
    <3>4. made' = made /\ returns' \in 0 .. MaxReturns
      BY <2>2, ListingsAssumption DEF Enter, TypeOK
    <3> QED
      BY <1>1, <3>1, <3>2, <3>3, <3>4
  <2> QED
    BY <2>1, <2>2
<1>6. ToSet(rows') = ToSet(rows) \cup {x}
  BY <1>1, <1>5, GainedElements
<1>7. \A first \in Nat : \E z : After(rows', first) \subseteq After(rows, first) \cup {z}
  <2>1. ASSUME NEW first \in Nat
        PROVE  \E z : After(rows', first) \subseteq After(rows, first) \cup {z}
    <3>1. rows' \in Seq(Row) /\ Gains(rows', rows, place, x)
      BY <1>5
    <3> QED
      BY <1>1, <3>1, GainedElements
  <2> QED
    BY <2>1
<1>8. Newest(rows')
  <2>1. rows' \in Seq(Nat) /\ x \in Nat
    BY <1>1, <1>5, SeqMonotonic
  <2> QED
    BY <1>1, <1>5, <2>1, GainStaysNewest
<1>9. Len(rows') = Len(rows) + 1
  BY <1>5 DEF Gains
<1>10. TableOK'
  <2>1. ToSet(rows') \cup others' \cup Covered' \subseteq 1 .. made'
    BY <1>4, <1>5, <1>6 DEF TableOK
  <2>2. ToSet(rows') \cap others' = {}
    BY <1>5, <1>6 DEF TableOK
  <2>3. throughout' \subseteq ToSet(rows')
    BY <1>4, <1>6 DEF TableOK
  <2> QED
    BY <1>8, <2>1, <2>2, <2>3 DEF TableOK
<1>11. TypeOK'
  <2>1. /\ found' = found /\ seen' = seen /\ throughout' = throughout /\ page' = page
        /\ total' = total /\ left' = left /\ repeated' = repeated /\ pending' = pending
        /\ done' = done /\ came' \in Nat /\ raced' \in Nat
    BY <1>3 DEF Arrive, TypeOK
  <2> QED
    BY <1>5, <2>1 DEF TypeOK
<1> QED
  BY <1>3, <1>6, <1>7, <1>9, <1>10, <1>11

\* Rows go: the table keeps its order, and has no row more after any place.
LEMMA RowsGo ==
    ASSUME TypeOK, TableOK, Leave \/ CleanUpOldLogs
    PROVE  /\ TypeOK' /\ TableOK' /\ Lose(rows')
           /\ Len(rows') <= Len(rows)
           /\ ToSet(rows') \subseteq ToSet(rows)
           /\ \A first \in Nat : After(rows', first) \subseteq After(rows, first)
<1>1. rows \in Seq(Row) /\ rows \in Seq(Nat) /\ Newest(rows) /\ Row \subseteq Nat
  BY FiniteRows, ListingsAssumption DEF TypeOK, TableOK, Row
<1>2. Len(rows) \in Nat /\ DOMAIN rows = 1 .. Len(rows) /\ ToSet(rows) = {rows[i] : i \in 1 .. Len(rows)}
  BY <1>1, ElementsOfSeq
<1>3. /\ rows' \in Seq(Row) /\ Loses(rows', rows) /\ Lose(rows')
      /\ others' \subseteq others \cup (ToSet(rows) \ ToSet(rows'))
  <2>1. CASE Leave
    <3>1. PICK i \in 1 .. Len(rows) : Lose(RemoveAt(rows, i)) /\ others' = others \cup {rows[i]}
      BY <1>2, <2>1 DEF Leave
    <3>2. rows' = RemoveAt(rows, i)
      BY <3>1 DEF Lose
    <3>3. rows' \in Seq(Row) /\ Loses(rows', rows)
      BY <1>1, <3>2, RemoveLoses
    <3>4. rows[i] \notin ToSet(rows')
      <4>1. PICK from \in [1 .. Len(rows') -> 1 .. Len(rows)] :
                \A j \in 1 .. Len(rows') : rows'[j] = rows[from[j]] /\ from[j] # i
        BY <1>1, <3>2, RemoveSkips
      <4>2. ToSet(rows') = {rows'[j] : j \in 1 .. Len(rows')}
        BY <3>3, ElementsOfSeq
      <4>3. ASSUME NEW j \in 1 .. Len(rows') PROVE rows'[j] # rows[i]
        <5>1. from[j] \in 1 .. Len(rows) /\ from[j] # i /\ rows'[j] = rows[from[j]]
          BY <4>1
        <5>2. from[j] < i \/ i < from[j]
          BY <5>1
        <5>3. rows[from[j]] > rows[i] \/ rows[i] > rows[from[j]]
          BY <1>1, <1>2, <5>1, <5>2 DEF Newest
        <5>4. rows[i] \in Nat /\ rows[from[j]] \in Nat
          BY <1>1, <5>1, ElementsOfSeq
        <5> QED
          BY <5>1, <5>3, <5>4
      <4> QED
        BY <4>2, <4>3
    <3> QED
      BY <1>2, <3>1, <3>2, <3>3, <3>4
  <2>2. CASE CleanUpOldLogs
    <3>1. PICK oldest \in 1 .. made, kept \in 0 .. Len(rows) :
              Lose(SubSeq(rows, 1, kept)) /\ others' = {row \in others : row > oldest}
      BY <2>2 DEF CleanUpOldLogs
    <3>2. rows' = SubSeq(rows, 1, kept)
      BY <3>1 DEF Lose
    <3>3. rows' \in Seq(Row) /\ Loses(rows', rows)
      BY <1>1, <3>2, BeginningLoses
    <3> QED
      BY <3>1, <3>2, <3>3
  <2> QED
    BY <2>1, <2>2
<1>4. Len(rows') <= Len(rows) /\ ToSet(rows') \subseteq ToSet(rows)
  BY <1>1, <1>3, LostElements
<1>5. \A first \in Nat : After(rows', first) \subseteq After(rows, first)
  BY <1>1, <1>3, LostElements
<1>6. Newest(rows')
  <2>1. rows' \in Seq(Nat)
    BY <1>1, <1>3, SeqMonotonic
  <2> QED
    BY <1>1, <1>3, <2>1, LossStaysNewest
<1>7. /\ throughout' = throughout \ (ToSet(rows) \ ToSet(rows'))
      /\ left' = left + Cardinality(Passed \cap (ToSet(rows) \ ToSet(rows')))
      /\ made' = made /\ returns' = returns /\ page' = page /\ pending' = pending
      /\ found' = found /\ total' = total /\ seen' = seen /\ done' = done
      /\ came' = came /\ raced' = raced /\ repeated' = repeated
  BY <1>3 DEF Lose
<1>8. TableOK'
  <2>1. Covered' = Covered
    BY <1>7 DEF Covered
  <2>2. ToSet(rows') \cup others' \cup Covered' \subseteq 1 .. made'
    BY <1>3, <1>4, <1>7, <2>1 DEF TableOK
  <2>3. ToSet(rows') \cap others' = {}
    BY <1>3, <1>4 DEF TableOK
  <2>4. throughout' \subseteq ToSet(rows')
    BY <1>7 DEF TableOK
  <2> QED
    BY <1>6, <2>2, <2>3, <2>4 DEF TableOK
<1>9. TypeOK'
  <2>1. Cardinality(Passed \cap (ToSet(rows) \ ToSet(rows'))) \in Nat
    BY FiniteRows
  <2>2. left' \in Nat
    BY <1>7, <2>1 DEF TypeOK
  <2>3. ToSet(rows) \subseteq Row
    BY FiniteRows
  <2>4. others' \cup seen' \cup throughout' \subseteq Row
    BY <1>3, <1>7, <2>3 DEF TypeOK
  <2> QED
    BY <1>3, <1>7, <2>2, <2>4 DEF TypeOK
<1> QED
  BY <1>3, <1>4, <1>5, <1>8, <1>9

-------------------------------------------------------------------------------
(* Every step keeps the invariant *)

\* A part has no more rows than the whole.
LEMMA PartCounted ==
    ASSUME TypeOK, NEW s, NEW t, s \subseteq t, t \subseteq Row
    PROVE  Cardinality(s) <= Cardinality(t)
BY FiniteRows, FS_Subset

\* The place that findMany has looked up to is a number, and a page is only asked for in a walk.
LEMMA EndIsNatural ==
    ASSUME TypeOK, WalkOK
    PROVE  End \in Nat /\ ("findMany" \in pending => page # 0)
<1>1. "findMany" \in pending => page # 0
  BY DEF WalkOK
<1> QED
  BY <1>1, FiniteRows DEF End

\* A row that comes is counted, and no place of the walk changes.
LEMMA ArrivalStep ==
    ASSUME Inductive, Add \/ Enter
    PROVE  Inductive'
<1>1. TypeOK /\ TableOK /\ WalkOK
  BY DEF Inductive
<1>2. /\ TypeOK' /\ TableOK' /\ Arrive
      /\ Len(rows') = Len(rows) + 1
      /\ ToSet(rows) \subseteq ToSet(rows')
      /\ \A first \in Nat : \E z : After(rows', first) \subseteq After(rows, first) \cup {z}
  BY <1>1, RowComes
<1>3. /\ page' = page /\ pending' = pending /\ found' = found /\ total' = total /\ seen' = seen
      /\ done' = done /\ throughout' = throughout /\ left' = left /\ repeated' = repeated
      /\ came' = (IF page > 0 THEN came + 1 ELSE came)
      /\ raced' = (IF pending = {"findMany"} THEN raced + 1 ELSE raced)
  BY <1>2 DEF Arrive
<1>4. /\ Covered' = Covered /\ End' = End /\ Passed' = Passed /\ HasNext' = HasNext
      /\ Missed' = Missed /\ Ahead' = Ahead
  BY <1>3 DEF Covered, End, Skip, Passed, HasNext, Missed, Ahead
<1>5. WalkOK'
  BY <1>1, <1>3, <1>4 DEF WalkOK
<1>6. End \in Nat
  BY <1>1, EndIsNatural
<1>7. RepeatedCounted'
  <2> DEFINE again == Covered \cap After(rows, End)
             more == Covered \cap After(rows', End)
             given == Cardinality(seen \cap ToSet(found))
  <2>1. PICK z : After(rows', End) \subseteq After(rows, End) \cup {z}
    BY <1>2, <1>6
  <2>2. more \subseteq again \cup {z} /\ again \subseteq Row /\ more \subseteq Row
    BY <1>1, <2>1, FiniteRows
  <2>3. page = 0 => more = {}
    BY <1>1 DEF WalkOK
  <2>4. given \in Nat
    BY <1>1, FiniteRows
  <2>5. repeated + given + Cardinality(again) <= came
    BY DEF Inductive, RepeatedCounted
  <2>6. RepeatedCounted' <=> repeated + given + Cardinality(more) <= came'
    BY <1>3, <1>4 DEF RepeatedCounted
  <2> HIDE DEF again, more, given
  <2>7. IsFiniteSet(again) /\ Cardinality(again) \in Nat /\ IsFiniteSet(more) /\ Cardinality(more) \in Nat
    BY <1>1, <2>2, FiniteRows
  <2>8. Cardinality(more) <= Cardinality(again) + 1
    <3>1. IsFiniteSet(again \cup {z}) /\ Cardinality(again \cup {z}) <= Cardinality(again) + 1
      <4>1. IsFiniteSet(again)
        BY <2>7
      <4>2. /\ IsFiniteSet(again \cup {z})
            /\ Cardinality(again \cup {z}) = IF z \in again THEN Cardinality(again)
                                             ELSE Cardinality(again) + 1
        BY <4>1, FS_AddElement
      <4> QED
        BY <2>7, <4>2
    <3>2. Cardinality(more) <= Cardinality(again \cup {z}) /\ Cardinality(again \cup {z}) \in Nat
      BY <2>2, <3>1, FS_Subset, FS_CardinalityType
    <3> QED
      BY <2>7, <3>1, <3>2
  <2>9. page = 0 => Cardinality(more) = 0
    BY <2>3, FS_EmptySet
  <2>10. page \in Nat /\ repeated \in Nat /\ came \in Nat
    BY <1>1 DEF TypeOK
  <2> QED
    BY <1>3, <2>4, <2>5, <2>6, <2>7, <2>8, <2>9, <2>10
<1>8. MissedCounted'
  <2> DEFINE before == Cardinality(PassedRows)
             after == Cardinality(PassedRows')
             missed == Cardinality(Missed)
             ahead == Cardinality(Ahead)
  <2>1. /\ missed <= left
        /\ missed + ahead <= left \/ missed + End <= left + before
    BY DEF Inductive, MissedCounted
  <2>2. MissedCounted' <=> /\ missed <= left
                           /\ missed + ahead <= left \/ missed + End <= left + after
    BY <1>3, <1>4 DEF MissedCounted
  <2>3. PassedRows \subseteq PassedRows' /\ PassedRows' \subseteq Row
    BY <1>1, <1>2, <1>4, FiniteRows DEF PassedRows
  <2>4. before <= after /\ before \in Nat /\ after \in Nat
    BY <1>1, <2>3, PartCounted, FiniteRows
  <2>5. missed \in Nat /\ ahead \in Nat
    <3>1. Missed \subseteq Row /\ Ahead \subseteq Row
      BY <1>1 DEF Missed, Ahead, TypeOK
    <3> QED
      BY <1>1, <3>1, FiniteRows
  <2>6. left \in Nat
    BY <1>1 DEF TypeOK
  <2> HIDE DEF before, after, missed, ahead
  <2> QED
    BY <1>6, <2>1, <2>2, <2>4, <2>5, <2>6
<1>9. RacedCounted'
  <2>1. Len(rows) \in Nat
    BY <1>1, ElementsOfSeq DEF TypeOK
  <2>2. total \in Nat /\ raced \in Nat
    BY <1>1 DEF TypeOK
  <2>3. pending = {"findMany"} => Len(rows) <= total + raced
    BY DEF Inductive, RacedCounted
  <2>4. pending = {"findMany"} => Len(rows') <= total' + raced'
    BY <1>2, <1>3, <2>1, <2>2, <2>3
  <2> QED
    BY <1>3, <2>4 DEF RacedCounted
<1>10. LastCounted'
  <2>1. pending = {} => raced' = raced
    BY <1>3
  <2> QED
    BY <1>3, <1>4, <2>1 DEF Inductive, LastCounted
<1> QED
  BY <1>2, <1>5, <1>7, <1>8, <1>9, <1>10 DEF Inductive

\* A row that goes makes at most one row pass, and is counted if it does.
LEMMA DepartureStep ==
    ASSUME Inductive, Leave \/ CleanUpOldLogs
    PROVE  Inductive'
<1>1. TypeOK /\ TableOK /\ WalkOK
  BY DEF Inductive
<1>2. /\ TypeOK' /\ TableOK' /\ Lose(rows')
      /\ Len(rows') <= Len(rows)
      /\ ToSet(rows') \subseteq ToSet(rows)
      /\ \A first \in Nat : After(rows', first) \subseteq After(rows, first)
  BY <1>1, RowsGo
<1> DEFINE lost == ToSet(rows) \ ToSet(rows')
<1>3. /\ page' = page /\ pending' = pending /\ found' = found /\ total' = total /\ seen' = seen
      /\ done' = done /\ came' = came /\ raced' = raced /\ repeated' = repeated
      /\ throughout' = throughout \ lost
      /\ left' = left + Cardinality(Passed \cap lost)
  BY <1>2 DEF Lose
<1>4. Covered' = Covered /\ End' = End /\ Passed' = Passed /\ HasNext' = HasNext
  BY <1>3 DEF Covered, End, Skip, Passed, HasNext
<1>5. WalkOK'
  BY <1>1, <1>3, <1>4 DEF WalkOK
<1>6. End \in Nat
  BY <1>1, EndIsNatural
<1>7. left \in Nat /\ raced \in Nat /\ came \in Nat /\ repeated \in Nat
  BY <1>1 DEF TypeOK
<1>8. Cardinality(Passed \cap lost) \in Nat
  <2>1. Passed \cap lost \subseteq Row
    BY <1>1, FiniteRows
  <2> QED
    BY <1>1, <2>1, FiniteRows
<1>9. RepeatedCounted'
  <2> DEFINE again == Covered \cap After(rows, End)
             fewer == Covered \cap After(rows', End)
             given == Cardinality(seen \cap ToSet(found))
  <2>1. fewer \subseteq again /\ again \subseteq Row
    BY <1>1, <1>2, <1>6, FiniteRows
  <2>2. given \in Nat
    BY <1>1, FiniteRows
  <2>3. repeated + given + Cardinality(again) <= came
    BY DEF Inductive, RepeatedCounted
  <2>4. RepeatedCounted' <=> repeated + given + Cardinality(fewer) <= came
    BY <1>3, <1>4 DEF RepeatedCounted
  <2> HIDE DEF again, fewer, given
  <2>5. /\ Cardinality(fewer) <= Cardinality(again)
        /\ Cardinality(fewer) \in Nat /\ Cardinality(again) \in Nat
    BY <1>1, <2>1, PartCounted, FiniteRows
  <2> QED
    BY <1>7, <2>2, <2>3, <2>4, <2>5
<1>10. MissedCounted'
  <2>1. Missed' \subseteq Missed /\ Ahead' \subseteq Ahead
    BY <1>3, <1>4 DEF Missed, Ahead
  <2>2. Missed \subseteq Row /\ Ahead \subseteq Row /\ PassedRows \subseteq Row
    BY <1>1, FiniteRows DEF Missed, Ahead, PassedRows, TypeOK
  <2>3. PassedRows' = PassedRows \ (Passed \cap lost) /\ Passed \cap lost \subseteq PassedRows
    BY <1>2, <1>4 DEF PassedRows
  <2> DEFINE before == Cardinality(PassedRows)
             after == Cardinality(PassedRows')
             missed == Cardinality(Missed)
             missed2 == Cardinality(Missed')
             ahead == Cardinality(Ahead)
             ahead2 == Cardinality(Ahead')
             gone == Cardinality(Passed \cap lost)
  <2>4. /\ missed <= left
        /\ missed + ahead <= left \/ missed + End <= left + before
    BY DEF Inductive, MissedCounted
  <2>5. MissedCounted' <=> /\ missed2 <= left'
                           /\ missed2 + ahead2 <= left' \/ missed2 + End <= left' + after
    BY <1>4 DEF MissedCounted
  <2>6. missed2 <= missed /\ ahead2 <= ahead
    BY <1>1, <2>1, <2>2, PartCounted
  <2>7. missed \in Nat /\ missed2 \in Nat /\ ahead \in Nat /\ ahead2 \in Nat
    <3>1. Missed' \subseteq Row /\ Ahead' \subseteq Row
      BY <2>1, <2>2
    <3> QED
      BY <1>1, <2>2, <3>1, FiniteRows
  <2>8. after = before - gone /\ before \in Nat
    <3> DEFINE going == Passed \cap lost
    <3>1. going \subseteq PassedRows /\ PassedRows' = PassedRows \ going
      BY <2>3
    <3> HIDE DEF going
    <3>2. IsFiniteSet(PassedRows) /\ before \in Nat
      BY <1>1, <2>2, FiniteRows
    <3>3. Cardinality(PassedRows \ going) = before - Cardinality(PassedRows \cap going)
      BY <3>2, FS_Difference
    <3>4. PassedRows \cap going = going
      BY <3>1
    <3>5. after = before - Cardinality(going)
      BY <3>1, <3>3, <3>4
    <3> QED
      BY <3>2, <3>5 DEF going
  <2>9. left' = left + gone /\ gone \in Nat
    BY <1>3, <1>8
  <2> HIDE DEF before, after, missed, missed2, ahead, ahead2, gone
  <2> QED
    BY <1>6, <1>7, <2>4, <2>5, <2>6, <2>7, <2>8, <2>9
<1>11. RacedCounted'
  <2>1. Len(rows) \in Nat /\ Len(rows') \in Nat
    BY <1>1, <1>2, ElementsOfSeq DEF TypeOK
  <2>2. total \in Nat
    BY <1>1 DEF TypeOK
  <2>3. pending = {"findMany"} => Len(rows) <= total + raced
    BY DEF Inductive, RacedCounted
  <2>4. pending = {"findMany"} => Len(rows') <= total + raced
    BY <1>2, <1>7, <2>1, <2>2, <2>3
  <2> QED
    BY <1>3, <2>4 DEF RacedCounted
<1>12. LastCounted'
  <2> DEFINE before == throughout \ Covered
             after == throughout' \ Covered
  <2>1. after \subseteq before /\ before \subseteq Row
    BY <1>1, <1>3 DEF TypeOK
  <2>2. page > 0 /\ pending = {} /\ ~ HasNext => Cardinality(before) <= left + raced
    BY DEF Inductive, LastCounted
  <2>3. LastCounted' <=> (page > 0 /\ pending = {} /\ ~ HasNext
                            => Cardinality(after) <= left' + raced)
    BY <1>3, <1>4 DEF LastCounted
  <2> HIDE DEF before, after
  <2>4. Cardinality(after) <= Cardinality(before)
    BY <1>1, <2>1, PartCounted
  <2>5. Cardinality(after) \in Nat /\ Cardinality(before) \in Nat
    BY <1>1, <2>1, FiniteRows
  <2> QED
    BY <1>3, <1>7, <1>8, <2>2, <2>3, <2>4, <2>5
<1> QED
  BY <1>2, <1>5, <1>9, <1>10, <1>11, <1>12 DEF Inductive

\* Two parts that cover a third have as many rows at least.
LEMMA CoverCounted ==
    ASSUME TypeOK, NEW s, NEW t, NEW u, s \subseteq t \cup u, t \subseteq Row, u \subseteq Row
    PROVE  /\ Cardinality(s) <= Cardinality(t) + Cardinality(u)
           /\ Cardinality(s) \in Nat /\ Cardinality(t) \in Nat /\ Cardinality(u) \in Nat
<1>1. s \subseteq Row /\ t \cup u \subseteq Row /\ t \cap u \subseteq Row
  OBVIOUS
<1>2. /\ IsFiniteSet(t) /\ IsFiniteSet(u)
      /\ Cardinality(s) \in Nat /\ Cardinality(t) \in Nat /\ Cardinality(u) \in Nat
      /\ Cardinality(t \cap u) \in Nat
  BY <1>1, FiniteRows
<1>3. Cardinality(t \cup u) = Cardinality(t) + Cardinality(u) - Cardinality(t \cap u)
  BY <1>2, FS_Union
<1>4. Cardinality(s) <= Cardinality(t \cup u)
  BY <1>1, PartCounted
<1> QED
  BY <1>2, <1>3, <1>4

\* What a step leaves alone keeps the counts.
LEMMA SameCounts ==
    ASSUME Inductive, Covered' = Covered, End' = End,
           rows' = rows, throughout' = throughout, left' = left
    PROVE  /\ Passed' = Passed /\ MissedCounted'
           /\ Covered' \cap After(rows', End') = Covered \cap After(rows, End)
           /\ throughout' \ Covered' = throughout \ Covered
<1>1. Passed' = Passed
  BY DEF Covered, Passed
<1>2. Missed' = Missed /\ Ahead' = Ahead /\ PassedRows' = PassedRows
  BY <1>1 DEF Missed, Ahead, PassedRows
<1> QED
  BY <1>1, <1>2 DEF Inductive, MissedCounted

\* A walk begins with everything ahead of it.
LEMMA BeginWalkStep ==
    ASSUME Inductive, BeginWalk
    PROVE  Inductive'
<1>1. TypeOK /\ TableOK /\ WalkOK
  BY DEF Inductive
<1>2. /\ page = 0 /\ page' = 1 /\ pending' = Statements /\ throughout' = ToSet(rows)
      /\ rows' = rows /\ others' = others /\ made' = made /\ returns' = returns
      /\ found' = found /\ total' = total /\ seen' = seen /\ done' = done /\ came' = came
      /\ left' = left /\ raced' = raced /\ repeated' = repeated
  BY DEF BeginWalk, table
<1>3. pending = {} /\ Covered = {} /\ ~ done
  BY <1>1, <1>2 DEF WalkOK
<1>4. found = << >>
  <2>1. found \in Seq(Row) /\ ToSet(found) = {}
    BY <1>1, <1>3 DEF TypeOK, Covered
  <2>2. Len(found) \in Nat /\ ToSet(found) = {found[i] : i \in 1 .. Len(found)}
    BY <2>1, ElementsOfSeq
  <2>3. Len(found) = 0
    <3> SUFFICES ASSUME Len(found) # 0 PROVE FALSE
      OBVIOUS
    <3>1. 1 \in 1 .. Len(found)
      BY <2>2
    <3> QED
      BY <2>1, <2>2, <3>1
  <2> QED
    BY <2>1, <2>3, EmptySeq
<1>5. Covered' = {} /\ Passed' = {}
  BY <1>2, <1>3 DEF Covered, Passed
<1>6. "findMany" \in pending' /\ pending' # {} /\ pending' # {"findMany"}
  BY <1>2 DEF Statements
<1>7. End' = 0
  <2>1. Limit \in Nat
    BY ListingsAssumption
  <2>2. End' = (1 - 1) * Limit
    BY <1>2, <1>6 DEF End, Skip
  <2> QED
    BY <2>1, <2>2
<1>8. TypeOK'
  <2>1. ToSet(rows) \subseteq Row
    BY <1>1, FiniteRows
  <2> QED
    BY <1>1, <1>2, <2>1 DEF TypeOK
<1>9. TableOK'
  BY <1>1, <1>2, <1>5 DEF TableOK
<1>10. WalkOK'
  BY <1>2, <1>3, <1>4 DEF WalkOK
<1>11. Cardinality({}) = 0
  BY FS_EmptySet
<1>12. RepeatedCounted'
  <2>1. seen \cap ToSet(found) = {} /\ Covered \cap After(rows, End) = {}
    BY <1>3 DEF Covered
  <2>2. repeated + 0 + 0 <= came
    BY <1>11, <2>1 DEF Inductive, RepeatedCounted
  <2>3. seen' \cap ToSet(found') = {} /\ Covered' \cap After(rows', End') = {}
    BY <1>2, <1>5, <2>1
  <2> QED
    BY <1>2, <1>11, <2>2, <2>3 DEF RepeatedCounted
<1>13. MissedCounted'
  <2>1. Missed' = {} /\ PassedRows' = {}
    BY <1>5 DEF Missed, PassedRows
  <2>2. left \in Nat
    BY <1>1 DEF TypeOK
  <2>3. 0 <= left /\ 0 + 0 <= left + 0
    BY <2>2
  <2> QED
    BY <1>2, <1>7, <1>11, <2>1, <2>3 DEF MissedCounted
<1>14. RacedCounted' /\ LastCounted'
  BY <1>6 DEF RacedCounted, LastCounted
<1> QED
  BY <1>8, <1>9, <1>10, <1>12, <1>13, <1>14 DEF Inductive

\* A count of a page that is the last has nothing more ahead than the walk has room for.
LEMMA CountStep ==
    ASSUME Inductive, Count
    PROVE  Inductive'
<1>1. TypeOK /\ TableOK /\ WalkOK
  BY DEF Inductive
<1>2. /\ "count" \in pending /\ pending' = pending \ {"count"} /\ total' = Len(rows) /\ raced' = 0
      /\ rows' = rows /\ others' = others /\ made' = made /\ returns' = returns
      /\ page' = page /\ found' = found /\ seen' = seen /\ done' = done
      /\ throughout' = throughout /\ came' = came /\ left' = left /\ repeated' = repeated
  BY DEF Count, table
<1>3. Len(rows) \in Nat
  BY <1>1, ElementsOfSeq DEF TypeOK
<1>4. TypeOK' /\ TableOK'
  <2>1. TypeOK'
    BY <1>1, <1>2, <1>3 DEF TypeOK
  <2>2. Covered' = Covered
    BY <1>2 DEF Covered
  <2> QED
    BY <1>1, <1>2, <2>1, <2>2 DEF TableOK
<1>5. page # 0 /\ ~ done
  BY <1>1, <1>2 DEF WalkOK
<1>6. WalkOK'
  BY <1>1, <1>2, <1>5 DEF WalkOK
<1>7. Covered' = Covered /\ End' = End
  BY <1>2 DEF Covered, End, Skip
<1>8. /\ Passed' = Passed /\ MissedCounted'
      /\ Covered' \cap After(rows', End') = Covered \cap After(rows, End)
      /\ throughout' \ Covered' = throughout \ Covered
  BY <1>2, <1>7, SameCounts
<1>9. RepeatedCounted'
  BY <1>2, <1>8 DEF Inductive, RepeatedCounted
<1>10. RacedCounted'
  BY <1>2, <1>3 DEF RacedCounted
<1>11. LastCounted'
  <2> SUFFICES ASSUME pending' = {}, ~ HasNext'
               PROVE  Cardinality(throughout \ Covered) <= left + 0
    BY <1>2, <1>8 DEF LastCounted
  <2>1. End = page * Limit /\ Len(rows) <= End /\ End \in Nat
    <3>1. End = page * Limit /\ ~ (page * Limit < Len(rows))
      BY <1>2 DEF End, HasNext
    <3>2. End \in Nat
      BY <1>1, EndIsNatural
    <3> QED
      BY <1>3, <3>1, <3>2
  <2>2. throughout \ Covered \subseteq Missed \cup Ahead
    BY DEF Missed, Ahead
  <2>3. Missed \subseteq Row /\ Ahead \subseteq Row /\ PassedRows \subseteq Row
    BY <1>1, FiniteRows DEF Missed, Ahead, PassedRows, TypeOK
  <2> DEFINE all == throughout \ Covered
  <2>4. /\ Cardinality(all) <= Cardinality(Missed) + Cardinality(Ahead)
        /\ Cardinality(all) \in Nat /\ Cardinality(Missed) \in Nat /\ Cardinality(Ahead) \in Nat
    BY <1>1, <2>2, <2>3, CoverCounted
  <2>5. Cardinality(PassedRows) \in Nat
    BY <1>1, <2>3, FiniteRows
  <2>6. \/ Cardinality(Ahead) = 0
        \/ Cardinality(PassedRows) + Cardinality(Ahead) <= Len(rows)
    BY <1>1, PassedAndAhead
  <2>7. /\ Cardinality(Missed) <= left
        /\ \/ Cardinality(Missed) + Cardinality(Ahead) <= left
           \/ Cardinality(Missed) + End <= left + Cardinality(PassedRows)
    BY DEF Inductive, MissedCounted
  <2>8. left \in Nat
    BY <1>1 DEF TypeOK
  <2> HIDE DEF all
  <2>9. Cardinality(all) <= left + 0
    BY <1>3, <2>1, <2>4, <2>5, <2>6, <2>7, <2>8
  <2> QED
    BY <2>9 DEF all
<1> QED
  BY <1>4, <1>6, <1>8, <1>9, <1>10, <1>11 DEF Inductive

\* A page that the client gets counts what it has again.
LEMMA AnswerStep ==
    ASSUME Inductive, Answer
    PROVE  Inductive'
<1>1. TypeOK /\ TableOK /\ WalkOK
  BY DEF Inductive
<1>2. /\ page > 0 /\ pending = {} /\ ~ done
      /\ seen' = seen \cup ToSet(found)
      /\ repeated' = repeated + Cardinality(seen \cap ToSet(found))
      /\ found' = << >> /\ total' = 0 /\ done' = ~ HasNext
      /\ rows' = rows /\ others' = others /\ made' = made /\ returns' = returns
      /\ throughout' = throughout /\ came' = came /\ left' = left /\ raced' = raced
  BY DEF Answer, table, moves
<1>3. \/ HasNext /\ page' = page + 1 /\ pending' = Statements
      \/ ~ HasNext /\ page' = page /\ pending' = pending
  BY DEF Answer
<1>4. page \in Nat /\ Limit \in Nat /\ page * Limit \in Nat
  BY <1>1, FiniteRows
<1>5. ToSet(found') = {}
  BY <1>2 DEF ToSet
<1>6. Covered' = Covered
  BY <1>2, <1>5 DEF Covered
<1>7. End' = End
  <2>1. End = page * Limit
    BY <1>2 DEF End
  <2>2. CASE HasNext
    <3>1. page' = page + 1 /\ "findMany" \in pending'
      BY <1>3, <2>2 DEF Statements
    <3>2. End' = ((page + 1) - 1) * Limit
      BY <3>1 DEF End, Skip
    <3>3. (page + 1) - 1 = page
      BY <1>4
    <3> QED
      BY <2>1, <3>2, <3>3
  <2>3. CASE ~ HasNext
    BY <1>2, <1>3, <2>1, <2>3 DEF End
  <2> QED
    BY <2>2, <2>3
<1>8. Cardinality(seen \cap ToSet(found)) \in Nat
  <2>1. seen \cap ToSet(found) \subseteq Row
    BY <1>1, FiniteRows
  <2> QED
    BY <1>1, <2>1, FiniteRows
<1>9. TypeOK'
  <2>1. ToSet(found) \subseteq Row /\ << >> \in Seq(Row)
    BY <1>1, FiniteRows
  <2>2. repeated' \in Nat /\ total' \in Nat
    BY <1>1, <1>2, <1>8 DEF TypeOK
  <2>3. page' \in Nat /\ pending' \subseteq Statements
    BY <1>1, <1>3, <1>4 DEF TypeOK
  <2>4. done' \in BOOLEAN
    BY <1>2 DEF HasNext
  <2> QED
    BY <1>1, <1>2, <2>1, <2>2, <2>3, <2>4 DEF TypeOK
<1>10. TableOK'
  BY <1>1, <1>2, <1>6 DEF TableOK
<1>11. WalkOK'
  <2>1. page' # 0
    BY <1>2, <1>3, <1>4
  <2> QED
    BY <1>2, <1>3, <2>1 DEF WalkOK
<1>12. /\ MissedCounted'
       /\ Covered' \cap After(rows', End') = Covered \cap After(rows, End)
       /\ throughout' \ Covered' = throughout \ Covered
  BY <1>2, <1>6, <1>7, SameCounts
<1>13. RepeatedCounted'
  <2> DEFINE given == Cardinality(seen \cap ToSet(found))
             again == Cardinality(Covered \cap After(rows, End))
  <2>1. seen' \cap ToSet(found') = {}
    BY <1>5
  <2>2. Cardinality(seen' \cap ToSet(found')) = 0
    BY <2>1, FS_EmptySet
  <2>3. Cardinality(Covered' \cap After(rows', End')) = again
    BY <1>12
  <2>4. repeated + given + again <= came
    BY DEF Inductive, RepeatedCounted
  <2>5. again \in Nat
    <3>1. Covered \cap After(rows, End) \subseteq Row
      BY <1>1, FiniteRows
    <3> QED
      BY <1>1, <3>1, FiniteRows
  <2>6. repeated \in Nat
    BY <1>1 DEF TypeOK
  <2> HIDE DEF given, again
  <2>7. (repeated + given) + 0 + again <= came
    BY <1>8, <2>4, <2>5, <2>6 DEF given
  <2> QED
    BY <1>2, <2>2, <2>3, <2>7 DEF RepeatedCounted, given
<1>14. RacedCounted'
  BY <1>2, <1>3 DEF RacedCounted, Statements
<1>15. LastCounted'
  <2>1. pending' = {} => ~ HasNext
    BY <1>3 DEF Statements
  <2>2. ~ HasNext => Cardinality(throughout \ Covered) <= left + raced
    BY <1>2 DEF Inductive, LastCounted
  <2> QED
    BY <1>2, <1>12, <2>1, <2>2 DEF LastCounted
<1> QED
  BY <1>9, <1>10, <1>11, <1>12, <1>13, <1>14, <1>15 DEF Inductive

\* The places before, on and after a page of a sequence of length n.
LEMMA PagePlaces ==
    ASSUME NEW n \in Nat, NEW d \in Nat, NEW e \in Nat, d <= e,
           NEW upto \in Nat, upto <= n, upto <= e, upto = e \/ upto = n
    PROVE  /\ d + 1 .. upto \subseteq d + 1 .. n /\ d + 1 .. n \subseteq 1 .. n
           /\ e + 1 .. n \subseteq d + 1 .. n
           /\ \A i \in d + 1 .. upto, j \in e + 1 .. n : i \in 1 .. n /\ j \in 1 .. n /\ i < j
           /\ 1 .. n \subseteq ((1 .. d) \cap (1 .. n)) \cup (d + 1 .. upto) \cup (e + 1 .. n)
           /\ n <= d => d + 1 .. upto = {} /\ (1 .. d) \cap (1 .. n) = 1 .. n
           /\ d < n /\ d < e => upto \in d + 1 .. upto /\ upto \in 1 .. n
           /\ \A i \in (1 .. upto) \cap (1 .. n) : i = upto \/ i < upto
           /\ \A i \in 1 .. n : i \in Nat
OBVIOUS

\* The elements on a page.
OnPage(s, n, upto) == {s[i] : i \in n + 1 .. upto}

\* A page between two places: what is before it, on it and after it, the newest first.
LEMMA PageLooks ==
    ASSUME NEW s \in Seq(Nat), Newest(s), NEW d \in Nat, NEW e \in Nat, d < e,
           NEW upto \in Nat, upto <= Len(s), upto <= e, upto = e \/ upto = Len(s)
    PROVE  /\ OnPage(s, d, upto) \subseteq ToSet(s) /\ OnPage(s, d, upto) \subseteq After(s, d)
           /\ After(s, e) \subseteq After(s, d)
           /\ \A p \in OnPage(s, d, upto), a \in After(s, e) : p > a
           /\ ToSet(s) \subseteq First(s, d) \cup OnPage(s, d, upto) \cup After(s, e)
           /\ Len(s) <= d => OnPage(s, d, upto) = {} /\ First(s, d) = ToSet(s)
           /\ d < Len(s) => \E last \in OnPage(s, d, upto) : \A row \in First(s, upto) : row >= last
<1> DEFINE n == Len(s)
<1>1. /\ n \in Nat /\ DOMAIN s = 1 .. n /\ ToSet(s) = {s[i] : i \in 1 .. n}
      /\ \A i \in 1 .. n : s[i] \in Nat
  BY ElementsOfSeq
<1>2. d <= e /\ upto <= n /\ (upto = e \/ upto = n)
  OBVIOUS
<1>3. After(s, d) = {s[i] : i \in d + 1 .. n} /\ After(s, e) = {s[i] : i \in e + 1 .. n}
  BY DEF After
<1>4. First(s, d) = {s[i] : i \in (1 .. d) \cap (1 .. n)} /\ First(s, upto) = {s[i] : i \in (1 .. upto) \cap (1 .. n)}
  BY DEF First
<1>5. OnPage(s, d, upto) = {s[i] : i \in d + 1 .. upto}
  BY DEF OnPage
<1>6. \A i, j \in 1 .. n : i < j => s[i] > s[j]
  BY <1>1 DEF Newest
<1> HIDE DEF n
<1>7. /\ d + 1 .. upto \subseteq d + 1 .. n /\ d + 1 .. n \subseteq 1 .. n
      /\ e + 1 .. n \subseteq d + 1 .. n
      /\ \A i \in d + 1 .. upto, j \in e + 1 .. n : i \in 1 .. n /\ j \in 1 .. n /\ i < j
      /\ 1 .. n \subseteq ((1 .. d) \cap (1 .. n)) \cup (d + 1 .. upto) \cup (e + 1 .. n)
      /\ n <= d => d + 1 .. upto = {} /\ (1 .. d) \cap (1 .. n) = 1 .. n
      /\ d < n => upto \in d + 1 .. upto /\ upto \in 1 .. n
      /\ \A i \in (1 .. upto) \cap (1 .. n) : i = upto \/ i < upto
  BY <1>1, <1>2, PagePlaces
<1> DEFINE before == (1 .. d) \cap (1 .. n)
           on == d + 1 .. upto
           later == e + 1 .. n
           rest == d + 1 .. n
           all == 1 .. n
<1>8. /\ on \subseteq rest /\ rest \subseteq all /\ later \subseteq rest
      /\ all \subseteq before \cup on \cup later
      /\ n <= d => on = {} /\ before = all
  BY <1>7
<1>9. \A p \in OnPage(s, d, upto), a \in After(s, e) : p > a
  BY <1>3, <1>5, <1>6, <1>7
<1>10. ASSUME d < n PROVE \E last \in OnPage(s, d, upto) : \A row \in First(s, upto) : row >= last
  <2>1. upto \in d + 1 .. upto /\ upto \in 1 .. n
    BY <1>7, <1>10
  <2>2. s[upto] \in OnPage(s, d, upto) /\ s[upto] \in Nat
    BY <1>1, <1>5, <2>1
  <2>3. ASSUME NEW row \in First(s, upto) PROVE row >= s[upto]
    <3>1. PICK i \in (1 .. upto) \cap (1 .. n) : row = s[i]
      BY <1>4
    <3>2. i = upto \/ i < upto
      BY <1>7
    <3>3. s[i] \in Nat /\ (i < upto => s[i] > s[upto])
      BY <1>1, <1>6, <2>1
    <3> QED
      BY <2>2, <3>1, <3>2, <3>3
  <2> QED
    BY <2>2, <2>3
<1>11. /\ ToSet(s) = {s[i] : i \in all} /\ After(s, d) = {s[i] : i \in rest}
       /\ After(s, e) = {s[i] : i \in later} /\ OnPage(s, d, upto) = {s[i] : i \in on}
       /\ First(s, d) = {s[i] : i \in before}
  BY <1>1, <1>3, <1>4, <1>5
<1> HIDE DEF before, on, later, rest, all
<1>12. /\ OnPage(s, d, upto) \subseteq ToSet(s) /\ OnPage(s, d, upto) \subseteq After(s, d)
       /\ After(s, e) \subseteq After(s, d)
       /\ ToSet(s) \subseteq First(s, d) \cup OnPage(s, d, upto) \cup After(s, e)
       /\ n <= d => OnPage(s, d, upto) = {} /\ First(s, d) = ToSet(s)
  BY <1>8, <1>11
<1> QED
  BY <1>9, <1>10, <1>12 DEF n

\* findMany gives the page between the two places, and looks no further.
LEMMA FindManyGives ==
    ASSUME TypeOK, TableOK, WalkOK, FindMany
    PROVE  /\ page # 0 /\ ~ done /\ found = << >> /\ Covered = seen
           /\ End = Skip /\ End' = page * Limit /\ Skip \in Nat /\ page * Limit \in Nat
           /\ Skip < page * Limit
           /\ found' \in Seq(Row)
           /\ \E upto \in Nat :
                 /\ upto <= Len(rows) /\ upto <= page * Limit
                 /\ upto = page * Limit \/ upto = Len(rows)
                 /\ ToSet(found') = OnPage(rows, Skip, upto)
           /\ Covered' = seen \cup ToSet(found')
<1>1. /\ "findMany" \in pending /\ pending' = pending \ {"findMany"}
      /\ found' = SubSeq(rows, Skip + 1, IF Skip + Take < Len(rows) THEN Skip + Take
                                                                   ELSE Len(rows))
      /\ page' = page /\ seen' = seen
  BY DEF FindMany
<1>2. page # 0 /\ ~ done /\ found = << >>
  BY <1>1 DEF WalkOK
<1>3. /\ page \in Nat /\ Limit \in Nat \ {0} /\ page * Limit \in Nat /\ Skip \in Nat
      /\ Skip + Limit = page * Limit
  BY <1>2, FiniteRows
<1>4. rows \in Seq(Row) /\ Len(rows) \in Nat
  BY ElementsOfSeq DEF TypeOK
<1>5. PICK upto \in Nat :
          /\ upto <= Len(rows) /\ upto <= page * Limit
          /\ upto = page * Limit \/ upto = Len(rows)
          /\ found' = SubSeq(rows, Skip + 1, upto)
  <2>1. CASE Skip + Take < Len(rows)
    BY <1>1, <1>3, <1>4, <2>1 DEF Take
  <2>2. CASE ~ (Skip + Take < Len(rows))
    BY <1>1, <1>3, <1>4, <2>2 DEF Take
  <2> QED
    BY <2>1, <2>2
<1>6. found' \in Seq(Row) /\ ToSet(found') = OnPage(rows, Skip, upto)
  <2>1. /\ SubSeq(rows, Skip + 1, upto) \in Seq(Row)
        /\ ToSet(SubSeq(rows, Skip + 1, upto)) = {rows[i] : i \in Skip + 1 .. upto}
    <3> DEFINE n == Skip
    <3>1. n \in Nat /\ upto <= Len(rows)
      BY <1>3, <1>5
    <3> HIDE DEF n
    <3>2. /\ SubSeq(rows, n + 1, upto) \in Seq(Row)
          /\ ToSet(SubSeq(rows, n + 1, upto)) = {rows[i] : i \in n + 1 .. upto}
      BY <1>4, <3>1, PageElements
    <3> QED
      BY <3>2 DEF n
  <2> QED
    BY <1>5, <2>1 DEF OnPage
<1>7. End = Skip
  BY <1>1 DEF End
<1>8. End' = page * Limit
  <2>1. "findMany" \notin pending'
    BY <1>1
  <2> QED
    BY <1>1, <2>1 DEF End
<1>9. Skip < page * Limit
  BY <1>3
<1>10. Covered = seen
  BY <1>2 DEF Covered, ToSet
<1>11. Covered' = seen \cup ToSet(found')
  BY <1>1 DEF Covered
<1> QED
  BY <1>2, <1>3, <1>5, <1>6, <1>7, <1>8, <1>9, <1>10, <1>11

\* What findMany gives was ahead of it, and what it passes in doing so had been passed by the
\* rows before the page already, but for as many as left.
LEMMA FindManyStep ==
    ASSUME Inductive, FindMany
    PROVE  Inductive'
<1>1. TypeOK /\ TableOK /\ WalkOK
  BY DEF Inductive
<1>2. /\ "findMany" \in pending /\ pending' = pending \ {"findMany"}
      /\ rows' = rows /\ others' = others /\ made' = made /\ returns' = returns
      /\ page' = page /\ total' = total /\ seen' = seen /\ done' = done
      /\ throughout' = throughout /\ came' = came /\ left' = left /\ raced' = raced
      /\ repeated' = repeated
  BY DEF FindMany, table, moves
<1>3. /\ page # 0 /\ ~ done /\ found = << >> /\ Covered = seen
      /\ End = Skip /\ End' = page * Limit /\ Skip \in Nat /\ page * Limit \in Nat
      /\ Skip < page * Limit
      /\ found' \in Seq(Row) /\ Covered' = seen \cup ToSet(found')
  BY <1>1, FindManyGives
<1>4. PICK upto \in Nat :
          /\ upto <= Len(rows) /\ upto <= page * Limit
          /\ upto = page * Limit \/ upto = Len(rows)
          /\ ToSet(found') = OnPage(rows, Skip, upto)
  BY <1>1, FindManyGives
<1>5. rows \in Seq(Nat) /\ Newest(rows) /\ ToSet(rows) \subseteq Row /\ Row \subseteq Nat
  BY <1>1, FiniteRows, ListingsAssumption DEF TableOK, Row
<1>6. Len(rows) \in Nat
  BY <1>5, ElementsOfSeq
<1> DEFINE d == Skip
           e == page * Limit
           on == ToSet(found')
           first == First(rows, d)
           later == After(rows, e)
           aheadHere == Ahead \cap first
           notSeen == throughout \ Covered'
<1>7. /\ on \subseteq ToSet(rows) /\ on \subseteq After(rows, d) /\ later \subseteq After(rows, d)
      /\ \A p \in on, a \in later : p > a
      /\ ToSet(rows) \subseteq first \cup on \cup later
      /\ Len(rows) <= d => on = {} /\ first = ToSet(rows)
      /\ d < Len(rows) => \E last \in on : \A row \in First(rows, upto) : row >= last
  BY <1>3, <1>4, <1>5, PageLooks
<1>8. first \subseteq ToSet(rows) /\ later \subseteq ToSet(rows)
  BY <1>3, <1>5, ElementsOfSeq, AfterCounted DEF First
<1>9. throughout \subseteq ToSet(rows) /\ ToSet(rows) \subseteq Row /\ seen \subseteq Row
  BY <1>1, <1>5 DEF TableOK, TypeOK
<1>10. Passed' = {row \in Row : \E other \in seen \cup on : row >= other}
  BY <1>2 DEF Passed
<1>11. Passed = {row \in Row : \E other \in seen : row >= other}
  BY <1>3 DEF Passed, Covered
<1> HIDE DEF on, first, later
<1>12. notSeen = throughout \ (seen \cup on)
  BY <1>3 DEF on
<1>13. Missed = (throughout \ seen) \cap Passed /\ Ahead = throughout \ Passed
  BY <1>3 DEF Missed, Ahead
<1>14. notSeen \subseteq Missed \cup aheadHere \cup later
  BY <1>7, <1>9, <1>12, <1>13
<1>15. Missed' = notSeen \cap Passed' /\ Ahead' = throughout \ Passed'
  BY <1>2 DEF Missed, Ahead
<1>16. Missed' \subseteq Missed \cup aheadHere
  <2> SUFFICES ASSUME NEW row \in notSeen, row \in Passed', row \notin Missed
               PROVE  row \in aheadHere
    BY <1>15
  <2>1. row \in throughout /\ row \notin seen /\ row \notin on /\ row \notin Passed /\ row \in Row
    BY <1>9, <1>12, <1>13
  <2>2. PICK other \in seen \cup on : row >= other
    BY <1>10
  <2>3. other \in on
    BY <1>11, <2>1, <2>2
  <2>4. row \notin later
    <3> SUFFICES ASSUME row \in later PROVE FALSE
      OBVIOUS
    <3>1. other > row /\ other \in Nat /\ row \in Nat
      BY <1>5, <1>7, <1>9, <2>1, <2>3
    <3> QED
      BY <2>2, <3>1
  <2> QED
    BY <1>7, <1>9, <1>13, <2>1, <2>4
<1>17. Missed \subseteq Row /\ Ahead \subseteq Row /\ PassedRows \subseteq Row /\ aheadHere \subseteq Row
  BY <1>1, <1>9, <1>13, FiniteRows DEF PassedRows
<1> DEFINE missed == Cardinality(Missed)
           ahead == Cardinality(Ahead)
           here == Cardinality(aheadHere)
           passed == Cardinality(PassedRows)
<1>18. missed \in Nat /\ ahead \in Nat /\ here \in Nat /\ passed \in Nat /\ left \in Nat
  BY <1>1, <1>17, FiniteRows DEF TypeOK
<1>19. missed + here <= left
  <2>1. /\ missed <= left
        /\ missed + ahead <= left \/ missed + d <= left + passed
    BY <1>3 DEF Inductive, MissedCounted
  <2>2. here <= ahead
    BY <1>1, <1>17, PartCounted
  <2>3. here = 0 \/ passed + here <= d
    BY <1>1, <1>3, PassedFirst, FS_EmptySet DEF first
  <2> HIDE DEF missed, ahead, here, passed, d
  <2>4. d \in Nat
    BY <1>3 DEF d
  <2> QED
    BY <1>18, <2>1, <2>2, <2>3, <2>4
<1>20. TypeOK'
  BY <1>1, <1>2, <1>3 DEF TypeOK
<1>21. TableOK'
  <2>1. ToSet(rows') \cup others' \cup Covered' \subseteq 1 .. made'
    BY <1>1, <1>2, <1>3, <1>7 DEF TableOK, on
  <2> QED
    BY <1>1, <1>2, <2>1 DEF TableOK
<1>22. WalkOK'
  <2>1. "findMany" \notin pending' /\ page' # 0 /\ ~ done'
    BY <1>2, <1>3
  <2> QED
    BY <2>1 DEF WalkOK
<1>23. RepeatedCounted'
  <2> DEFINE before == seen \cap After(rows, d)
             given == seen \cap on
             again == (seen \cup on) \cap later
  <2>1. repeated + Cardinality(before) <= came
    <3>1. seen \cap ToSet(found) = {}
      BY <1>3 DEF ToSet
    <3>2. Cardinality(seen \cap ToSet(found)) = 0
      BY <3>1, FS_EmptySet
    <3>3. repeated + 0 + Cardinality(before) <= came
      BY <1>3, <3>2 DEF Inductive, RepeatedCounted
    <3>4. repeated \in Nat
      BY <1>1 DEF TypeOK
    <3> QED
      BY <3>3, <3>4
  <2>2. RepeatedCounted' <=> repeated + Cardinality(given) + Cardinality(again) <= came
    BY <1>2, <1>3 DEF RepeatedCounted, on, later
  <2>3. given \cap again = {}
    <3> SUFFICES ASSUME NEW row \in on, row \in later PROVE FALSE
      OBVIOUS
    <3>1. row > row /\ row \in Nat
      BY <1>5, <1>7, <1>9
    <3> QED
      BY <3>1
  <2>4. again = seen \cap later
    <3>1. \A row \in on : row \notin later
      <4> SUFFICES ASSUME NEW row \in on, row \in later PROVE FALSE
        OBVIOUS
      <4>1. row > row /\ row \in Nat
        BY <1>5, <1>7, <1>9
      <4> QED
        BY <4>1
    <3> QED
      BY <3>1
  <2>5. given \cup again \subseteq before
    BY <1>7, <2>4
  <2>6. before \subseteq Row /\ given \subseteq Row /\ again \subseteq Row
    BY <1>9, <2>4
  <2> HIDE DEF before, given, again
  <2>7. /\ IsFiniteSet(given) /\ IsFiniteSet(again)
        /\ Cardinality(given) \in Nat /\ Cardinality(again) \in Nat /\ Cardinality(before) \in Nat
    BY <1>1, <2>6, FiniteRows
  <2>8. Cardinality(given \cup again) = Cardinality(given) + Cardinality(again)
    <3>1. Cardinality(given \cap again) = 0
      BY <2>3, FS_EmptySet
    <3>2. Cardinality(given \cup again)
              = Cardinality(given) + Cardinality(again) - Cardinality(given \cap again)
      BY <2>7, FS_Union
    <3> QED
      BY <2>7, <3>1, <3>2
  <2>9. Cardinality(given \cup again) <= Cardinality(before)
    BY <1>1, <2>5, <2>6, PartCounted
  <2>10. repeated \in Nat /\ came \in Nat
    BY <1>1 DEF TypeOK
  <2> QED
    BY <2>1, <2>2, <2>7, <2>8, <2>9, <2>10
<1>24. Cardinality(Missed') <= missed + here /\ Cardinality(Missed') \in Nat
  BY <1>1, <1>16, <1>17, CoverCounted
<1>25. MissedCounted'
  <2> DEFINE missed2 == Cardinality(Missed')
             ahead2 == Cardinality(Ahead')
             passed2 == Cardinality(PassedRows')
  <2>1. MissedCounted' <=> /\ missed2 <= left
                           /\ missed2 + ahead2 <= left \/ missed2 + e <= left + passed2
    BY <1>2, <1>3 DEF MissedCounted
  <2>2. missed2 <= left
    BY <1>18, <1>19, <1>24
  <2>3. Ahead' \subseteq Row /\ PassedRows' \subseteq Row
    BY <1>2, <1>9, <1>15 DEF PassedRows
  <2>4. ahead2 \in Nat /\ passed2 \in Nat
    BY <1>1, <2>3, FiniteRows
  <2>5. CASE Len(rows) <= d
    <3>1. on = {} /\ first = ToSet(rows)
      BY <1>7, <2>5
    <3>2. Passed' = Passed
      BY <1>10, <1>11, <3>1
    <3>3. Missed' = Missed /\ Ahead' = Ahead /\ aheadHere = Ahead
      BY <1>9, <1>12, <1>13, <1>15, <3>1, <3>2
    <3>4. missed2 + ahead2 <= left
      BY <1>19, <3>3
    <3> QED
      BY <2>1, <2>2, <3>4
  <2>6. CASE d < Len(rows)
    <3>1. PICK last \in on : \A row \in First(rows, upto) : row >= last
      BY <1>7, <2>6
    <3>2. First(rows, upto) \subseteq ToSet(rows)
      BY <1>5, ElementsOfSeq DEF First
    <3>3. First(rows, upto) \subseteq Passed'
      BY <1>9, <1>10, <3>1, <3>2
    <3>4. CASE upto = Len(rows)
      <4>1. First(rows, upto) = ToSet(rows)
        BY <1>5, <1>6, <3>4, ElementsOfSeq DEF First
      <4>2. Ahead' = {}
        BY <1>9, <1>15, <3>3, <4>1
      <4>3. ahead2 = 0
        BY <4>2, FS_EmptySet
      <4>4. missed2 + ahead2 <= left
        BY <1>18, <1>24, <2>2, <4>3
      <4> QED
        BY <2>1, <2>2, <4>4
    <3>5. CASE upto = e
      <4>1. First(rows, upto) \subseteq PassedRows'
        BY <1>2, <3>2, <3>3 DEF PassedRows
      <4>2. Cardinality(First(rows, upto)) <= passed2
        BY <1>1, <2>3, <4>1, PartCounted
      <4>3. Cardinality(First(rows, upto)) = upto
        BY <1>4, <1>5, FirstCounted
      <4>4. e <= passed2
        BY <3>5, <4>2, <4>3
      <4> HIDE DEF missed2, ahead2, passed2, e
      <4>5. e \in Nat
        BY <1>3 DEF e
      <4>6. missed2 + e <= left + passed2
        BY <1>18, <1>24, <2>2, <2>4, <4>4, <4>5 DEF missed2
      <4> QED
        BY <2>1, <2>2, <4>6
    <3> QED
      BY <1>4, <3>4, <3>5
  <2> QED
    BY <1>3, <1>6, <2>5, <2>6
<1>26. RacedCounted'
  BY <1>2 DEF RacedCounted
<1>27. LastCounted'
  <2> SUFFICES ASSUME pending' = {}, ~ HasNext'
               PROVE  Cardinality(notSeen) <= left + raced
    BY <1>2 DEF LastCounted
  <2>1. pending = {"findMany"} /\ ~ (e < total)
    BY <1>2 DEF HasNext
  <2>2. Len(rows) <= total + raced
    BY <2>1 DEF Inductive, RacedCounted
  <2>3. total \in Nat /\ raced \in Nat /\ e \in Nat
    BY <1>1, <1>3 DEF TypeOK
  <2>4. IsFiniteSet(later) /\ Cardinality(later) <= raced
    <3>1. /\ IsFiniteSet(later)
          /\ e <= Len(rows) => Cardinality(later) <= Len(rows) - e
          /\ e >= Len(rows) => later = {}
      BY <1>5, <2>3, AfterCounted DEF later
    <3>2. Cardinality(later) \in Nat
      BY <3>1, FS_CardinalityType
    <3>3. e >= Len(rows) => Cardinality(later) = 0
      BY <3>1, FS_EmptySet
    <3> HIDE DEF e
    <3> QED
      BY <1>6, <2>1, <2>2, <2>3, <3>1, <3>2, <3>3
  <2> DEFINE low == Missed \cup aheadHere
  <2>5. low \subseteq Row /\ later \subseteq Row /\ notSeen \subseteq low \cup later
    BY <1>8, <1>9, <1>14, <1>17
  <2>6. Cardinality(low) <= missed + here
    BY <1>1, <1>17, CoverCounted
  <2> HIDE DEF low, notSeen
  <2>7. /\ Cardinality(notSeen) <= Cardinality(low) + Cardinality(later)
        /\ Cardinality(notSeen) \in Nat /\ Cardinality(low) \in Nat /\ Cardinality(later) \in Nat
    BY <1>1, <2>5, CoverCounted
  <2> HIDE DEF missed, here
  <2> QED
    BY <1>18, <1>19, <2>3, <2>4, <2>6, <2>7
<1> QED
  BY <1>20, <1>21, <1>22, <1>23, <1>25, <1>26, <1>27 DEF Inductive

-------------------------------------------------------------------------------
(* Theorems *)

\* The invariant holds initially: nothing was made, and nobody walks.
LEMMA InitInductive == Init => Inductive
<1> SUFFICES ASSUME Init PROVE Inductive
  OBVIOUS
<1>1. /\ rows = << >> /\ others = {} /\ made = 0 /\ returns = 0
      /\ page = 0 /\ pending = {} /\ found = << >> /\ total = 0
      /\ seen = {} /\ done = FALSE
      /\ throughout = {} /\ came = 0 /\ left = 0 /\ raced = 0 /\ repeated = 0
  BY DEF Init
<1>2. << >> \in Seq(Row) /\ ToSet(<< >>) = {} /\ DOMAIN << >> = {}
  BY DEF ToSet
<1>3. TypeOK
  <2>1. 0 \in 0 .. MaxRows /\ 0 \in 0 .. MaxReturns
    BY ListingsAssumption
  <2>2. rows \in Seq(Row) /\ found \in Seq(Row)
    BY <1>1, <1>2
  <2>3. others \cup seen \cup throughout = {} /\ pending \subseteq Statements
    BY <1>1
  <2>4. {page, total, came, left, raced, repeated} = {0} /\ {0} \subseteq Nat
    BY <1>1
  <2>5. made \in 0 .. MaxRows /\ returns \in 0 .. MaxReturns /\ done \in BOOLEAN
    BY <1>1, <2>1
  <2> QED
    BY <2>2, <2>3, <2>4, <2>5 DEF TypeOK
<1>4. Covered = {} /\ Missed = {} /\ Ahead = {}
  BY <1>1, <1>2 DEF Covered, Missed, Ahead
<1>5. TableOK /\ WalkOK
  BY <1>1, <1>2, <1>4 DEF TableOK, WalkOK, Newest
<1>6. Cardinality({}) = 0
  BY FS_EmptySet
<1>7. RepeatedCounted
  <2>1. seen \cap ToSet(found) = {} /\ Covered \cap After(rows, End) = {}
    BY <1>1, <1>4
  <2>2. 0 + 0 + 0 <= 0
    OBVIOUS
  <2>3. /\ Cardinality(seen \cap ToSet(found)) = 0
        /\ Cardinality(Covered \cap After(rows, End)) = 0
    BY <1>6, <2>1
  <2> QED
    BY <1>1, <2>2, <2>3 DEF RepeatedCounted
<1>8. MissedCounted
  BY <1>1, <1>4, <1>6 DEF MissedCounted
<1>9. RacedCounted /\ LastCounted
  BY <1>1 DEF RacedCounted, LastCounted
<1> QED
  BY <1>3, <1>5, <1>7, <1>8, <1>9 DEF Inductive

\* Every step keeps the invariant.
LEMMA NextInductive == Inductive /\ [Next]_vars => Inductive'
<1> SUFFICES ASSUME Inductive, [Next]_vars PROVE Inductive'
  OBVIOUS
<1>1. CASE Add \/ Enter
  BY <1>1, ArrivalStep
<1>2. CASE Leave \/ CleanUpOldLogs
  BY <1>2, DepartureStep
<1>3. CASE BeginWalk
  BY <1>3, BeginWalkStep
<1>4. CASE FindMany
  BY <1>4, FindManyStep
<1>5. CASE Count
  BY <1>5, CountStep
<1>6. CASE Answer
  BY <1>6, AnswerStep
<1>7. CASE UNCHANGED vars
  <2>1. /\ rows' = rows /\ others' = others /\ made' = made /\ returns' = returns
        /\ page' = page /\ pending' = pending /\ found' = found /\ total' = total
        /\ seen' = seen /\ done' = done /\ throughout' = throughout /\ came' = came
        /\ left' = left /\ raced' = raced /\ repeated' = repeated
    BY <1>7 DEF vars, table, moves
  <2>2. Covered' = Covered /\ End' = End /\ HasNext' = HasNext
    BY <2>1 DEF Covered, End, Skip, HasNext
  <2>3. /\ MissedCounted'
        /\ Covered' \cap After(rows', End') = Covered \cap After(rows, End)
        /\ throughout' \ Covered' = throughout \ Covered
    BY <2>1, <2>2, SameCounts
  <2>4. TypeOK' /\ TableOK' /\ WalkOK'
    BY <2>1, <2>2 DEF Inductive, TypeOK, TableOK, WalkOK
  <2>5. RepeatedCounted' /\ RacedCounted' /\ LastCounted'
    BY <2>1, <2>2, <2>3 DEF Inductive, RepeatedCounted, RacedCounted, LastCounted
  <2> QED
    BY <2>3, <2>4, <2>5 DEF Inductive
<1> QED
  BY <1>1, <1>2, <1>3, <1>4, <1>5, <1>6, <1>7 DEF Next

\* The invariant of every walk.
LEMMA AlwaysInductive == Spec => []Inductive
BY InitInductive, NextInductive, PTL DEF Spec

\* The table, the pages and what the client has keep their shape, whatever moves meanwhile.
THEOREM ListingsTypeCorrect == Spec => []TypeOK
<1>1. Inductive => TypeOK
  BY DEF Inductive
<1> QED
  BY <1>1, AlwaysInductive, PTL

\* A client gets no more rows again than rows came during its walk, however many pages it
\* takes and in whichever order findMany and count run.
THEOREM RepeatedAtMostArrivals == Spec => []RepeatedAtMostCame
<1>1. Inductive => RepeatedAtMostCame
  <2> SUFFICES ASSUME Inductive PROVE repeated <= came
    BY DEF RepeatedAtMostCame
  <2> DEFINE given == Cardinality(seen \cap ToSet(found))
             again == Cardinality(Covered \cap After(rows, End))
  <2>1. TypeOK /\ repeated + given + again <= came
    BY DEF Inductive, RepeatedCounted
  <2>2. given \in Nat /\ again \in Nat
    <3>1. seen \cap ToSet(found) \subseteq Row /\ Covered \cap After(rows, End) \subseteq Row
      BY <2>1, FiniteRows
    <3> QED
      BY <2>1, <3>1, FiniteRows
  <2>3. repeated \in Nat /\ came \in Nat
    BY <2>1 DEF TypeOK
  <2> HIDE DEF given, again
  <2> QED
    BY <2>1, <2>2, <2>3
<1> QED
  BY <1>1, AlwaysInductive, PTL

\* A client that walked to the end missed no more of the rows that were there all along than
\* rows left from before the place it had come to, and came between count and findMany.
THEOREM MissedAtMostMoves == Spec => []MissedAtMostShifts
<1>1. Inductive => MissedAtMostShifts
  <2> SUFFICES ASSUME Inductive, done PROVE Cardinality(throughout \ seen) <= left + raced
    BY DEF MissedAtMostShifts
  <2>1. TypeOK /\ WalkOK /\ LastCounted
    BY DEF Inductive
  <2>2. pending = {} /\ found = << >> /\ total = 0 /\ page # 0
    BY <2>1 DEF WalkOK
  <2>3. page > 0 /\ ~ HasNext
    <3>1. page \in Nat /\ page * Limit \in Nat
      BY <2>1, FiniteRows
    <3> QED
      BY <2>2, <3>1 DEF HasNext
  <2>4. Covered = seen
    BY <2>2 DEF Covered, ToSet
  <2> QED
    BY <2>1, <2>2, <2>3, <2>4 DEF LastCounted
<1> QED
  BY <1>1, AlwaysInductive, PTL
=============================================================================

--------------------------- MODULE LRUListProofs ---------------------------
(***************************************************************************)
(* Facts about the operators of LRUList, for every set of keys.            *)
(***************************************************************************)
EXTENDS LRUList, SequenceTheorems, FiniteSetTheorems, TLAPS

Record(Keys) == [items : SUBSET Keys, list : Seq(Keys)]

LEMMA RemoveAtFacts ==
    ASSUME NEW S, NEW s \in Seq(S), NEW i \in 1 .. Len(s)
    PROVE  /\ RemoveAt(s, i) \in Seq(S)
           /\ Len(RemoveAt(s, i)) = Len(s) - 1
           /\ \A j \in 1 .. Len(s) - 1 :
                 RemoveAt(s, i)[j] = IF j < i THEN s[j] ELSE s[j + 1]
<1> DEFINE a == SubSeq(s, 1, i - 1)
           b == SubSeq(s, i + 1, Len(s))
<1>0. Len(s) \in Nat /\ i \in Nat /\ i >= 1 /\ i <= Len(s)
  BY LenProperties
<1>1. /\ a \in Seq(S) /\ Len(a) = i - 1
      /\ \A j \in 1 .. i - 1 : a[j] = s[j]
  <2>1. Len(s) \in Nat /\ \A j \in 1 .. i - 1 : s[j] \in S
    OBVIOUS
  <2>2. /\ a \in Seq(S)
        /\ Len(a) = IF 1 <= i - 1 THEN i - 1 - 1 + 1 ELSE 0
        /\ \A j \in 1 .. i - 1 - 1 + 1 : a[j] = s[1 + j - 1]
    BY <2>1, SubSeqProperties
  <2> QED BY <2>1, <2>2
<1>2. /\ b \in Seq(S) /\ Len(b) = Len(s) - i
      /\ \A j \in 1 .. Len(s) - i : b[j] = s[i + j]
  <2>1. Len(s) \in Nat /\ \A j \in i + 1 .. Len(s) : s[j] \in S
    OBVIOUS
  <2>2. /\ b \in Seq(S)
        /\ Len(b) = IF i + 1 <= Len(s) THEN Len(s) - (i + 1) + 1 ELSE 0
        /\ \A j \in 1 .. Len(s) - (i + 1) + 1 : b[j] = s[i + 1 + j - 1]
    BY <2>1, SubSeqProperties
  <2> QED BY <2>1, <2>2
<1>3. /\ a \o b \in Seq(S)
      /\ Len(a \o b) = Len(a) + Len(b)
      /\ \A j \in 1 .. Len(a) + Len(b) :
            (a \o b)[j] = IF j <= Len(a) THEN a[j] ELSE b[j - Len(a)]
  BY <1>1, <1>2, ConcatProperties
<1>4. RemoveAt(s, i) = a \o b
  BY DEF RemoveAt
<1> HIDE DEF a, b
<1>5. \A j \in 1 .. Len(s) - 1 :
         (a \o b)[j] = IF j < i THEN s[j] ELSE s[j + 1]
  <2> TAKE j \in 1 .. Len(s) - 1
  <2>1. CASE j < i
    BY <2>1, <1>1, <1>2, <1>3
  <2>2. CASE j >= i
    <3>1. (a \o b)[j] = b[j - (i - 1)]
      BY <2>2, <1>1, <1>2, <1>3
    <3>2. j - (i - 1) \in 1 .. Len(s) - i
      BY <2>2
    <3> QED BY <3>1, <3>2, <2>2, <1>2
  <2>3. j < i \/ j >= i
    BY <1>0
  <2> QED BY <2>1, <2>2, <2>3
<1>6. Len(a) + Len(b) = Len(s) - 1
  BY <1>0, <1>1, <1>2
<1> QED BY <1>3, <1>4, <1>5, <1>6

LEMMA ConsFacts ==
    ASSUME NEW S, NEW s \in Seq(S), NEW e \in S
    PROVE  /\ <<e>> \o s \in Seq(S)
           /\ Len(<<e>> \o s) = Len(s) + 1
           /\ (<<e>> \o s)[1] = e
           /\ \A j \in 1 .. Len(s) : (<<e>> \o s)[j + 1] = s[j]
<1>1. <<e>> \in Seq(S) /\ Len(<<e>>) = 1 /\ <<e>>[1] = e
  OBVIOUS
<1>2. Len(s) \in Nat
  BY LenProperties
<1>3. /\ <<e>> \o s \in Seq(S)
      /\ Len(<<e>> \o s) = 1 + Len(s)
      /\ \A j \in 1 .. 1 + Len(s) :
            (<<e>> \o s)[j] = IF j <= 1 THEN <<e>>[j] ELSE s[j - 1]
  BY <1>1, ConcatProperties
<1> QED BY <1>1, <1>2, <1>3

-----------------------------------------------------------------------------
(***************************************************************************)
(* Taking a tracked key out of the list leaves the others in their order.  *)
(***************************************************************************)
LEMMA WithoutFacts ==
    ASSUME NEW Keys, NEW p \in Record(Keys), WellFormed(p), NEW k \in p.items
    PROVE  \E i \in 1 .. Len(p.list) :
              /\ p.list[i] = k
              /\ ListWithout(p.list, k) \in Seq(Keys)
              /\ Len(ListWithout(p.list, k)) = Len(p.list) - 1
              /\ \A j \in 1 .. Len(p.list) - 1 :
                    ListWithout(p.list, k)[j] =
                       IF j < i THEN p.list[j] ELSE p.list[j + 1]
<1>1. p.list \in Seq(Keys) /\ DOMAIN p.list = 1 .. Len(p.list)
  BY LenProperties DEF Record
<1>2. \E i \in DOMAIN p.list : p.list[i] = k
  BY DEF WellFormed, ToSet
<1>3. /\ Position(p.list, k) \in 1 .. Len(p.list)
      /\ p.list[Position(p.list, k)] = k
  BY <1>1, <1>2 DEF Position
<1> QED BY <1>1, <1>3, RemoveAtFacts DEF ListWithout

LEMMA WithoutWellFormed ==
    ASSUME NEW Keys, NEW p \in Record(Keys), WellFormed(p), NEW k \in p.items
    PROVE  LET q == [items |-> p.items \ {k}, list |-> ListWithout(p.list, k)]
           IN  q \in Record(Keys) /\ WellFormed(q)
<1> DEFINE s == p.list
           t == ListWithout(p.list, k)
<1>1. s \in Seq(Keys) /\ Len(s) \in Nat /\ DOMAIN s = 1 .. Len(s)
  BY LenProperties DEF Record
<1>2. PICK i \in 1 .. Len(s) :
         /\ s[i] = k
         /\ t \in Seq(Keys)
         /\ Len(t) = Len(s) - 1
         /\ \A j \in 1 .. Len(s) - 1 : t[j] = IF j < i THEN s[j] ELSE s[j + 1]
  BY WithoutFacts
<1>3. DOMAIN t = 1 .. Len(s) - 1
  BY <1>2, LenProperties
<1>4. \A a, b \in 1 .. Len(s) : s[a] = s[b] => a = b
  BY <1>1 DEF WellFormed
<1>5. p.items = {s[a] : a \in 1 .. Len(s)}
  BY <1>1 DEF WellFormed, ToSet
<1>6. ASSUME NEW j \in 1 .. Len(s) - 1
      PROVE  t[j] \in p.items \ {k}
  <2>1. CASE j < i
    BY <2>1, <1>1, <1>2, <1>4, <1>5
  <2>2. CASE ~(j < i)
    BY <2>2, <1>1, <1>2, <1>4, <1>5
  <2> QED BY <2>1, <2>2
<1>7. ASSUME NEW x \in p.items \ {k}
      PROVE  \E j \in 1 .. Len(s) - 1 : t[j] = x
  <2>1. PICK a \in 1 .. Len(s) : s[a] = x
    BY <1>5
  <2>2. a # i
    BY <1>2, <2>1
  <2>3. CASE a < i
    <3>1. a \in 1 .. Len(s) - 1 /\ t[a] = s[a]
      BY <2>3, <1>1, <1>2
    <3> QED BY <3>1, <2>1
  <2>4. CASE a > i
    <3>1. a - 1 \in 1 .. Len(s) - 1 /\ t[a - 1] = s[a]
      BY <2>4, <1>1, <1>2
    <3> QED BY <3>1, <2>1
  <2> QED BY <2>2, <2>3, <2>4, <1>1
<1>8. ToSet(t) = p.items \ {k}
  BY <1>3, <1>6, <1>7 DEF ToSet
<1>9. ASSUME NEW a \in 1 .. Len(s) - 1, NEW b \in 1 .. Len(s) - 1, t[a] = t[b]
      PROVE  a = b
  <2> DEFINE At(j) == IF j < i THEN j ELSE j + 1
  <2>1. /\ At(a) \in 1 .. Len(s) /\ t[a] = s[At(a)]
        /\ At(b) \in 1 .. Len(s) /\ t[b] = s[At(b)]
    BY <1>1, <1>2
  <2>2. At(a) = At(b)
    BY <2>1, <1>4, <1>9
  <2> QED BY <2>2, <1>1
<1>10. p.items \ {k} \in SUBSET Keys
  BY DEF Record
<1> QED BY <1>2, <1>3, <1>8, <1>9, <1>10 DEF Record, WellFormed

LEMMA ConsWellFormed ==
    ASSUME NEW Keys, NEW p \in Record(Keys), WellFormed(p),
           NEW k \in Keys, k \notin p.items
    PROVE  LET q == [items |-> p.items \cup {k}, list |-> <<k>> \o p.list]
           IN  q \in Record(Keys) /\ WellFormed(q)
<1> DEFINE s == p.list
           t == <<k>> \o s
<1>1. s \in Seq(Keys) /\ Len(s) \in Nat /\ DOMAIN s = 1 .. Len(s)
  BY LenProperties DEF Record
<1>2. /\ t \in Seq(Keys) /\ Len(t) = Len(s) + 1
      /\ t[1] = k
      /\ \A j \in 1 .. Len(s) : t[j + 1] = s[j]
  BY <1>1, ConsFacts
<1>3. DOMAIN t = 1 .. Len(s) + 1
  BY <1>2, LenProperties
<1> HIDE DEF t
<1>4. \A a, b \in 1 .. Len(s) : s[a] = s[b] => a = b
  BY <1>1 DEF WellFormed
<1>5. p.items = {s[a] : a \in 1 .. Len(s)}
  BY <1>1 DEF WellFormed, ToSet
<1>6. \A a \in 2 .. Len(s) + 1 : a - 1 \in 1 .. Len(s) /\ t[a] = s[a - 1]
  <2> TAKE a \in 2 .. Len(s) + 1
  <2>1. a - 1 \in 1 .. Len(s) /\ (a - 1) + 1 = a
    BY <1>1
  <2> QED BY <2>1, <1>2
<1>7. \A a \in 1 .. Len(s) + 1 : a = 1 \/ a \in 2 .. Len(s) + 1
  BY <1>1
<1>8. {t[a] : a \in 1 .. Len(s) + 1} = p.items \cup {k}
  <2>1. \A a \in 1 .. Len(s) + 1 : t[a] \in p.items \cup {k}
    BY <1>2, <1>5, <1>6, <1>7
  <2>2. \A x \in p.items \cup {k} : \E a \in 1 .. Len(s) + 1 : t[a] = x
    <3> TAKE x \in p.items \cup {k}
    <3>1. CASE x = k
      BY <3>1, <1>1, <1>2
    <3>2. CASE x \in p.items
      <4>1. PICK a \in 1 .. Len(s) : s[a] = x
        BY <3>2, <1>5
      <4>2. a + 1 \in 1 .. Len(s) + 1 /\ t[a + 1] = x
        BY <4>1, <1>1, <1>2
      <4> QED BY <4>2
    <3> QED BY <3>1, <3>2
  <2> QED BY <2>1, <2>2
<1>9. ASSUME NEW a \in 1 .. Len(s) + 1, NEW b \in 1 .. Len(s) + 1, t[a] = t[b]
      PROVE  a = b
  <2>1. CASE a = 1 /\ b = 1
    BY <2>1
  <2>2. CASE a = 1 /\ b \in 2 .. Len(s) + 1
    BY <2>2, <1>2, <1>5, <1>6, <1>9
  <2>3. CASE b = 1 /\ a \in 2 .. Len(s) + 1
    BY <2>3, <1>2, <1>5, <1>6, <1>9
  <2>4. CASE a \in 2 .. Len(s) + 1 /\ b \in 2 .. Len(s) + 1
    <3>1. a - 1 = b - 1
      BY <2>4, <1>4, <1>6, <1>9
    <3> QED BY <3>1, <1>1
  <2> QED BY <1>7, <2>1, <2>2, <2>3, <2>4
<1>10. p.items \cup {k} \in SUBSET Keys
  BY DEF Record
<1>11. ToSet(t) = p.items \cup {k}
  BY <1>3, <1>8 DEF ToSet
<1>12. \A a, b \in DOMAIN t : t[a] = t[b] => a = b
  BY <1>3, <1>9
<1> QED BY <1>2, <1>10, <1>11, <1>12 DEF Record, WellFormed, t

LEMMA MoveToFrontWellFormed ==
    ASSUME NEW Keys, NEW p \in Record(Keys), WellFormed(p), NEW k \in p.items
    PROVE  LET q == [p EXCEPT !.list = MoveToFront(@, k)]
           IN  q \in Record(Keys) /\ WellFormed(q) /\ q.items = p.items
<1> DEFINE r == [items |-> p.items \ {k}, list |-> ListWithout(p.list, k)]
           q == [items |-> r.items \cup {k}, list |-> <<k>> \o r.list]
<1>1. r \in Record(Keys) /\ WellFormed(r)
  BY WithoutWellFormed
<1>2. k \in Keys /\ k \notin r.items
  BY DEF Record
<1>3. q \in Record(Keys) /\ WellFormed(q)
  BY <1>1, <1>2, ConsWellFormed
<1>4. q = [p EXCEPT !.list = MoveToFront(@, k)]
  <2>1. p = [items |-> p.items, list |-> p.list]
    BY DEF Record
  <2>2. [p EXCEPT !.list = MoveToFront(@, k)] =
           [items |-> p.items, list |-> MoveToFront(p.list, k)]
    BY <2>1
  <2>3. r.items \cup {k} = p.items
    OBVIOUS
  <2> QED BY <2>2, <2>3 DEF MoveToFront
<1> QED BY <1>3, <1>4 DEF Record

-----------------------------------------------------------------------------
(***************************************************************************)
(* After n evictions the list is its own prefix and the map has lost       *)
(* exactly the n keys behind it.                                           *)
(***************************************************************************)
LEMMA DropBackWellFormed ==
    ASSUME NEW Keys, NEW p \in Record(Keys), WellFormed(p),
           NEW n \in 0 .. Len(p.list)
    PROVE  /\ DropBack(p, n) \in Record(Keys)
           /\ WellFormed(DropBack(p, n))
           /\ Len(DropBack(p, n).list) = Len(p.list) - n
           /\ \A j \in 1 .. Len(p.list) - n : DropBack(p, n).list[j] = p.list[j]
<1> DEFINE s == p.list
           t == SubSeq(s, 1, Len(s) - n)
<1>1. /\ s \in Seq(Keys) /\ Len(s) \in Nat /\ DOMAIN s = 1 .. Len(s)
      /\ n \in Nat /\ n <= Len(s)
  BY LenProperties DEF Record
<1>2. /\ t \in Seq(Keys) /\ Len(t) = Len(s) - n
      /\ \A j \in 1 .. Len(s) - n : t[j] = s[j]
  <2>1. \A j \in 1 .. Len(s) - n : s[j] \in Keys
    BY <1>1
  <2>2. /\ t \in Seq(Keys)
        /\ Len(t) = IF 1 <= Len(s) - n THEN Len(s) - n - 1 + 1 ELSE 0
        /\ \A j \in 1 .. Len(s) - n - 1 + 1 : t[j] = s[1 + j - 1]
    BY <1>1, <2>1, SubSeqProperties
  <2> QED BY <1>1, <2>2
<1>3. DOMAIN t = 1 .. Len(s) - n
  BY <1>2, LenProperties
<1> HIDE DEF t
<1>4. \A a, b \in 1 .. Len(s) : s[a] = s[b] => a = b
  BY <1>1 DEF WellFormed
<1>5. p.items = {s[a] : a \in 1 .. Len(s)}
  BY <1>1 DEF WellFormed, ToSet
<1>6. \A a \in 1 .. Len(s) - n : a \in 1 .. Len(s)
  BY <1>1
<1>7. {t[a] : a \in 1 .. Len(s) - n} = p.items \ Victims(p, n)
  <2>1. ASSUME NEW a \in 1 .. Len(s) - n
        PROVE  t[a] \in p.items \ Victims(p, n)
    <3>1. t[a] = s[a] /\ t[a] \in p.items
      BY <1>2, <1>5, <1>6
    <3>2. ASSUME NEW b \in Len(s) - n + 1 .. Len(s), s[b] = t[a]
          PROVE  FALSE
      <4>1. b \in 1 .. Len(s) /\ a < b
        BY <1>1
      <4> QED BY <3>1, <3>2, <4>1, <1>4, <1>6, <1>1
    <3> QED BY <3>1, <3>2 DEF Victims
  <2>2. ASSUME NEW x \in p.items \ Victims(p, n)
        PROVE  \E a \in 1 .. Len(s) - n : t[a] = x
    <3>1. PICK a \in 1 .. Len(s) : s[a] = x
      BY <1>5
    <3>2. a \notin Len(s) - n + 1 .. Len(s)
      BY <3>1 DEF Victims
    <3>3. a \in 1 .. Len(s) - n
      BY <3>2, <1>1
    <3> QED BY <3>1, <3>3, <1>2
  <2> QED BY <2>1, <2>2
<1>8. \A a, b \in DOMAIN t : t[a] = t[b] => a = b
  BY <1>2, <1>3, <1>4, <1>6
<1>9. ToSet(t) = p.items \ Victims(p, n)
  BY <1>3, <1>7 DEF ToSet
<1>10. DropBack(p, n) = [items |-> p.items \ Victims(p, n), list |-> t]
  BY DEF DropBack, t
<1>11. p.items \ Victims(p, n) \in SUBSET Keys
  BY DEF Record
<1> QED BY <1>2, <1>8, <1>9, <1>10, <1>11 DEF Record, WellFormed

-----------------------------------------------------------------------------
LEMMA EmptyPolicyWellFormed ==
    ASSUME NEW Keys
    PROVE  EmptyPolicy \in Record(Keys) /\ WellFormed(EmptyPolicy)
BY DEF EmptyPolicy, Record, WellFormed, ToSet

LEMMA AfterGetWellFormed ==
    ASSUME NEW Keys, NEW p \in Record(Keys), WellFormed(p), NEW k
    PROVE  /\ AfterGet(p, k) \in Record(Keys)
           /\ WellFormed(AfterGet(p, k))
           /\ AfterGet(p, k).items = p.items
BY MoveToFrontWellFormed DEF AfterGet

LEMMA RoomForWellFormed ==
    ASSUME NEW Keys, NEW p \in Record(Keys), WellFormed(p), NEW capacity
    PROVE  /\ RoomFor(p, capacity) \in Record(Keys)
           /\ WellFormed(RoomFor(p, capacity))
           /\ RoomFor(p, capacity).items \subseteq p.items
<1>1. CASE Cardinality(p.items) >= capacity /\ p.list # <<>>
  <2>1. 1 \in 0 .. Len(p.list)
    BY <1>1, EmptySeq DEF Record
  <2>2. RoomFor(p, capacity) = DropBack(p, 1)
    BY <1>1 DEF RoomFor
  <2>3. DropBack(p, 1).items \subseteq p.items
    BY DEF DropBack
  <2> QED BY <2>1, <2>2, <2>3, DropBackWellFormed
<1>2. CASE ~(Cardinality(p.items) >= capacity /\ p.list # <<>>)
  BY <1>2 DEF RoomFor
<1> QED BY <1>1, <1>2

LEMMA AfterSetWellFormed ==
    ASSUME NEW Keys, NEW p \in Record(Keys), WellFormed(p),
           NEW k \in Keys, NEW capacity
    PROVE  AfterSet(p, k, capacity) \in Record(Keys)
           /\ WellFormed(AfterSet(p, k, capacity))
<1>1. CASE k \in p.items
  BY <1>1, MoveToFrontWellFormed DEF AfterSet
<1>2. CASE k \notin p.items
  <2> DEFINE r == RoomFor(p, capacity)
  <2>1. r \in Record(Keys) /\ WellFormed(r) /\ k \notin r.items
    BY <1>2, RoomForWellFormed
  <2>2. AfterSet(p, k, capacity) =
           [items |-> r.items \cup {k}, list |-> <<k>> \o r.list]
    BY <1>2 DEF AfterSet
  <2> HIDE DEF r
  <2> QED BY <2>1, <2>2, ConsWellFormed
<1> QED BY <1>1, <1>2

LEMMA AfterDeleteWellFormed ==
    ASSUME NEW Keys, NEW p \in Record(Keys), WellFormed(p), NEW k
    PROVE  AfterDelete(p, k) \in Record(Keys) /\ WellFormed(AfterDelete(p, k))
BY WithoutWellFormed DEF AfterDelete
=============================================================================

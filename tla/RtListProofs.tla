---------------------------- MODULE RtListProofs ----------------------------
(***************************************************************************)
(* What the list operations preserve, for every list.                      *)
(***************************************************************************)
EXTENDS RtList, SequenceTheorems, WellFoundedInduction, TLAPS

\* A set of naturals has a least element.
LEMMA LeastExists ==
    ASSUME NEW G \in SUBSET Nat, G # {}
    PROVE  \E p \in G : \A q \in G : p <= q
<1> DEFINE R == OpToRel(<, Nat)
<1>1. IsWellFoundedOn(R, Nat)
  BY NatLessThanWellFounded
<1>2. \A x, y \in Nat : y < x => <<y, x>> \in R
  BY DEF OpToRel
<1> HIDE DEF R
<1>3. PICK p \in G : \A q \in G : ~(<<q, p>> \in R)
  BY <1>1, WFMin
<1>4. ASSUME NEW q \in G PROVE p <= q
  <2>1. p \in Nat /\ q \in Nat
    OBVIOUS
  <2>2. ~(q < p)
    BY <1>2, <1>3, <2>1
  <2> QED BY <2>1, <2>2
<1> QED BY <1>4

\* RemoveAt, position by position.
LEMMA RemoveAtElements ==
    ASSUME NEW S, NEW list \in Seq(S), NEW k \in 1..Len(list)
    PROVE  /\ RemoveAt(list, k) \in Seq(S)
           /\ Len(RemoveAt(list, k)) = Len(list) - 1
           /\ \A i \in 1..(Len(list) - 1) :
                 RemoveAt(list, k)[i] = IF i < k THEN list[i] ELSE list[i + 1]
<1> DEFINE a == SubSeq(list, 1, k - 1)
           b == SubSeq(list, k + 1, Len(list))
<1>1. /\ a \in Seq(S) /\ Len(a) = k - 1
      /\ \A i \in 1..(k - 1) : a[i] = list[i]
  BY SMT
<1>2. /\ b \in Seq(S) /\ Len(b) = Len(list) - k
      /\ \A i \in 1..(Len(list) - k) : b[i] = list[k + i]
  BY SMT
<1>3. RemoveAt(list, k) = a \o b
  BY DEF RemoveAt
<1> HIDE DEF a, b
<1>4. /\ a \o b \in Seq(S)
      /\ Len(a \o b) = Len(list) - 1
      /\ \A i \in 1..(Len(list) - 1) :
            (a \o b)[i] = IF i <= Len(a) THEN a[i] ELSE b[i - Len(a)]
  BY <1>1, <1>2, ConcatProperties
<1> QED BY <1>1, <1>2, <1>3, <1>4

\* Removing a node leaves the other nodes linked, and a node linked once is gone.
LEMMA RemoveMembers ==
    ASSUME NEW S, NEW list \in Seq(S), NEW n
    PROVE  /\ rt_list_remove(list, n) \in Seq(S)
           /\ ToSet(list) \ {n} \subseteq ToSet(rt_list_remove(list, n))
           /\ ToSet(rt_list_remove(list, n)) \subseteq ToSet(list)
           /\ LinkedOnce(list) => /\ ToSet(rt_list_remove(list, n)) = ToSet(list) \ {n}
                                  /\ LinkedOnce(rt_list_remove(list, n))
<1>1. CASE n \notin ToSet(list)
  <2>1. rt_list_remove(list, n) = list
    BY <1>1 DEF rt_list_remove
  <2> QED BY <1>1, <2>1
<1>2. CASE n \in ToSet(list)
  <2>1. PICK k \in 1..Len(list) : /\ list[k] = n
                                  /\ rt_list_remove(list, n) = RemoveAt(list, k)
    <3>1. \E i \in DOMAIN list : list[i] = n
      BY <1>2 DEF ToSet
    <3> DEFINE k == CHOOSE i \in DOMAIN list : list[i] = n
    <3>2. k \in DOMAIN list /\ list[k] = n
      BY <3>1
    <3>3. rt_list_remove(list, n) = RemoveAt(list, k)
      BY <1>2 DEF rt_list_remove
    <3> HIDE DEF k
    <3> QED BY <3>2, <3>3
  <2> DEFINE r == RemoveAt(list, k)
  <2>2. /\ r \in Seq(S)
        /\ Len(r) = Len(list) - 1
        /\ \A i \in 1..(Len(list) - 1) : r[i] = IF i < k THEN list[i] ELSE list[i + 1]
    BY RemoveAtElements
  <2> HIDE DEF r
  <2>3. ToSet(r) \subseteq ToSet(list)
    BY <2>2 DEF ToSet
  <2>4. ASSUME NEW x \in ToSet(list), x # n
        PROVE  x \in ToSet(r)
    <3>1. PICK i \in 1..Len(list) : list[i] = x
      BY <2>4 DEF ToSet
    <3>2. CASE i < k
      BY <3>1, <3>2, <2>2 DEF ToSet
    <3>3. CASE i > k
      <4>1. i - 1 \in 1..(Len(list) - 1) /\ r[i - 1] = x
        BY <3>1, <3>3, <2>2
      <4> QED BY <4>1, <2>2 DEF ToSet
    <3> QED BY <3>1, <3>2, <3>3, <2>1, <2>4
  <2>5. ASSUME LinkedOnce(list)
        PROVE  n \notin ToSet(r) /\ LinkedOnce(r)
    <3>1. \A i, j \in 1..Len(list) : list[i] = list[j] => i = j
      BY <2>5 DEF LinkedOnce
    <3>2. \A i \in 1..Len(r) : r[i] # n
      BY <3>1, <2>1, <2>2
    <3>3. \A i, j \in 1..Len(r) : r[i] = r[j] => i = j
      BY <3>1, <2>2
    <3> QED BY <3>2, <3>3, <2>2 DEF ToSet, LinkedOnce
  <2> QED BY <2>1, <2>2, <2>3, <2>4, <2>5 DEF r
<1> QED BY <1>1, <1>2

\* Appending a node.
LEMMA AppendMembers ==
    ASSUME NEW S, NEW list \in Seq(S), NEW n \in S
    PROVE  /\ rt_list_insert_before(list, n) \in Seq(S)
           /\ ToSet(rt_list_insert_before(list, n)) = ToSet(list) \cup {n}
           /\ rt_list_insert_before(list, n) # <<>>
<1> DEFINE r == Append(list, n)
<1>1. /\ r \in Seq(S)
      /\ Len(r) = Len(list) + 1
      /\ \A i \in 1..Len(list) : r[i] = list[i]
      /\ r[Len(list) + 1] = n
  OBVIOUS
<1>2. rt_list_insert_before(list, n) = r
  BY DEF rt_list_insert_before
<1> HIDE DEF r
<1>3. ToSet(r) \subseteq ToSet(list) \cup {n}
  <2> SUFFICES ASSUME NEW i \in 1..Len(r) PROVE r[i] \in ToSet(list) \cup {n}
    BY <1>1 DEF ToSet
  <2>1. CASE i = Len(list) + 1
    BY <1>1, <2>1
  <2>2. CASE i \in 1..Len(list)
    BY <1>1, <2>2 DEF ToSet
  <2> QED BY <1>1, <2>1, <2>2
<1>4. ToSet(list) \cup {n} \subseteq ToSet(r)
  BY <1>1 DEF ToSet
<1> QED BY <1>1, <1>2, <1>3, <1>4

\* Putting a node in front.
LEMMA PushMembers ==
    ASSUME NEW S, NEW list \in Seq(S), NEW n \in S
    PROVE  rt_list_insert_after(list, n) \in Seq(S)
  BY ConcatProperties DEF rt_list_insert_after

\* A node that is not linked yet is linked once after it is appended.
LEMMA AppendLinkedOnce ==
    ASSUME NEW S, NEW list \in Seq(S), NEW n \in S, LinkedOnce(list), n \notin ToSet(list)
    PROVE  LinkedOnce(rt_list_insert_before(list, n))
<1>1. PICK r : r = rt_list_insert_before(list, n)
  OBVIOUS
<1>2. /\ r \in Seq(S)
      /\ Len(r) = Len(list) + 1
      /\ \A i \in 1..Len(list) : r[i] = list[i]
      /\ r[Len(list) + 1] = n
  BY <1>1 DEF rt_list_insert_before
<1>3. \A i, j \in 1..Len(list) : list[i] = list[j] => i = j
  BY DEF LinkedOnce
<1>4. \A i \in 1..Len(list) : list[i] # n
  BY DEF ToSet
<1>5. ASSUME NEW i \in 1..Len(r), NEW j \in 1..Len(r), r[i] = r[j] PROVE i = j
  <2>1. i \in 1..Len(list) \/ i = Len(list) + 1
    BY <1>2
  <2>2. j \in 1..Len(list) \/ j = Len(list) + 1
    BY <1>2
  <2> QED BY <1>2, <1>3, <1>4, <1>5, <2>1, <2>2
<1> QED BY <1>1, <1>2, <1>5 DEF LinkedOnce

\* The same for a node that is put in front.
LEMMA PushLinkedOnce ==
    ASSUME NEW S, NEW list \in Seq(S), NEW n \in S
    PROVE  /\ ToSet(rt_list_insert_after(list, n)) = ToSet(list) \cup {n}
           /\ LinkedOnce(list) /\ n \notin ToSet(list) => LinkedOnce(rt_list_insert_after(list, n))
<1>1. PICK r : r = rt_list_insert_after(list, n)
  OBVIOUS
<1>2. /\ r \in Seq(S)
      /\ Len(r) = Len(list) + 1
      /\ r[1] = n
      /\ \A i \in 1..Len(list) : r[i + 1] = list[i]
  <2>1. <<n>> \in Seq(S) /\ Len(<<n>>) = 1 /\ <<n>>[1] = n /\ Len(list) \in Nat
    OBVIOUS
  <2>2. PICK front \in Seq(S) : front = <<n>>
    BY <2>1
  <2>3. /\ front \o list \in Seq(S)
        /\ Len(front \o list) = Len(front) + Len(list)
        /\ \A i \in 1..(Len(front) + Len(list)) :
              (front \o list)[i] = IF i <= Len(front) THEN front[i] ELSE list[i - Len(front)]
    BY ConcatProperties
  <2>4. r = front \o list /\ Len(front) = 1 /\ front[1] = n
    BY <1>1, <2>1, <2>2 DEF rt_list_insert_after
  <2>5. r \in Seq(S) /\ Len(r) = Len(list) + 1
    BY <2>1, <2>3, <2>4
  <2>6. \A i \in 1..(1 + Len(list)) : r[i] = IF i <= 1 THEN front[i] ELSE list[i - 1]
    BY <2>3, <2>4
  <2>7. r[1] = n
    <3>1. 1 \in 1..(1 + Len(list)) /\ 1 <= 1
      BY <2>1
    <3>2. r[1] = front[1]
      BY <2>6, <3>1
    <3> QED BY <2>4, <3>2
  <2>8. \A i \in 1..Len(list) : r[i + 1] = list[i]
    BY <2>1, <2>6
  <2> QED BY <2>5, <2>7, <2>8
<1>3. ASSUME NEW i \in 1..Len(r), i # 1 PROVE i - 1 \in 1..Len(list) /\ r[i] = list[i - 1]
  <2>1. i - 1 \in 1..Len(list) /\ (i - 1) + 1 = i
    BY <1>2, <1>3
  <2> QED BY <1>2, <2>1
<1>4. ToSet(r) \subseteq ToSet(list) \cup {n}
  BY <1>2, <1>3 DEF ToSet
<1>5. ASSUME NEW i \in 1..Len(list) PROVE list[i] \in ToSet(r)
  <2>1. i + 1 \in 1..Len(r) /\ r[i + 1] = list[i]
    BY <1>2
  <2> QED BY <1>2, <2>1 DEF ToSet
<1>6. n \in ToSet(r)
  <2>1. 1 \in 1..Len(r)
    BY <1>2
  <2> QED BY <1>2, <2>1 DEF ToSet
<1>7. ToSet(r) = ToSet(list) \cup {n}
  <2>1. ToSet(list) \subseteq ToSet(r)
    BY <1>5 DEF ToSet
  <2> QED BY <1>4, <1>6, <2>1
<1>8. ASSUME LinkedOnce(list), n \notin ToSet(list) PROVE LinkedOnce(r)
  <2>1. \A i, j \in 1..Len(list) : list[i] = list[j] => i = j
    BY <1>8 DEF LinkedOnce
  <2>2. \A i \in 1..Len(list) : list[i] # n
    BY <1>8 DEF ToSet
  <2>3. ASSUME NEW i \in 1..Len(r), NEW j \in 1..Len(r), r[i] = r[j] PROVE i = j
    <3>1. CASE i = 1 \/ j = 1
      BY <1>2, <1>3, <2>2, <2>3, <3>1
    <3>2. CASE i # 1 /\ j # 1
      <4>1. i - 1 = j - 1
        BY <1>3, <2>1, <2>3, <3>2
      <4> QED BY <4>1
    <3> QED BY <3>1, <3>2
  <2> QED BY <1>2, <2>3 DEF LinkedOnce
<1> QED BY <1>1, <1>7, <1>8

\* Taking the first node out.
LEMMA TailMembers ==
    ASSUME NEW S, NEW list \in Seq(S), list # <<>>
    PROVE  /\ Head(list) \in S
           /\ Head(list) \in ToSet(list)
           /\ Tail(list) \in Seq(S)
           /\ ToSet(list) = ToSet(Tail(list)) \cup {Head(list)}
           /\ LinkedOnce(list) => Head(list) \notin ToSet(Tail(list)) /\ LinkedOnce(Tail(list))
<1> DEFINE r == Tail(list)
<1>1. /\ Len(list) \in Nat \ {0}
      /\ Head(list) = list[1]
      /\ r \in Seq(S)
      /\ Len(r) = Len(list) - 1
      /\ \A i \in 1..(Len(list) - 1) : r[i] = list[i + 1]
  OBVIOUS
<1> HIDE DEF r
<1>2. ToSet(list) \subseteq ToSet(r) \cup {list[1]}
  <2> SUFFICES ASSUME NEW i \in 1..Len(list), i # 1 PROVE list[i] \in ToSet(r)
    BY <1>1 DEF ToSet
  <2>1. i - 1 \in 1..Len(r) /\ r[i - 1] = list[i]
    BY <1>1
  <2> QED BY <2>1, <1>1 DEF ToSet
<1>3. ToSet(r) \cup {list[1]} \subseteq ToSet(list)
  BY <1>1 DEF ToSet
<1>4. ASSUME LinkedOnce(list)
      PROVE  list[1] \notin ToSet(r) /\ LinkedOnce(r)
  <2>1. \A i, j \in 1..Len(list) : list[i] = list[j] => i = j
    BY <1>4 DEF LinkedOnce
  <2>2. \A i \in 1..Len(r) : r[i] # list[1]
    BY <2>1, <1>1
  <2>3. \A i, j \in 1..Len(r) : r[i] = r[j] => i = j
    BY <2>1, <1>1
  <2> QED BY <2>2, <2>3, <1>1 DEF ToSet, LinkedOnce
<1>5. list[1] \in S
  BY <1>1
<1> QED BY <1>1, <1>2, <1>3, <1>4, <1>5 DEF r

\* r is list with n linked in at position k.
LinkedAt(list, n, k, r) ==
    /\ Len(r) = Len(list) + 1
    /\ \A i \in 1..(k - 1) : r[i] = list[i]
    /\ r[k] = n
    /\ \A i \in k..Len(list) : r[i + 1] = list[i]

LEMMA InsertAtElements ==
    ASSUME NEW S, NEW list \in Seq(S), NEW n \in S, NEW k \in 1..(Len(list) + 1)
    PROVE  InsertAt(list, k, n) \in Seq(S) /\ LinkedAt(list, n, k, InsertAt(list, k, n))
<1> DEFINE a == SubSeq(list, 1, k - 1)
           b == SubSeq(list, k, Len(list))
           c == <<n>>
<1>1. /\ a \in Seq(S) /\ Len(a) = k - 1
      /\ \A i \in 1..(k - 1) : a[i] = list[i]
  BY SMT
<1>2. /\ b \in Seq(S) /\ Len(b) = Len(list) - k + 1
      /\ \A i \in 1..(Len(list) - k + 1) : b[i] = list[k + i - 1]
  BY SMT
<1>3. c \in Seq(S) /\ Len(c) = 1 /\ c[1] = n
  OBVIOUS
<1>4. InsertAt(list, k, n) = (a \o c) \o b
  BY DEF InsertAt
<1> HIDE DEF a, b, c
<1>5. PICK ac : ac = a \o c
  OBVIOUS
<1>6. /\ ac \in Seq(S) /\ Len(ac) = Len(a) + Len(c)
      /\ \A i \in 1..(Len(a) + Len(c)) : ac[i] = IF i <= Len(a) THEN a[i] ELSE c[i - Len(a)]
  BY <1>1, <1>3, <1>5, ConcatProperties
<1>7. Len(ac) = k /\ ac[k] = n
  BY <1>1, <1>3, <1>6
<1>8. \A i \in 1..(k - 1) : ac[i] = list[i]
  BY <1>1, <1>3, <1>6
<1>9. PICK r : r = ac \o b
  OBVIOUS
<1>10. /\ r \in Seq(S) /\ Len(r) = Len(ac) + Len(b)
       /\ \A i \in 1..(Len(ac) + Len(b)) : r[i] = IF i <= Len(ac) THEN ac[i] ELSE b[i - Len(ac)]
  <2>1. ac \in Seq(S) /\ b \in Seq(S)
    BY <1>2, <1>6
  <2> QED BY <1>9, <2>1, ConcatProperties
<1>11. Len(r) = Len(list) + 1
  BY <1>2, <1>7, <1>10
<1>12. r[k] = n /\ \A i \in 1..(k - 1) : r[i] = list[i]
  BY <1>2, <1>7, <1>8, <1>10
<1>13. ASSUME NEW i \in k..Len(list) PROVE r[i + 1] = list[i]
  <2>1. r[i + 1] = b[i + 1 - k]
    BY <1>2, <1>7, <1>10
  <2>2. i + 1 - k \in 1..(Len(list) - k + 1)
    OBVIOUS
  <2>3. b[i + 1 - k] = list[k + (i + 1 - k) - 1]
    BY <1>2, <2>2
  <2> QED BY <2>1, <2>3
<1> QED BY <1>4, <1>5, <1>9, <1>10, <1>11, <1>12, <1>13 DEF LinkedAt

\* Where InsertBeforeFirst puts the node: at the first of the positions, or last.
LEMMA InsertBeforeFirstPlace ==
    ASSUME NEW S, NEW list \in Seq(S), NEW n \in S, NEW P \in SUBSET (1..Len(list))
    PROVE  /\ InsertBeforeFirst(list, P, n) \in Seq(S)
           /\ \E k \in 1..(Len(list) + 1) :
                 /\ k \in P \/ k = Len(list) + 1
                 /\ \A i \in P : k <= i
                 /\ LinkedAt(list, n, k, InsertBeforeFirst(list, P, n))
<1>1. CASE P = {}
  <2>1. InsertBeforeFirst(list, P, n) = Append(list, n)
    BY <1>1 DEF InsertBeforeFirst
  <2>2. Append(list, n) \in Seq(S)
    OBVIOUS
  <2>3. LinkedAt(list, n, Len(list) + 1, Append(list, n))
    BY DEF LinkedAt
  <2>4. Len(list) + 1 \in 1..(Len(list) + 1)
    OBVIOUS
  <2> QED BY <1>1, <2>1, <2>2, <2>3, <2>4
<1>2. CASE P # {}
  <2>1. P \in SUBSET Nat
    OBVIOUS
  <2>2. \E i \in P : \A j \in P : i <= j
    BY <1>2, <2>1, LeastExists
  <2> DEFINE k == CHOOSE i \in P : \A j \in P : i <= j
  <2>3. k \in P /\ \A j \in P : k <= j
    BY <2>2
  <2>4. InsertBeforeFirst(list, P, n) = InsertAt(list, k, n)
    BY <1>2 DEF InsertBeforeFirst
  <2> HIDE DEF k
  <2>5. k \in 1..(Len(list) + 1)
    BY <2>3
  <2>6. InsertAt(list, k, n) \in Seq(S) /\ LinkedAt(list, n, k, InsertAt(list, k, n))
    BY <2>5, InsertAtElements
  <2> QED BY <2>3, <2>4, <2>5, <2>6
<1> QED BY <1>1, <1>2

\* InsertBeforeFirst links the node once and leaves the others alone.
LEMMA InsertBeforeFirstMembers ==
    ASSUME NEW S, NEW list \in Seq(S), NEW n \in S, NEW P \in SUBSET (1..Len(list))
    PROVE  /\ InsertBeforeFirst(list, P, n) \in Seq(S)
           /\ ToSet(InsertBeforeFirst(list, P, n)) = ToSet(list) \cup {n}
           /\ LinkedOnce(list) /\ n \notin ToSet(list) => LinkedOnce(InsertBeforeFirst(list, P, n))
<1>1. PICK r : r = InsertBeforeFirst(list, P, n)
  OBVIOUS
<1>2. PICK k \in 1..(Len(list) + 1) : r \in Seq(S) /\ LinkedAt(list, n, k, r)
  BY <1>1, InsertBeforeFirstPlace
<1>3. /\ Len(r) = Len(list) + 1
      /\ \A i \in 1..(k - 1) : r[i] = list[i]
      /\ r[k] = n
      /\ \A i \in k..Len(list) : r[i + 1] = list[i]
  BY <1>2 DEF LinkedAt
<1>4. ASSUME NEW i \in 1..Len(r), i # k
      PROVE  \E j \in 1..Len(list) : r[i] = list[j] /\ j = IF i < k THEN i ELSE i - 1
  <2>1. CASE i < k
    <3>1. i \in 1..(k - 1) /\ i \in 1..Len(list)
      BY <2>1
    <3> QED BY <1>3, <2>1, <3>1
  <2>2. CASE ~(i < k)
    <3>1. i - 1 \in k..Len(list) /\ i - 1 \in 1..Len(list) /\ (i - 1) + 1 = i
      BY <1>3, <1>4, <2>2
    <3>2. r[(i - 1) + 1] = list[i - 1]
      BY <1>3, <3>1
    <3> QED BY <2>2, <3>1, <3>2
  <2> QED BY <2>1, <2>2
<1>5. ToSet(r) \subseteq ToSet(list) \cup {n}
  <2> SUFFICES ASSUME NEW i \in 1..Len(r), i # k PROVE r[i] \in ToSet(list)
    BY <1>2, <1>3 DEF ToSet
  <2> QED BY <1>4 DEF ToSet
<1>6. n \in ToSet(r)
  <2>1. k \in 1..Len(r)
    BY <1>3
  <2> QED BY <1>2, <1>3, <2>1 DEF ToSet
<1>7. ASSUME NEW i \in 1..Len(list) PROVE list[i] \in ToSet(r)
  <2>1. PICK j \in 1..Len(r) : r[j] = list[i]
    <3>1. CASE i < k
      <4>1. i \in 1..(k - 1) /\ i \in 1..Len(r)
        BY <1>3, <3>1
      <4> QED BY <1>3, <4>1
    <3>2. CASE ~(i < k)
      <4>1. i \in k..Len(list) /\ i + 1 \in 1..Len(r)
        BY <1>3, <3>2
      <4> QED BY <1>3, <4>1
    <3> QED BY <3>1, <3>2
  <2> QED BY <1>2, <2>1 DEF ToSet
<1>8. ASSUME LinkedOnce(list), n \notin ToSet(list)
      PROVE  LinkedOnce(r)
  <2>1. \A i, j \in 1..Len(list) : list[i] = list[j] => i = j
    BY <1>8 DEF LinkedOnce
  <2>2. \A i \in 1..Len(list) : list[i] # n
    BY <1>8 DEF ToSet
  <2>3. ASSUME NEW i \in 1..Len(r), NEW j \in 1..Len(r), r[i] = r[j] PROVE i = j
    <3>1. CASE i = k \/ j = k
      BY <1>3, <1>4, <2>2, <2>3, <3>1
    <3>2. CASE i # k /\ j # k
      <4>1. PICK x \in 1..Len(list) : r[i] = list[x] /\ x = IF i < k THEN i ELSE i - 1
        BY <1>4, <3>2
      <4>2. PICK y \in 1..Len(list) : r[j] = list[y] /\ y = IF j < k THEN j ELSE j - 1
        BY <1>4, <3>2
      <4>3. x = y
        BY <2>1, <2>3, <4>1, <4>2
      <4> QED BY <3>2, <4>1, <4>2, <4>3
    <3> QED BY <3>1, <3>2
  <2> QED BY <1>2, <2>3 DEF LinkedOnce
<1>9. ToSet(list) \subseteq ToSet(r)
  BY <1>7 DEF ToSet
<1> QED BY <1>1, <1>2, <1>5, <1>6, <1>8, <1>9

-----------------------------------------------------------------------------
\* The nodes are in the order of a key, as in a list of waiters by priority.
SortedBy(list, key) ==
    \A i, j \in 1..Len(list) : i < j => key[list[i]] <= key[list[j]]

\* Inserting in front of the first node with a larger key keeps the order; of
\* nodes with the same key any may come first.
LEMMA InsertSorted ==
    ASSUME NEW S, NEW key \in [S -> Int], NEW list \in Seq(S), NEW n \in S,
           NEW P \in SUBSET (1..Len(list)),
           SortedBy(list, key),
           \A i \in P : key[n] <= key[list[i]],
           \A i \in (1..Len(list)) \ P : key[list[i]] <= key[n]
    PROVE  SortedBy(InsertBeforeFirst(list, P, n), key)
<1>1. PICK r : r = InsertBeforeFirst(list, P, n)
  OBVIOUS
<1>2. PICK k \in 1..(Len(list) + 1) :
          /\ k \in P \/ k = Len(list) + 1
          /\ \A i \in P : k <= i
          /\ LinkedAt(list, n, k, r)
  BY <1>1, InsertBeforeFirstPlace
<1>3. /\ Len(r) = Len(list) + 1
      /\ \A i \in 1..(k - 1) : r[i] = list[i]
      /\ r[k] = n
      /\ \A i \in k..Len(list) : r[i + 1] = list[i]
  BY <1>2 DEF LinkedAt
<1>4. \A i \in 1..Len(list) : key[list[i]] \in Int
  OBVIOUS
<1>5. \A i, j \in 1..Len(list) : i < j => key[list[i]] <= key[list[j]]
  BY DEF SortedBy
<1>6. \A i \in 1..(k - 1) : key[list[i]] <= key[n]
  <2> SUFFICES ASSUME NEW i \in 1..(k - 1) PROVE key[list[i]] <= key[n]
    OBVIOUS
  <2>1. i \in (1..Len(list)) \ P
    BY <1>2
  <2> QED BY <2>1
<1>7. \A i \in k..Len(list) : key[n] <= key[list[i]]
  <2> SUFFICES ASSUME NEW i \in k..Len(list) PROVE key[n] <= key[list[i]]
    OBVIOUS
  <2>1. k \in P /\ k \in 1..Len(list) /\ i \in 1..Len(list)
    BY <1>2
  <2>2. key[n] <= key[list[k]]
    BY <2>1
  <2>3. key[list[k]] <= key[list[i]]
    BY <1>4, <1>5, <2>1
  <2>4. key[n] \in Int /\ key[list[k]] \in Int /\ key[list[i]] \in Int
    BY <1>4, <2>1
  <2> QED BY <2>2, <2>3, <2>4
<1>8. ASSUME NEW i \in 1..Len(r), NEW j \in 1..Len(r), i < j
      PROVE  key[r[i]] <= key[r[j]]
  <2>1. CASE j < k
    <3>1. i \in 1..(k - 1) /\ j \in 1..(k - 1) /\ i \in 1..Len(list) /\ j \in 1..Len(list)
      BY <1>8, <2>1
    <3> QED BY <1>3, <1>5, <1>8, <3>1
  <2>2. CASE j = k
    <3>1. i \in 1..(k - 1)
      BY <1>8, <2>2
    <3> QED BY <1>3, <1>6, <2>2, <3>1
  <2>3. CASE j > k
    <3>1. PICK y \in k..Len(list) : y = j - 1
      BY <1>3, <2>3
    <3>2. r[j] = list[y] /\ y \in 1..Len(list)
      <4>1. j = y + 1
        BY <3>1
      <4> QED BY <1>3, <4>1
    <3>3. CASE i < k
      <4>1. i \in 1..(k - 1) /\ i \in 1..Len(list) /\ i < y
        BY <3>1, <3>3
      <4>2. r[i] = list[i]
        BY <1>3, <4>1
      <4> QED BY <1>5, <3>2, <4>1, <4>2
    <3>4. CASE i = k
      BY <1>3, <1>7, <3>2, <3>4
    <3>5. CASE i > k
      <4>1. PICK x \in k..Len(list) : x = i - 1
        <5>1. i - 1 \in k..Len(list)
          BY <1>3, <3>5
        <5> QED BY <5>1
      <4>2. r[i] = list[x] /\ x \in 1..Len(list) /\ x < y
        <5>1. i = x + 1
          BY <4>1
        <5> QED BY <1>3, <1>8, <3>1, <4>1, <5>1
      <4> QED BY <1>5, <3>2, <4>2
    <3> QED BY <3>3, <3>4, <3>5
  <2> QED BY <2>1, <2>2, <2>3
<1> QED BY <1>1, <1>8 DEF SortedBy

\* A list by priority: the node is linked once and the order kept.
LEMMA InsertByPriorityInOrder ==
    ASSUME NEW S, NEW key \in [S -> Int], NEW list \in Seq(S), NEW n \in S
    PROVE  /\ InsertByPriority(list, n, key) \in Seq(S)
           /\ ToSet(InsertByPriority(list, n, key)) = ToSet(list) \cup {n}
           /\ LinkedOnce(list) /\ n \notin ToSet(list) => LinkedOnce(InsertByPriority(list, n, key))
           /\ SortedBy(list, key) => SortedBy(InsertByPriority(list, n, key), key)
<1> DEFINE P == {i \in DOMAIN list : key[n] < key[list[i]]}
<1>1. P \in SUBSET (1..Len(list))
  OBVIOUS
<1>2. InsertByPriority(list, n, key) = InsertBeforeFirst(list, P, n)
  BY DEF InsertByPriority
<1>3. key[n] \in Int /\ \A i \in 1..Len(list) : key[list[i]] \in Int
  OBVIOUS
<1>4. \A i \in P : key[n] <= key[list[i]]
  BY <1>3
<1>5. \A i \in (1..Len(list)) \ P : key[list[i]] <= key[n]
  BY <1>3
<1> HIDE DEF P
<1>6. SortedBy(list, key) => SortedBy(InsertBeforeFirst(list, P, n), key)
  BY <1>1, <1>4, <1>5, InsertSorted
<1> QED BY <1>1, <1>2, <1>6, InsertBeforeFirstMembers

\* Taking a node out keeps the order.
LEMMA RemoveSorted ==
    ASSUME NEW S, NEW key, NEW list \in Seq(S), NEW n, SortedBy(list, key)
    PROVE  SortedBy(rt_list_remove(list, n), key)
<1>1. CASE n \notin ToSet(list)
  BY <1>1 DEF rt_list_remove
<1>2. CASE n \in ToSet(list)
  <2>1. \E i \in DOMAIN list : list[i] = n
    BY <1>2 DEF ToSet
  <2> DEFINE k == CHOOSE i \in DOMAIN list : list[i] = n
  <2>2. k \in 1..Len(list)
    BY <2>1
  <2>3. rt_list_remove(list, n) = RemoveAt(list, k)
    BY <1>2 DEF rt_list_remove
  <2> HIDE DEF k
  <2>4. PICK r : r = RemoveAt(list, k)
    OBVIOUS
  <2>5. /\ Len(r) = Len(list) - 1
        /\ \A i \in 1..(Len(list) - 1) : r[i] = IF i < k THEN list[i] ELSE list[i + 1]
    BY <2>2, <2>4, RemoveAtElements
  <2>6. \A i, j \in 1..Len(list) : i < j => key[list[i]] <= key[list[j]]
    BY DEF SortedBy
  <2>7. ASSUME NEW i \in 1..Len(r), NEW j \in 1..Len(r), i < j
        PROVE  key[r[i]] <= key[r[j]]
    <3>1. PICK x \in 1..Len(list) : r[i] = list[x] /\ x = IF i < k THEN i ELSE i + 1
      BY <2>5
    <3>2. PICK y \in 1..Len(list) : r[j] = list[y] /\ y = IF j < k THEN j ELSE j + 1
      BY <2>5
    <3>3. x < y
      BY <2>2, <2>7, <3>1, <3>2
    <3> QED BY <2>6, <3>1, <3>2, <3>3
  <2> QED BY <2>3, <2>4, <2>7 DEF SortedBy
<1> QED BY <1>1, <1>2

LEMMA TailSorted ==
    ASSUME NEW S, NEW key, NEW list \in Seq(S), list # <<>>, SortedBy(list, key)
    PROVE  SortedBy(Tail(list), key)
<1>1. PICK r : r = Tail(list)
  OBVIOUS
<1>2. /\ Len(r) = Len(list) - 1
      /\ \A i \in 1..(Len(list) - 1) : r[i] = list[i + 1]
  BY <1>1
<1>3. \A i, j \in 1..Len(list) : i < j => key[list[i]] <= key[list[j]]
  BY DEF SortedBy
<1>4. ASSUME NEW i \in 1..Len(r), NEW j \in 1..Len(r), i < j
      PROVE  key[r[i]] <= key[r[j]]
  <2>1. i + 1 \in 1..Len(list) /\ j + 1 \in 1..Len(list) /\ i + 1 < j + 1
    BY <1>2, <1>4
  <2> QED BY <1>2, <1>3, <2>1
<1> QED BY <1>1, <1>4 DEF SortedBy
=============================================================================

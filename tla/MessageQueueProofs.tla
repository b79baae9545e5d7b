------------------------- MODULE MessageQueueProofs -------------------------
(***************************************************************************)
(* The message queue keeps its slots together, loses no wakeup and is a    *)
(* bounded first-in first-out channel with urgent messages, for every      *)
(* number of slots, every finite set of threads and every interleaving of  *)
(* their sections and copies.                                              *)
(***************************************************************************)
EXTENDS MessageQueue, RtListProofs, FiniteSetTheorems

\* The i-th slot of a sequence, RT_NULL beyond its end.
Nth(q, i) == IF i \in 1..Len(q) THEN q[i] ELSE Null

\* The pointers nxt lead from p through the slots of q and end there.
Linked(nxt, p, q) ==
    /\ p = Nth(q, 1)
    /\ \A i \in 1..Len(q) : nxt[q[i]] = Nth(q, i + 1)

-----------------------------------------------------------------------------
\* The equation that defines Walk, and that Walk satisfies it as soon as
\* anything does.
IsWalk(nxt, p, W) ==
    W = [n \in 0..MaxMsgs |->
            IF n = 0 THEN p ELSE IF W[n - 1] = Null THEN Null ELSE nxt[W[n - 1]]]

LEMMA WalkDefined ==
    ASSUME NEW nxt, NEW p, NEW V, IsWalk(nxt, p, V)
    PROVE  IsWalk(nxt, p, Walk(nxt, p))
<1>1. Walk(nxt, p) = CHOOSE W : IsWalk(nxt, p, W)
  BY DEF Walk, IsWalk
<1> QED BY <1>1

\* A sequence that holds no slot twice is no longer than the pool, and shorter
\* if a slot is not in it.
LEMMA PoolBound ==
    ASSUME NEW q \in Seq(Slots), LinkedOnce(q)
    PROVE  /\ Len(q) <= MaxMsgs
           /\ \A s \in Slots : s \notin ToSet(q) => Len(q) < MaxMsgs
<1>0. MaxMsgs \in Nat \ {0} /\ Len(q) \in Nat
  BY QueueAssumption
<1>1. IsFiniteSet(Slots) /\ Cardinality(Slots) = MaxMsgs
  BY <1>0, FS_Interval DEF Slots
<1>2. IsFiniteSet(1..Len(q)) /\ Cardinality(1..Len(q)) = Len(q)
  BY <1>0, FS_Interval
<1>3. DOMAIN q = 1..Len(q) /\ q \in [1..Len(q) -> Slots]
  OBVIOUS
<1>4. q \in Injection(1..Len(q), Slots)
  BY <1>3 DEF Injection, IsInjective, LinkedOnce
<1>5. Cardinality(1..Len(q)) <= Cardinality(Slots)
  BY <1>1, <1>4, FS_Injection
<1>6. ASSUME NEW s \in Slots, s \notin ToSet(q) PROVE Len(q) < MaxMsgs
  <2>1. ~(q \in Surjection(1..Len(q), Slots))
    BY <1>3, <1>6 DEF Surjection, ToSet
  <2>2. ~(Cardinality(1..Len(q)) = Cardinality(Slots))
    BY <1>1, <1>4, <2>1, FS_Injection
  <2> QED BY <1>0, <1>1, <1>2, <1>5, <2>2
<1> QED BY <1>1, <1>2, <1>5, <1>6

\* The chain that starts at p is the sequence the pointers lead through.
LEMMA ChainIs ==
    ASSUME NEW nxt, NEW p, NEW q \in Seq(Slots), LinkedOnce(q), Linked(nxt, p, q)
    PROVE  Chain(nxt, p) = q
<1>0. /\ MaxMsgs \in Nat \ {0} /\ Len(q) \in Nat /\ Len(q) <= MaxMsgs
      /\ \A i \in 1..Len(q) : q[i] # Null
  BY PoolBound, QueueAssumption DEF Slots
<1> DEFINE V == [n \in 0..MaxMsgs |-> Nth(q, n + 1)]
           W == Walk(nxt, p)
<1>1. IsWalk(nxt, p, V)
  <2>1. ASSUME NEW n \in 0..MaxMsgs
        PROVE  V[n] = IF n = 0 THEN p ELSE IF V[n - 1] = Null THEN Null ELSE nxt[V[n - 1]]
    <3>1. CASE n = 0
      BY <3>1 DEF Linked
    <3>2. CASE n # 0
      <4>1. n - 1 \in 0..MaxMsgs /\ V[n - 1] = Nth(q, n) /\ V[n] = Nth(q, n + 1)
        BY <1>0, <3>2
      <4>2. CASE n \in 1..Len(q)
        <5>1. Nth(q, n) = q[n] /\ q[n] # Null
          BY <1>0, <4>2 DEF Nth
        <5>2. nxt[q[n]] = Nth(q, n + 1)
          BY <4>2 DEF Linked
        <5> QED BY <3>2, <4>1, <5>1, <5>2
      <4>3. CASE n \notin 1..Len(q)
        <5>1. Nth(q, n) = Null /\ Nth(q, n + 1) = Null
          BY <1>0, <3>2, <4>3 DEF Nth
        <5> QED BY <3>2, <4>1, <5>1
      <4> QED BY <4>2, <4>3
    <3> QED BY <3>1, <3>2
  <2> HIDE DEF V
  <2>2. V = [n \in 0..MaxMsgs |-> V[n]]
    BY DEF V
  <2> QED BY <2>1, <2>2 DEF IsWalk
<1>2. IsWalk(nxt, p, W)
  BY <1>1, WalkDefined
<1> HIDE DEF W
<1>3. \A n \in 0..MaxMsgs : W[n] = V[n]
  <2> DEFINE G == {n \in 0..MaxMsgs : W[n] # V[n]}
  <2>1. SUFFICES ASSUME G # {} PROVE FALSE
    OBVIOUS
  <2>2. G \in SUBSET Nat
    BY <1>0
  <2>3. PICK n \in G : \A k \in G : n <= k
    BY <2>1, <2>2, LeastExists
  <2>4. n \in 0..MaxMsgs /\ W[n] # V[n]
    OBVIOUS
  <2> HIDE DEF V
  <2>5. /\ W[n] = IF n = 0 THEN p ELSE IF W[n - 1] = Null THEN Null ELSE nxt[W[n - 1]]
        /\ V[n] = IF n = 0 THEN p ELSE IF V[n - 1] = Null THEN Null ELSE nxt[V[n - 1]]
    BY <1>1, <1>2, <2>4 DEF IsWalk
  <2>6. n # 0 /\ W[n - 1] # V[n - 1]
    BY <2>4, <2>5
  <2>7. n - 1 \in 0..MaxMsgs
    BY <1>0, <2>4, <2>6
  <2>8. n - 1 \in G
    BY <2>6, <2>7
  <2> QED BY <2>2, <2>3, <2>8
<1>4. {n \in 0..MaxMsgs : W[n] # Null} = 0..(Len(q) - 1)
  BY <1>0, <1>3 DEF Nth
<1>5. Cardinality(0..(Len(q) - 1)) = Len(q)
  <2>1. 0 \in Int /\ Len(q) - 1 \in Int
    BY <1>0
  <2>2. Cardinality(0..(Len(q) - 1)) = IF 0 > Len(q) - 1 THEN 0 ELSE Len(q) - 1 - 0 + 1
    BY <2>1, FS_Interval
  <2> QED BY <1>0, <2>2
<1>6. Chain(nxt, p) = [i \in 1..Len(q) |-> W[i - 1]]
  BY <1>4, <1>5 DEF Chain, W
<1>7. \A i \in 1..Len(q) : W[i - 1] = q[i]
  BY <1>0, <1>3 DEF Nth
<1>8. Chain(nxt, p) = [i \in 1..Len(q) |-> q[i]]
  BY <1>6, <1>7
<1> QED BY <1>8

-----------------------------------------------------------------------------
\* A chain lives in the pointers of its own slots.
LEMMA LinkedElsewhere ==
    ASSUME NEW nxt, NEW other, NEW p, NEW q \in Seq(Slots), Linked(nxt, p, q),
           \A s \in ToSet(q) : other[s] = nxt[s]
    PROVE  Linked(other, p, q)
<1>1. \A i \in 1..Len(q) : q[i] \in ToSet(q)
  BY DEF ToSet
<1> QED BY <1>1 DEF Linked

\* Without its first slot.
LEMMA LinkedTail ==
    ASSUME NEW nxt, NEW p, NEW q \in Seq(Slots), Linked(nxt, p, q), p # Null
    PROVE  q # <<>> /\ p = Head(q) /\ Linked(nxt, nxt[p], Tail(q))
<1>1. q # <<>> /\ p = q[1] /\ Len(q) \in Nat \ {0}
  BY DEF Linked, Nth
<1>2. /\ Len(Tail(q)) = Len(q) - 1
      /\ \A i \in 1..(Len(q) - 1) : Tail(q)[i] = q[i + 1]
  BY <1>1
<1>3. \A i \in 1..Len(q) : Nth(Tail(q), i) = Nth(q, i + 1)
  BY <1>1, <1>2 DEF Nth
<1>4. nxt[p] = Nth(Tail(q), 1)
  BY <1>1, <1>3 DEF Linked
<1>5. \A i \in 1..Len(Tail(q)) : nxt[Tail(q)[i]] = Nth(Tail(q), i + 1)
  <2> SUFFICES ASSUME NEW i \in 1..(Len(q) - 1)
               PROVE  nxt[Tail(q)[i]] = Nth(Tail(q), i + 1)
    BY <1>2
  <2>1. i + 1 \in 1..Len(q) /\ Tail(q)[i] = q[i + 1]
    BY <1>1, <1>2
  <2> QED BY <1>3, <2>1 DEF Linked
<1> QED BY <1>1, <1>4, <1>5 DEF Linked

\* With a slot in front.
LEMMA LinkedPush ==
    ASSUME NEW nxt, NEW p, NEW q \in Seq(Slots), NEW s \in Slots, s \notin ToSet(q),
           Linked(nxt, p, q), DOMAIN nxt = Slots, nxt = [k \in Slots |-> nxt[k]]
    PROVE  /\ <<s>> \o q \in Seq(Slots)
           /\ ToSet(<<s>> \o q) = ToSet(q) \cup {s}
           /\ LinkedOnce(q) => LinkedOnce(<<s>> \o q)
           /\ Linked([nxt EXCEPT ![s] = p], s, <<s>> \o q)
<1> DEFINE r == <<s>> \o q
           n2 == [nxt EXCEPT ![s] = p]
<1>1. /\ r \in Seq(Slots) /\ Len(r) = Len(q) + 1 /\ Len(q) \in Nat
      /\ r[1] = s
      /\ \A i \in 2..(Len(q) + 1) : r[i] = q[i - 1]
  BY ConcatProperties
<1>2. n2[s] = p /\ \A k \in Slots \ {s} : n2[k] = nxt[k]
  OBVIOUS
<1> HIDE DEF r, n2
<1>3. \A i \in 1..Len(q) : q[i] \in ToSet(q) /\ q[i] \in Slots \ {s} /\ i + 1 \in 2..(Len(q) + 1)
  BY <1>1 DEF ToSet
<1>4. DOMAIN r = 1..(Len(q) + 1) /\ DOMAIN q = 1..Len(q)
  BY <1>1
<1>5. ToSet(r) = ToSet(q) \cup {s}
  <2>1. ASSUME NEW x \in ToSet(r) PROVE x \in ToSet(q) \cup {s}
    <3>1. PICK i \in 1..(Len(q) + 1) : r[i] = x
      BY <1>4 DEF ToSet
    <3>2. i = 1 \/ (i - 1 \in 1..Len(q) /\ r[i] = q[i - 1])
      BY <1>1
    <3> QED BY <1>1, <1>3, <3>1, <3>2
  <2>2. ASSUME NEW x \in ToSet(q) PROVE x \in ToSet(r)
    <3>1. PICK i \in 1..Len(q) : q[i] = x
      BY DEF ToSet
    <3>2. i + 1 \in DOMAIN r /\ r[i + 1] = x
      BY <1>1, <1>3, <1>4, <3>1
    <3> QED BY <3>2 DEF ToSet
  <2>3. s \in ToSet(r)
    BY <1>1, <1>4 DEF ToSet
  <2> QED BY <2>1, <2>2, <2>3
<1>6. LinkedOnce(q) => LinkedOnce(r)
  <2> SUFFICES ASSUME LinkedOnce(q), NEW i \in 1..(Len(q) + 1), NEW j \in 1..(Len(q) + 1),
                      r[i] = r[j]
               PROVE  i = j
    BY <1>4 DEF LinkedOnce
  <2>1. /\ i = 1 \/ (i - 1 \in 1..Len(q) /\ r[i] = q[i - 1])
        /\ j = 1 \/ (j - 1 \in 1..Len(q) /\ r[j] = q[j - 1])
    BY <1>1
  <2> QED BY <1>1, <1>3, <2>1 DEF LinkedOnce
<1>7. \A i \in 1..(Len(q) + 1) : Nth(r, i + 1) = Nth(q, i)
  BY <1>1 DEF Nth
<1>8. Linked(n2, s, r)
  <2>1. s = Nth(r, 1)
    BY <1>1 DEF Nth
  <2>2. ASSUME NEW i \in 1..(Len(q) + 1) PROVE n2[r[i]] = Nth(r, i + 1)
    <3>1. CASE i = 1
      BY <1>1, <1>2, <1>7, <3>1 DEF Linked
    <3>2. CASE i # 1
      <4>1. i - 1 \in 1..Len(q) /\ r[i] = q[i - 1]
        BY <1>1, <3>2
      <4>2. nxt[q[i - 1]] = Nth(q, i)
        BY <1>1, <4>1 DEF Linked
      <4> QED BY <1>2, <1>3, <1>7, <4>1, <4>2
    <3> QED BY <3>1, <3>2
  <2> QED BY <1>1, <2>1, <2>2 DEF Linked
<1> QED BY <1>1, <1>5, <1>6, <1>8 DEF r, n2

\* With a slot behind: the last slot, if there is one, points to it.
LEMMA LinkedAppend ==
    ASSUME NEW nxt, NEW p, NEW q \in Seq(Slots), NEW s \in Slots, s \notin ToSet(q),
           LinkedOnce(q), Linked(nxt, p, q), DOMAIN nxt = Slots,
           nxt = [k \in Slots |-> nxt[k]], nxt[s] = Null
    PROVE  /\ Append(q, s) \in Seq(Slots)
           /\ ToSet(Append(q, s)) = ToSet(q) \cup {s}
           /\ LinkedOnce(Append(q, s))
           /\ Linked(IF q = <<>> THEN nxt ELSE [nxt EXCEPT ![q[Len(q)]] = s],
                     IF q = <<>> THEN s ELSE p, Append(q, s))
<1> DEFINE r == Append(q, s)
           n2 == IF q = <<>> THEN nxt ELSE [nxt EXCEPT ![q[Len(q)]] = s]
<1>1. /\ r \in Seq(Slots) /\ Len(r) = Len(q) + 1 /\ Len(q) \in Nat
      /\ \A i \in 1..Len(q) : r[i] = q[i]
      /\ r[Len(q) + 1] = s
  BY AppendProperties
<1>2. ToSet(r) = ToSet(q) \cup {s} /\ LinkedOnce(r)
  <2>1. r = InsertBeforeFirst(q, {}, s)
    BY DEF InsertBeforeFirst
  <2> HIDE DEF r
  <2> QED BY <2>1, InsertBeforeFirstMembers
<1>3. \A i \in 1..Len(q) : q[i] \in Slots /\ q[i] # s
  BY DEF ToSet
<1>4. \A i \in 1..(Len(q) - 1) : q[i] # q[Len(q)]
  BY <1>1 DEF LinkedOnce
<1>5. /\ n2[s] = Null
      /\ q # <<>> => n2[q[Len(q)]] = s
      /\ \A i \in 1..(Len(q) - 1) : n2[q[i]] = nxt[q[i]]
  <2>1. CASE q = <<>>
    BY <1>1, <2>1
  <2>2. CASE q # <<>>
    <3>1. Len(q) \in 1..Len(q) /\ q[Len(q)] \in Slots /\ q[Len(q)] # s
      BY <1>1, <1>3, <2>2
    <3>2. n2 = [nxt EXCEPT ![q[Len(q)]] = s]
      BY <2>2
    <3> HIDE DEF n2
    <3>3. n2[q[Len(q)]] = s /\ \A k \in Slots \ {q[Len(q)]} : n2[k] = nxt[k]
      BY <3>1, <3>2
    <3>4. \A i \in 1..(Len(q) - 1) : q[i] \in Slots \ {q[Len(q)]}
      BY <1>1, <1>3, <1>4
    <3> QED BY <3>1, <3>3, <3>4
  <2> QED BY <2>1, <2>2
<1> HIDE DEF r, n2
<1>6. ASSUME NEW i \in 1..(Len(q) + 1) PROVE n2[r[i]] = Nth(r, i + 1)
  <2>1. CASE i = Len(q) + 1
    BY <1>1, <1>5, <2>1 DEF Nth
  <2>2. CASE i = Len(q)
    <3>1. q # <<>> /\ r[i] = q[Len(q)] /\ Nth(r, i + 1) = s
      BY <1>1, <2>2 DEF Nth
    <3> QED BY <1>5, <3>1
  <2>3. CASE i < Len(q)
    <3>1. i \in 1..(Len(q) - 1) /\ i \in 1..Len(q) /\ i + 1 \in 1..Len(q)
      BY <1>1, <2>3
    <3>2. r[i] = q[i] /\ Nth(r, i + 1) = q[i + 1] /\ Nth(q, i + 1) = q[i + 1]
      BY <1>1, <3>1 DEF Nth
    <3> QED BY <1>5, <3>1, <3>2 DEF Linked
  <2> QED BY <1>1, <2>1, <2>2, <2>3
<1>7. (IF q = <<>> THEN s ELSE p) = Nth(r, 1)
  <2>1. CASE q = <<>>
    BY <1>1, <2>1 DEF Nth
  <2>2. CASE q # <<>>
    <3>1. 1 \in 1..Len(q) /\ Nth(q, 1) = q[1] /\ Nth(r, 1) = r[1]
      BY <1>1, <2>2 DEF Nth
    <3> QED BY <1>1, <2>2, <3>1 DEF Linked
  <2> QED BY <2>1, <2>2
<1> QED BY <1>1, <1>2, <1>6, <1>7 DEF Linked, r, n2

\* The queue moved slot by slot in front of the free list: its last slot comes
\* first.
Moved(q, f) ==
    [i \in 1..(Len(q) + Len(f)) |-> IF i <= Len(q) THEN q[Len(q) + 1 - i] ELSE f[i - Len(q)]]

LEMMA LinkedMoved ==
    ASSUME NEW nxt, NEW other, NEW p, NEW g, NEW q \in Seq(Slots), NEW f \in Seq(Slots),
           LinkedOnce(q), LinkedOnce(f), ToSet(q) \cap ToSet(f) = {},
           Linked(nxt, p, q), Linked(nxt, g, f),
           \A s \in ToSet(f) : other[s] = nxt[s],
           \A i \in 1..Len(q) : other[q[i]] = IF i = 1 THEN g ELSE q[i - 1]
    PROVE  /\ Moved(q, f) \in Seq(Slots)
           /\ ToSet(Moved(q, f)) = ToSet(q) \cup ToSet(f)
           /\ LinkedOnce(Moved(q, f))
           /\ Linked(other, IF q = <<>> THEN g ELSE q[Len(q)], Moved(q, f))
<1> DEFINE r == Moved(q, f)
           m == Len(q)
           n == Len(f)
<1>1. /\ m \in Nat /\ n \in Nat
      /\ \A i \in 1..m : q[i] \in Slots /\ q[i] \in ToSet(q)
      /\ \A i \in 1..n : f[i] \in Slots /\ f[i] \in ToSet(f)
      /\ DOMAIN q = 1..m /\ DOMAIN f = 1..n
  BY DEF ToSet
<1>2. /\ \A i \in 1..m : i \in 1..(m + n) /\ m + 1 - i \in 1..m
      /\ \A i \in (m + 1)..(m + n) : i \in 1..(m + n) /\ i - m \in 1..n
      /\ \A i \in 1..(m + n) : i \in 1..m \/ i \in (m + 1)..(m + n)
  BY <1>1
<1>3. r = [i \in 1..(m + n) |-> IF i <= m THEN q[m + 1 - i] ELSE f[i - m]]
  BY DEF Moved
<1> HIDE DEF r, m, n
<1>4. /\ \A i \in 1..m : r[i] = q[m + 1 - i]
      /\ \A i \in (m + 1)..(m + n) : r[i] = f[i - m]
  BY <1>1, <1>2, <1>3
<1>5. \A i \in 1..(m + n) : r[i] \in Slots
  BY <1>1, <1>2, <1>4
<1>6. r \in Seq(Slots) /\ Len(r) = m + n /\ DOMAIN r = 1..(m + n)
  <2>1. r \in [1..(m + n) -> Slots] /\ m + n \in Nat /\ DOMAIN r = 1..(m + n)
    BY <1>1, <1>3, <1>5
  <2> QED BY <2>1
<1>7. ToSet(r) = ToSet(q) \cup ToSet(f)
  <2>1. ASSUME NEW x \in ToSet(r) PROVE x \in ToSet(q) \cup ToSet(f)
    <3>1. PICK i \in 1..(m + n) : r[i] = x
      BY <1>6 DEF ToSet
    <3> QED BY <1>1, <1>2, <1>4, <3>1
  <2>2. ASSUME NEW x \in ToSet(q) PROVE x \in ToSet(r)
    <3>1. PICK i \in 1..m : q[i] = x
      BY <1>1 DEF ToSet
    <3>2. m + 1 - i \in 1..m /\ m + 1 - (m + 1 - i) = i
      BY <1>1
    <3>3. m + 1 - i \in DOMAIN r /\ r[m + 1 - i] = x
      BY <1>2, <1>4, <1>6, <3>1, <3>2
    <3> QED BY <3>3 DEF ToSet
  <2>3. ASSUME NEW x \in ToSet(f) PROVE x \in ToSet(r)
    <3>1. PICK i \in 1..n : f[i] = x
      BY <1>1 DEF ToSet
    <3>2. m + i \in (m + 1)..(m + n) /\ (m + i) - m = i
      BY <1>1
    <3>3. m + i \in DOMAIN r /\ r[m + i] = x
      BY <1>2, <1>4, <1>6, <3>1, <3>2
    <3> QED BY <3>3 DEF ToSet
  <2> QED BY <2>1, <2>2, <2>3
<1>8. LinkedOnce(r)
  <2> SUFFICES ASSUME NEW i \in 1..(m + n), NEW j \in 1..(m + n), r[i] = r[j]
               PROVE  i = j
    BY <1>6 DEF LinkedOnce
  <2>1. CASE i \in 1..m /\ j \in 1..m
    <3>1. m + 1 - i \in DOMAIN q /\ m + 1 - j \in DOMAIN q /\ q[m + 1 - i] = q[m + 1 - j]
      BY <1>1, <1>2, <1>4, <2>1
    <3>2. m + 1 - i = m + 1 - j
      BY <3>1 DEF LinkedOnce
    <3> QED BY <1>1, <3>2
  <2>2. CASE i \in (m + 1)..(m + n) /\ j \in (m + 1)..(m + n)
    <3>1. i - m \in DOMAIN f /\ j - m \in DOMAIN f /\ f[i - m] = f[j - m]
      BY <1>1, <1>2, <1>4, <2>2
    <3>2. i - m = j - m
      BY <3>1 DEF LinkedOnce
    <3> QED BY <1>1, <3>2
  <2>3. CASE i \in 1..m /\ j \in (m + 1)..(m + n)
    BY <1>1, <1>2, <1>4, <2>3
  <2>4. CASE i \in (m + 1)..(m + n) /\ j \in 1..m
    BY <1>1, <1>2, <1>4, <2>4
  <2> QED BY <1>2, <2>1, <2>2, <2>3, <2>4
<1>9. (IF q = <<>> THEN g ELSE q[m]) = Nth(r, 1)
  <2>1. CASE q = <<>>
    <3>1. m = 0
      BY <2>1 DEF m
    <3>2. Nth(r, 1) = Nth(f, 1)
      BY <1>1, <1>4, <1>6, <3>1 DEF Nth, n
    <3> QED BY <2>1, <3>2 DEF Linked
  <2>2. CASE q # <<>>
    <3>1. m # 0
      BY <2>2 DEF m
    <3>2. 1 \in 1..m /\ 1 \in 1..(m + n) /\ m + 1 - 1 = m
      BY <1>1, <3>1
    <3> QED BY <1>4, <1>6, <2>2, <3>2 DEF Nth
  <2> QED BY <2>1, <2>2
<1>10. ASSUME NEW i \in 1..(m + n) PROVE other[r[i]] = Nth(r, i + 1)
  <2>1. CASE i \in (m + 1)..(m + n)
    <3>1. i - m \in 1..n /\ r[i] = f[i - m]
      BY <1>2, <1>4, <2>1
    <3>2. other[r[i]] = Nth(f, i - m + 1)
      BY <1>1, <3>1 DEF Linked, n
    <3>3. Nth(f, i - m + 1) = Nth(r, i + 1)
      <4>1. CASE i = m + n
        BY <1>1, <1>6, <4>1 DEF Nth, n
      <4>2. CASE i # m + n
        <5>0. i \in Int /\ m + 1 <= i /\ i < m + n
          BY <1>1, <2>1, <4>2
        <5>1. /\ i + 1 \in (m + 1)..(m + n) /\ i + 1 \in 1..(m + n)
              /\ (i + 1) - m = i - m + 1 /\ i - m + 1 \in 1..n
          BY <1>1, <5>0
        <5> QED BY <1>4, <1>6, <5>1 DEF Nth, n
      <4> QED BY <4>1, <4>2
    <3> QED BY <3>2, <3>3
  <2>2. CASE i \in 1..m
    <3>1. m + 1 - i \in 1..m /\ r[i] = q[m + 1 - i]
      BY <1>2, <1>4, <2>2
    <3>2. CASE i = m
      <4>1. other[r[i]] = g
        BY <1>1, <3>1, <3>2 DEF m
      <4>2. Nth(r, i + 1) = Nth(f, 1)
        <5>1. CASE n = 0
          BY <1>1, <1>6, <3>2, <5>1 DEF Nth, n
        <5>2. CASE n # 0
          <6>1. m + 1 \in (m + 1)..(m + n) /\ (m + 1) - m = 1 /\ m + 1 \in 1..(m + n) /\ 1 \in 1..n
            BY <1>1, <5>2
          <6> QED BY <1>4, <1>6, <3>2, <6>1 DEF Nth, n
        <5> QED BY <5>1, <5>2
      <4> QED BY <4>1, <4>2 DEF Linked
    <3>3. CASE i # m
      <4>1. i + 1 \in 1..m /\ m + 1 - (i + 1) = m + 1 - i - 1 /\ m + 1 - i # 1 /\ i + 1 \in 1..(m + n)
        BY <1>1, <2>2, <3>3
      <4>2. other[r[i]] = q[m + 1 - i - 1]
        BY <1>1, <3>1, <4>1 DEF m
      <4>3. r[i + 1] = q[m + 1 - (i + 1)] /\ Nth(r, i + 1) = r[i + 1]
        BY <1>4, <1>6, <4>1 DEF Nth
      <4> QED BY <4>1, <4>2, <4>3
    <3> QED BY <3>2, <3>3
  <2> QED BY <1>2, <2>1, <2>2
<1>11. Linked(other, IF q = <<>> THEN g ELSE q[m], r)
  BY <1>6, <1>9, <1>10 DEF Linked
<1> QED BY <1>6, <1>7, <1>8, <1>11 DEF r, m

-----------------------------------------------------------------------------
\* Where a thread stands in a call, by what it holds or waits for.
SendLabels == {"send_copy", "urgent_copy", "send_link", "urgent_link"}
HoldLabels == SendLabels \cup {"recv_free"}
WaitLabels == {"wait", "timed_wait"}

\* The receivers that were woken and have not looked at the queue yet.
Woken == {t \in Threads : stat[t] = "READY" /\ error[t] = "EOK" /\ pc[t] \in WaitLabels}

WaitTypes ==
    /\ stat \in [Threads -> {"READY", "SUSPEND"}]
    /\ error \in [Threads -> Errors]
    /\ pc \in [Threads -> {"run"} \cup HoldLabels \cup WaitLabels]
    /\ entry \in Nat
    /\ suspend_thread \in Seq(Threads)

\* The threads of the list are suspended in rt_mq_recv, and a reason to wake
\* them has not been given yet.
ReceiversQueued ==
    /\ LinkedOnce(suspend_thread)
    /\ \A t \in ToSet(suspend_thread) :
          stat[t] = "SUSPEND" /\ pc[t] \in WaitLabels /\ error[t] = "EOK"

\* Only suspended threads have a running timer.
TimersOfSuspended == \A t \in thread_timer : t \in Threads => stat[t] = "SUSPEND"

\* The inductive invariant of the waits.
WaitInv ==
    /\ WaitTypes
    /\ ReceiversQueued
    /\ TimersOfSuspended
    /\ suspend_thread # <<>> => entry <= Cardinality(Woken)

\* rt_ipc_list_suspend links the thread once.
LEMMA SuspendList ==
    ASSUME NEW list \in Seq(Threads), NEW t \in Threads
    PROVE  LET r == rt_ipc_list_suspend(list, t, Prio)
           IN  /\ r \in Seq(Threads)
               /\ ToSet(r) = ToSet(list) \cup {t}
               /\ LinkedOnce(list) /\ t \notin ToSet(list) => LinkedOnce(r)
<1>1. CASE PrioFlag
  <2>1. rt_ipc_list_suspend(list, t, Prio) = InsertByPriority(list, t, Prio)
    BY <1>1 DEF rt_ipc_list_suspend
  <2>2. Prio \in [Threads -> Int]
    BY IpcAssumption
  <2> QED BY <2>1, <2>2, InsertByPriorityInOrder
<1>2. CASE ~PrioFlag
  <2>1. rt_ipc_list_suspend(list, t, Prio) = InsertBeforeFirst(list, {}, t)
    BY <1>2 DEF rt_ipc_list_suspend, rt_list_insert_before, InsertBeforeFirst
  <2> QED BY <2>1, InsertBeforeFirstMembers
<1> QED BY <1>1, <1>2

\* Sets of threads can be counted, and one thread more or less counts as one.
LEMMA ThreadsCount ==
    ASSUME NEW S \in SUBSET Threads, NEW t \in Threads
    PROVE  /\ Cardinality(S) \in Nat
           /\ Cardinality(S \ {t}) \in Nat /\ Cardinality(S) - 1 <= Cardinality(S \ {t})
           /\ t \notin S => Cardinality(S \cup {t}) = Cardinality(S) + 1
<1>1. IsFiniteSet(S) /\ IsFiniteSet(S \ {t})
  BY QueueAssumption, FS_Subset
<1>2. Cardinality(S) \in Nat /\ Cardinality(S \ {t}) \in Nat
  BY <1>1, FS_CardinalityType
<1>3. t \in S => Cardinality(S \ {t}) = Cardinality(S) - 1
  BY <1>1, FS_RemoveElement
<1>4. t \notin S => S \ {t} = S
  OBVIOUS
<1>5. t \notin S => Cardinality(S \cup {t}) = Cardinality(S) + 1
  BY <1>1, FS_AddElement
<1> QED BY <1>2, <1>3, <1>4, <1>5

\* The waits at the start ...
LEMMA WaitInitially == Init => WaitInv
<1> SUFFICES ASSUME Init PROVE WaitInv
  OBVIOUS
<1> USE DEF Init, IpcInit, rt_ipc_object_init
<1>1. suspend_thread = <<>> /\ suspend_thread \in Seq(Threads)
  OBVIOUS
<1>2. WaitTypes
  BY <1>1 DEF WaitTypes, Errors
<1>3. ReceiversQueued /\ TimersOfSuspended
  BY <1>1 DEF ReceiversQueued, LinkedOnce, ToSet, TimersOfSuspended
<1> QED BY <1>1, <1>2, <1>3 DEF WaitInv

\* ... and after every step.
LEMMA WaitStep == WaitInv /\ [Next]_vars => WaitInv'
<1> SUFFICES ASSUME WaitInv, [Next]_vars
             PROVE  WaitInv'
  OBVIOUS
<1>1. /\ stat \in [Threads -> {"READY", "SUSPEND"}]
      /\ error \in [Threads -> Errors]
      /\ pc \in [Threads -> {"run"} \cup HoldLabels \cup WaitLabels]
      /\ entry \in Nat
      /\ suspend_thread \in Seq(Threads)
  BY DEF WaitInv, WaitTypes
<1> DEFINE R == ToSet(suspend_thread)
<1>2. /\ LinkedOnce(suspend_thread) /\ R \subseteq Threads
      /\ \A t \in R : stat[t] = "SUSPEND" /\ pc[t] \in WaitLabels /\ error[t] = "EOK"
  BY <1>1 DEF WaitInv, ReceiversQueued, ToSet
<1>3. \A t \in thread_timer : t \in Threads => stat[t] = "SUSPEND"
  BY DEF WaitInv, TimersOfSuspended
<1>4. suspend_thread # <<>> => entry <= Cardinality(Woken)
  BY DEF WaitInv
<1>5. Woken \in SUBSET Threads /\ Cardinality(Woken) \in Nat
  <2>1. Woken \in SUBSET Threads /\ IsFiniteSet(Woken)
    BY QueueAssumption, FS_Subset DEF Woken
  <2> QED BY <2>1, FS_CardinalityType
<1>6. Woken' \in SUBSET Threads /\ Cardinality(Woken') \in Nat
  <2>1. Woken' \in SUBSET Threads /\ IsFiniteSet(Woken')
    BY QueueAssumption, FS_Subset DEF Woken
  <2> QED BY <2>1, FS_CardinalityType
<1> HIDE DEF R
\* A ready thread moves on and nobody is suspended or woken.  If it was woken
\* to receive, it takes a message or finds none.
<1>7. ASSUME NEW t \in Threads, stat[t] = "READY",
             UNCHANGED <<stat, thread_timer, suspend_thread>>,
             error' \in [Threads -> Errors], \A u \in Threads \ {t} : error'[u] = error[u],
             NEW label \in {"run"} \cup HoldLabels, pc' = [pc EXCEPT ![t] = label],
             \/ entry' = entry /\ t \notin Woken
             \/ entry' = entry /\ entry = 0
             \/ entry' = entry - 1 /\ entry # 0
      PROVE  WaitInv'
  <2> USE <1>7
  <2>1. /\ t \notin R
        /\ \A u \in Threads \ {t} : pc'[u] = pc[u]
        /\ pc'[t] = label /\ label \notin WaitLabels
    BY <1>1, <1>2 DEF WaitLabels, HoldLabels, SendLabels
  <2>2. WaitTypes'
    <3>1. entry' \in Nat
      BY <1>1
    <3> QED BY <1>1, <3>1 DEF WaitTypes
  <2>3. ReceiversQueued' /\ TimersOfSuspended'
    BY <1>2, <1>3, <2>1 DEF ReceiversQueued, TimersOfSuspended, R
  <2>4. Woken' = Woken \ {t}
    BY <2>1 DEF Woken
  <2>5. Cardinality(Woken) - 1 <= Cardinality(Woken \ {t})
        /\ Cardinality(Woken \ {t}) \in Nat
    BY <1>5, ThreadsCount
  <2>6. t \notin Woken => Cardinality(Woken \ {t}) = Cardinality(Woken)
    <3>1. t \notin Woken => Woken \ {t} = Woken
      OBVIOUS
    <3> QED BY <3>1
  <2>7. Cardinality(Woken') = Cardinality(Woken \ {t})
    BY <2>4
  <2>8. suspend_thread' # <<>> => entry' <= Cardinality(Woken')
    BY <1>1, <1>4, <1>5, <1>6, <2>5, <2>6, <2>7
  <2> QED BY <2>2, <2>3, <2>8 DEF WaitInv
\* One step per action.
<1>10. CASE UNCHANGED vars
  <2>1. Woken' = Woken
    BY <1>10 DEF vars, ipcVars, Woken
  <2> QED BY <1>1, <1>2, <1>3, <1>4, <1>10, <2>1 DEF vars, ipcVars, queueVars, WaitInv, WaitTypes,
             ReceiversQueued, TimersOfSuspended, R
<1>11. ASSUME NEW t \in Threads, NEW m, NEW label \in {"send_copy", "urgent_copy"},
              SendTakeSlot(t, m, label)
       PROVE  WaitInv'
  <2>1. label \in {"run"} \cup HoldLabels /\ t \notin Woken
    BY <1>11 DEF SendTakeSlot, At, HoldLabels, SendLabels, Woken, WaitLabels
  <2> QED BY <1>1, <1>7, <1>11, <2>1 DEF SendTakeSlot, At, Goto
<1>12. ASSUME NEW t \in Threads, SendCopy(t) PROVE WaitInv'
  <2> DEFINE label == IF pc[t] = "send_copy" THEN "send_link" ELSE "urgent_link"
  <2>1. label \in {"run"} \cup HoldLabels /\ t \notin Woken
    BY <1>12 DEF SendCopy, At, HoldLabels, SendLabels, Woken, WaitLabels
  <2>2. pc' = [pc EXCEPT ![t] = label]
    BY <1>12 DEF SendCopy, Goto
  <2> HIDE DEF label
  <2> QED BY <1>1, <1>7, <1>12, <2>1, <2>2 DEF SendCopy, At
<1>13. ASSUME NEW t \in Threads, SendLink(t) PROVE WaitInv'
  <2>1. /\ entry' = entry + 1 /\ WakeReceiver
        /\ pc' = [pc EXCEPT ![t] = "run"]
        /\ stat[t] = "READY" /\ pc[t] \in SendLabels /\ t \notin Woken
    BY <1>13 DEF SendLink, At, Goto, SendLabels, Woken, WaitLabels
  <2>2. \A u \in Threads \ {t} : pc'[u] = pc[u]
    BY <1>1, <2>1
  <2>3. pc'[t] = "run" /\ t \notin R
    BY <1>1, <1>2, <2>1
  <2>4. CASE suspend_thread = <<>>
    <3>1. UNCHANGED <<stat, error, thread_timer, suspend_thread>>
      BY <2>1, <2>4 DEF WakeReceiver, rt_list_isempty
    <3>2. WaitTypes'
      BY <1>1, <2>1, <3>1 DEF WaitTypes
    <3>3. ReceiversQueued' /\ TimersOfSuspended'
      BY <1>2, <1>3, <2>2, <2>3, <3>1 DEF ReceiversQueued, TimersOfSuspended, R
    <3> QED BY <2>4, <3>1, <3>2, <3>3 DEF WaitInv
  <2>5. CASE suspend_thread # <<>>
    <3> DEFINE h == Head(suspend_thread)
    <3>1. /\ stat' = [stat EXCEPT ![h] = "READY"]
          /\ thread_timer' = thread_timer \ {h}
          /\ error' = error
          /\ suspend_thread' = Tail(suspend_thread)
      BY <2>1, <2>5 DEF WakeReceiver, rt_list_isempty, Resume
    <3>2. /\ h \in R /\ h \in Threads /\ suspend_thread' \in Seq(Threads)
          /\ LinkedOnce(suspend_thread') /\ h \notin ToSet(suspend_thread')
          /\ R = ToSet(suspend_thread') \cup {h}
      BY <1>1, <1>2, <2>5, <3>1, TailMembers DEF R
    <3> HIDE DEF h
    <3>3. \A u \in Threads \ {h} : stat'[u] = stat[u]
      BY <1>1, <3>1
    <3>4. WaitTypes'
      BY <1>1, <2>1, <3>1, <3>2 DEF WaitTypes
    <3>5. ReceiversQueued' /\ TimersOfSuspended'
      BY <1>2, <1>3, <2>2, <2>3, <3>1, <3>2, <3>3 DEF ReceiversQueued, TimersOfSuspended
    <3>6. Woken' = Woken \cup {h} /\ h \notin Woken
      BY <1>1, <1>2, <2>1, <2>2, <2>3, <3>1, <3>2, <3>3 DEF Woken, WaitLabels
    <3>7. Cardinality(Woken \cup {h}) = Cardinality(Woken) + 1
      BY <1>5, <3>2, <3>6, ThreadsCount
    <3>8. Cardinality(Woken') = Cardinality(Woken) + 1
      BY <3>6, <3>7
    <3>9. entry' <= Cardinality(Woken')
      BY <1>1, <1>4, <1>5, <2>1, <2>5, <3>8
    <3> QED BY <3>4, <3>5, <3>9 DEF WaitInv
  <2> QED BY <2>4, <2>5
<1>14. ASSUME NEW t \in Threads, NEW timed \in BOOLEAN, RecvSuspend(t, timed) PROVE WaitInv'
  <2> DEFINE label == IF timed THEN "timed_wait" ELSE "wait"
  <2>1. /\ stat[t] = "READY" /\ entry = 0 /\ entry' = 0
        /\ stat' = [stat EXCEPT ![t] = "SUSPEND"]
        /\ error' = [error EXCEPT ![t] = "EOK"]
        /\ thread_timer' \subseteq thread_timer \cup {t}
        /\ suspend_thread' = rt_ipc_list_suspend(suspend_thread, t, Prio)
        /\ pc' = [pc EXCEPT ![t] = label]
    BY <1>14 DEF RecvSuspend, At, Suspend, Goto, queueVars
  <2>2. label \in WaitLabels
    BY DEF WaitLabels
  <2> HIDE DEF label
  <2>3. t \notin R
    BY <1>2, <2>1
  <2>4. /\ suspend_thread' \in Seq(Threads) /\ LinkedOnce(suspend_thread')
        /\ ToSet(suspend_thread') = R \cup {t}
    BY <1>1, <1>2, <2>1, <2>3, SuspendList DEF R
  <2>5. \A u \in Threads \ {t} : stat'[u] = stat[u] /\ error'[u] = error[u] /\ pc'[u] = pc[u]
    BY <1>1, <2>1
  <2>6. stat'[t] = "SUSPEND" /\ error'[t] = "EOK" /\ pc'[t] \in WaitLabels
    BY <1>1, <2>1, <2>2
  <2>7. WaitTypes'
    BY <1>1, <2>1, <2>2, <2>4 DEF WaitTypes, Errors
  <2>8. ReceiversQueued' /\ TimersOfSuspended'
    BY <1>2, <1>3, <2>1, <2>4, <2>5, <2>6 DEF ReceiversQueued, TimersOfSuspended
  <2>9. entry' <= Cardinality(Woken')
    BY <1>6, <2>1
  <2> QED BY <2>7, <2>8, <2>9 DEF WaitInv
<1>15. ASSUME NEW t \in Threads, RecvReturn(t) PROVE WaitInv'
  <2>1. /\ stat[t] = "READY" /\ UNCHANGED <<stat, thread_timer, suspend_thread, entry>>
        /\ pc' = [pc EXCEPT ![t] = "run"]
    BY <1>15 DEF RecvReturn, At, Goto, queueVars
  <2>2. /\ error' \in [Threads -> Errors] /\ \A u \in Threads \ {t} : error'[u] = error[u]
    BY <1>1, <1>15 DEF RecvReturn, Errors
  <2>3. t \notin Woken \/ entry = 0
    BY <1>15 DEF RecvReturn, Woken
  <2> QED BY <1>7, <2>1, <2>2, <2>3
<1>16. ASSUME NEW t \in Threads, RecvUnlink(t) PROVE WaitInv'
  <2>1. "recv_free" \in {"run"} \cup HoldLabels
    BY DEF HoldLabels
  <2> QED BY <1>1, <1>7, <1>16, <2>1 DEF RecvUnlink, At, Goto
<1>17. ASSUME NEW t \in Threads, RecvFree(t) PROVE WaitInv'
  <2>1. t \notin Woken
    BY <1>17 DEF RecvFree, At, Woken, WaitLabels
  <2> QED BY <1>1, <1>7, <1>17, <2>1 DEF RecvFree, At, Goto
<1>18. ASSUME NEW t \in Threads, RecvTimeout(t) PROVE WaitInv'
  <2> USE <1>18 DEF RecvTimeout, Timeout, queueVars
  <2>1. /\ suspend_thread' \in Seq(Threads) /\ LinkedOnce(suspend_thread')
        /\ ToSet(suspend_thread') = R \ {t}
    BY <1>1, <1>2, RemoveMembers DEF R
  <2>2. suspend_thread' # <<>> => suspend_thread # <<>>
    BY DEF rt_list_remove, ToSet
  <2>3. stat[t] = "SUSPEND" /\ stat'[t] = "READY" /\ error'[t] = "ETIMEOUT"
    BY <1>1, <1>3
  <2>4. \A u \in Threads \ {t} : stat'[u] = stat[u] /\ error'[u] = error[u]
    BY <1>1
  <2>5. WaitTypes'
    BY <1>1, <2>1 DEF WaitTypes, Errors
  <2>6. ReceiversQueued' /\ TimersOfSuspended'
    BY <1>2, <1>3, <2>1, <2>4 DEF ReceiversQueued, TimersOfSuspended
  <2>7. Woken' = Woken
    BY <2>3, <2>4 DEF Woken
  <2>8. suspend_thread' # <<>> => entry' <= Cardinality(Woken')
    BY <1>4, <2>2, <2>7
  <2> QED BY <2>5, <2>6, <2>8 DEF WaitInv
<1>19. ASSUME NEW t \in Threads, Reset(t) PROVE WaitInv'
  <2>1. /\ ResumeAll(suspend_thread) /\ suspend_thread' = <<>> /\ entry' = 0 /\ pc' = pc
    BY <1>19 DEF Reset
  <2>2. suspend_thread' \in Seq(Threads)
    BY <2>1
  <2>3. WaitTypes'
    BY <1>1, <2>1, <2>2 DEF WaitTypes, ResumeAll, Errors
  <2>4. ReceiversQueued'
    BY <2>1 DEF ReceiversQueued, LinkedOnce, ToSet
  <2>5. TimersOfSuspended'
    BY <1>3, <2>1 DEF TimersOfSuspended, ResumeAll
  <2> QED BY <2>1, <2>3, <2>4, <2>5 DEF WaitInv
<1> QED
  BY <1>10, <1>11, <1>12, <1>13, <1>14, <1>15, <1>16, <1>17, <1>18, <1>19 DEF Next

\* While a receiver is suspended, every message in the queue has a woken
\* receiver on its way to it: a send, a faster receiver, a timeout and a reset
\* in any order never leave a message beside a sleeping receiver.
THEOREM QueueNoLostWakeup == Spec => []NoLostWakeup
<1>1. WaitInv => NoLostWakeup
  BY DEF WaitInv, NoLostWakeup, Woken, WaitLabels
<1> QED BY <1>1, WaitInitially, WaitStep, PTL DEF Spec

-----------------------------------------------------------------------------
PoolTypes ==
    /\ next \in [Slots -> Slots \cup {Null}]
    /\ data \in [Slots -> Messages \cup {NoMessage}]
    /\ msg \in [Threads -> Slots \cup {Null}]
    /\ sending \in [Threads -> Messages \cup {NoMessage}]
    /\ pc \in [Threads -> {"run"} \cup HoldLabels \cup WaitLabels]

\* What a call in progress knows of its slot: nobody else has it, a send has
\* its message, and once it was copied the slot is ready to be linked.
Holding ==
    /\ \A t \in Threads : msg[t] # Null <=> pc[t] \in HoldLabels
    /\ \A t, u \in Threads : t # u /\ msg[t] # Null => msg[t] # msg[u]
    /\ \A t \in Threads : pc[t] \in SendLabels => sending[t] \in Messages
    /\ \A t \in Threads : pc[t] \in {"send_link", "urgent_link"} => data[msg[t]] = sending[t]
    /\ \A t \in Threads : pc[t] = "send_link" => next[msg[t]] = Null

\* The pointers chain the slots of q into the queue and those of f into the
\* free list; the others are held.
Chained(q, f) ==
    /\ q \in Seq(Slots) /\ f \in Seq(Slots)
    /\ LinkedOnce(q) /\ LinkedOnce(f)
    /\ ToSet(q) \cap ToSet(f) = {}
    /\ Linked(next, msg_queue_head, q)
    /\ Linked(next, msg_queue_free, f)
    /\ entry = Len(q)
    /\ msg_queue_tail = Nth(q, Len(q))
    /\ \A t \in Threads : msg[t] \notin ToSet(q) \cup ToSet(f)
    /\ \A s \in Slots : s \in ToSet(q) \cup ToSet(f) \/ \E t \in Threads : msg[t] = s

\* The inductive invariant of the slots.
PoolInv == PoolTypes /\ Holding /\ Chained(QueueSlots, FreeSlots)

\* What a step may do to the queue: nothing, link a slot with its message last
\* or first, take the first slot, or empty it.
QueueEffect ==
    \/ /\ QueueSlots' = QueueSlots /\ delivered' = delivered
       /\ \A s \in ToSet(QueueSlots) : data'[s] = data[s]
    \/ \E s \in Slots :
          /\ s \notin ToSet(QueueSlots) /\ data[s] \in Messages
          /\ QueueSlots' = Append(QueueSlots, s) \/ QueueSlots' = <<s>> \o QueueSlots
          /\ UNCHANGED <<data, delivered>>
    \/ /\ QueueSlots # <<>> /\ QueueSlots' = Tail(QueueSlots)
       /\ delivered' = data[Head(QueueSlots)] /\ UNCHANGED data
    \/ QueueSlots' = <<>> /\ UNCHANGED delivered

\* The slots at the start ...
LEMMA PoolInitially == Init => PoolInv /\ QueueSlots = <<>>
<1> SUFFICES ASSUME Init PROVE PoolInv /\ QueueSlots = <<>>
  OBVIOUS
<1>1. MaxMsgs \in Nat \ {0} /\ Null \notin Slots /\ MaxMsgs \in Slots
  BY QueueAssumption DEF Slots
<1> DEFINE f == [i \in 1..MaxMsgs |-> MaxMsgs + 1 - i]
           q == << >>
<1>2. /\ f \in Seq(Slots) /\ Len(f) = MaxMsgs /\ DOMAIN f = 1..MaxMsgs
  <2>1. f \in [1..MaxMsgs -> Slots]
    BY <1>1 DEF Slots
  <2> QED BY <1>1, <2>1
<1>3. \A i \in 1..MaxMsgs : f[i] = MaxMsgs + 1 - i
  OBVIOUS
<1>4. q \in Seq(Slots) /\ Len(q) = 0 /\ ToSet(q) = {} /\ LinkedOnce(q)
  BY DEF ToSet, LinkedOnce
<1> HIDE DEF f, q
<1>5. LinkedOnce(f) /\ ToSet(f) = Slots
  <2>1. LinkedOnce(f)
    BY <1>1, <1>2, <1>3 DEF LinkedOnce
  <2>2. ASSUME NEW s \in Slots PROVE s \in ToSet(f)
    <3>1. MaxMsgs + 1 - s \in 1..MaxMsgs /\ MaxMsgs + 1 - (MaxMsgs + 1 - s) = s
      BY <1>1 DEF Slots
    <3> QED BY <1>2, <1>3, <3>1 DEF ToSet
  <2>3. ToSet(f) \subseteq Slots
    BY <1>2 DEF ToSet
  <2> QED BY <2>1, <2>2, <2>3
<1>6. Linked(next, msg_queue_free, f)
  <2>1. next = [s \in Slots |-> IF s = 1 THEN Null ELSE s - 1] /\ msg_queue_free = MaxMsgs
    BY DEF Init
  <2>2. msg_queue_free = Nth(f, 1)
    BY <1>1, <1>2, <1>3, <2>1 DEF Nth
  <2>3. ASSUME NEW i \in 1..MaxMsgs PROVE next[f[i]] = Nth(f, i + 1)
    <3>1. f[i] = MaxMsgs + 1 - i /\ f[i] \in Slots
      BY <1>1, <1>3 DEF Slots
    <3>2. CASE i = MaxMsgs
      BY <1>1, <1>2, <2>1, <3>1, <3>2 DEF Nth
    <3>3. CASE i # MaxMsgs
      BY <1>1, <1>2, <1>3, <2>1, <3>1, <3>3 DEF Nth
    <3> QED BY <3>2, <3>3
  <2> QED BY <1>2, <2>2, <2>3 DEF Linked
<1>7. Linked(next, msg_queue_head, q)
  BY <1>4 DEF Init, Linked, Nth
<1>8. QueueSlots = q /\ FreeSlots = f
  BY <1>2, <1>4, <1>5, <1>6, <1>7, ChainIs DEF QueueSlots, FreeSlots
<1>9. \A t \in Threads : msg[t] = Null /\ pc[t] = "run"
  BY DEF Init, IpcInit, rt_ipc_object_init
<1>10. entry = 0 /\ msg_queue_tail = Null
  BY DEF Init
<1>11. Chained(q, f)
  BY <1>1, <1>2, <1>4, <1>5, <1>6, <1>7, <1>9, <1>10 DEF Chained, Nth
<1>12. PoolTypes
  <2>1. \A s \in Slots : s # 1 => s - 1 \in Slots
    BY <1>1 DEF Slots
  <2>2. next \in [Slots -> Slots \cup {Null}]
    BY <2>1 DEF Init
  <2> QED BY <2>2 DEF PoolTypes, Init, IpcInit, rt_ipc_object_init
<1>13. Holding
  BY <1>9 DEF Holding, HoldLabels, SendLabels
<1> QED BY <1>8, <1>11, <1>12, <1>13 DEF PoolInv, q

\* ... and after every step.
LEMMA PoolStep == PoolInv /\ [Next]_vars => PoolInv' /\ QueueEffect
<1> SUFFICES ASSUME PoolInv, [Next]_vars
             PROVE  PoolInv' /\ QueueEffect
  OBVIOUS
<1>1. /\ next \in [Slots -> Slots \cup {Null}]
      /\ data \in [Slots -> Messages \cup {NoMessage}]
      /\ msg \in [Threads -> Slots \cup {Null}]
      /\ sending \in [Threads -> Messages \cup {NoMessage}]
      /\ pc \in [Threads -> {"run"} \cup HoldLabels \cup WaitLabels]
      /\ Null \notin Slots
      /\ DOMAIN next = Slots /\ next = [k \in Slots |-> next[k]]
  BY QueueAssumption DEF PoolInv, PoolTypes, Slots
<1>2. /\ \A t \in Threads : msg[t] # Null <=> pc[t] \in HoldLabels
      /\ \A t, u \in Threads : t # u /\ msg[t] # Null => msg[t] # msg[u]
      /\ \A t \in Threads : pc[t] \in SendLabels => sending[t] \in Messages
      /\ \A t \in Threads : pc[t] \in {"send_link", "urgent_link"} => data[msg[t]] = sending[t]
      /\ \A t \in Threads : pc[t] = "send_link" => next[msg[t]] = Null
  BY DEF PoolInv, Holding
<1>3. PICK q, f : q = QueueSlots /\ f = FreeSlots
  OBVIOUS
<1>4. /\ q \in Seq(Slots) /\ f \in Seq(Slots)
      /\ LinkedOnce(q) /\ LinkedOnce(f)
      /\ ToSet(q) \cap ToSet(f) = {}
      /\ Linked(next, msg_queue_head, q)
      /\ Linked(next, msg_queue_free, f)
      /\ entry = Len(q)
      /\ msg_queue_tail = Nth(q, Len(q))
      /\ \A t \in Threads : msg[t] \notin ToSet(q) \cup ToSet(f)
      /\ \A s \in Slots : s \in ToSet(q) \cup ToSet(f) \/ \E t \in Threads : msg[t] = s
  BY <1>3 DEF PoolInv, Chained
<1>5. /\ ToSet(q) \subseteq Slots /\ ToSet(f) \subseteq Slots /\ Len(q) \in Nat
      /\ \A i \in 1..Len(q) : q[i] \in ToSet(q)
      /\ DOMAIN q = 1..Len(q)
  BY <1>4 DEF ToSet
\* The chains after a step are the ones the new pointers lead through.
<1>6. ASSUME NEW q2, NEW f2, Chained(q2, f2)', PoolTypes', Holding'
      PROVE  PoolInv' /\ QueueSlots' = q2 /\ FreeSlots' = f2
  <2>1. QueueSlots' = q2 /\ FreeSlots' = f2
    BY <1>6, ChainIs DEF Chained, QueueSlots, FreeSlots
  <2> QED BY <1>6, <2>1 DEF PoolInv
\* A step that leaves the pool and the calls that hold a slot alone.
<1>7. ASSUME UNCHANGED <<queueVars, msg, sending>>,
             pc' \in [Threads -> {"run"} \cup HoldLabels \cup WaitLabels],
             \A t \in Threads : pc[t] \in HoldLabels \/ pc'[t] \in HoldLabels => pc'[t] = pc[t]
      PROVE  PoolInv' /\ QueueEffect
  <2> USE <1>7 DEF queueVars
  <2>1. PoolTypes'
    BY <1>1 DEF PoolTypes
  <2>2. Holding'
    <3>1. \A t \in Threads : pc'[t] \in HoldLabels <=> pc[t] \in HoldLabels
      OBVIOUS
    <3>2. /\ \A t \in Threads : pc'[t] \in SendLabels => pc[t] \in SendLabels
          /\ \A t \in Threads : pc'[t] = "send_link" => pc[t] = "send_link"
          /\ \A t \in Threads : pc'[t] \in {"send_link", "urgent_link"}
                                => pc[t] \in {"send_link", "urgent_link"}
      BY DEF HoldLabels, SendLabels
    <3> QED BY <1>2, <3>1, <3>2 DEF Holding
  <2>3. Chained(q, f)'
    BY <1>4 DEF Chained
  <2>4. QueueSlots' = q /\ PoolInv'
    BY <1>6, <2>1, <2>2, <2>3
  <2> QED BY <1>3, <2>4 DEF QueueEffect
\* One step per action.
<1>10. CASE UNCHANGED vars
  BY <1>1, <1>7, <1>10 DEF vars, ipcVars
<1>11. ASSUME NEW t \in Threads, NEW m \in Messages, NEW label \in {"send_copy", "urgent_copy"},
              SendTakeSlot(t, m, label)
       PROVE  PoolInv' /\ QueueEffect
  <2>1. /\ pc[t] = "run" /\ msg_queue_free # Null
        /\ msg' = [msg EXCEPT ![t] = msg_queue_free]
        /\ msg_queue_free' = next[msg_queue_free]
        /\ sending' = [sending EXCEPT ![t] = m]
        /\ pc' = [pc EXCEPT ![t] = label]
        /\ UNCHANGED <<next, data, msg_queue_head, msg_queue_tail, entry, delivered>>
    BY <1>11 DEF SendTakeSlot, At, Goto
  <2>2. PICK s : s = msg_queue_free
    OBVIOUS
  <2>3. f # <<>> /\ s = Head(f) /\ Linked(next, next[s], Tail(f))
    BY <1>4, <2>1, <2>2, LinkedTail
  <2>4. PICK r : r = Tail(f)
    OBVIOUS
  <2>5. /\ s \in Slots /\ s \in ToSet(f) /\ r \in Seq(Slots) /\ LinkedOnce(r)
        /\ ToSet(f) = ToSet(r) \cup {s} /\ s \notin ToSet(r)
    BY <1>4, <2>3, <2>4, TailMembers
  <2>6. \A u \in Threads \ {t} : msg'[u] = msg[u] /\ sending'[u] = sending[u] /\ pc'[u] = pc[u]
    BY <1>1, <2>1
  <2>7. /\ msg'[t] = s /\ sending'[t] = m /\ pc'[t] = label /\ msg[t] = Null
        /\ label \in HoldLabels /\ label \in SendLabels
        /\ label # "send_link" /\ label # "urgent_link"
    BY <1>1, <1>2, <2>1, <2>2 DEF HoldLabels, SendLabels
  <2>8. PoolTypes'
    BY <1>1, <2>1, <2>2, <2>5, <2>7 DEF PoolTypes
  <2>9. \A u \in Threads : msg[u] # s
    BY <1>4, <2>5
  <2>10. Holding'
    <3>1. \A u \in Threads : msg'[u] # Null <=> pc'[u] \in HoldLabels
      BY <1>1, <1>2, <2>5, <2>6, <2>7
    <3>2. \A u, v \in Threads : u # v /\ msg'[u] # Null => msg'[u] # msg'[v]
      BY <1>2, <2>6, <2>7, <2>9
    <3>3. \A u \in Threads : pc'[u] \in SendLabels => sending'[u] \in Messages
      BY <1>2, <2>6, <2>7
    <3>4. \A u \in Threads : pc'[u] \in {"send_link", "urgent_link"} => u # t
      BY <2>7
    <3> QED BY <1>2, <2>1, <2>6, <3>1, <3>2, <3>3, <3>4 DEF Holding
  <2>11. Chained(q, r)'
    <3>1. ToSet(q) \cap ToSet(r) = {} /\ s \notin ToSet(q)
      BY <1>4, <2>5
    <3>2. \A u \in Threads : msg'[u] \notin ToSet(q) \cup ToSet(r)
      BY <1>4, <2>5, <2>6, <2>7, <3>1
    <3>3. \A k \in Slots : k \in ToSet(q) \cup ToSet(r) \/ \E u \in Threads : msg'[u] = k
      <4> SUFFICES ASSUME NEW k \in Slots, k \notin ToSet(q) \cup ToSet(r)
                   PROVE  \E u \in Threads : msg'[u] = k
        OBVIOUS
      <4>1. CASE k = s
        BY <2>7, <4>1
      <4>2. CASE k # s
        <5>1. PICK u \in Threads : msg[u] = k
          BY <1>4, <2>5, <4>2
        <5>2. u # t
          BY <1>1, <2>7, <5>1
        <5> QED BY <2>6, <5>1, <5>2
      <4> QED BY <4>1, <4>2
    <3>4. Linked(next', msg_queue_free', r)
      BY <2>1, <2>2, <2>3, <2>4
    <3> QED BY <1>4, <2>1, <2>5, <3>1, <3>2, <3>3, <3>4 DEF Chained
  <2>12. QueueSlots' = q /\ PoolInv'
    BY <1>6, <2>8, <2>10, <2>11
  <2> QED BY <1>3, <2>1, <2>12 DEF QueueEffect
<1>12. ASSUME NEW t \in Threads, SendCopy(t) PROVE PoolInv' /\ QueueEffect
  <2>1. PICK s, label : /\ s = msg[t]
                        /\ label = IF pc[t] = "send_copy" THEN "send_link" ELSE "urgent_link"
    OBVIOUS
  <2>2. /\ pc[t] = "send_copy" \/ pc[t] = "urgent_copy"
        /\ data' = [data EXCEPT ![s] = sending[t]]
        /\ next' = IF pc[t] = "send_copy" THEN [next EXCEPT ![s] = Null] ELSE next
        /\ pc' = [pc EXCEPT ![t] = label]
        /\ UNCHANGED <<msg_queue_head, msg_queue_tail, msg_queue_free, entry, msg, sending, delivered>>
    BY <1>12, <2>1 DEF SendCopy, At, Goto
  <2>3. /\ s \in Slots /\ s \notin ToSet(q) /\ s \notin ToSet(f) /\ sending[t] \in Messages
        /\ label \in HoldLabels /\ label \in SendLabels
    BY <1>1, <1>2, <1>4, <2>1, <2>2 DEF HoldLabels, SendLabels
  <2>4. /\ \A k \in Slots \ {s} : next'[k] = next[k] /\ data'[k] = data[k]
        /\ data'[s] = sending[t]
        /\ pc[t] = "send_copy" => next'[s] = Null
    BY <1>1, <2>2, <2>3
  <2>5. \A u \in Threads \ {t} : pc'[u] = pc[u] /\ msg[u] # s
    BY <1>1, <1>2, <2>1, <2>2, <2>3
  <2>6. /\ pc'[t] = label /\ pc[t] \in HoldLabels
        /\ label = "send_link" => pc[t] = "send_copy"
    BY <1>1, <2>1, <2>2 DEF HoldLabels, SendLabels
  <2>7. PoolTypes'
    BY <1>1, <2>2, <2>3 DEF PoolTypes
  <2>8. Holding'
    <3>1. \A u \in Threads : (msg'[u] # Null) <=> pc'[u] \in HoldLabels
      BY <1>2, <2>2, <2>3, <2>5, <2>6
    <3>2. \A u \in Threads : pc'[u] \in SendLabels => sending'[u] \in Messages
      BY <1>2, <2>2, <2>3, <2>5, <2>6
    <3>3. \A u \in Threads \ {t} : msg[u] # Null => msg[u] \in Slots \ {s}
      BY <1>1, <2>5
    <3>4. \A u \in Threads \ {t} : pc[u] \in {"send_link", "urgent_link"} => msg[u] # Null
      BY <1>2 DEF HoldLabels, SendLabels
    <3>5. \A u \in Threads : pc'[u] \in {"send_link", "urgent_link"} => data'[msg'[u]] = sending'[u]
      <4>1. data'[msg'[t]] = sending'[t]
        BY <2>1, <2>2, <2>4
      <4>2. ASSUME NEW u \in Threads \ {t}, pc'[u] \in {"send_link", "urgent_link"}
            PROVE  data'[msg'[u]] = sending'[u]
        <5>1. msg[u] \in Slots \ {s} /\ pc[u] \in {"send_link", "urgent_link"}
          BY <2>5, <3>3, <3>4, <4>2
        <5> QED BY <1>2, <2>2, <2>4, <5>1
      <4> QED BY <4>1, <4>2
    <3>6. \A u \in Threads : pc'[u] = "send_link" => next'[msg'[u]] = Null
      <4>1. pc'[t] = "send_link" => next'[msg'[t]] = Null
        BY <2>1, <2>2, <2>4, <2>6
      <4>2. ASSUME NEW u \in Threads \ {t}, pc'[u] = "send_link"
            PROVE  next'[msg'[u]] = Null
        <5>1. msg[u] \in Slots \ {s} /\ pc[u] = "send_link"
          BY <2>5, <3>3, <3>4, <4>2
        <5> QED BY <1>2, <2>2, <2>4, <5>1
      <4> QED BY <4>1, <4>2
    <3> QED BY <1>2, <2>2, <3>1, <3>2, <3>5, <3>6 DEF Holding
  <2>9. Chained(q, f)'
    <3>1. \A k \in ToSet(q) \cup ToSet(f) : next'[k] = next[k]
      BY <1>5, <2>3, <2>4
    <3>2. Linked(next', msg_queue_head, q) /\ Linked(next', msg_queue_free, f)
      BY <1>4, <3>1, LinkedElsewhere
    <3> QED BY <1>4, <2>2, <3>2 DEF Chained
  <2>10. QueueSlots' = q /\ PoolInv'
    BY <1>6, <2>7, <2>8, <2>9
  <2>11. \A k \in ToSet(q) : data'[k] = data[k]
    BY <1>5, <2>3, <2>4
  <2> QED BY <1>3, <2>2, <2>10, <2>11 DEF QueueEffect
<1>13. ASSUME NEW t \in Threads, SendLink(t) PROVE PoolInv' /\ QueueEffect
  <2>1. PICK s : s = msg[t]
    OBVIOUS
  <2>2. /\ entry' = entry + 1
        /\ msg' = [msg EXCEPT ![t] = Null]
        /\ sending' = [sending EXCEPT ![t] = NoMessage]
        /\ pc' = [pc EXCEPT ![t] = "run"]
        /\ UNCHANGED <<data, msg_queue_free, delivered>>
    BY <1>13 DEF SendLink, Goto
  <2>3. \/ pc[t] = "send_link" /\ LinkLast(s)
        \/ pc[t] = "urgent_link" /\ LinkFirst(s)
    BY <1>13, <2>1 DEF SendLink, At
  <2>4. /\ s \in Slots /\ s \notin ToSet(q) /\ s \notin ToSet(f)
        /\ data[s] \in Messages
        /\ pc[t] = "send_link" => next[s] = Null
    BY <1>1, <1>2, <1>4, <2>1, <2>3 DEF HoldLabels, SendLabels
  <2>5. \A u \in Threads \ {t} : /\ msg'[u] = msg[u] /\ sending'[u] = sending[u] /\ pc'[u] = pc[u]
                                 /\ msg[u] # s
    BY <1>1, <1>2, <2>1, <2>2, <2>4
  <2>6. msg'[t] = Null /\ pc'[t] = "run"
    BY <1>1, <2>2
  \* The slot is linked at either end of the queue, to give r.
  <2>7. ASSUME NEW r \in Seq(Slots), LinkedOnce(r), ToSet(r) = ToSet(q) \cup {s},
               Len(r) = Len(q) + 1, Linked(next', msg_queue_head', r),
               msg_queue_tail' = Nth(r, Len(r)),
               next' \in [Slots -> Slots \cup {Null}],
               \A k \in Slots \ ToSet(r) : next'[k] = next[k],
               r = Append(q, s) \/ r = <<s>> \o q
        PROVE  PoolInv' /\ QueueEffect
    <3>1. PoolTypes'
      BY <1>1, <2>2, <2>7 DEF PoolTypes
    <3>2. \A u \in Threads : pc'[u] \in HoldLabels => u # t /\ msg[u] \in Slots \ ToSet(r)
      <4>1. "run" \notin HoldLabels
        BY DEF HoldLabels, SendLabels
      <4> QED BY <1>1, <1>2, <1>4, <2>5, <2>6, <2>7, <4>1
    <3>3. \A u \in Threads : pc'[u] \in {"send_link", "urgent_link"} => pc'[u] \in HoldLabels
      BY DEF HoldLabels, SendLabels
    <3>4. \A u \in Threads : pc'[u] \in SendLabels => pc'[u] \in HoldLabels
      BY DEF HoldLabels
    <3>5. \A u \in Threads : msg'[u] # Null <=> pc'[u] \in HoldLabels
      BY <1>2, <2>5, <2>6, <3>2
    <3>6. \A u, v \in Threads : u # v /\ msg'[u] # Null => msg'[u] # msg'[v]
      BY <1>2, <2>5, <2>6
    <3>7. Holding'
      BY <1>2, <2>2, <2>5, <2>7, <3>2, <3>3, <3>4, <3>5, <3>6 DEF Holding
    <3>8. Chained(r, f)'
      <4>1. ToSet(r) \cap ToSet(f) = {} /\ \A k \in ToSet(f) : next'[k] = next[k]
        BY <1>4, <1>5, <2>4, <2>7
      <4>2. Linked(next', msg_queue_free, f)
        BY <1>4, <4>1, LinkedElsewhere
      <4>3. \A u \in Threads : msg'[u] \notin ToSet(r) \cup ToSet(f)
        BY <1>1, <1>4, <1>5, <2>5, <2>6, <2>7
      <4>4. \A k \in Slots : k \in ToSet(r) \cup ToSet(f) \/ \E u \in Threads : msg'[u] = k
        BY <1>4, <2>1, <2>5, <2>7
      <4> QED BY <1>4, <2>2, <2>7, <4>1, <4>2, <4>3, <4>4 DEF Chained
    <3>9. QueueSlots' = r /\ PoolInv'
      BY <1>6, <3>1, <3>7, <3>8
    <3>10. /\ s \in Slots /\ s \notin ToSet(QueueSlots) /\ data[s] \in Messages
           /\ QueueSlots' = Append(QueueSlots, s) \/ QueueSlots' = <<s>> \o QueueSlots
           /\ UNCHANGED <<data, delivered>>
      BY <1>3, <2>2, <2>4, <2>7, <3>9
    <3>11. QueueEffect
      BY ONLY <3>10, Zenon DEF QueueEffect
    <3> QED BY <3>9, <3>11
  <2>8. CASE pc[t] = "send_link" /\ LinkLast(s)
    <3>1. PICK r : r = Append(q, s)
      OBVIOUS
    <3>2. q = <<>> <=> msg_queue_tail = Null
      BY <1>1, <1>4, <1>5 DEF Nth
    <3>3. q = <<>> <=> msg_queue_head = Null
      BY <1>1, <1>4, <1>5 DEF Nth, Linked
    <3>4. q # <<>> => msg_queue_tail = q[Len(q)] /\ q[Len(q)] \in ToSet(q)
      BY <1>4, <1>5 DEF Nth
    <3>5. /\ next' = IF q = <<>> THEN next ELSE [next EXCEPT ![q[Len(q)]] = s]
          /\ msg_queue_head' = IF q = <<>> THEN s ELSE msg_queue_head
          /\ msg_queue_tail' = s
      BY <2>8, <3>2, <3>3, <3>4 DEF LinkLast
    <3>6. /\ r \in Seq(Slots) /\ ToSet(r) = ToSet(q) \cup {s} /\ LinkedOnce(r)
          /\ Linked(next', msg_queue_head', r)
      <4>1. next[s] = Null
        BY <2>4, <2>8
      <4>2. /\ r \in Seq(Slots) /\ ToSet(r) = ToSet(q) \cup {s} /\ LinkedOnce(r)
            /\ Linked(IF q = <<>> THEN next ELSE [next EXCEPT ![q[Len(q)]] = s],
                      IF q = <<>> THEN s ELSE msg_queue_head, r)
        BY <1>1, <1>4, <2>4, <3>1, <4>1, LinkedAppend
      <4> QED BY <3>5, <4>2
    <3>7. Len(r) = Len(q) + 1 /\ r[Len(q) + 1] = s
      BY <1>4, <2>4, <3>1, AppendProperties
    <3>8. msg_queue_tail' = Nth(r, Len(r))
      BY <1>5, <3>5, <3>7 DEF Nth
    <3>9. next' \in [Slots -> Slots \cup {Null}] /\ \A k \in Slots \ ToSet(r) : next'[k] = next[k]
      BY <1>1, <1>5, <2>4, <3>4, <3>5, <3>6
    <3> QED BY <2>7, <3>1, <3>6, <3>7, <3>8, <3>9
  <2>9. CASE pc[t] = "urgent_link" /\ LinkFirst(s)
    <3>1. PICK r : r = <<s>> \o q
      OBVIOUS
    <3>2. /\ next' = [next EXCEPT ![s] = msg_queue_head]
          /\ msg_queue_head' = s
          /\ msg_queue_tail' = IF msg_queue_tail = Null THEN s ELSE msg_queue_tail
      BY <2>9 DEF LinkFirst
    <3>3. /\ r \in Seq(Slots) /\ ToSet(r) = ToSet(q) \cup {s} /\ LinkedOnce(r)
          /\ Linked(next', msg_queue_head', r)
      BY <1>1, <1>4, <2>4, <3>1, <3>2, LinkedPush
    <3>4. Len(r) = Len(q) + 1 /\ r[1] = s /\ \A i \in 2..(Len(q) + 1) : r[i] = q[i - 1]
      BY <1>4, <2>4, <3>1, ConcatProperties
    <3>5. msg_queue_tail' = Nth(r, Len(r))
      <4>1. CASE q = <<>>
        BY <1>4, <1>5, <3>2, <3>4, <4>1 DEF Nth
      <4>2. CASE q # <<>>
        <5>1. Len(q) \in 1..Len(q) /\ q[Len(q)] \in Slots /\ r[Len(q) + 1] = q[Len(q)]
          BY <1>4, <1>5, <3>4, <4>2
        <5>2. msg_queue_tail = q[Len(q)] /\ msg_queue_tail # Null
          BY <1>1, <1>4, <5>1 DEF Nth
        <5> QED BY <1>5, <3>2, <3>4, <5>1, <5>2 DEF Nth
      <4> QED BY <4>1, <4>2
    <3>6. msg_queue_head \in Slots \cup {Null}
      BY <1>4, <1>5 DEF Linked, Nth
    <3>7. next' \in [Slots -> Slots \cup {Null}] /\ \A k \in Slots \ ToSet(r) : next'[k] = next[k]
      BY <1>1, <2>4, <3>2, <3>3, <3>6
    <3> QED BY <2>7, <3>1, <3>3, <3>4, <3>5, <3>7
  <2> QED BY <2>3, <2>8, <2>9
<1>14. ASSUME NEW t \in Threads, NEW timed \in BOOLEAN, RecvSuspend(t, timed)
       PROVE  PoolInv' /\ QueueEffect
  <2> DEFINE label == IF timed THEN "timed_wait" ELSE "wait"
  <2>1. pc[t] \notin HoldLabels /\ label \notin HoldLabels /\ label \in WaitLabels
    BY <1>14 DEF RecvSuspend, At, HoldLabels, SendLabels, WaitLabels
  <2>2. pc' = [pc EXCEPT ![t] = label] /\ UNCHANGED <<queueVars, msg, sending>>
    BY <1>14 DEF RecvSuspend, Goto
  <2> HIDE DEF label
  <2> QED BY <1>1, <1>7, <2>1, <2>2
<1>15. ASSUME NEW t \in Threads, RecvReturn(t) PROVE PoolInv' /\ QueueEffect
  <2>1. pc[t] \notin HoldLabels /\ "run" \notin HoldLabels
    BY <1>15 DEF RecvReturn, At, HoldLabels, SendLabels
  <2>2. pc' = [pc EXCEPT ![t] = "run"] /\ UNCHANGED <<queueVars, msg, sending>>
    BY <1>15 DEF RecvReturn, Goto
  <2> QED BY <1>1, <1>7, <2>1, <2>2
<1>16. ASSUME NEW t \in Threads, RecvUnlink(t) PROVE PoolInv' /\ QueueEffect
  <2>1. /\ pc[t] \in {"run"} \cup WaitLabels /\ entry # 0
        /\ UnlinkHead
        /\ msg' = [msg EXCEPT ![t] = msg_queue_head]
        /\ delivered' = data[msg_queue_head]
        /\ entry' = entry - 1
        /\ pc' = [pc EXCEPT ![t] = "recv_free"]
        /\ UNCHANGED <<next, data, msg_queue_free, sending>>
    BY <1>16 DEF RecvUnlink, At, Goto, WaitLabels
  <2>2. PICK s : s = msg_queue_head
    OBVIOUS
  <2>3. Len(q) \in Nat \ {0} /\ q # <<>> /\ s = q[1] /\ s \in Slots /\ s # Null
    BY <1>1, <1>4, <1>5, <2>1, <2>2 DEF Linked, Nth
  <2>4. s = Head(q) /\ Linked(next, next[s], Tail(q))
    BY <1>4, <2>2, <2>3, LinkedTail
  <2>5. PICK r : r = Tail(q)
    OBVIOUS
  <2>6. /\ s \in ToSet(q) /\ r \in Seq(Slots) /\ LinkedOnce(r)
        /\ ToSet(q) = ToSet(r) \cup {s} /\ s \notin ToSet(r)
    BY <1>4, <2>3, <2>4, <2>5, TailMembers
  <2>7. /\ Len(r) = Len(q) - 1 /\ \A i \in 1..(Len(q) - 1) : r[i] = q[i + 1]
    BY <1>4, <2>3, <2>5
  <2>8. \A u \in Threads \ {t} : msg'[u] = msg[u] /\ pc'[u] = pc[u]
    BY <1>1, <2>1
  <2>9. /\ msg'[t] = s /\ pc'[t] = "recv_free" /\ msg[t] = Null
        /\ "recv_free" \in HoldLabels /\ "recv_free" \notin SendLabels
    BY <1>1, <1>2, <2>1, <2>2 DEF HoldLabels, SendLabels, WaitLabels
  <2>10. PoolTypes'
    BY <1>1, <2>1, <2>2, <2>3, <2>9 DEF PoolTypes
  <2>11. \A u \in Threads : msg[u] # s
    BY <1>4, <2>6
  <2>12. Holding'
    BY <1>1, <1>2, <2>1, <2>3, <2>8, <2>9, <2>11 DEF Holding
  <2>13. msg_queue_tail' = Nth(r, Len(r))
    <3>1. msg_queue_tail = q[Len(q)] /\ Len(q) \in 1..Len(q) /\ 1 \in 1..Len(q)
      BY <1>4, <2>3 DEF Nth
    <3>2. msg_queue_tail = s <=> Len(q) = 1
      BY <1>4, <1>5, <2>3, <3>1 DEF LinkedOnce
    <3>3. msg_queue_tail' = IF Len(q) = 1 THEN Null ELSE msg_queue_tail
      BY <2>1, <2>2, <3>2 DEF UnlinkHead
    <3>4. CASE Len(q) = 1
      BY <2>7, <3>3, <3>4 DEF Nth
    <3>5. CASE Len(q) # 1
      <4>1. Len(q) - 1 \in 1..(Len(q) - 1) /\ r[Len(q) - 1] = q[Len(q)]
        BY <2>3, <2>7, <3>5
      <4> QED BY <2>7, <3>1, <3>3, <3>5, <4>1 DEF Nth
    <3> QED BY <3>4, <3>5
  <2>14. Chained(r, f)'
    <3>1. ToSet(r) \cap ToSet(f) = {} /\ s \notin ToSet(f)
      BY <1>4, <2>6
    <3>2. \A u \in Threads : msg'[u] \notin ToSet(r) \cup ToSet(f)
      BY <1>4, <2>6, <2>8, <2>9, <3>1
    <3>3. \A k \in Slots : k \in ToSet(r) \cup ToSet(f) \/ \E u \in Threads : msg'[u] = k
      <4> SUFFICES ASSUME NEW k \in Slots, k \notin ToSet(r) \cup ToSet(f)
                   PROVE  \E u \in Threads : msg'[u] = k
        OBVIOUS
      <4>1. CASE k = s
        BY <2>9, <4>1
      <4>2. CASE k # s
        <5>1. PICK u \in Threads : msg[u] = k
          BY <1>4, <2>6, <4>2
        <5>2. u # t
          BY <1>1, <2>9, <5>1
        <5> QED BY <2>8, <5>1, <5>2
      <4> QED BY <4>1, <4>2
    <3>4. Linked(next', msg_queue_head', r)
      BY <2>1, <2>2, <2>4, <2>5 DEF UnlinkHead
    <3> QED BY <1>4, <2>1, <2>6, <2>7, <2>13, <3>1, <3>2, <3>3, <3>4 DEF Chained
  <2>15. QueueSlots' = r /\ PoolInv'
    BY <1>6, <2>10, <2>12, <2>14
  <2> QED BY <1>3, <2>1, <2>2, <2>3, <2>4, <2>5, <2>15 DEF QueueEffect
<1>17. ASSUME NEW t \in Threads, RecvFree(t) PROVE PoolInv' /\ QueueEffect
  <2>1. PICK s : s = msg[t]
    OBVIOUS
  <2>2. /\ pc[t] = "recv_free"
        /\ next' = [next EXCEPT ![s] = msg_queue_free]
        /\ msg_queue_free' = s
        /\ msg' = [msg EXCEPT ![t] = Null]
        /\ pc' = [pc EXCEPT ![t] = "run"]
        /\ UNCHANGED <<data, msg_queue_head, msg_queue_tail, entry, sending, delivered>>
    BY <1>17, <2>1 DEF RecvFree, At, Goto
  <2>3. s \in Slots /\ s \notin ToSet(q) /\ s \notin ToSet(f)
    BY <1>1, <1>2, <1>4, <2>1, <2>2 DEF HoldLabels
  <2>4. PICK r : r = <<s>> \o f
    OBVIOUS
  <2>5. /\ r \in Seq(Slots) /\ ToSet(r) = ToSet(f) \cup {s} /\ LinkedOnce(r)
        /\ Linked(next', msg_queue_free', r)
    <3>1. /\ r \in Seq(Slots) /\ ToSet(r) = ToSet(f) \cup {s} /\ LinkedOnce(r)
          /\ Linked([next EXCEPT ![s] = msg_queue_free], s, r)
      BY <1>1, <1>4, <2>3, <2>4, LinkedPush
    <3> QED BY <2>2, <3>1
  <2>6. \A u \in Threads \ {t} : msg'[u] = msg[u] /\ pc'[u] = pc[u] /\ msg[u] # s
    BY <1>1, <1>2, <2>1, <2>2, <2>3
  <2>7. msg'[t] = Null /\ pc'[t] = "run"
    BY <1>1, <2>2
  <2>8. msg_queue_free \in Slots \cup {Null} /\ \A k \in Slots \ {s} : next'[k] = next[k]
    <3>1. f # <<>> => f[1] \in Slots
      BY <1>4
    <3>2. msg_queue_free \in Slots \cup {Null}
      BY <1>4, <3>1 DEF Linked, Nth
    <3> QED BY <1>1, <2>2, <2>3, <3>2
  <2>9. PoolTypes'
    BY <1>1, <2>2, <2>8 DEF PoolTypes
  <2>10. Holding'
    <3>1. "run" \notin HoldLabels /\ SendLabels \subseteq HoldLabels
          /\ {"send_link", "urgent_link"} \subseteq SendLabels /\ "send_link" \in SendLabels
      BY DEF HoldLabels, SendLabels
    <3>2. \A u \in Threads : pc'[u] \in HoldLabels => u # t /\ msg[u] \in Slots \ {s}
      BY <1>1, <1>2, <2>6, <2>7, <3>1
    <3>3. \A u \in Threads : msg'[u] # Null <=> pc'[u] \in HoldLabels
      BY <1>2, <2>6, <2>7, <3>1
    <3>4. \A u, v \in Threads : u # v /\ msg'[u] # Null => msg'[u] # msg'[v]
      BY <1>2, <2>6, <2>7
    <3>5. \A u \in Threads : pc'[u] \in HoldLabels =>
              /\ u # t /\ pc'[u] = pc[u] /\ msg'[u] = msg[u]
              /\ next'[msg[u]] = next[msg[u]]
      BY <2>6, <2>8, <3>2
    <3> QED BY <1>2, <2>2, <3>1, <3>3, <3>4, <3>5 DEF Holding
  <2>11. Chained(q, r)'
    <3>1. ToSet(q) \cap ToSet(r) = {} /\ \A k \in ToSet(q) : next'[k] = next[k]
      BY <1>4, <1>5, <2>3, <2>5, <2>8
    <3>2. Linked(next', msg_queue_head, q)
      BY <1>4, <3>1, LinkedElsewhere
    <3>3. \A u \in Threads : msg'[u] \notin ToSet(q) \cup ToSet(r)
      BY <1>1, <1>4, <1>5, <2>3, <2>5, <2>6, <2>7
    <3>4. \A k \in Slots : k \in ToSet(q) \cup ToSet(r) \/ \E u \in Threads : msg'[u] = k
      BY <1>4, <2>1, <2>5, <2>6
    <3> QED BY <1>4, <2>2, <2>5, <3>1, <3>2, <3>3, <3>4 DEF Chained
  <2>12. QueueSlots' = q /\ PoolInv'
    BY <1>6, <2>9, <2>10, <2>11
  <2> QED BY <1>3, <2>2, <2>12 DEF QueueEffect
<1>18. ASSUME NEW t \in Threads, RecvTimeout(t) PROVE PoolInv' /\ QueueEffect
  BY <1>1, <1>7, <1>18 DEF RecvTimeout
<1>19. ASSUME NEW t \in Threads, Reset(t) PROVE PoolInv' /\ QueueEffect
  <2> DEFINE Position(s) == CHOOSE i \in DOMAIN q : q[i] = s
  <2>1. /\ next' = [s \in Slots |-> IF s \notin ToSet(q) THEN next[s]
                                    ELSE IF Position(s) = 1 THEN msg_queue_free
                                    ELSE q[Position(s) - 1]]
        /\ msg_queue_free' = IF q = <<>> THEN msg_queue_free ELSE Last(q)
        /\ msg_queue_head' = Null /\ msg_queue_tail' = Null
        /\ entry' = 0
        /\ UNCHANGED <<pc, data, msg, sending, delivered>>
    BY <1>3, <1>19 DEF Reset, QueueSlots
  <2>2. \A i \in 1..Len(q) : Position(q[i]) = i
    BY <1>5, <1>4 DEF LinkedOnce
  <2>3. \A i \in 1..Len(q) : next'[q[i]] = IF i = 1 THEN msg_queue_free ELSE q[i - 1]
    <3> SUFFICES ASSUME NEW i \in 1..Len(q)
                 PROVE  next'[q[i]] = IF i = 1 THEN msg_queue_free ELSE q[i - 1]
      OBVIOUS
    <3>1. q[i] \in Slots /\ q[i] \in ToSet(q) /\ Position(q[i]) = i
      BY <1>5, <2>2
    <3> HIDE DEF Position
    <3> QED BY <2>1, <3>1
  <2>4. \A k \in Slots \ ToSet(q) : next'[k] = next[k]
    BY <2>1
  <2> HIDE DEF Position
  <2>5. msg_queue_free' = IF q = <<>> THEN msg_queue_free ELSE q[Len(q)]
    BY <2>1 DEF Last
  <2>6. PICK r : r = Moved(q, f)
    OBVIOUS
  <2>7. /\ r \in Seq(Slots) /\ ToSet(r) = ToSet(q) \cup ToSet(f) /\ LinkedOnce(r)
        /\ Linked(next', msg_queue_free', r)
    <3>1. \A k \in ToSet(f) : next'[k] = next[k]
      BY <1>4, <1>5, <2>4
    <3>2. PICK old, new, g : old = next /\ new = next' /\ g = msg_queue_free
      OBVIOUS
    <3>3. /\ Linked(old, msg_queue_head, q) /\ Linked(old, g, f)
          /\ \A k \in ToSet(f) : new[k] = old[k]
          /\ \A i \in 1..Len(q) : new[q[i]] = IF i = 1 THEN g ELSE q[i - 1]
      BY <1>4, <2>3, <3>1, <3>2
    <3>4. /\ q \in Seq(Slots) /\ f \in Seq(Slots) /\ LinkedOnce(q) /\ LinkedOnce(f)
          /\ ToSet(q) \cap ToSet(f) = {}
      BY <1>4
    <3>5. /\ Moved(q, f) \in Seq(Slots)
          /\ ToSet(Moved(q, f)) = ToSet(q) \cup ToSet(f)
          /\ LinkedOnce(Moved(q, f))
          /\ Linked(new, IF q = <<>> THEN g ELSE q[Len(q)], Moved(q, f))
      BY ONLY <3>3, <3>4, LinkedMoved, Zenon
    <3> QED BY <2>5, <2>6, <3>2, <3>5
  <2>8. msg_queue_free \in Slots \cup {Null}
    <3>1. f # <<>> => f[1] \in Slots
      BY <1>4
    <3> QED BY <1>4, <3>1 DEF Linked, Nth
  <2>9. PoolTypes'
    <3>1. ASSUME NEW k \in Slots PROVE next'[k] \in Slots \cup {Null}
      <4>1. CASE k \notin ToSet(q)
        BY <1>1, <2>4, <4>1
      <4>2. CASE k \in ToSet(q)
        <5>1. PICK i \in 1..Len(q) : q[i] = k
          BY <1>5, <4>2 DEF ToSet
        <5>2. CASE i = 1
          BY <2>3, <2>8, <5>1, <5>2
        <5>3. CASE i # 1
          <6>1. i - 1 \in 1..Len(q)
            BY <1>5, <5>3
          <6> QED BY <1>5, <2>3, <5>1, <5>3, <6>1
        <5> QED BY <5>2, <5>3
      <4> QED BY <4>1, <4>2
    <3>2. DOMAIN next' = Slots /\ next' = [k \in Slots |-> next'[k]]
      BY <2>1
    <3>3. next' \in [Slots -> Slots \cup {Null}]
      BY <3>1, <3>2
    <3> QED BY <1>1, <2>1, <3>3 DEF PoolTypes
  <2>10. Holding'
    <3>1. \A u \in Threads : pc[u] = "send_link" => msg[u] \in Slots \ ToSet(q)
      BY <1>1, <1>2, <1>4 DEF HoldLabels, SendLabels
    <3> QED BY <1>2, <2>1, <2>4, <3>1 DEF Holding
  <2>11. PICK e : e = << >>
    OBVIOUS
  <2>12. e \in Seq(Slots) /\ LinkedOnce(e) /\ ToSet(e) = {} /\ Len(e) = 0
    BY <2>11 DEF LinkedOnce, ToSet
  <2>13. Chained(e, r)'
    <3>1. Linked(next', msg_queue_head', e) /\ msg_queue_tail' = Nth(e, Len(e))
      BY <2>1, <2>12 DEF Linked, Nth
    <3>2. \A u \in Threads : msg'[u] \notin ToSet(e) \cup ToSet(r)
      BY <1>4, <2>1, <2>7, <2>12
    <3>3. \A k \in Slots : k \in ToSet(e) \cup ToSet(r) \/ \E u \in Threads : msg'[u] = k
      BY <1>4, <2>1, <2>7, <2>12
    <3> QED BY <2>1, <2>7, <2>12, <3>1, <3>2, <3>3 DEF Chained
  <2>14. QueueSlots' = e /\ PoolInv'
    BY <1>6, <2>9, <2>10, <2>13
  <2> QED BY <2>1, <2>11, <2>14 DEF QueueEffect
<1> QED
  BY <1>10, <1>11, <1>12, <1>13, <1>14, <1>15, <1>16, <1>17, <1>18, <1>19 DEF Next

\* Two disjoint lists one behind the other.
LEMMA ConcatMembers ==
    ASSUME NEW S, NEW a \in Seq(S), NEW b \in Seq(S)
    PROVE  /\ ToSet(a \o b) = ToSet(a) \cup ToSet(b)
           /\ LinkedOnce(a) /\ LinkedOnce(b) /\ ToSet(a) \cap ToSet(b) = {} => LinkedOnce(a \o b)
<1> DEFINE r == a \o b
           m == Len(a)
           n == Len(b)
<1>1. /\ r \in Seq(S) /\ Len(r) = m + n /\ m \in Nat /\ n \in Nat
      /\ \A i \in 1..m : r[i] = a[i]
      /\ \A i \in (m + 1)..(m + n) : r[i] = b[i - m]
  BY ConcatProperties
<1>2. DOMAIN r = 1..(m + n) /\ DOMAIN a = 1..m /\ DOMAIN b = 1..n
  BY <1>1
<1> HIDE DEF r, m, n
<1>3. /\ \A i \in 1..m : a[i] \in ToSet(a) /\ i \in 1..(m + n)
      /\ \A i \in 1..n : b[i] \in ToSet(b)
  <2>1. \A i \in 1..m : i \in 1..(m + n)
    BY <1>1
  <2>2. (\A i \in 1..m : a[i] \in ToSet(a)) /\ \A i \in 1..n : b[i] \in ToSet(b)
    BY <1>2 DEF ToSet
  <2> QED BY <2>1, <2>2
<1>4. \A i \in 1..(m + n) : \/ i \in 1..m /\ r[i] = a[i]
                            \/ i \in (m + 1)..(m + n) /\ i - m \in 1..n /\ r[i] = b[i - m]
  BY <1>1
<1>5. ToSet(r) = ToSet(a) \cup ToSet(b)
  <2>1. ASSUME NEW x \in ToSet(r) PROVE x \in ToSet(a) \cup ToSet(b)
    <3>1. PICK i \in 1..(m + n) : r[i] = x
      BY <1>2 DEF ToSet
    <3> QED BY <1>3, <1>4, <3>1
  <2>2. ASSUME NEW x \in ToSet(a) PROVE x \in ToSet(r)
    <3>1. PICK i \in 1..m : a[i] = x
      BY <1>2 DEF ToSet
    <3>2. i \in DOMAIN r /\ r[i] = x
      BY <1>1, <1>2, <1>3, <3>1
    <3> QED BY <3>2 DEF ToSet
  <2>3. ASSUME NEW x \in ToSet(b) PROVE x \in ToSet(r)
    <3>1. PICK i \in 1..n : b[i] = x
      BY <1>2 DEF ToSet
    <3>2. m + i \in (m + 1)..(m + n) /\ (m + i) - m = i /\ m + i \in 1..(m + n)
      BY <1>1
    <3>3. m + i \in DOMAIN r /\ r[m + i] = x
      BY <1>1, <1>2, <3>1, <3>2
    <3> QED BY <3>3 DEF ToSet
  <2> QED BY <2>1, <2>2, <2>3
<1>6. ASSUME LinkedOnce(a), LinkedOnce(b), ToSet(a) \cap ToSet(b) = {} PROVE LinkedOnce(r)
  <2> SUFFICES ASSUME NEW i \in 1..(m + n), NEW j \in 1..(m + n), r[i] = r[j]
               PROVE  i = j
    BY <1>2 DEF LinkedOnce
  <2>1. CASE i \in 1..m /\ r[i] = a[i] /\ j \in 1..m /\ r[j] = a[j]
    BY <1>2, <1>6, <2>1 DEF LinkedOnce
  <2>2. CASE i - m \in 1..n /\ r[i] = b[i - m] /\ j - m \in 1..n /\ r[j] = b[j - m]
    <3>1. i - m = j - m
      BY <1>2, <1>6, <2>2 DEF LinkedOnce
    <3> QED BY <1>1, <3>1
  <2>3. CASE i \in 1..m /\ r[i] = a[i] /\ j - m \in 1..n /\ r[j] = b[j - m]
    BY <1>3, <1>6, <2>3
  <2>4. CASE i - m \in 1..n /\ r[i] = b[i - m] /\ j \in 1..m /\ r[j] = a[j]
    BY <1>3, <1>6, <2>4
  <2> QED BY <1>4, <2>1, <2>2, <2>3, <2>4
<1> QED BY <1>5, <1>6 DEF r

\* Every slot is at one place, the two chains end, tail is the last slot and
\* entry the length, for every pool and however sends, receives and resets are
\* interleaved with the copies they make outside the sections.
THEOREM QueueSlotsPartitioned == Spec => []SlotsPartitioned
<1>1. PoolInv => SlotsPartitioned
  <2> SUFFICES ASSUME PoolInv PROVE SlotsPartitioned
    OBVIOUS
  <2>1. PICK q, f : q = QueueSlots /\ f = FreeSlots
    OBVIOUS
  <2>2. Chained(q, f) /\ Holding /\ PoolTypes /\ Null \notin Slots
    BY <2>1, QueueAssumption DEF PoolInv, Slots
  <2>3. /\ ToSet(q \o f) = ToSet(q) \cup ToSet(f)
        /\ LinkedOnce(q \o f)
        /\ ToSet(q) \cup ToSet(f) \subseteq Slots
    <3>1. ToSet(q) \cup ToSet(f) \subseteq Slots
      BY <2>2 DEF Chained, ToSet
    <3> QED BY <2>2, <3>1, ConcatMembers DEF Chained
  <2> DEFINE held == {t \in Threads : msg[t] # Null}
  <2>4. \A t, u \in held : t # u => msg[t] # msg[u]
    BY <2>2 DEF Holding
  <2>5. {msg[t] : t \in held} \cap ToSet(q \o f) = {}
    BY <2>2, <2>3 DEF Chained
  <2>6. ToSet(q \o f) \cup {msg[t] : t \in held} = Slots
    <3>1. {msg[t] : t \in held} \subseteq Slots
      BY <2>2 DEF PoolTypes
    <3>2. ASSUME NEW s \in Slots PROVE s \in ToSet(q \o f) \cup {msg[t] : t \in held}
      <4>1. CASE s \in ToSet(q) \cup ToSet(f)
        BY <2>3, <4>1
      <4>2. ASSUME NEW t \in Threads, msg[t] = s PROVE s \in {msg[u] : u \in held}
        BY <2>2, <4>2
      <4> QED BY <2>2, <4>1, <4>2 DEF Chained
    <3> QED BY <2>3, <3>1, <3>2
  <2>7. /\ entry = Len(q)
        /\ msg_queue_tail = IF q = <<>> THEN Null ELSE Last(q)
    <3>1. entry = Len(q) /\ msg_queue_tail = Nth(q, Len(q)) /\ q \in Seq(Slots)
      BY <2>2 DEF Chained
    <3>2. q = <<>> => Nth(q, Len(q)) = Null
      BY DEF Nth
    <3>3. q # <<>> => Nth(q, Len(q)) = Last(q)
      BY <3>1 DEF Nth, Last
    <3> QED BY <3>1, <3>2, <3>3
  <2> QED BY <2>1, <2>3, <2>4, <2>5, <2>6, <2>7 DEF SlotsPartitioned
<1>2. Init => PoolInv
  BY PoolInitially
<1>3. PoolInv /\ [Next]_vars => PoolInv'
  BY PoolStep
<1> QED BY <1>1, <1>2, <1>3, PTL DEF Spec

-----------------------------------------------------------------------------
\* The messages of the queue as a sequence.
ContentsAreMessages ==
    /\ Contents \in Seq(Messages \cup {NoMessage})
    /\ Len(Contents) = Len(QueueSlots)
    /\ \A i \in 1..Len(QueueSlots) : Contents[i] = data[QueueSlots[i]]

LEMMA ContentsIsSeq == PoolInv => ContentsAreMessages
<1> SUFFICES ASSUME PoolInv PROVE ContentsAreMessages
  OBVIOUS
<1>1. PICK q : q = QueueSlots
  OBVIOUS
<1>2. q \in Seq(Slots) /\ data \in [Slots -> Messages \cup {NoMessage}]
  BY <1>1 DEF PoolInv, Chained, PoolTypes
<1>3. Contents = [i \in 1..Len(q) |-> data[q[i]]]
  BY <1>1 DEF Contents
<1>4. Contents \in [1..Len(q) -> Messages \cup {NoMessage}] /\ Len(q) \in Nat
  BY <1>2, <1>3
<1>5. Contents \in Seq(Messages \cup {NoMessage}) /\ Len(Contents) = Len(q)
  BY <1>3, <1>4
<1> QED BY <1>1, <1>3, <1>5 DEF ContentsAreMessages

LEMMA ContentsIsSeqNext == PoolInv' => ContentsAreMessages'
  BY ContentsIsSeq, PTL

\* A step of the message queue is a step of the channel, or leaves it alone.
LEMMA QueueRefines ==
    PoolInv /\ [Next]_vars => [Promise!Next]_<<Contents, delivered>>
<1> SUFFICES ASSUME PoolInv, [Next]_vars
             PROVE  Promise!Next \/ UNCHANGED <<Contents, delivered>>
  OBVIOUS
<1>1. PoolInv' /\ QueueEffect
  BY PoolStep
<1>2. PICK q, r : q = QueueSlots /\ r = QueueSlots'
  OBVIOUS
<1>3. PICK c, d : c = Contents /\ d = Contents'
  OBVIOUS
<1>4. /\ c \in Seq(Messages \cup {NoMessage}) /\ Len(c) = Len(q)
      /\ \A i \in 1..Len(q) : c[i] = data[q[i]]
  BY <1>2, <1>3, ContentsIsSeq DEF ContentsAreMessages
<1>5. /\ d \in Seq(Messages \cup {NoMessage}) /\ Len(d) = Len(r)
      /\ \A i \in 1..Len(r) : d[i] = data'[r[i]]
  BY <1>1, <1>2, <1>3, ContentsIsSeqNext DEF ContentsAreMessages
<1>6. q \in Seq(Slots) /\ LinkedOnce(q) /\ Len(q) \in Nat
  BY <1>2 DEF PoolInv, Chained
<1>7. CASE /\ r = q /\ delivered' = delivered
           /\ \A s \in ToSet(q) : data'[s] = data[s]
  <2>1. \A i \in 1..Len(q) : q[i] \in ToSet(q)
    BY <1>6 DEF ToSet
  <2>2. \A i \in 1..Len(q) : d[i] = c[i]
    BY <1>4, <1>5, <1>7, <2>1
  <2>3. d = c
    BY <1>4, <1>5, <1>7, <2>2, SeqEqual
  <2> QED BY <1>3, <1>7, <2>3
<1>8. ASSUME NEW s \in Slots, s \notin ToSet(q), data[s] \in Messages,
             r = Append(q, s) \/ r = <<s>> \o q, UNCHANGED <<data, delivered>>
      PROVE  Promise!Next
  <2>1. PICK m \in Messages : m = data[s]
    BY <1>8
  <2>2. Len(c) < MaxMsgs
    BY <1>4, <1>6, <1>8, PoolBound
  <2>3. CASE r = Append(q, s)
    <3>1. Len(r) = Len(q) + 1 /\ r[Len(q) + 1] = s /\ \A i \in 1..Len(q) : r[i] = q[i]
      BY <1>6, <2>3, AppendProperties
    <3>2. /\ Append(c, m) \in Seq(Messages \cup {NoMessage})
          /\ Len(Append(c, m)) = Len(q) + 1
          /\ Append(c, m)[Len(q) + 1] = m
          /\ \A i \in 1..Len(q) : Append(c, m)[i] = c[i]
      BY <1>4, AppendProperties
    <3>3. \A i \in 1..(Len(q) + 1) : d[i] = Append(c, m)[i]
      <4> SUFFICES ASSUME NEW i \in 1..(Len(q) + 1) PROVE d[i] = Append(c, m)[i]
        OBVIOUS
      <4>1. d[i] = data[r[i]]
        BY <1>5, <1>8, <3>1
      <4>2. CASE i = Len(q) + 1
        BY <2>1, <3>1, <3>2, <4>1, <4>2
      <4>3. CASE i # Len(q) + 1
        <5>1. i \in 1..Len(q)
          BY <1>6, <4>3
        <5> QED BY <1>4, <3>1, <3>2, <4>1, <5>1
      <4> QED BY <4>2, <4>3
    <3>4. d = Append(c, m)
      BY <1>5, <3>1, <3>2, <3>3, SeqEqual
    <3>5. Promise!Send(m)
      BY <1>3, <1>8, <2>2, <3>4 DEF Promise!Send
    <3> QED BY <3>5 DEF Promise!Next
  <2>4. CASE r = <<s>> \o q
    <3>1. Len(r) = Len(q) + 1 /\ r[1] = s /\ \A i \in 2..(Len(q) + 1) : r[i] = q[i - 1]
      BY <1>6, <2>4, ConcatProperties
    <3>2. /\ <<m>> \o c \in Seq(Messages \cup {NoMessage})
          /\ Len(<<m>> \o c) = Len(q) + 1
          /\ (<<m>> \o c)[1] = m
          /\ \A i \in 2..(Len(q) + 1) : (<<m>> \o c)[i] = c[i - 1]
      BY <1>4, <1>6, ConcatProperties
    <3>3. \A i \in 1..(Len(q) + 1) : d[i] = (<<m>> \o c)[i]
      <4> SUFFICES ASSUME NEW i \in 1..(Len(q) + 1) PROVE d[i] = (<<m>> \o c)[i]
        OBVIOUS
      <4>1. d[i] = data[r[i]]
        BY <1>5, <1>8, <3>1
      <4>2. CASE i = 1
        BY <2>1, <3>1, <3>2, <4>1, <4>2
      <4>3. CASE i # 1
        <5>1. i \in 2..(Len(q) + 1) /\ i - 1 \in 1..Len(q)
          BY <1>6, <4>3
        <5> QED BY <1>4, <3>1, <3>2, <4>1, <5>1
      <4> QED BY <4>2, <4>3
    <3>4. d = <<m>> \o c
      BY <1>5, <3>1, <3>2, <3>3, SeqEqual
    <3>5. Promise!Urgent(m)
      BY <1>3, <1>8, <2>2, <3>4 DEF Promise!Urgent
    <3> QED BY <3>5 DEF Promise!Next
  <2> QED BY <1>8, <2>3, <2>4
<1>9. CASE q # <<>> /\ r = Tail(q) /\ delivered' = data[Head(q)] /\ UNCHANGED data
  <2>1. /\ Len(q) \in Nat \ {0} /\ Head(q) = q[1] /\ Len(r) = Len(q) - 1
        /\ \A i \in 1..(Len(q) - 1) : r[i] = q[i + 1]
    BY <1>6, <1>9
  <2>2. c # <<>> /\ Head(c) = data[q[1]]
    BY <1>4, <2>1
  <2>3. /\ Tail(c) \in Seq(Messages \cup {NoMessage}) /\ Len(Tail(c)) = Len(q) - 1
        /\ \A i \in 1..(Len(q) - 1) : Tail(c)[i] = c[i + 1]
    BY <1>4, <2>1, <2>2
  <2>4. \A i \in 1..(Len(q) - 1) : d[i] = Tail(c)[i]
    <3> SUFFICES ASSUME NEW i \in 1..(Len(q) - 1) PROVE d[i] = Tail(c)[i]
      OBVIOUS
    <3>1. i + 1 \in 1..Len(q)
      BY <2>1
    <3>2. d[i] = data[r[i]]
      BY <1>5, <1>9, <2>1
    <3> QED BY <1>4, <2>1, <2>3, <3>1, <3>2
  <2>5. d = Tail(c)
    BY <1>5, <2>1, <2>3, <2>4, SeqEqual
  <2>6. Promise!Receive
    BY <1>3, <1>9, <2>1, <2>2, <2>5 DEF Promise!Receive
  <2> QED BY <2>6 DEF Promise!Next
<1>10. CASE r = <<>> /\ UNCHANGED delivered
  <2>1. d = <<>>
    BY <1>5, <1>10
  <2>2. Promise!Reset
    BY <1>3, <1>10, <2>1 DEF Promise!Reset
  <2> QED BY <2>2 DEF Promise!Next
<1> QED BY <1>1, <1>2, <1>7, <1>8, <1>9, <1>10 DEF QueueEffect

\* The message queue is a bounded first-in first-out channel with urgent
\* messages: no message is lost, doubled or overtaken although every copy is
\* made outside the sections that take and give back the slot.
THEOREM QueueImplementsChannel == Spec => ImplementsChannel
<1>1. Init => Promise!Init
  <2> SUFFICES ASSUME Init PROVE Promise!Init
    OBVIOUS
  <2>1. QueueSlots = <<>> /\ ContentsAreMessages /\ delivered = NoMessage
    BY PoolInitially, ContentsIsSeq DEF Init
  <2>2. Contents = <<>>
    BY <2>1 DEF ContentsAreMessages
  <2> QED BY <2>1, <2>2 DEF Promise!Init
<1>2. Init => PoolInv
  BY PoolInitially
<1>3. PoolInv /\ [Next]_vars => PoolInv'
  BY PoolStep
<1> QED BY <1>1, <1>2, <1>3, QueueRefines, PTL DEF Spec, ImplementsChannel, Promise!Spec
=============================================================================

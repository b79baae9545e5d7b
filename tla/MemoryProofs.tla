---------------------------- MODULE MemoryProofs ----------------------------
(***************************************************************************)
(* The headers of the heap tile the memory and used_mem counts what is in  *)
(* use, the heap is an allocator, and a pool that is created or deleted    *)
(* leaves nothing behind, for every size of memory, headers and requests,  *)
(* every set of callers and every interleaving of their calls; and a pool  *)
(* with one waiter that is more urgent than its other threads (WaiterFirst)*)
(* keeps its counters true and its promises.                               *)
(***************************************************************************)
EXTENDS Memory, RtListProofs, FiniteSetTheorems

Header == [used : BOOLEAN, next : Nat, prev : Nat]

\* The headers h are chained in address order, in both directions; prev of the
\* end is not kept up to date and nobody reads it.
InOrder(h) ==
    /\ h \in [DOMAIN h -> Header]
    /\ {0, heap_end} \subseteq DOMAIN h /\ DOMAIN h \subseteq 0..heap_end
    /\ h[heap_end].used /\ h[0].prev = 0
    /\ \A p \in DOMAIN h \ {heap_end} :
          /\ h[p].next \in DOMAIN h /\ p + HeaderSize <= h[p].next
          /\ \A q \in DOMAIN h : q <= p \/ h[p].next <= q
          /\ h[p].next # heap_end => h[h[p].next].prev = p
    /\ \A p \in DOMAIN h \ {0, heap_end} :
          h[p].prev \in DOMAIN h /\ h[p].prev < p /\ h[h[p].prev].next = p

\* No two free blocks are neighbours, unless one of them is in S.
Apart(h, S) ==
    \A p \in DOMAIN h \ {heap_end} :
        p \in S \/ h[p].next \in S \/ h[p].used \/ h[h[p].next].used

-----------------------------------------------------------------------------
\* A block takes over its neighbour.
LEMMA JoinKeeps ==
    ASSUME NEW h, InOrder(h), NEW lo \in DOMAIN h \ {heap_end}, NEW hi, hi = h[lo].next,
           hi # heap_end
    PROVE  /\ InOrder(Join(h, lo, hi))
           /\ DOMAIN Join(h, lo, hi) = DOMAIN h \ {hi}
           /\ \A p \in DOMAIN h \ {hi} :
                 /\ Join(h, lo, hi)[p].used = h[p].used
                 /\ Join(h, lo, hi)[p].next = IF p = lo THEN h[hi].next ELSE h[p].next
<1> DEFINE j == Join(h, lo, hi)
           n == h[hi].next
           D == DOMAIN h \ {hi}
<1>0. HeaderSize \in Nat \ {0} /\ heap_end \in Nat /\ 0 # heap_end
  BY HeapAssumption DEF heap_end
<1>1. /\ hi \in DOMAIN h /\ n \in DOMAIN h /\ lo \in DOMAIN h
      /\ lo \in Nat /\ hi \in Nat /\ n \in Nat /\ lo < hi /\ hi < n
      /\ \A p \in DOMAIN h : p \in Nat /\ h[p] \in Header
  BY <1>0 DEF InOrder
<1>2. \A p \in D : /\ j[p] \in Header
                   /\ j[p].used = h[p].used
                   /\ j[p].next = IF p = lo THEN n ELSE h[p].next
                   /\ j[p].prev = IF p = n THEN lo ELSE h[p].prev
  <2> SUFFICES ASSUME NEW p \in D
               PROVE  /\ j[p] \in Header
                      /\ j[p].used = h[p].used
                      /\ j[p].next = IF p = lo THEN n ELSE h[p].next
                      /\ j[p].prev = IF p = n THEN lo ELSE h[p].prev
    OBVIOUS
  <2>1. h[p] \in [used : BOOLEAN, next : Nat, prev : Nat]
    BY <1>1 DEF Header
  <2>2. lo # n /\ lo \in Nat /\ n \in Nat
    BY <1>1
  <2>3. j[p] = CASE p = lo /\ p # n -> [h[p] EXCEPT !.next = n]
                 [] p = n /\ p # lo -> [h[p] EXCEPT !.prev = lo]
                 [] OTHER -> h[p]
    BY DEF Join
  <2> HIDE DEF j, n
  <2>4. CASE p = lo
    <3>1. j[p] = [h[p] EXCEPT !.next = n]
      BY <2>2, <2>3, <2>4
    <3> QED BY <2>1, <2>2, <2>4, <3>1 DEF Header
  <2>5. CASE p = n
    <3>1. j[p] = [h[p] EXCEPT !.prev = lo]
      BY <2>2, <2>3, <2>5
    <3> QED BY <2>1, <2>2, <2>5, <3>1 DEF Header
  <2>6. CASE p # lo /\ p # n
    <3>1. j[p] = h[p]
      BY <2>3, <2>6
    <3> QED BY <2>1, <2>6, <3>1 DEF Header
  <2> QED BY <2>4, <2>5, <2>6
<1>3. DOMAIN j = D
  BY DEF Join
<1>4. j = [p \in D |-> j[p]]
  BY DEF Join
<1> HIDE DEF j
<1>5. \A p \in D : /\ j[p].used = h[p].used
                   /\ j[p].next = IF p = lo THEN n ELSE h[p].next
                   /\ j[p].prev = IF p = n THEN lo ELSE h[p].prev
  BY <1>2
<1>6. j \in [D -> Header]
  BY <1>2, <1>4
<1>7. ASSUME NEW p \in D \ {heap_end}
      PROVE  /\ j[p].next \in D /\ p + HeaderSize <= j[p].next
             /\ \A q \in D : q <= p \/ j[p].next <= q
             /\ j[p].next # heap_end => j[j[p].next].prev = p
  <2>1. CASE p = lo
    <3>1. j[p].next = n /\ n \in D
      BY <1>1, <1>5, <2>1
    <3>2. \A q \in D : q <= lo \/ n <= q
      BY <1>1 DEF InOrder
    <3>3. lo + HeaderSize <= hi
      BY DEF InOrder
    <3>4. lo + HeaderSize <= n
      BY <1>0, <1>1, <3>3
    <3> QED BY <1>5, <2>1, <3>1, <3>2, <3>4
  <2>2. CASE p # lo
    <3>1. j[p].next = h[p].next /\ h[p].next \in DOMAIN h /\ p + HeaderSize <= h[p].next
          /\ \A q \in DOMAIN h : q <= p \/ h[p].next <= q
      BY <1>5, <2>2 DEF InOrder
    <3>2. h[p].next # hi
      BY <2>2 DEF InOrder
    <3>3. h[p].next # heap_end => h[p].next # n /\ h[h[p].next].prev = p
      <4> SUFFICES ASSUME h[p].next # heap_end PROVE h[p].next # n /\ h[h[p].next].prev = p
        OBVIOUS
      <4>1. h[h[p].next].prev = p
        BY DEF InOrder
      <4>2. n # heap_end => h[n].prev = hi
        BY <1>1 DEF InOrder
      <4> QED BY <4>1, <4>2
    <3> QED BY <1>5, <3>1, <3>2, <3>3
  <2> QED BY <2>1, <2>2
<1>8. ASSUME NEW p \in D \ {0, heap_end}
      PROVE  j[p].prev \in D /\ j[p].prev < p /\ j[j[p].prev].next = p
  <2>1. CASE p = n
    BY <1>1, <1>5, <2>1
  <2>2. CASE p # n
    <3>1. j[p].prev = h[p].prev /\ h[p].prev \in DOMAIN h /\ h[p].prev < p /\ h[h[p].prev].next = p
      BY <1>5, <2>2 DEF InOrder
    <3>2. h[p].prev # hi /\ h[p].prev # lo
      BY <2>2, <3>1
    <3> QED BY <1>5, <3>1, <3>2
  <2> QED BY <2>1, <2>2
<1>9. /\ {0, heap_end} \subseteq D /\ D \subseteq 0..heap_end
      /\ j[heap_end].used /\ j[0].prev = 0
  <2>1. 0 # hi /\ 0 # n /\ 0 \in DOMAIN h /\ heap_end \in DOMAIN h /\ DOMAIN h \subseteq 0..heap_end
    BY <1>1 DEF InOrder
  <2>2. h[heap_end].used /\ h[0].prev = 0
    BY DEF InOrder
  <2> QED BY <1>5, <2>1, <2>2
<1>10. InOrder(j)
  BY <1>3, <1>6, <1>7, <1>8, <1>9 DEF InOrder
<1> QED BY <1>3, <1>5, <1>10 DEF j

\* A block is cut in two.
LEMMA SplitKeeps ==
    ASSUME NEW h, InOrder(h), NEW mem \in DOMAIN h \ {heap_end}, NEW ptr2 \in Nat,
           mem + HeaderSize <= ptr2, ptr2 + HeaderSize <= h[mem].next
    PROVE  /\ ptr2 \notin DOMAIN h
           /\ InOrder(Split(h, mem, ptr2))
           /\ DOMAIN Split(h, mem, ptr2) = DOMAIN h \cup {ptr2}
           /\ ~Split(h, mem, ptr2)[ptr2].used
           /\ Split(h, mem, ptr2)[ptr2].next = h[mem].next
           /\ \A p \in DOMAIN h :
                 /\ Split(h, mem, ptr2)[p].used = h[p].used
                 /\ Split(h, mem, ptr2)[p].next = IF p = mem THEN ptr2 ELSE h[p].next
<1> DEFINE j == Split(h, mem, ptr2)
           n == h[mem].next
           D == DOMAIN h \cup {ptr2}
<1>0. HeaderSize \in Nat \ {0} /\ heap_end \in Nat /\ 0 # heap_end
  BY HeapAssumption DEF heap_end
<1>1. /\ n \in DOMAIN h /\ mem \in DOMAIN h /\ mem \in Nat /\ n \in Nat
      /\ mem < ptr2 /\ ptr2 < n
      /\ \A p \in DOMAIN h : p \in Nat /\ h[p] \in Header /\ (p <= mem \/ n <= p)
  BY <1>0 DEF InOrder
<1>2. ptr2 \notin DOMAIN h /\ mem # n
  BY <1>1
<1>3. /\ j[ptr2] = [used |-> FALSE, next |-> n, prev |-> mem]
      /\ \A p \in DOMAIN h :
            /\ j[p] \in Header
            /\ j[p].used = h[p].used
            /\ j[p].next = IF p = mem THEN ptr2 ELSE h[p].next
            /\ j[p].prev = IF p = n /\ p # heap_end THEN ptr2 ELSE h[p].prev
  <2>0. \A p \in D :
            j[p] = CASE p = ptr2 -> [used |-> FALSE, next |-> n, prev |-> mem]
                     [] p = mem -> [h[p] EXCEPT !.next = ptr2]
                     [] p = n /\ p # heap_end -> [h[p] EXCEPT !.prev = ptr2]
                     [] OTHER -> h[p]
    BY DEF Split
  <2>1. j[ptr2] = [used |-> FALSE, next |-> n, prev |-> mem]
    <3> HIDE DEF j, n
    <3>1. ptr2 \in D /\ ptr2 # mem /\ ptr2 # n
      BY <1>1
    <3> QED BY <2>0, <3>1
  <2>2. ASSUME NEW p \in DOMAIN h
        PROVE  /\ j[p] \in Header
               /\ j[p].used = h[p].used
               /\ j[p].next = IF p = mem THEN ptr2 ELSE h[p].next
               /\ j[p].prev = IF p = n /\ p # heap_end THEN ptr2 ELSE h[p].prev
    <3>1. h[p] \in [used : BOOLEAN, next : Nat, prev : Nat] /\ p # ptr2 /\ p \in D
      BY <1>1, <1>2 DEF Header
    <3> HIDE DEF j, n
    <3>3. CASE p = mem
      <4>1. j[p] = [h[p] EXCEPT !.next = ptr2]
        BY <1>2, <2>0, <3>1, <3>3
      <4> QED BY <1>2, <3>1, <3>3, <4>1 DEF Header
    <3>4. CASE p = n /\ p # heap_end
      <4>1. j[p] = [h[p] EXCEPT !.prev = ptr2]
        BY <1>2, <2>0, <3>1, <3>4
      <4> QED BY <1>2, <3>1, <3>4, <4>1 DEF Header
    <3>5. CASE p # mem /\ ~(p = n /\ p # heap_end)
      <4>1. j[p] = h[p]
        BY <2>0, <3>1, <3>5
      <4> QED BY <3>1, <3>5, <4>1 DEF Header
    <3> QED BY <3>3, <3>4, <3>5
  <2> QED BY <2>1, <2>2
<1>4. DOMAIN j = D /\ j = [p \in D |-> j[p]]
  BY DEF Split
<1> HIDE DEF j
<1>5. /\ ~j[ptr2].used /\ j[ptr2].next = n /\ j[ptr2].prev = mem
      /\ \A p \in DOMAIN h : /\ j[p].used = h[p].used
                             /\ j[p].next = IF p = mem THEN ptr2 ELSE h[p].next
                             /\ j[p].prev = IF p = n /\ p # heap_end THEN ptr2 ELSE h[p].prev
  BY <1>3
<1>6. j \in [D -> Header]
  <2>1. j[ptr2] \in Header
    BY <1>1, <1>3 DEF Header
  <2> QED BY <1>3, <1>4, <2>1
<1>7. ASSUME NEW p \in D \ {heap_end}
      PROVE  /\ j[p].next \in D /\ p + HeaderSize <= j[p].next
             /\ \A q \in D : q <= p \/ j[p].next <= q
             /\ j[p].next # heap_end => j[j[p].next].prev = p
  <2>1. CASE p = mem
    <3>1. \A q \in D : q <= mem \/ ptr2 <= q
      BY <1>1
    <3> QED BY <1>1, <1>5, <2>1, <3>1
  <2>2. CASE p = ptr2
    <3>1. \A q \in D : q <= ptr2 \/ n <= q
      BY <1>1
    <3> QED BY <1>1, <1>5, <2>2, <3>1
  <2>3. CASE p # mem /\ p # ptr2
    <3>1. p \in DOMAIN h \ {heap_end} /\ j[p].next = h[p].next
      BY <1>5, <2>3
    <3>2. h[p].next \in DOMAIN h /\ p + HeaderSize <= h[p].next
          /\ \A q \in DOMAIN h : q <= p \/ h[p].next <= q
      BY <3>1 DEF InOrder
    <3>3. ptr2 <= p \/ h[p].next <= ptr2
      <4>1. p <= mem \/ n <= p
        BY <1>1, <3>1
      <4>2. p <= mem => h[p].next <= mem
        BY <1>1, <2>3, <3>1, <3>2
      <4>3. h[p].next \in Nat /\ p \in Nat
        BY <1>1, <3>1, <3>2
      <4> QED BY <1>1, <4>1, <4>2, <4>3
    <3>4. h[p].next # heap_end => h[p].next # n /\ h[h[p].next].prev = p
      <4> SUFFICES ASSUME h[p].next # heap_end PROVE h[p].next # n /\ h[h[p].next].prev = p
        OBVIOUS
      <4>1. h[h[p].next].prev = p
        BY <3>1 DEF InOrder
      <4>2. n # heap_end => h[n].prev = mem
        BY DEF InOrder
      <4> QED BY <2>3, <4>1, <4>2
    <3>5. \A q \in D : q <= p \/ h[p].next <= q
      <4>1. ptr2 <= p \/ h[p].next <= ptr2
        BY <3>3
      <4> QED BY <3>2, <4>1
    <3> QED BY <1>5, <3>1, <3>2, <3>4, <3>5
  <2> QED BY <2>1, <2>2, <2>3
<1>8. ASSUME NEW p \in D \ {0, heap_end}
      PROVE  j[p].prev \in D /\ j[p].prev < p /\ j[j[p].prev].next = p
  <2>1. CASE p = ptr2
    BY <1>1, <1>5, <2>1
  <2>2. CASE p = n
    BY <1>1, <1>5, <2>2
  <2>3. CASE p # ptr2 /\ p # n
    <3>1. /\ p \in DOMAIN h \ {0, heap_end} /\ j[p].prev = h[p].prev
          /\ h[p].prev \in DOMAIN h /\ h[p].prev < p /\ h[h[p].prev].next = p
      BY <1>5, <2>3 DEF InOrder
    <3>2. h[p].prev # mem
      BY <2>3, <3>1
    <3> QED BY <1>5, <3>1, <3>2
  <2> QED BY <2>1, <2>2, <2>3
<1>9. /\ {0, heap_end} \subseteq D /\ D \subseteq 0..heap_end
      /\ j[heap_end].used /\ j[0].prev = 0
  <2>1. /\ 0 \in DOMAIN h /\ heap_end \in DOMAIN h /\ DOMAIN h \subseteq 0..heap_end
        /\ h[heap_end].used /\ h[0].prev = 0
    BY DEF InOrder
  <2>2. 0 # n /\ n <= heap_end
    BY <1>0, <1>1, <2>1
  <2>3. ptr2 \in 0..heap_end
    BY <1>0, <1>1, <2>2
  <2> QED BY <1>5, <2>1, <2>2, <2>3
<1>10. InOrder(j)
  BY <1>4, <1>6, <1>7, <1>8, <1>9 DEF InOrder
<1> QED BY <1>2, <1>4, <1>5, <1>10 DEF j

\* A block changes hands: only its used flag is written.
LEMMA MarkKeeps ==
    ASSUME NEW h, InOrder(h), NEW mem \in DOMAIN h \ {heap_end}, NEW b \in BOOLEAN
    PROVE  /\ InOrder([h EXCEPT ![mem].used = b])
           /\ DOMAIN [h EXCEPT ![mem].used = b] = DOMAIN h
           /\ \A p \in DOMAIN h :
                 /\ [h EXCEPT ![mem].used = b][p].used = IF p = mem THEN b ELSE h[p].used
                 /\ [h EXCEPT ![mem].used = b][p].next = h[p].next
<1> DEFINE j == [h EXCEPT ![mem].used = b]
<1>1. h \in [DOMAIN h -> Header]
  BY DEF InOrder
<1>2. DOMAIN j = DOMAIN h /\ j = [p \in DOMAIN h |-> j[p]]
  BY <1>1
<1>3. \A p \in DOMAIN h :
          /\ j[p] \in Header
          /\ j[p].used = IF p = mem THEN b ELSE h[p].used
          /\ j[p].next = h[p].next /\ j[p].prev = h[p].prev
  <2>1. h[mem] \in [used : BOOLEAN, next : Nat, prev : Nat]
    BY <1>1 DEF Header
  <2>2. j[mem] = [h[mem] EXCEPT !.used = b]
    BY <1>1
  <2>3. \A p \in DOMAIN h \ {mem} : j[p] = h[p] /\ j[p] \in Header
    BY <1>1
  <2> HIDE DEF j
  <2>4. /\ j[mem] \in Header /\ j[mem].used = b
        /\ j[mem].next = h[mem].next /\ j[mem].prev = h[mem].prev
    BY <2>1, <2>2 DEF Header
  <2> QED BY <2>3, <2>4
<1> HIDE DEF j
<1>4. j \in [DOMAIN h -> Header]
  BY <1>2, <1>3
<1>5. j[heap_end].used
  <2>1. heap_end \in DOMAIN h /\ h[heap_end].used
    BY DEF InOrder
  <2> QED BY <1>3, <2>1
<1>6. InOrder(j)
  BY <1>2, <1>3, <1>4, <1>5 DEF InOrder
<1> QED BY <1>2, <1>3, <1>6 DEF j

\* lfree, as far as rt_malloc relies on it: a free block or the end.
LowOk(h, low) == low \in DOMAIN h /\ (low = heap_end \/ ~h[low].used)

\* plug_holes joins a free block with the free neighbours it may have; used
\* blocks stay as they are.
LEMMA PlugKeeps ==
    ASSUME NEW h, InOrder(h), NEW mem \in DOMAIN h \ {heap_end}, ~h[mem].used,
           Apart(h, {mem}), NEW low, LowOk(h, low)
    PROVE  LET r == plug_holes(h, low, mem)
           IN  /\ InOrder(r.heap) /\ Apart(r.heap, {}) /\ LowOk(r.heap, r.lfree)
               /\ \A q \in DOMAIN h : h[q].used =>
                     q \in DOMAIN r.heap /\ r.heap[q].used /\ r.heap[q].next = h[q].next
               /\ \A q \in DOMAIN r.heap : r.heap[q].used => q \in DOMAIN h /\ h[q].used
<1> DEFINE f    == PlugForward(h, mem)
           hi   == h[mem].next
           h1   == IF f THEN Join(h, mem, hi) ELSE h
           low1 == IF f /\ low = hi THEN mem ELSE low
           b    == PlugBackward(h1, mem)
           pp   == h1[mem].prev
           h2   == IF b THEN Join(h1, pp, mem) ELSE h1
           low2 == IF b /\ low1 = mem THEN pp ELSE low1
<1>1. plug_holes(h, low, mem).heap = h2 /\ plug_holes(h, low, mem).lfree = low2
  BY DEF plug_holes
<1>0. HeaderSize \in Nat \ {0} /\ heap_end \in Nat /\ 0 # heap_end
  BY HeapAssumption DEF heap_end
<1>2. /\ hi \in DOMAIN h /\ mem \in Nat /\ hi \in Nat /\ mem < hi
      /\ h[heap_end].used /\ heap_end \in DOMAIN h
      /\ \A p \in DOMAIN h : p \in Nat
  BY <1>0 DEF InOrder
<1>3. f <=> ~h[hi].used /\ hi # heap_end
  BY <1>2 DEF PlugForward
<1> HIDE DEF f, hi, b, pp
\* The block with the hole in front of it.
<1>4. /\ InOrder(h1) /\ mem \in DOMAIN h1 \ {heap_end} /\ ~h1[mem].used
      /\ DOMAIN h1 \subseteq DOMAIN h
      /\ h1[h1[mem].next].used
      /\ Apart(h1, {mem})
      /\ LowOk(h1, low1)
      /\ \A q \in DOMAIN h : h[q].used => q \in DOMAIN h1 /\ h1[q].used /\ h1[q].next = h[q].next
      /\ \A q \in DOMAIN h1 : h1[q].used => h[q].used
  <2>1. CASE ~f
    <3>1. h1 = h /\ low1 = low
      BY <2>1
    <3>2. h[hi].used
      BY <1>2, <1>3, <2>1
    <3> QED BY <3>1, <3>2 DEF hi
  <2>2. CASE f
    <3> DEFINE n == h[hi].next
    <3>1. h1 = Join(h, mem, hi) /\ ~h[hi].used /\ hi # heap_end
      BY <1>3, <2>2
    <3>2. low1 = IF low = hi THEN mem ELSE low
      BY <2>2
    <3> HIDE DEF h1, low1, n
    <3>3. /\ InOrder(h1) /\ DOMAIN h1 = DOMAIN h \ {hi}
          /\ \A p \in DOMAIN h \ {hi} : /\ h1[p].used = h[p].used
                                        /\ h1[p].next = IF p = mem THEN n ELSE h[p].next
      <4>1. mem \in DOMAIN h \ {heap_end} /\ hi = h[mem].next /\ hi # heap_end
        BY <3>1 DEF hi
      <4>2. /\ InOrder(Join(h, mem, hi)) /\ DOMAIN Join(h, mem, hi) = DOMAIN h \ {hi}
            /\ \A p \in DOMAIN h \ {hi} :
                  /\ Join(h, mem, hi)[p].used = h[p].used
                  /\ Join(h, mem, hi)[p].next = IF p = mem THEN h[hi].next ELSE h[p].next
        BY <4>1, JoinKeeps
      <4> QED BY <3>1, <4>2 DEF n
    <3>4. n \in DOMAIN h /\ n \in Nat /\ hi < n /\ n # hi /\ n # mem
      BY <1>0, <1>2, <3>1 DEF InOrder, n
    <3>5. h[n].used
      BY <1>2, <3>1, <3>4 DEF Apart, n
    <3>6. mem \in DOMAIN h1 \ {heap_end} /\ ~h1[mem].used /\ h1[mem].next = n /\ h1[n].used
      BY <1>2, <3>3, <3>4, <3>5
    <3>7. Apart(h1, {mem})
      <4> SUFFICES ASSUME NEW p \in DOMAIN h1 \ {heap_end}, p # mem, h1[p].next # mem
                   PROVE  h1[p].used \/ h1[h1[p].next].used
        BY DEF Apart
      <4>1. p \in DOMAIN h \ {heap_end} /\ h1[p].next = h[p].next /\ h1[p].used = h[p].used
        BY <3>3
      <4>2. h1[p].next \in DOMAIN h1
        BY <3>3 DEF InOrder
      <4>3. h1[h1[p].next].used = h[h[p].next].used
        BY <3>3, <4>1, <4>2
      <4>4. h[p].used \/ h[h[p].next].used
        BY <4>1 DEF Apart
      <4> QED BY <4>1, <4>3, <4>4
    <3>8. LowOk(h1, low1)
      BY <3>2, <3>3, <3>6 DEF LowOk
    <3>9. \A q \in DOMAIN h : h[q].used => q \in DOMAIN h1 /\ h1[q].used /\ h1[q].next = h[q].next
      BY <3>1, <3>3
    <3>10. \A q \in DOMAIN h1 : h1[q].used => h[q].used
      BY <3>3
    <3> QED BY <3>3, <3>6, <3>7, <3>8, <3>9, <3>10
  <2> QED BY <2>1, <2>2
<1> HIDE DEF h1, low1
\* Who may come before it.
<1>5. /\ mem # 0 => pp \in DOMAIN h1 \ {heap_end} /\ pp # mem /\ pp < mem /\ h1[pp].next = mem
      /\ mem = 0 => pp = 0
      /\ \A p \in DOMAIN h1 \ {heap_end} : h1[p].next = mem => mem # 0 /\ p = pp
  <2>1. mem # 0 => pp \in DOMAIN h1 \ {heap_end} /\ pp # mem /\ pp < mem /\ h1[pp].next = mem
    <3> SUFFICES ASSUME mem # 0 
                 PROVE  pp \in DOMAIN h1 \ {heap_end} /\ pp # mem /\ pp < mem /\ h1[pp].next = mem
      OBVIOUS
    <3>1. pp \in DOMAIN h1 /\ pp < mem /\ h1[pp].next = mem
      BY <1>4 DEF InOrder, pp
    <3>2. pp \in 0..heap_end /\ mem \in 0..heap_end
      BY <1>4, <3>1 DEF InOrder
    <3> QED BY <1>0, <3>1, <3>2
  <2>2. mem = 0 => pp = 0
    BY <1>4 DEF InOrder, pp
  <2>3. ASSUME NEW p \in DOMAIN h1 \ {heap_end}, h1[p].next = mem PROVE mem # 0 /\ p = pp
    <3>1. h1[mem].prev = p
      BY <1>4, <2>3 DEF InOrder
    <3>2. p + HeaderSize <= mem /\ p \in Nat
      BY <1>2, <1>4, <2>3 DEF InOrder
    <3>3. mem # 0
      BY <1>0, <1>2, <3>2
    <3> QED BY <3>1, <3>3 DEF pp
  <2> QED BY <2>1, <2>2, <2>3
<1>6. b <=> ~h1[pp].used /\ pp # mem
  BY DEF b, PlugBackward, pp
\* The block with the hole behind it.
<1>7. CASE ~b
  <2>1. h2 = h1 /\ low2 = low1
    BY <1>7
  <2>2. Apart(h1, {})
    <3> SUFFICES ASSUME NEW p \in DOMAIN h1 \ {heap_end}
                 PROVE  h1[p].used \/ h1[h1[p].next].used
      BY DEF Apart
    <3>1. CASE p = mem
      BY <1>4, <3>1
    <3>2. CASE h1[p].next = mem
      BY <1>5, <1>6, <1>7, <3>2
    <3>3. CASE p # mem /\ h1[p].next # mem
      BY <1>4, <3>3 DEF Apart
    <3> QED BY <3>1, <3>2, <3>3
  <2> QED BY <1>1, <1>4, <2>1, <2>2
<1>8. CASE b
  <2> DEFINE n == h1[mem].next
  <2>1. /\ h2 = Join(h1, pp, mem) /\ low2 = IF low1 = mem THEN pp ELSE low1
        /\ ~h1[pp].used /\ pp # mem
    BY <1>6, <1>8
  <2>2. mem # 0 /\ pp \in DOMAIN h1 \ {heap_end} /\ h1[pp].next = mem
    BY <1>5, <2>1
  <2> HIDE DEF h2, low2, n
  <2>3. /\ InOrder(h2) /\ DOMAIN h2 = DOMAIN h1 \ {mem}
        /\ \A p \in DOMAIN h1 \ {mem} : /\ h2[p].used = h1[p].used
                                        /\ h2[p].next = IF p = pp THEN n ELSE h1[p].next
    <3>1. pp \in DOMAIN h1 \ {heap_end} /\ mem = h1[pp].next /\ mem # heap_end /\ InOrder(h1)
      BY <1>4, <2>2
    <3>2. /\ InOrder(Join(h1, pp, mem)) /\ DOMAIN Join(h1, pp, mem) = DOMAIN h1 \ {mem}
          /\ \A p \in DOMAIN h1 \ {mem} :
                /\ Join(h1, pp, mem)[p].used = h1[p].used
                /\ Join(h1, pp, mem)[p].next = IF p = pp THEN h1[mem].next ELSE h1[p].next
      BY <3>1, JoinKeeps
    <3> QED BY <2>1, <3>2 DEF n
  <2>4. Apart(h2, {})
    <3> SUFFICES ASSUME NEW p \in DOMAIN h2 \ {heap_end}
                 PROVE  h2[p].used \/ h2[h2[p].next].used
      BY DEF Apart
    <3>1. p \in DOMAIN h1 \ {mem} /\ h2[p].next \in DOMAIN h2
      BY <2>3 DEF InOrder
    <3>2. CASE p = pp
      <4>1. h2[p].next = n /\ h1[n].used
        BY <1>4, <2>3, <3>1, <3>2 DEF n
      <4> QED BY <2>3, <3>1, <4>1
    <3>3. CASE p # pp
      <4>1. h2[p].next = h1[p].next /\ h1[p].next # mem /\ h2[p].used = h1[p].used
        BY <2>3, <3>1, <3>3
      <4>2. h1[p].used \/ h1[h1[p].next].used
        BY <1>4, <3>1, <4>1 DEF Apart
      <4> QED BY <2>3, <3>1, <4>1, <4>2
    <3> QED BY <3>2, <3>3
  <2>5. LowOk(h2, low2)
    BY <1>4, <2>1, <2>2, <2>3 DEF LowOk
  <2>6. \A q \in DOMAIN h1 : h1[q].used => q \in DOMAIN h2 /\ h2[q].used /\ h2[q].next = h1[q].next
    BY <1>4, <2>1, <2>3
  <2>7. \A q \in DOMAIN h2 : h2[q].used => q \in DOMAIN h1 /\ h1[q].used
    BY <2>3
  <2> QED BY <1>1, <1>4, <2>3, <2>4, <2>5, <2>6, <2>7
<1> QED BY <1>7, <1>8

-----------------------------------------------------------------------------
(* The invariant of the heap. *)

\* Between two sections the headers are chained, no two neighbours are free and
\* lfree is a free block or the end.
HeapOk == InOrder(heap) /\ Apart(heap, {}) /\ LowOk(heap, lfree)

\* A block that a caller holds is a used one and as large as was asked for.
BlocksOk ==
    /\ blocks \in [DOMAIN blocks -> [owner : Callers, size : Nat]]
    /\ DOMAIN blocks \subseteq DOMAIN heap \ {heap_end}
    /\ \A p \in DOMAIN blocks : heap[p].used /\ blocks[p].size <= UserSize(heap, p)

\* A call that has found a block holds the semaphore, so the block is still free
\* and large enough when it is carved; an rt_realloc still holds its old block.
CallsOk ==
    /\ call \in [Callers -> [at : {"idle", "malloc", "commit", "free"}, size : Nat,
                              mem : Nat \cup {Nowhere}, old : Nat \cup {Nowhere}]]
    /\ heap_sem \in Callers \cup {NoThread}
    /\ \A t \in Callers :
          /\ call[t].at = "commit" <=> heap_sem = t
          /\ call[t].at = "commit" /\ call[t].mem # Nowhere =>
                /\ call[t].mem \in DOMAIN heap \ {heap_end} /\ ~heap[call[t].mem].used
                /\ call[t].size <= UserSize(heap, call[t].mem)
          /\ call[t].at \in {"malloc", "free"} => call[t].old # Nowhere
          /\ call[t].at = "idle" => call[t].old = Nowhere
          /\ call[t].old # Nowhere => call[t].old \in Held(t)

HeapInv == HeapOk /\ BlocksOk /\ CallsOk

(* The invariant of the pool's memory. *)

Places == {"run", "object", "link", "room", "fill", "wake", "unlink", "release"}

OfPool == {p \in DOMAIN blocks : blocks[p].owner \in Managers}

\* The control block and the room of the pool exist while a manager stands at
\* the given place, or while all of them are outside ("run").
Made(place) == place \in {"link", "room", "fill", "wake", "unlink", "release"} \/ (place = "run" /\ mp # Nowhere)
Roomy(place) == place = "wake" \/ (place = "run" /\ mp # Nowhere)
Linked(place) == Made(place) /\ place \notin {"link", "release"}

\* What the heap holds for the pool at each place.
PoolMemory(place) ==
    /\ place # "run" => mp = Nowhere
    /\ object # Nowhere <=> Made(place)
    /\ start_address # Nowhere <=> Roomy(place)
    /\ object # start_address \/ object = Nowhere
    /\ OfPool = {object, start_address} \ {Nowhere}
    /\ object_list = IF Linked(place) THEN <<object>> ELSE <<>>

\* At most one manager is inside rt_mp_create or rt_mp_delete.
ManageInv ==
    /\ pc = [t \in Threads |-> pc[t]]
    /\ \A t \in Managers :
          /\ pc[t] \in Places /\ call[t].old = Nowhere
          /\ call[t].at = IF pc[t] \in {"object", "fill"} THEN "commit" ELSE "idle"
          /\ pc[t] # "run" => PoolMemory(pc[t])
          /\ pc[t] # "run" => \A u \in Managers : pc[u] # "run" => u = t
    /\ (\A t \in Managers : pc[t] = "run") => PoolMemory("run")

-----------------------------------------------------------------------------
(* Every section of the heap keeps its invariant. *)

\* Sizes and addresses are numbers, the semaphore's free state is no caller.
LEMMA HeapNumbers ==
    /\ HeaderSize \in Nat \ {0} /\ MinSize \in Nat \ {0} /\ MemSize \in Nat
    /\ heap_end \in Nat /\ 0 # heap_end /\ Nowhere \notin Nat /\ NoThread \notin Callers
    /\ Sizes \subseteq Nat
BY HeapAssumption DEF heap_end

\* The first address of a set that is not empty.
LEMMA MinIsLeast ==
    ASSUME NEW S \in SUBSET Nat, S # {}
    PROVE  Min(S) \in S /\ \A q \in S : Min(S) <= q
<1>1. PICK m \in S : \A q \in S : m <= q
  BY LeastExists
<1>2. \E x \in S : \A y \in S : x <= y
  BY <1>1
<1>3. Min(S) = CHOOSE x \in S : \A y \in S : x <= y
  BY DEF Min
<1> QED BY <1>2, <1>3

\* rt_malloc's search: the block it stops at is free and large enough.
LEMMA SearchKeeps ==
    ASSUME HeapInv, NEW t \in Callers, NEW size \in Nat, NEW old \in Nat \cup {Nowhere},
           old # Nowhere => old \in Held(t), MallocSearch(t, size, old)
    PROVE  HeapInv' /\ call'[t].at = "commit" /\ call'[t].old = old
           /\ \A u \in Callers \ {t} : call'[u] = call[u]
<1> DEFINE asked == AskedSize(size)
           found == FirstFit(asked)
<1>0. /\ heap_sem = NoThread /\ heap_sem' = t
      /\ call' = [call EXCEPT ![t] = [at |-> "commit", size |-> asked, mem |-> found, old |-> old]]
      /\ heap' = heap /\ lfree' = lfree /\ blocks' = blocks
  BY DEF MallocSearch, Unlocked, heapState
<1>1. asked \in Nat
  BY HeapNumbers DEF AskedSize
<1>2. /\ found \in Nat \cup {Nowhere}
      /\ found # Nowhere => /\ found \in DOMAIN heap \ {heap_end} /\ ~heap[found].used
                            /\ asked <= UserSize(heap, found)
  <2>1. Candidates(asked) \in SUBSET Nat
    BY HeapNumbers DEF Candidates, HeapInv, HeapOk, InOrder
  <2>2. CASE Candidates(asked) = {}
    BY <2>2 DEF FirstFit
  <2>3. CASE Candidates(asked) # {}
    <3>1. found \in Candidates(asked)
      BY <2>1, <2>3, MinIsLeast DEF FirstFit
    <3> HIDE DEF found, asked
    <3>2. found \in DOMAIN heap /\ found < MemSize - asked /\ ~heap[found].used /\ UserSize(heap, found) >= asked
      BY <3>1 DEF Candidates
    <3>3. found \in Nat /\ UserSize(heap, found) \in Int
      <4>1. found \in 0..heap_end /\ heap[found] \in Header
        BY <3>2 DEF HeapInv, HeapOk, InOrder
      <4> QED BY <4>1, HeapNumbers DEF UserSize, Header
    <3>4. found # heap_end
      BY <1>1, <3>2, <3>3, HeapNumbers DEF heap_end
    <3> QED BY <1>1, <3>2, <3>3, <3>4
  <2> QED BY <2>2, <2>3
<1> HIDE DEF asked, found
<1>3. HeapOk' /\ BlocksOk'
  BY <1>0 DEF HeapInv, HeapOk, BlocksOk, UserSize
<1>4. /\ call'[t] = [at |-> "commit", size |-> asked, mem |-> found, old |-> old]
      /\ \A u \in Callers \ {t} : call'[u] = call[u]
  BY <1>0 DEF HeapInv, CallsOk
<1>5. CallsOk'
  <2>1. call' \in [Callers -> [at : {"idle", "malloc", "commit", "free"}, size : Nat,
                               mem : Nat \cup {Nowhere}, old : Nat \cup {Nowhere}]]
    BY <1>0, <1>1, <1>2 DEF HeapInv, CallsOk
  <2>2. Held(t)' = Held(t) /\ \A u \in Callers : Held(u)' = Held(u)
    BY <1>0 DEF Held
  <2>3. ASSUME NEW u \in Callers
        PROVE  /\ call'[u].at = "commit" <=> heap_sem' = u
               /\ call'[u].at = "commit" /\ call'[u].mem # Nowhere =>
                     /\ call'[u].mem \in DOMAIN heap' \ {heap_end} /\ ~heap'[call'[u].mem].used
                     /\ call'[u].size <= UserSize(heap', call'[u].mem)
               /\ call'[u].at \in {"malloc", "free"} => call'[u].old # Nowhere
               /\ call'[u].at = "idle" => call'[u].old = Nowhere
               /\ call'[u].old # Nowhere => call'[u].old \in Held(u)'
    <3>1. CASE u = t
      <4>1. /\ call'[u].at = "commit" /\ call'[u].size = asked /\ call'[u].mem = found
            /\ call'[u].old = old
        BY <1>4, <3>1
      <4> QED BY <1>0, <1>2, <2>2, <3>1, <4>1
    <3>2. CASE u # t
      <4>1. call'[u] = call[u] /\ heap_sem # u /\ heap_sem' # u
        BY <1>0, <1>4, <3>2, HeapNumbers
      <4>2. call[u].at # "commit"
        BY <4>1 DEF HeapInv, CallsOk
      <4> QED BY <2>2, <4>1, <4>2 DEF HeapInv, CallsOk
    <3> QED BY <3>1, <3>2
  <2>4. heap_sem' \in Callers \cup {NoThread}
    BY <1>0
  <2> QED BY <2>1, <2>3, <2>4 DEF CallsOk
<1> QED BY <1>3, <1>4, <1>5 DEF HeapInv

\* The block rt_malloc found, cut to size where a rest is left, and marked.
LEMMA CarveKeeps ==
    ASSUME HeapOk, NEW mem \in DOMAIN heap \ {heap_end}, ~heap[mem].used,
           NEW size \in Nat, size <= UserSize(heap, mem)
    PROVE  /\ InOrder(Carve(mem, size)) /\ Apart(Carve(mem, size), {})
           /\ DOMAIN heap \subseteq DOMAIN Carve(mem, size)
           /\ Carve(mem, size)[mem].used /\ size <= UserSize(Carve(mem, size), mem)
           /\ Carve(mem, size)[mem].next <= heap[mem].next
           /\ \A q \in DOMAIN heap \ {mem} :
                 /\ Carve(mem, size)[q].used = heap[q].used
                 /\ Carve(mem, size)[q].next = heap[q].next
           /\ Carve(mem, size)[mem].next = mem + Charge(heap, mem, size)
           /\ \A q \in DOMAIN Carve(mem, size) \ DOMAIN heap : ~Carve(mem, size)[q].used
<1> DEFINE ptr2 == mem + HeaderSize + size
           h    == IF MustSplit(mem, size) THEN Split(heap, mem, ptr2) ELSE heap
           c    == [h EXCEPT ![mem].used = TRUE]
           n    == heap[mem].next
<1>1. Carve(mem, size) = c
  BY DEF Carve
<1>2. InOrder(heap) /\ Apart(heap, {})
  BY DEF HeapOk
<1>3. /\ mem \in Nat /\ n \in Nat /\ n \in DOMAIN heap /\ mem + HeaderSize <= n
      /\ mem \in DOMAIN heap /\ mem # heap_end
  BY <1>2, HeapNumbers DEF InOrder, Header
<1>4. heap[n].used /\ n # mem
  <2>1. heap[n].used
    BY <1>2, <1>3 DEF Apart
  <2> QED BY <1>3, <2>1
<1>5. size <= n - (mem + HeaderSize)
  BY DEF UserSize
\* Before the block is marked.
<1>6. /\ InOrder(h) /\ DOMAIN heap \subseteq DOMAIN h
      /\ Apart(h, {mem})
      /\ h[mem].next \in Nat /\ size <= h[mem].next - (mem + HeaderSize) /\ h[mem].next <= n
      /\ \A q \in DOMAIN heap \ {mem} : h[q].used = heap[q].used /\ h[q].next = heap[q].next
      /\ h[mem].next = mem + Charge(heap, mem, size)
      /\ \A q \in DOMAIN h \ DOMAIN heap : ~h[q].used
  <2>1. CASE ~MustSplit(mem, size)
    <3>1. h = heap
      BY <2>1
    <3>0. heap[mem].next = mem + Charge(heap, mem, size)
      BY <1>3, <2>1 DEF Charge
    <3>2. Apart(heap, {mem})
      BY <1>2 DEF Apart
    <3> HIDE DEF h
    <3> QED BY <1>2, <1>3, <1>5, <3>0, <3>1, <3>2
  <2>2. CASE MustSplit(mem, size)
    <3>1. h = Split(heap, mem, ptr2)
      BY <2>2
    <3>2. ptr2 \in Nat /\ mem + HeaderSize <= ptr2 /\ ptr2 + HeaderSize <= n
      BY <1>3, <2>2, HeapNumbers DEF MustSplit, UserSize
    <3> HIDE DEF h, ptr2
    <3>3. /\ ptr2 \notin DOMAIN heap
          /\ InOrder(Split(heap, mem, ptr2))
          /\ DOMAIN Split(heap, mem, ptr2) = DOMAIN heap \cup {ptr2}
          /\ ~Split(heap, mem, ptr2)[ptr2].used
          /\ Split(heap, mem, ptr2)[ptr2].next = n
          /\ \A p \in DOMAIN heap :
                /\ Split(heap, mem, ptr2)[p].used = heap[p].used
                /\ Split(heap, mem, ptr2)[p].next = IF p = mem THEN ptr2 ELSE heap[p].next
      BY <1>2, <3>2, SplitKeeps
    <3>4. /\ ptr2 \notin DOMAIN heap /\ InOrder(h) /\ DOMAIN h = DOMAIN heap \cup {ptr2}
          /\ h[ptr2].next = n /\ ~h[ptr2].used
          /\ \A p \in DOMAIN heap : /\ h[p].used = heap[p].used
                                    /\ h[p].next = IF p = mem THEN ptr2 ELSE heap[p].next
      BY <3>1, <3>3
    <3>5. h[mem].next = ptr2 /\ size <= ptr2 - (mem + HeaderSize) /\ ptr2 <= n
      BY <1>3, <3>2, <3>4, HeapNumbers DEF ptr2
    <3>6. Apart(h, {mem})
      <4> SUFFICES ASSUME NEW p \in DOMAIN h \ {heap_end}, p # mem, h[p].next # mem
                   PROVE  h[p].used \/ h[h[p].next].used
        BY DEF Apart
      <4>1. CASE p = ptr2
        BY <1>3, <1>4, <3>4, <4>1
      <4>2. CASE p # ptr2
        <5>1. p \in DOMAIN heap \ {heap_end} /\ h[p].used = heap[p].used /\ h[p].next = heap[p].next
          BY <3>4, <4>2
        <5>2. heap[p].next \in DOMAIN heap
          BY <1>2, <5>1 DEF InOrder
        <5>3. heap[p].used \/ heap[heap[p].next].used
          BY <1>2, <5>1 DEF Apart
        <5> QED BY <3>4, <5>1, <5>2, <5>3
      <4> QED BY <4>1, <4>2
    <3>7. ptr2 = mem + Charge(heap, mem, size)
      BY <1>3, <2>2, HeapNumbers DEF Charge, ptr2
    <3> QED BY <3>2, <3>4, <3>5, <3>6, <3>7
  <2> QED BY <2>1, <2>2
<1> HIDE DEF h
<1>7. mem \in DOMAIN h \ {heap_end}
  BY <1>3, <1>6
<1>8. /\ InOrder(c) /\ DOMAIN c = DOMAIN h
      /\ \A p \in DOMAIN h : /\ c[p].used = IF p = mem THEN TRUE ELSE h[p].used
                             /\ c[p].next = h[p].next
  BY <1>6, <1>7, MarkKeeps
<1> HIDE DEF c
<1>9. Apart(c, {})
  <2> SUFFICES ASSUME NEW p \in DOMAIN c \ {heap_end}
               PROVE  c[p].used \/ c[c[p].next].used
    BY DEF Apart
  <2>1. p \in DOMAIN h \ {heap_end} /\ c[p].next = h[p].next /\ h[p].next \in DOMAIN h
    BY <1>6, <1>8 DEF InOrder
  <2>2. CASE p = mem \/ h[p].next = mem
    BY <1>7, <1>8, <2>1, <2>2
  <2>3. CASE p # mem /\ h[p].next # mem
    <3>1. h[p].used \/ h[h[p].next].used
      BY <1>6, <2>1, <2>3 DEF Apart
    <3> QED BY <1>8, <2>1, <2>3, <3>1
  <2> QED BY <2>2, <2>3
<1>10. c[mem].used /\ c[mem].next = h[mem].next
  BY <1>7, <1>8
<1>11. size <= UserSize(c, mem) /\ c[mem].next <= n
  BY <1>6, <1>10 DEF UserSize
<1>12. \A q \in DOMAIN heap \ {mem} : c[q].used = heap[q].used /\ c[q].next = heap[q].next
  BY <1>6, <1>8
<1>13. c[mem].next = mem + Charge(heap, mem, size) /\ \A q \in DOMAIN c \ DOMAIN heap : ~c[q].used
  BY <1>3, <1>6, <1>8, <1>10
<1> QED BY <1>1, <1>6, <1>8, <1>9, <1>10, <1>11, <1>12, <1>13

\* The search for the next free block from low on ends at one or at the end.
LEMMA NextFreeIsLow ==
    ASSUME NEW h, InOrder(h), NEW low \in DOMAIN h
    PROVE  LowOk(h, NextFree(h, low))
<1> DEFINE S == {p \in DOMAIN h : low <= p /\ (~h[p].used \/ p = heap_end)}
<1>1. DOMAIN h \subseteq 0..heap_end /\ heap_end \in DOMAIN h
  BY DEF InOrder
<1>2. S \in SUBSET Nat
  BY <1>1
<1>3. heap_end \in S
  BY <1>1, HeapNumbers
<1>4. S # {}
  BY <1>3
<1>5. NextFree(h, low) = Min(S)
  BY DEF NextFree
<1> HIDE DEF S
<1>6. NextFree(h, low) \in S
  BY <1>2, <1>4, <1>5, MinIsLeast
<1> QED BY <1>6 DEF S, LowOk

\* One allocation of the abstract specification, or nothing.
AllocatorStep == Promise!Next \/ UNCHANGED Allocated

\* The words of two blocks of the heap are different ones.
LEMMA BlocksApart ==
    ASSUME NEW h, InOrder(h), NEW p \in DOMAIN h \ {heap_end}, NEW q \in DOMAIN h \ {heap_end},
           p # q
    PROVE  h[p].next <= q \/ h[q].next <= p
<1>1. /\ p \in Nat /\ q \in Nat /\ p \in DOMAIN h /\ q \in DOMAIN h
      /\ q <= p \/ h[p].next <= q
      /\ p <= q \/ h[q].next <= p
  BY DEF InOrder
<1> QED BY <1>1

\* The number of words between two addresses.
LEMMA CellCount ==
    ASSUME NEW a \in Nat, NEW b \in Nat, a <= b
    PROVE  Cardinality(a..(b - 1)) = b - a
<1>1. a \in Int /\ b - 1 \in Int
  OBVIOUS
<1>2. Cardinality(a..(b - 1)) = IF a > b - 1 THEN 0 ELSE (b - 1) - a + 1
  BY <1>1, FS_Interval
<1> QED BY <1>2

\* The abstract specification counts as this one does.
LEMMA SameCardinality == \A S : Promise!Cardinality(S) = Cardinality(S)
BY DEF Promise!Cardinality, Cardinality

\* rt_malloc's second half: the block it found is handed out.
LEMMA CommitKeeps ==
    ASSUME HeapInv, NEW t \in Callers, MallocCommit(t)
    PROVE  /\ HeapInv' /\ AllocatorStep
           /\ IF call[t].mem = Nowhere THEN blocks' = blocks
              ELSE /\ call[t].mem \notin DOMAIN blocks
                   /\ DOMAIN blocks' = DOMAIN blocks \cup {call[t].mem}
                   /\ blocks'[call[t].mem].owner = t
                   /\ \A p \in DOMAIN blocks : blocks'[p] = blocks[p]
           /\ call[t].old = Nowhere => call'[t] = Idle
           /\ \A u \in Callers \ {t} : call'[u] = call[u]
<1> DEFINE mem == call[t].mem
           size == call[t].size
           old == call[t].old
           h == Carve(mem, size)
           next == IF Nowhere \in {mem, old} THEN Idle ELSE [Idle EXCEPT !.at = "free", !.old = old]
<1>0. /\ call[t].at = "commit" /\ heap_sem' = NoThread
      /\ call' = [call EXCEPT ![t] = next]
      /\ mem = Nowhere => UNCHANGED <<heapState, blocks>>
      /\ mem # Nowhere => MallocTakes(t)
  BY DEF MallocCommit
<1>1. /\ mem \in Nat \cup {Nowhere} /\ size \in Nat /\ old \in Nat \cup {Nowhere}
      /\ heap_sem = t
      /\ mem # Nowhere => mem \in DOMAIN heap \ {heap_end} /\ ~heap[mem].used /\ size <= UserSize(heap, mem)
      /\ old # Nowhere => old \in Held(t)
  BY <1>0 DEF HeapInv, CallsOk
<1>2. /\ next \in [at : {"idle", "malloc", "commit", "free"}, size : Nat,
                    mem : Nat \cup {Nowhere}, old : Nat \cup {Nowhere}]
      /\ next.at # "commit" /\ next.at # "malloc"
      /\ next.at = "free" => next.old # Nowhere
      /\ next.at = "idle" => next.old = Nowhere
      /\ next.old # Nowhere => next.old = old
      /\ old = Nowhere => next = Idle
  <2>1. CASE Nowhere \in {mem, old}
    BY <2>1 DEF Idle
  <2>2. CASE Nowhere \notin {mem, old}
    <3>1. next = [at |-> "free", size |-> 0, mem |-> Nowhere, old |-> old]
      BY <2>2 DEF Idle
    <3> HIDE DEF next
    <3> QED BY <1>1, <2>2, <3>1
  <2> QED BY <2>1, <2>2
<1> HIDE DEF next
<1>3. call'[t] = next /\ \A u \in Callers \ {t} : call'[u] = call[u]
  BY <1>0 DEF HeapInv, CallsOk
<1>4. \A u \in Callers \ {t} : call[u].at # "commit"
  BY <1>1 DEF HeapInv, CallsOk
<1>5. ASSUME \A u \in Callers : Held(u) \subseteq Held(u)' PROVE CallsOk'
  <2>1. call' \in [Callers -> [at : {"idle", "malloc", "commit", "free"}, size : Nat,
                               mem : Nat \cup {Nowhere}, old : Nat \cup {Nowhere}]]
    BY <1>0, <1>2 DEF HeapInv, CallsOk
  <2>2. ASSUME NEW u \in Callers
        PROVE  /\ call'[u].at # "commit" /\ heap_sem' # u
               /\ call'[u].at \in {"malloc", "free"} => call'[u].old # Nowhere
               /\ call'[u].at = "idle" => call'[u].old = Nowhere
               /\ call'[u].old # Nowhere => call'[u].old \in Held(u)'
    <3>1. CASE u = t
      BY <1>0, <1>1, <1>2, <1>3, <1>5, <3>1, HeapNumbers
    <3>2. CASE u # t
      <4>1. call'[u] = call[u] /\ heap_sem' # u
        BY <1>0, <1>3, <3>2, HeapNumbers
      <4> QED BY <1>4, <1>5, <3>2, <4>1 DEF HeapInv, CallsOk
    <3> QED BY <3>1, <3>2
  <2> QED BY <1>0, <2>1, <2>2 DEF CallsOk
<1>6. CASE mem = Nowhere
  <2>1. heap' = heap /\ lfree' = lfree /\ blocks' = blocks
    BY <1>0, <1>6 DEF heapState
  <2>2. CallsOk'
    <3>1. \A u \in Callers : Held(u)' = Held(u)
      BY <2>1 DEF Held
    <3> QED BY <1>5, <3>1
  <2>3. HeapOk' /\ BlocksOk'
    BY <2>1 DEF HeapInv, HeapOk, BlocksOk, UserSize
  <2>4. UNCHANGED Allocated
    BY <2>1 DEF Allocated, DataCells
  <2> QED BY <1>2, <1>3, <1>6, <2>1, <2>2, <2>3, <2>4 DEF HeapInv, AllocatorStep
<1>7. CASE mem # Nowhere
  <2>0. /\ heap' = h
        /\ lfree' = IF mem = lfree THEN NextFree(h, lfree) ELSE lfree
        /\ blocks' = [p \in DOMAIN blocks \cup {mem} |->
                        IF p = mem THEN [owner |-> t, size |-> size] ELSE blocks[p]]
    BY <1>0, <1>7 DEF MallocTakes
  <2>1. HeapOk /\ mem \in DOMAIN heap \ {heap_end} /\ ~heap[mem].used /\ size <= UserSize(heap, mem)
    BY <1>1, <1>7 DEF HeapInv
  <2> HIDE DEF mem, size, h
  <2>2. /\ InOrder(h) /\ Apart(h, {}) /\ DOMAIN heap \subseteq DOMAIN h
        /\ h[mem].used /\ size <= UserSize(h, mem) /\ h[mem].next <= heap[mem].next
        /\ \A q \in DOMAIN heap \ {mem} : h[q].used = heap[q].used /\ h[q].next = heap[q].next
    <3>1. /\ InOrder(Carve(mem, size)) /\ Apart(Carve(mem, size), {})
          /\ DOMAIN heap \subseteq DOMAIN Carve(mem, size)
          /\ Carve(mem, size)[mem].used /\ size <= UserSize(Carve(mem, size), mem)
          /\ Carve(mem, size)[mem].next <= heap[mem].next
          /\ \A q \in DOMAIN heap \ {mem} :
                /\ Carve(mem, size)[q].used = heap[q].used
                /\ Carve(mem, size)[q].next = heap[q].next
      BY <1>1, <2>1, CarveKeeps DEF size
    <3> QED BY <3>1 DEF h
  <2>3. LowOk(h, lfree')
    <3>1. LowOk(heap, lfree)
      BY <2>1 DEF HeapOk
    <3>2. lfree \in DOMAIN h
      BY <2>2, <3>1 DEF LowOk
    <3>3. LowOk(h, NextFree(h, lfree))
      BY <2>2, <3>2, NextFreeIsLow
    <3>4. mem # lfree => LowOk(h, lfree)
      BY <2>2, <3>1, <3>2 DEF LowOk
    <3> QED BY <2>0, <3>3, <3>4
  <2>4. HeapOk'
    BY <2>0, <2>2, <2>3 DEF HeapOk
  <2>5. mem \notin DOMAIN blocks
    BY <2>1 DEF HeapInv, BlocksOk
  <2>6. /\ DOMAIN blocks' = DOMAIN blocks \cup {mem}
        /\ blocks'[mem] = [owner |-> t, size |-> size]
        /\ \A p \in DOMAIN blocks : blocks'[p] = blocks[p]
    BY <2>0, <2>5
  <2>7. BlocksOk'
    <3>1. blocks' \in [DOMAIN blocks' -> [owner : Callers, size : Nat]]
      <4>1. size \in Nat
        BY <1>1 DEF size
      <4>2. \A p \in DOMAIN blocks : blocks[p] \in [owner : Callers, size : Nat]
        BY DEF HeapInv, BlocksOk
      <4> QED BY <2>0, <4>1, <4>2
    <3>2. DOMAIN blocks \subseteq DOMAIN heap \ {heap_end, mem}
      BY <2>5 DEF HeapInv, BlocksOk
    <3>3. ASSUME NEW p \in DOMAIN blocks' PROVE heap'[p].used /\ blocks'[p].size <= UserSize(heap', p)
      <4>1. CASE p = mem
        <5>1. heap'[p].used /\ size <= UserSize(heap', p)
          BY <2>0, <2>2, <4>1
        <5>2. blocks'[p].size = size
          BY <2>6, <4>1
        <5> QED BY <5>1, <5>2
      <4>2. CASE p # mem
        <5>1. p \in DOMAIN blocks /\ p \in DOMAIN heap \ {heap_end, mem} /\ blocks'[p] = blocks[p]
          BY <2>6, <3>2, <4>2
        <5>2. heap[p].used /\ blocks[p].size <= UserSize(heap, p)
          BY <5>1 DEF HeapInv, BlocksOk
        <5>3. heap'[p].used /\ UserSize(heap', p) = UserSize(heap, p)
          BY <2>0, <2>2, <5>1, <5>2 DEF UserSize
        <5> QED BY <5>1, <5>2, <5>3
      <4> QED BY <4>1, <4>2
    <3>4. DOMAIN blocks' \subseteq DOMAIN heap' \ {heap_end}
      BY <2>0, <2>1, <2>2, <2>6, <3>2
    <3> QED BY <3>1, <3>3, <3>4 DEF BlocksOk
  <2>8. CallsOk'
    <3>1. \A u \in Callers : Held(u) \subseteq Held(u)'
      BY <2>6 DEF Held
    <3> QED BY <1>5, <3>1
  <2>9. Promise!Next
    <3>1. DOMAIN Allocated = DOMAIN blocks /\ DOMAIN Allocated' = DOMAIN blocks \cup {mem}
      BY <2>6 DEF Allocated
    <3>2. mem \in (0..(heap_end - 1)) \ DOMAIN Allocated
      <4>1. mem \in 0..heap_end /\ mem # heap_end
        BY <2>1 DEF HeapOk, InOrder
      <4>2. mem \in 0..(heap_end - 1)
        BY <4>1, HeapNumbers
      <4> QED BY <2>5, <3>1, <4>2
    <3>3. ASSUME NEW q \in DOMAIN blocks PROVE Allocated'[q] = Allocated[q]
      <4>1. q \in DOMAIN heap \ {mem}
        BY <2>5 DEF HeapInv, BlocksOk
      <4>2. heap'[q].next = heap[q].next /\ blocks'[q] = blocks[q] /\ q \in DOMAIN blocks'
        BY <2>0, <2>2, <2>6, <4>1
      <4> QED BY <4>2 DEF Allocated, DataCells
    <3>4. Allocated'[mem] = [cells |-> (mem + HeaderSize)..(h[mem].next - 1), size |-> size]
      BY <2>0, <2>6 DEF Allocated, DataCells
    <3>5. /\ mem \in Nat /\ h[mem].next \in Nat /\ mem + HeaderSize <= h[mem].next
          /\ heap[mem].next \in Nat /\ heap[mem].next <= heap_end
      <4>1. mem \in DOMAIN h \ {heap_end}
        BY <2>1, <2>2
      <4>2. h[mem].next \in DOMAIN h /\ mem + HeaderSize <= h[mem].next
        BY <2>2, <4>1 DEF InOrder
      <4>3. heap[mem].next \in DOMAIN heap /\ mem \in DOMAIN heap
        BY <2>1 DEF HeapOk, InOrder
      <4>4. DOMAIN heap \subseteq 0..heap_end /\ DOMAIN h \subseteq 0..heap_end
        BY <2>1, <2>2 DEF HeapOk, InOrder
      <4> QED BY <4>2, <4>3, <4>4
    <3>6. Cardinality(Allocated'[mem].cells) >= Allocated'[mem].size
      <4>1. Cardinality((mem + HeaderSize)..(h[mem].next - 1)) = h[mem].next - (mem + HeaderSize)
        <5>1. mem + HeaderSize \in Nat
          BY <3>5, HeapNumbers
        <5> QED BY <3>5, <5>1, CellCount
      <4>2. size <= h[mem].next - (mem + HeaderSize)
        BY <2>2 DEF UserSize
      <4>3. size \in Nat
        BY <1>1 DEF size
      <4> QED BY <3>4, <3>5, <4>1, <4>2, <4>3, HeapNumbers
    <3>7. ASSUME NEW q \in DOMAIN blocks PROVE Allocated[q].cells \cap Allocated'[mem].cells = {}
      <4>1. q \in DOMAIN heap \ {heap_end} /\ q # mem /\ mem \in DOMAIN heap \ {heap_end} /\ InOrder(heap)
        BY <2>1, <2>5 DEF HeapInv, BlocksOk, HeapOk
      <4>2. heap[q].next <= mem \/ heap[mem].next <= q
        BY <4>1, BlocksApart
      <4>3. q \in Nat /\ heap[q].next \in Nat
        BY <4>1 DEF InOrder, Header
      <4>4. Allocated[q].cells = (q + HeaderSize)..(heap[q].next - 1)
        BY DEF Allocated, DataCells
      <4>5. Allocated'[mem].cells = (mem + HeaderSize)..(h[mem].next - 1)
        BY <3>4
      <4>6. h[mem].next <= heap[mem].next
        BY <2>2
      <4> QED BY <3>5, <4>2, <4>3, <4>4, <4>5, <4>6, HeapNumbers
    <3>8. Allocated'[mem].cells \subseteq 0..(heap_end - 1)
      <4>1. h[mem].next <= heap[mem].next
        BY <2>2
      <4>2. Allocated'[mem].cells = (mem + HeaderSize)..(h[mem].next - 1)
        BY <3>4
      <4> QED BY <3>5, <4>1, <4>2, HeapNumbers
    <3> HIDE DEF Allocated
    <3>9. /\ mem \notin DOMAIN Allocated
          /\ DOMAIN Allocated' = DOMAIN Allocated \cup {mem}
          /\ \A q \in DOMAIN Allocated : Allocated'[q] = Allocated[q]
          /\ Cardinality(Allocated'[mem].cells) >= Allocated'[mem].size
          /\ Allocated'[mem].cells \subseteq (0..(heap_end - 1)) \
                UNION {Allocated[q].cells : q \in DOMAIN Allocated \ {mem}}
      BY <3>1, <3>2, <3>3, <3>6, <3>7, <3>8
    <3>10. Promise!Allocate(mem)
      BY <3>9, SameCardinality DEF Promise!Allocate, Promise!Fits, Promise!Others
    <3>11. mem \in (0..(heap_end - 1)) \ DOMAIN Allocated
      BY <3>2
    <3> QED BY <3>10, <3>11 DEF Promise!Next
  <2>10. HeapInv'
    BY <2>4, <2>7, <2>8 DEF HeapInv
  <2>11. old = Nowhere => call'[t] = Idle
    BY <1>2, <1>3
  <2>12. blocks'[mem].owner = t
    BY <2>6
  <2> QED BY <1>3, <1>7, <2>5, <2>6, <2>9, <2>10, <2>11, <2>12 DEF AllocatorStep, mem
<1> QED BY <1>6, <1>7

\* A section that starts and ends with the semaphore free and moves no call on,
\* except to its end, as long as the old block of an rt_realloc is still held.
LEMMA CallsKept ==
    ASSUME HeapInv, Unlocked, heap_sem' = heap_sem, NEW t \in Callers,
           call' = call \/ call' = [call EXCEPT ![t] = Idle],
           \A u \in Callers : call'[u].old # Nowhere => call'[u].old \in Held(u)'
    PROVE  CallsOk'
<1>1. heap_sem = NoThread /\ heap_sem' = NoThread
  BY DEF Unlocked
<1>2. Idle \in [at : {"idle", "malloc", "commit", "free"}, size : Nat,
                mem : Nat \cup {Nowhere}, old : Nat \cup {Nowhere}]
      /\ Idle.at = "idle" /\ Idle.old = Nowhere
  BY DEF Idle
<1>3. call' \in [Callers -> [at : {"idle", "malloc", "commit", "free"}, size : Nat,
                             mem : Nat \cup {Nowhere}, old : Nat \cup {Nowhere}]]
  BY <1>2 DEF HeapInv, CallsOk
<1>4. \A u \in Callers : call'[u] = call[u] \/ call'[u] = Idle
  BY DEF HeapInv, CallsOk
<1>5. \A u \in Callers : /\ call'[u].at # "commit" /\ heap_sem' # u
                         /\ call'[u].at \in {"malloc", "free"} => call'[u].old # Nowhere
                         /\ call'[u].at = "idle" => call'[u].old = Nowhere
  <2> SUFFICES ASSUME NEW u \in Callers
               PROVE  /\ call'[u].at # "commit" /\ heap_sem' # u
                      /\ call'[u].at \in {"malloc", "free"} => call'[u].old # Nowhere
                      /\ call'[u].at = "idle" => call'[u].old = Nowhere
    OBVIOUS
  <2>1. heap_sem # u /\ heap_sem' # u
    BY <1>1, HeapNumbers
  <2>2. /\ call[u].at # "commit"
        /\ call[u].at \in {"malloc", "free"} => call[u].old # Nowhere
        /\ call[u].at = "idle" => call[u].old = Nowhere
    BY <2>1 DEF HeapInv, CallsOk
  <2>3. CASE call'[u] = call[u]
    BY <2>1, <2>2, <2>3
  <2>4. CASE call'[u] = Idle
    BY <1>2, <2>1, <2>4
  <2> QED BY <1>4, <2>3, <2>4
<1> QED BY <1>1, <1>3, <1>5 DEF CallsOk

\* rt_free of a block that nobody else's rt_realloc counts on.
LEMMA FreeKeeps ==
    ASSUME HeapInv, NEW p \in DOMAIN blocks, FreeBlock(p), NEW t \in Callers,
           call' = call \/ call' = [call EXCEPT ![t] = Idle],
           \A u \in Callers : call'[u].old # p
    PROVE  /\ HeapInv' /\ AllocatorStep
           /\ DOMAIN blocks' = DOMAIN blocks \ {p}
           /\ \A q \in DOMAIN blocks' : blocks'[q] = blocks[q]
<1> DEFINE low == IF p < lfree THEN p ELSE lfree
           m   == [heap EXCEPT ![p].used = FALSE]
           r   == plug_holes(m, low, p)
<1>0. /\ Unlocked /\ heap' = r.heap /\ lfree' = r.lfree /\ heap_sem' = heap_sem
      /\ blocks' = [q \in DOMAIN blocks \ {p} |-> blocks[q]]
  BY DEF FreeBlock
<1>1. /\ InOrder(heap) /\ Apart(heap, {}) /\ LowOk(heap, lfree)
      /\ p \in DOMAIN heap \ {heap_end} /\ heap[p].used
  BY DEF HeapInv, HeapOk, BlocksOk
<1>2. /\ InOrder(m) /\ DOMAIN m = DOMAIN heap
      /\ \A q \in DOMAIN heap : /\ m[q].used = IF q = p THEN FALSE ELSE heap[q].used
                                /\ m[q].next = heap[q].next
  BY <1>1, MarkKeeps
<1> HIDE DEF m, r
<1>3. Apart(m, {p})
  <2> SUFFICES ASSUME NEW q \in DOMAIN m \ {heap_end}, q # p, m[q].next # p
               PROVE  m[q].used \/ m[m[q].next].used
    BY DEF Apart
  <2>1. q \in DOMAIN heap \ {heap_end} /\ m[q].next = heap[q].next /\ heap[q].next \in DOMAIN heap
    BY <1>1, <1>2 DEF InOrder
  <2>2. heap[q].used \/ heap[heap[q].next].used
    BY <1>1, <2>1 DEF Apart
  <2> QED BY <1>2, <2>1, <2>2
<1>4. LowOk(m, low)
  BY <1>1, <1>2 DEF LowOk
<1>5. p \in DOMAIN m \ {heap_end} /\ ~m[p].used
  BY <1>1, <1>2
<1> HIDE DEF low
<1>6. /\ InOrder(r.heap) /\ Apart(r.heap, {}) /\ LowOk(r.heap, r.lfree)
      /\ \A q \in DOMAIN m : m[q].used =>
            q \in DOMAIN r.heap /\ r.heap[q].used /\ r.heap[q].next = m[q].next
  BY <1>2, <1>3, <1>4, <1>5, PlugKeeps DEF r
<1>7. HeapOk'
  BY <1>0, <1>6 DEF HeapOk
<1>8. /\ DOMAIN blocks' = DOMAIN blocks \ {p}
      /\ \A q \in DOMAIN blocks \ {p} : blocks'[q] = blocks[q]
  BY <1>0
<1>9. ASSUME NEW q \in DOMAIN blocks \ {p}
      PROVE  q \in DOMAIN heap' \ {heap_end} /\ heap'[q].used /\ heap'[q].next = heap[q].next
  <2>1. q \in DOMAIN heap \ {heap_end} /\ heap[q].used
    BY DEF HeapInv, BlocksOk
  <2>2. q \in DOMAIN m /\ m[q].used /\ m[q].next = heap[q].next
    BY <1>2, <2>1
  <2> QED BY <1>0, <1>6, <2>1, <2>2
<1>10. BlocksOk'
  <2>1. blocks' \in [DOMAIN blocks' -> [owner : Callers, size : Nat]]
    <3>1. \A q \in DOMAIN blocks : blocks[q] \in [owner : Callers, size : Nat]
      BY DEF HeapInv, BlocksOk
    <3> QED BY <1>0, <3>1
  <2>2. ASSUME NEW q \in DOMAIN blocks' PROVE heap'[q].used /\ blocks'[q].size <= UserSize(heap', q)
    <3>1. q \in DOMAIN blocks \ {p} /\ blocks'[q] = blocks[q]
      BY <1>8
    <3>2. blocks[q].size <= UserSize(heap, q)
      BY <3>1 DEF HeapInv, BlocksOk
    <3> QED BY <1>9, <3>1, <3>2 DEF UserSize
  <2>3. DOMAIN blocks' \subseteq DOMAIN heap' \ {heap_end}
    BY <1>8, <1>9
  <2> QED BY <2>1, <2>2, <2>3 DEF BlocksOk
<1>11. CallsOk'
  <2>1. ASSUME NEW u \in Callers, call'[u].old # Nowhere PROVE call'[u].old \in Held(u)'
    <3>1. call'[u].old \in Held(u) /\ call'[u].old # p
      <4>1. call'[u] = call[u] \/ call'[u] = Idle
        BY DEF HeapInv, CallsOk
      <4>2. Idle.old = Nowhere
        BY DEF Idle
      <4>3. call[u].old # Nowhere => call[u].old \in Held(u)
        BY DEF HeapInv, CallsOk
      <4> QED BY <2>1, <4>1, <4>2, <4>3
    <3> QED BY <1>8, <3>1 DEF Held
  <2> QED BY <1>0, <2>1, CallsKept
<1>12. Promise!Next
  <2>1. Allocated' = [q \in DOMAIN Allocated \ {p} |-> Allocated[q]]
    <3>1. \A q \in DOMAIN blocks \ {p} : heap'[q].next = heap[q].next /\ blocks'[q] = blocks[q]
      BY <1>8, <1>9
    <3>2. DOMAIN blocks' = DOMAIN blocks \ {p}
      BY <1>8
    <3> QED BY <3>1, <3>2 DEF Allocated, DataCells
  <2>2. p \in DOMAIN Allocated
    BY DEF Allocated
  <2> QED BY <2>1, <2>2 DEF Promise!Next, Promise!Free
<1> QED BY <1>7, <1>8, <1>10, <1>11, <1>12 DEF HeapInv, AllocatorStep

\* rt_realloc that cuts the end off a block.
LEMMA ShrinkKeeps ==
    ASSUME HeapInv, NEW p \in DOMAIN blocks, NEW newsize \in Nat, ReallocShrink(p, newsize)
    PROVE  /\ HeapInv' /\ AllocatorStep /\ call' = call
           /\ DOMAIN blocks' = DOMAIN blocks
           /\ \A q \in DOMAIN blocks : blocks'[q].owner = blocks[q].owner
<1> DEFINE ptr2 == p + HeaderSize + newsize
           m    == Split(heap, p, ptr2)
           r    == plug_holes(m, lfree, ptr2)
           n    == heap[p].next
<1>0. /\ Unlocked /\ heap' = r.heap /\ lfree' = r.lfree /\ heap_sem' = heap_sem /\ call' = call
      /\ blocks' = [blocks EXCEPT ![p].size = newsize]
      /\ newsize + HeaderSize + MinSize < UserSize(heap, p)
  BY DEF ReallocShrink, Shrinks
<1>1. /\ InOrder(heap) /\ Apart(heap, {}) /\ LowOk(heap, lfree)
      /\ p \in DOMAIN heap \ {heap_end} /\ heap[p].used
  BY DEF HeapInv, HeapOk, BlocksOk
<1>2. p \in Nat /\ n \in Nat /\ n \in DOMAIN heap
  BY <1>1 DEF InOrder, Header
<1>3. ptr2 \in Nat /\ p + HeaderSize <= ptr2 /\ ptr2 + HeaderSize <= n
  BY <1>0, <1>2, HeapNumbers DEF UserSize
<1> HIDE DEF m, r, ptr2
<1>4. /\ ptr2 \notin DOMAIN heap /\ InOrder(m) /\ DOMAIN m = DOMAIN heap \cup {ptr2}
      /\ ~m[ptr2].used /\ m[ptr2].next = n
      /\ \A q \in DOMAIN heap : /\ m[q].used = heap[q].used
                                /\ m[q].next = IF q = p THEN ptr2 ELSE heap[q].next
  <2>1. /\ ptr2 \notin DOMAIN heap /\ InOrder(Split(heap, p, ptr2))
        /\ DOMAIN Split(heap, p, ptr2) = DOMAIN heap \cup {ptr2}
        /\ ~Split(heap, p, ptr2)[ptr2].used /\ Split(heap, p, ptr2)[ptr2].next = n
        /\ \A q \in DOMAIN heap :
              /\ Split(heap, p, ptr2)[q].used = heap[q].used
              /\ Split(heap, p, ptr2)[q].next = IF q = p THEN ptr2 ELSE heap[q].next
    BY <1>1, <1>3, SplitKeeps
  <2> QED BY <2>1 DEF m
<1>5. Apart(m, {ptr2})
  <2> SUFFICES ASSUME NEW q \in DOMAIN m \ {heap_end}, q # ptr2, m[q].next # ptr2
               PROVE  m[q].used \/ m[m[q].next].used
    BY DEF Apart
  <2>1. q \in DOMAIN heap \ {heap_end} /\ m[q].next = heap[q].next /\ m[q].used = heap[q].used
    BY <1>4
  <2>2. heap[q].next \in DOMAIN heap
    BY <1>1, <2>1 DEF InOrder
  <2>3. heap[q].used \/ heap[heap[q].next].used
    BY <1>1, <2>1 DEF Apart
  <2> QED BY <1>4, <2>1, <2>2, <2>3
<1>6. LowOk(m, lfree)
  BY <1>1, <1>4 DEF LowOk
<1>7. ptr2 \in DOMAIN m \ {heap_end} /\ ~m[ptr2].used
  <2>1. heap_end \in DOMAIN heap
    BY <1>1 DEF InOrder
  <2> QED BY <1>4, <2>1
<1>8. /\ InOrder(r.heap) /\ Apart(r.heap, {}) /\ LowOk(r.heap, r.lfree)
      /\ \A q \in DOMAIN m : m[q].used =>
            q \in DOMAIN r.heap /\ r.heap[q].used /\ r.heap[q].next = m[q].next
  BY <1>4, <1>5, <1>6, <1>7, PlugKeeps DEF r
<1>9. HeapOk'
  BY <1>0, <1>8 DEF HeapOk
<1>10. ASSUME NEW q \in DOMAIN blocks
       PROVE  /\ q \in DOMAIN heap' \ {heap_end} /\ heap'[q].used
              /\ heap'[q].next = IF q = p THEN ptr2 ELSE heap[q].next
  <2>1. q \in DOMAIN heap \ {heap_end} /\ heap[q].used
    BY DEF HeapInv, BlocksOk
  <2>2. q \in DOMAIN m /\ m[q].used /\ m[q].next = IF q = p THEN ptr2 ELSE heap[q].next
    BY <1>4, <2>1
  <2> QED BY <1>0, <1>8, <2>1, <2>2
<1>11. /\ DOMAIN blocks' = DOMAIN blocks
       /\ blocks'[p].size = newsize /\ blocks'[p].owner = blocks[p].owner
       /\ \A q \in DOMAIN blocks \ {p} : blocks'[q] = blocks[q]
       /\ blocks' \in [DOMAIN blocks -> [owner : Callers, size : Nat]]
  <2>1. blocks \in [DOMAIN blocks -> [owner : Callers, size : Nat]]
    BY DEF HeapInv, BlocksOk
  <2> QED BY <1>0, <2>1
<1>12. ptr2 - (p + HeaderSize) = newsize
  BY <1>2, HeapNumbers DEF ptr2
<1>13. BlocksOk'
  <2>1. ASSUME NEW q \in DOMAIN blocks' PROVE heap'[q].used /\ blocks'[q].size <= UserSize(heap', q)
    <3>1. CASE q = p
      <4>1. heap'[p].used /\ heap'[p].next = ptr2
        BY <1>10
      <4> QED BY <1>11, <1>12, <3>1, <4>1 DEF UserSize
    <3>2. CASE q # p
      <4>1. q \in DOMAIN blocks /\ blocks'[q] = blocks[q] /\ heap'[q].used /\ heap'[q].next = heap[q].next
        BY <1>10, <1>11, <3>2
      <4>2. blocks[q].size <= UserSize(heap, q)
        BY <4>1 DEF HeapInv, BlocksOk
      <4> QED BY <4>1, <4>2 DEF UserSize
    <3> QED BY <3>1, <3>2
  <2>2. DOMAIN blocks' \subseteq DOMAIN heap' \ {heap_end}
    BY <1>10, <1>11
  <2> QED BY <1>11, <2>1, <2>2 DEF BlocksOk
<1>14. \A q \in DOMAIN blocks : blocks'[q].owner = blocks[q].owner
  BY <1>11
<1>15. CallsOk'
  <2>1. ASSUME NEW u \in Callers, call'[u].old # Nowhere PROVE call'[u].old \in Held(u)'
    <3>1. call'[u].old \in Held(u)
      BY <1>0, <2>1 DEF HeapInv, CallsOk
    <3> QED BY <1>11, <1>14, <3>1 DEF Held
  <2>2. PICK t \in Callers : t = blocks[p].owner
    BY DEF HeapInv, BlocksOk
  <2> QED BY <1>0, <2>1, CallsKept
<1>16. Promise!Next
  <2>1. DOMAIN Allocated' = DOMAIN Allocated /\ p \in DOMAIN Allocated
    BY <1>11 DEF Allocated
  <2>2. ASSUME NEW q \in DOMAIN Allocated \ {p} PROVE Allocated'[q] = Allocated[q]
    <3>1. q \in DOMAIN blocks /\ q # p
      BY DEF Allocated
    <3>2. heap'[q].next = heap[q].next /\ blocks'[q] = blocks[q] /\ q \in DOMAIN blocks'
      BY <1>10, <1>11, <3>1
    <3> QED BY <3>1, <3>2 DEF Allocated, DataCells
  <2>3. /\ Allocated'[p] = [cells |-> (p + HeaderSize)..(ptr2 - 1), size |-> newsize]
        /\ Allocated[p].cells = (p + HeaderSize)..(n - 1)
    <3>1. heap'[p].next = ptr2
      BY <1>10
    <3> QED BY <1>11, <3>1 DEF Allocated, DataCells
  <2>4. Promise!Cardinality(Allocated'[p].cells) >= Allocated'[p].size
    <3>1. p + HeaderSize \in Nat
      BY <1>2, HeapNumbers
    <3>2. Cardinality((p + HeaderSize)..(ptr2 - 1)) = newsize
      BY <1>3, <1>12, <3>1, CellCount
    <3> QED BY <2>3, <3>2, SameCardinality
  <2>5. Allocated'[p].cells \subseteq Allocated[p].cells
    <3>1. ptr2 <= n
      BY <1>2, <1>3, HeapNumbers
    <3> QED BY <1>2, <1>3, <2>3, <3>1, HeapNumbers
  <2> HIDE DEF Allocated
  <2>6. Promise!Shrink(p)
    BY <2>1, <2>2, <2>4, <2>5 DEF Promise!Shrink, Promise!Fits
  <2> QED BY <2>1, <2>6 DEF Promise!Next
<1> QED BY <1>0, <1>9, <1>11, <1>13, <1>14, <1>15, <1>16 DEF HeapInv, AllocatorStep

\* rt_realloc that goes on to allocate another block.
LEMMA MoveKeeps ==
    ASSUME HeapInv, NEW t \in Callers, call[t] = Idle, NEW p \in Held(t), NEW newsize \in Nat,
           ReallocMove(t, p, newsize)
    PROVE  HeapInv' /\ UNCHANGED Allocated /\ UNCHANGED blocks
           /\ \A u \in Callers \ {t} : call'[u] = call[u]
<1>0. /\ Unlocked /\ heap' = heap /\ lfree' = lfree /\ heap_sem' = heap_sem /\ blocks' = blocks
      /\ call' = [call EXCEPT ![t] = [at |-> "malloc", size |-> newsize, mem |-> Nowhere, old |-> p]]
  BY DEF ReallocMove, heapState
<1>2. p \in Nat
  BY DEF Held, HeapInv, BlocksOk, HeapOk, InOrder
<1>3. /\ call'[t] = [at |-> "malloc", size |-> newsize, mem |-> Nowhere, old |-> p]
      /\ \A u \in Callers \ {t} : call'[u] = call[u]
      /\ call' \in [Callers -> [at : {"idle", "malloc", "commit", "free"}, size : Nat,
                                mem : Nat \cup {Nowhere}, old : Nat \cup {Nowhere}]]
  BY <1>0, <1>2 DEF HeapInv, CallsOk
<1>4. HeapOk' /\ BlocksOk'
  BY <1>0 DEF HeapInv, HeapOk, BlocksOk, UserSize
<1>5. \A u \in Callers : Held(u)' = Held(u)
  BY <1>0 DEF Held
<1>6. heap_sem = NoThread /\ heap_sem' = NoThread
  BY <1>0 DEF Unlocked
<1>7. ASSUME NEW u \in Callers
      PROVE  /\ call'[u].at # "commit" /\ heap_sem' # u
             /\ call'[u].at \in {"malloc", "free"} => call'[u].old # Nowhere
             /\ call'[u].at = "idle" => call'[u].old = Nowhere
             /\ call'[u].old # Nowhere => call'[u].old \in Held(u)'
  <2>1. CASE u = t
    <3>1. call'[u].at = "malloc" /\ call'[u].old = p
      BY <1>3, <2>1
    <3> QED BY <1>2, <1>5, <1>6, <2>1, <3>1, HeapNumbers
  <2>2. CASE u # t
    <3>1. call'[u] = call[u] /\ heap_sem # u
      BY <1>3, <1>6, <2>2, HeapNumbers
    <3> QED BY <1>5, <1>6, <3>1 DEF HeapInv, CallsOk
  <2> QED BY <2>1, <2>2
<1>8. CallsOk'
  BY <1>3, <1>6, <1>7 DEF CallsOk
<1>9. UNCHANGED Allocated
  BY <1>0 DEF Allocated, DataCells
<1> QED BY <1>0, <1>3, <1>4, <1>8, <1>9 DEF HeapInv

-----------------------------------------------------------------------------
(* The threads with blocks of their own. *)

\* A block belongs to one thread, so no other thread's rt_realloc counts on it.
LEMMA NobodyElses ==
    ASSUME HeapInv, NEW t \in Callers, NEW p \in Held(t), NEW u \in Callers \ {t}
    PROVE  call[u].old # p
<1>1. call[u].old # Nowhere => call[u].old \in Held(u)
  BY DEF HeapInv, CallsOk
<1>2. p \in Nat
  BY DEF Held, HeapInv, BlocksOk, HeapOk, InOrder
<1> QED BY <1>1, <1>2, HeapNumbers DEF Held

\* Whatever a thread does with its blocks, the heap stays an allocator and the
\* blocks of the others stay theirs.
LEMMA UserKeeps ==
    ASSUME HeapInv, NEW t \in Callers, HeapNext(t)
    PROVE  /\ HeapInv' /\ AllocatorStep
           /\ \A u \in Callers \ {t} : call'[u] = call[u]
           /\ \A q : q \in DOMAIN blocks' /\ blocks'[q].owner # t <=> q \in DOMAIN blocks /\ blocks[q].owner # t
           /\ \A q \in DOMAIN blocks' \cap DOMAIN blocks : blocks'[q].owner = blocks[q].owner
<1>0. /\ Idle.at = "idle" /\ Idle.old = Nowhere
      /\ \A q \in DOMAIN blocks : q \in Nat
      /\ call \in [Callers -> [at : {"idle", "malloc", "commit", "free"}, size : Nat,
                               mem : Nat \cup {Nowhere}, old : Nat \cup {Nowhere}]]
  BY DEF Idle, HeapInv, BlocksOk, HeapOk, InOrder, CallsOk
<1>1. ASSUME NEW size \in Nat, NEW old \in Nat \cup {Nowhere}, old # Nowhere => old \in Held(t),
             MallocSearch(t, size, old)
      PROVE  HeapInv' /\ UNCHANGED Allocated /\ UNCHANGED blocks
             /\ \A u \in Callers \ {t} : call'[u] = call[u]
  <2>1. heap' = heap /\ blocks' = blocks
    BY <1>1 DEF MallocSearch, heapState
  <2>2. UNCHANGED Allocated
    BY <2>1 DEF Allocated, DataCells
  <2> QED BY <1>1, <2>1, <2>2, SearchKeeps
<1>2. CASE Malloc(t)
  <2>1. PICK size \in Sizes : MallocSearch(t, size, Nowhere)
    BY <1>2 DEF Malloc
  <2>2. size \in Nat
    BY HeapNumbers
  <2> QED BY <1>1, <2>1, <2>2 DEF AllocatorStep
<1>3. CASE ReallocMalloc(t)
  <2>1. MallocSearch(t, call[t].size, call[t].old)
    BY <1>3 DEF ReallocMalloc
  <2>2. /\ call[t].size \in Nat /\ call[t].old \in Nat \cup {Nowhere}
        /\ call[t].old # Nowhere => call[t].old \in Held(t)
    BY DEF HeapInv, CallsOk
  <2> QED BY <1>1, <2>1, <2>2 DEF AllocatorStep
<1>4. CASE MallocCommit(t)
  <2>1. /\ HeapInv' /\ AllocatorStep
        /\ IF call[t].mem = Nowhere THEN blocks' = blocks
           ELSE /\ call[t].mem \notin DOMAIN blocks
                /\ DOMAIN blocks' = DOMAIN blocks \cup {call[t].mem}
                /\ blocks'[call[t].mem].owner = t
                /\ \A p \in DOMAIN blocks : blocks'[p] = blocks[p]
        /\ \A u \in Callers \ {t} : call'[u] = call[u]
    BY <1>4, CommitKeeps
  <2>2. CASE call[t].mem = Nowhere
    BY <2>1, <2>2
  <2>3. CASE call[t].mem # Nowhere
    BY <2>1, <2>3
  <2> QED BY <2>2, <2>3
<1>5. ASSUME NEW p \in Held(t), FreeBlock(p),
             (call' = call /\ call[t] = Idle) \/ call' = [call EXCEPT ![t] = Idle]
      PROVE  /\ HeapInv' /\ AllocatorStep
             /\ \A u \in Callers \ {t} : call'[u] = call[u]
             /\ DOMAIN blocks' = DOMAIN blocks \ {p}
             /\ \A q \in DOMAIN blocks' : blocks'[q] = blocks[q]
  <2>1. call'[t] = Idle /\ \A u \in Callers \ {t} : call'[u] = call[u]
    BY <1>0, <1>5
  <2>2. p \in DOMAIN blocks /\ p # Nowhere
    BY <1>0, HeapNumbers DEF Held
  <2>3. \A u \in Callers : call'[u].old # p
    BY <1>0, <2>1, <2>2, NobodyElses
  <2> QED BY <1>5, <2>1, <2>2, <2>3, FreeKeeps
<1>6. CASE Free(t)
  <2>1. PICK p \in Held(t) : FreeBlock(p) /\ call' = call /\ call[t] = Idle
    BY <1>6 DEF Free
  <2>2. blocks[p].owner = t
    BY DEF Held
  <2> QED BY <1>5, <2>1, <2>2
<1>7. CASE ReallocFree(t)
  <2>1. call[t].at = "free" /\ FreeBlock(call[t].old) /\ call' = [call EXCEPT ![t] = Idle]
    BY <1>7 DEF ReallocFree
  <2>2. call[t].old \in Held(t)
    BY <2>1 DEF HeapInv, CallsOk
  <2>3. PICK p \in Held(t) : p = call[t].old
    BY <2>2
  <2>4. blocks[p].owner = t
    BY DEF Held
  <2> QED BY <1>5, <2>1, <2>3, <2>4
<1>8. CASE Realloc(t)
  <2>1. PICK p \in Held(t), newsize \in Sizes : ReallocShrink(p, newsize) \/ ReallocMove(t, p, newsize)
    BY <1>8 DEF Realloc
  <2>2. p \in DOMAIN blocks /\ newsize \in Nat /\ call[t] = Idle
    BY <1>8, HeapNumbers DEF Held, Realloc
  <2>3. CASE ReallocShrink(p, newsize)
    <3>1. /\ HeapInv' /\ AllocatorStep /\ call' = call
          /\ DOMAIN blocks' = DOMAIN blocks
          /\ \A q \in DOMAIN blocks : blocks'[q].owner = blocks[q].owner
      BY <2>2, <2>3, ShrinkKeeps
    <3> QED BY <3>1
  <2>4. CASE ReallocMove(t, p, newsize)
    <3>1. /\ HeapInv' /\ UNCHANGED Allocated /\ UNCHANGED blocks
          /\ \A u \in Callers \ {t} : call'[u] = call[u]
      BY <2>2, <2>4, MoveKeeps
    <3> QED BY <3>1 DEF AllocatorStep
  <2> QED BY <2>1, <2>3, <2>4
<1> QED BY <1>2, <1>3, <1>4, <1>6, <1>7, <1>8 DEF HeapNext

-----------------------------------------------------------------------------
(* The threads that create and delete the pool. *)

\* Who is who.
LEMMA Roles ==
    /\ Managers \subseteq Callers /\ HeapUsers \subseteq Callers /\ Callers \subseteq Threads
    /\ Users \subseteq Threads
    /\ \A t \in Managers : t \notin HeapUsers /\ t \notin Users
    /\ ObjectSize \in Nat /\ RoomSize \in Nat
BY MemoryAssumption, MemPoolAssumption, HeapAssumption

\* A manager moves on while all the others are outside.
LEMMA ManagerMoves ==
    ASSUME ManageInv, NEW t \in Managers, NEW place \in Places, Goto(t, place),
           \A u \in Managers \ {t} : pc[u] = "run" /\ call'[u] = call[u],
           call'[t].old = Nowhere,
           call'[t].at = IF place \in {"object", "fill"} THEN "commit" ELSE "idle",
           PoolMemory(place)'
    PROVE  ManageInv'
<1>1. pc' = [pc EXCEPT ![t] = place] /\ pc = [u \in Threads |-> pc[u]] /\ t \in Threads
  BY Roles DEF Goto, ManageInv
<1>2. pc'[t] = place /\ \A u \in Managers \ {t} : pc'[u] = "run"
  BY <1>1, Roles
<1>3. pc' = [u \in Threads |-> pc'[u]]
  BY <1>1
<1>4. ASSUME NEW u \in Managers
      PROVE  /\ pc'[u] \in Places /\ call'[u].old = Nowhere
             /\ call'[u].at = IF pc'[u] \in {"object", "fill"} THEN "commit" ELSE "idle"
             /\ pc'[u] # "run" => u = t
  <2>1. CASE u = t
    BY <1>2, <2>1
  <2>2. CASE u # t
    <3>1. pc[u] = "run" /\ pc'[u] = "run" /\ call'[u] = call[u]
      BY <1>2, <2>2
    <3>2. call[u].old = Nowhere /\ call[u].at = "idle"
      BY <3>1 DEF ManageInv
    <3> QED BY <2>2, <3>1, <3>2 DEF Places
  <2> QED BY <2>1, <2>2
<1>5. \A u \in Managers : pc'[u] # "run" => PoolMemory(pc[u])'
  <2> SUFFICES ASSUME NEW u \in Managers, pc'[u] # "run" PROVE PoolMemory(pc[u])'
    OBVIOUS
  <2>1. pc'[u] = place
    BY <1>2, <1>4
  <2> QED BY <2>1 DEF PoolMemory, Made, Roomy, Linked
<1>6. (\A u \in Managers : pc'[u] = "run") => PoolMemory("run")'
  <2> SUFFICES ASSUME \A u \in Managers : pc'[u] = "run" PROVE PoolMemory("run")'
    OBVIOUS
  <2>1. place = "run"
    BY <1>2
  <2> QED BY <2>1 DEF PoolMemory, Made, Roomy, Linked
<1> QED BY <1>3, <1>4, <1>5, <1>6 DEF ManageInv

\* What the heap holds for the pool, where the manager stands.
LEMMA ManagerAlone ==
    ASSUME ManageInv, NEW t \in Managers, pc[t] # "run"
    PROVE  PoolMemory(pc[t]) /\ \A u \in Managers \ {t} : pc[u] = "run"
BY DEF ManageInv

\* A manager that stands outside with nobody inside.
LEMMA ManagerOutside ==
    ASSUME HeapInv, ManageInv, NEW t \in Managers, pc[t] = "run",
           (object = Nowhere /\ Unlocked) \/ mp # Nowhere
    PROVE  PoolMemory("run") /\ \A u \in Managers : pc[u] = "run"
<1>1. ASSUME NEW u \in Managers, pc[u] # "run" PROVE FALSE
  <2>1. PoolMemory(pc[u])
    BY <1>1 DEF ManageInv
  <2>2. mp = Nowhere
    BY <1>1, <2>1 DEF PoolMemory
  <2>3. object = Nowhere /\ Unlocked
    BY <2>2
  <2>4. pc[u] = "object"
    <3>1. pc[u] \in Places /\ ~Made(pc[u])
      BY <2>1, <2>3 DEF ManageInv, PoolMemory
    <3> QED BY <1>1, <3>1 DEF Places, Made
  <2>5. call[u].at = "commit"
    BY <2>4 DEF ManageInv
  <2>6. heap_sem = u /\ u \in Callers
    BY <2>5, Roles DEF HeapInv, CallsOk
  <2> QED BY <2>3, <2>6, HeapNumbers DEF Unlocked
<1> QED BY <1>1 DEF ManageInv

\* The two searches of rt_mp_create.
LEMMA ManagerSearch ==
    ASSUME HeapInv, NEW t \in Managers, NEW size \in Nat, MallocSearch(t, size, Nowhere)
    PROVE  /\ HeapInv' /\ AllocatorStep /\ blocks' = blocks /\ OfPool' = OfPool
           /\ call'[t].at = "commit" /\ call'[t].old = Nowhere
           /\ \A u \in Managers \ {t} : call'[u] = call[u]
<1>1. t \in Callers
  BY Roles
<1>2. heap' = heap /\ blocks' = blocks
  BY DEF MallocSearch, heapState
<1>3. UNCHANGED Allocated /\ OfPool' = OfPool
  BY <1>2 DEF Allocated, DataCells, OfPool
<1>4. /\ HeapInv' /\ call'[t].at = "commit" /\ call'[t].old = Nowhere
      /\ \A u \in Callers \ {t} : call'[u] = call[u]
  BY <1>1, SearchKeeps
<1> QED BY <1>2, <1>3, <1>4, Roles DEF AllocatorStep

\* The two blocks rt_mp_create gets.
LEMMA ManagerCommit ==
    ASSUME HeapInv, ManageInv, NEW t \in Managers, MallocCommit(t)
    PROVE  /\ HeapInv' /\ AllocatorStep /\ call'[t] = Idle
           /\ OfPool' = OfPool \cup ({call[t].mem} \ {Nowhere})
           /\ call[t].mem \notin OfPool
           /\ \A u \in Managers \ {t} : call'[u] = call[u]
<1>1. t \in Callers /\ call[t].old = Nowhere
  BY Roles DEF ManageInv
<1>2. /\ HeapInv' /\ AllocatorStep
      /\ IF call[t].mem = Nowhere THEN blocks' = blocks
         ELSE /\ call[t].mem \notin DOMAIN blocks
              /\ DOMAIN blocks' = DOMAIN blocks \cup {call[t].mem}
              /\ blocks'[call[t].mem].owner = t
              /\ \A p \in DOMAIN blocks : blocks'[p] = blocks[p]
      /\ call'[t] = Idle
      /\ \A u \in Callers \ {t} : call'[u] = call[u]
  BY <1>1, CommitKeeps
<1>3. CASE call[t].mem = Nowhere
  <2>1. OfPool' = OfPool
    BY <1>2, <1>3 DEF OfPool
  <2>2. Nowhere \notin DOMAIN blocks
    BY HeapNumbers DEF HeapInv, BlocksOk, HeapOk, InOrder
  <2> QED BY <1>2, <1>3, <2>1, <2>2, Roles DEF OfPool
<1>4. CASE call[t].mem # Nowhere
  <2>1. call[t].mem \notin OfPool
    BY <1>2, <1>4 DEF OfPool
  <2>2. OfPool' = OfPool \cup {call[t].mem}
    BY <1>2, <1>4 DEF OfPool
  <2> QED BY <1>2, <1>4, <2>1, <2>2, Roles
<1> QED BY <1>3, <1>4

\* The two blocks rt_mp_delete gives back.
LEMMA ManagerFree ==
    ASSUME HeapInv, ManageInv, NEW t \in Managers, NEW p \in OfPool, FreeBlock(p), call' = call
    PROVE  HeapInv' /\ AllocatorStep /\ OfPool' = OfPool \ {p}
<1>1. p \in DOMAIN blocks /\ blocks[p].owner \in Managers /\ t \in Callers
  BY Roles DEF OfPool
<1>2. PICK o \in Managers : o = blocks[p].owner
  BY <1>1
<1>3. p \in Held(o) /\ o \in Callers /\ p # Nowhere
  <2>1. p \in Nat
    BY <1>1 DEF HeapInv, BlocksOk, HeapOk, InOrder
  <2> QED BY <1>1, <1>2, <2>1, Roles, HeapNumbers DEF Held
<1>4. \A u \in Callers : call'[u].old # p
  <2>1. call[o].old = Nowhere
    BY DEF ManageInv
  <2> QED BY <1>3, <2>1, NobodyElses
<1>5. /\ HeapInv' /\ AllocatorStep /\ DOMAIN blocks' = DOMAIN blocks \ {p}
      /\ \A q \in DOMAIN blocks' : blocks'[q] = blocks[q]
  BY <1>1, <1>4, FreeKeeps
<1> QED BY <1>5 DEF OfPool

\* The only object of the container is taken out.
LEMMA RemoveOnly == \A o : rt_list_remove(<<o>>, o) = <<>>
<1> SUFFICES ASSUME NEW o PROVE rt_list_remove(<<o>>, o) = <<>>
  OBVIOUS
<1>1. <<o>> \in Seq({o}) /\ Len(<<o>>) = 1 /\ DOMAIN <<o>> = 1..1 /\ <<o>>[1] = o
  OBVIOUS
<1>2. o \in ToSet(<<o>>)
  BY <1>1 DEF ToSet
<1>3. (CHOOSE i \in DOMAIN <<o>> : <<o>>[i] = o) = 1
  BY <1>1
<1>4. RemoveAt(<<o>>, 1) = <<>>
  <2>1. RemoveAt(<<o>>, 1) \in Seq({o}) /\ Len(RemoveAt(<<o>>, 1)) = 0
    <3>1. PICK l, S : l = <<o>> /\ S = {o}
      OBVIOUS
    <3>2. l \in Seq(S) /\ 1 \in 1..Len(l) /\ Len(l) - 1 = 0
      BY <1>1, <3>1
    <3>3. RemoveAt(l, 1) \in Seq(S) /\ Len(RemoveAt(l, 1)) = Len(l) - 1
      BY ONLY <3>2, RemoveAtElements
    <3> QED BY <3>1, <3>2, <3>3
  <2> QED BY <2>1
<1> QED BY <1>2, <1>3, <1>4 DEF rt_list_remove

\* Every step of rt_mp_create and rt_mp_delete.
LEMMA ManageKeeps ==
    ASSUME HeapInv, ManageInv, NEW t \in Managers, Manage(t)
    PROVE  HeapInv' /\ ManageInv' /\ AllocatorStep
<1>0. /\ t \in Callers /\ t \in Threads /\ Idle.at = "idle" /\ Idle.old = Nowhere
      /\ call[t].old = Nowhere
      /\ call[t].at = IF pc[t] \in {"object", "fill"} THEN "commit" ELSE "idle"
      /\ \A p \in OfPool : p # Nowhere
  BY Roles, HeapNumbers DEF Idle, ManageInv, OfPool, HeapInv, BlocksOk, HeapOk, InOrder
\* Steps that leave the heap alone.
<1>00. ASSUME UNCHANGED heapVars
       PROVE  HeapInv' /\ AllocatorStep /\ call' = call /\ OfPool' = OfPool
  <2>1. heap' = heap /\ lfree' = lfree /\ heap_sem' = heap_sem /\ call' = call /\ blocks' = blocks
    BY <1>00 DEF heapVars, heapState
  <2>2. \A u : Held(u)' = Held(u)
    BY <2>1 DEF Held
  <2>3. UNCHANGED Allocated /\ OfPool' = OfPool
    BY <2>1 DEF Allocated, DataCells, OfPool
  <2>4. HeapOk' /\ BlocksOk' /\ CallsOk'
    BY <2>1, <2>2 DEF HeapInv, HeapOk, BlocksOk, CallsOk, UserSize
  <2> QED BY <2>1, <2>3, <2>4 DEF AllocatorStep, HeapInv
<1>1. CASE Create(t)
  <2>1. /\ pc[t] = "run" /\ object = Nowhere /\ MallocSearch(t, ObjectSize, Nowhere) /\ Goto(t, "object")
        /\ UNCHANGED containerState
    BY <1>1 DEF Create, At
  <2>2. Unlocked
    BY <2>1 DEF MallocSearch
  <2>3. PoolMemory("run") /\ \A u \in Managers : pc[u] = "run"
    BY <2>1, <2>2, ManagerOutside
  <2>4. /\ HeapInv' /\ AllocatorStep /\ OfPool' = OfPool
        /\ call'[t].at = "commit" /\ call'[t].old = Nowhere
        /\ \A u \in Managers \ {t} : call'[u] = call[u]
    BY <2>1, Roles, ManagerSearch
  <2>5. PoolMemory("object")'
    BY <2>1, <2>3, <2>4 DEF PoolMemory, Made, Roomy, Linked, containerState
  <2>6. ManageInv'
    BY <2>1, <2>3, <2>4, <2>5, ManagerMoves DEF Places
  <2> QED BY <2>4, <2>6
<1>2. CASE CreateObject(t)
  <2>1. /\ pc[t] = "object" /\ MallocCommit(t) /\ object' = call[t].mem
        /\ Goto(t, IF call[t].mem = Nowhere THEN "run" ELSE "link")
        /\ object_list' = object_list /\ start_address' = start_address /\ mp' = mp
    BY <1>2 DEF CreateObject, At
  <2>2. PoolMemory("object") /\ \A u \in Managers \ {t} : pc[u] = "run"
    BY <2>1, ManagerAlone
  <2>3. /\ HeapInv' /\ AllocatorStep /\ call'[t] = Idle
        /\ OfPool' = OfPool \cup ({call[t].mem} \ {Nowhere}) /\ call[t].mem \notin OfPool
        /\ \A u \in Managers \ {t} : call'[u] = call[u]
    BY <2>1, ManagerCommit
  <2>4. /\ mp = Nowhere /\ object = Nowhere /\ start_address = Nowhere /\ OfPool = {} /\ object_list = <<>>
    BY <2>2 DEF PoolMemory, Made, Roomy, Linked
  <2>5. CASE call[t].mem = Nowhere
    <3>1. PoolMemory("run")'
      BY <2>1, <2>3, <2>4, <2>5 DEF PoolMemory, Made, Roomy, Linked
    <3>2. ManageInv'
      BY <1>0, <2>1, <2>2, <2>3, <2>5, <3>1, ManagerMoves DEF Places
    <3> QED BY <2>3, <3>2
  <2>6. CASE call[t].mem # Nowhere
    <3>1. PoolMemory("link")'
      BY <2>1, <2>3, <2>4, <2>6 DEF PoolMemory, Made, Roomy, Linked
    <3>2. ManageInv'
      BY <1>0, <2>1, <2>2, <2>3, <2>6, <3>1, ManagerMoves DEF Places
    <3> QED BY <2>3, <3>2
  <2> QED BY <2>5, <2>6
<1>3. CASE LinkObject(t)
  <2>1. /\ pc[t] = "link" /\ object_list' = rt_list_insert_after(object_list, object) /\ Goto(t, "room")
        /\ UNCHANGED heapVars /\ object' = object /\ start_address' = start_address /\ mp' = mp
    BY <1>3 DEF LinkObject, At
  <2>2. PoolMemory("link") /\ \A u \in Managers \ {t} : pc[u] = "run"
    BY <2>1, ManagerAlone
  <2>3. HeapInv' /\ AllocatorStep /\ call' = call /\ OfPool' = OfPool
    BY <1>00, <2>1
  <2>4. object_list' = <<object>>
    <3>1. object_list = <<>>
      BY <2>2 DEF PoolMemory, Linked
    <3> QED BY <2>1, <3>1 DEF rt_list_insert_after
  <2>5. PoolMemory("room")'
    BY <2>1, <2>2, <2>3, <2>4 DEF PoolMemory, Made, Roomy, Linked
  <2>6. ManageInv'
    BY <1>0, <2>1, <2>2, <2>3, <2>5, ManagerMoves DEF Places
  <2> QED BY <2>3, <2>6
<1>4. CASE CreateRoom(t)
  <2>1. /\ pc[t] = "room" /\ MallocSearch(t, RoomSize, Nowhere) /\ Goto(t, "fill")
        /\ UNCHANGED containerState
    BY <1>4 DEF CreateRoom, At
  <2>2. PoolMemory("room") /\ \A u \in Managers \ {t} : pc[u] = "run"
    BY <2>1, ManagerAlone
  <2>3. /\ HeapInv' /\ AllocatorStep /\ OfPool' = OfPool
        /\ call'[t].at = "commit" /\ call'[t].old = Nowhere
        /\ \A u \in Managers \ {t} : call'[u] = call[u]
    BY <2>1, Roles, ManagerSearch
  <2>4. PoolMemory("fill")'
    BY <2>1, <2>2, <2>3 DEF PoolMemory, Made, Roomy, Linked, containerState
  <2>5. ManageInv'
    BY <2>1, <2>2, <2>3, <2>4, ManagerMoves DEF Places
  <2> QED BY <2>3, <2>5
<1>5. CASE CreateDone(t)
  <2>1. /\ pc[t] = "fill" /\ MallocCommit(t) /\ start_address' = call[t].mem
        /\ call[t].mem = Nowhere => Goto(t, "unlink") /\ mp' = mp
        /\ call[t].mem # Nowhere => Goto(t, "run") /\ mp' = object
        /\ object_list' = object_list /\ object' = object
    BY <1>5 DEF CreateDone, At, AfterRoom
  <2>2. PoolMemory("fill") /\ \A u \in Managers \ {t} : pc[u] = "run"
    BY <2>1, ManagerAlone
  <2>3. /\ HeapInv' /\ AllocatorStep /\ call'[t] = Idle
        /\ OfPool' = OfPool \cup ({call[t].mem} \ {Nowhere}) /\ call[t].mem \notin OfPool
        /\ \A u \in Managers \ {t} : call'[u] = call[u]
    BY <2>1, ManagerCommit
  <2>4. /\ mp = Nowhere /\ object # Nowhere /\ start_address = Nowhere /\ OfPool = {object}
        /\ object_list = <<object>>
    BY <2>2 DEF PoolMemory, Made, Roomy, Linked
  <2>5. CASE call[t].mem = Nowhere
    <3>1. PoolMemory("unlink")'
      BY <2>1, <2>3, <2>4, <2>5 DEF PoolMemory, Made, Roomy, Linked
    <3>2. ManageInv'
      BY <1>0, <2>1, <2>2, <2>3, <2>5, <3>1, ManagerMoves DEF Places
    <3> QED BY <2>3, <3>2
  <2>6. CASE call[t].mem # Nowhere
    <3>1. PoolMemory("run")'
      BY <2>1, <2>3, <2>4, <2>6 DEF PoolMemory, Made, Roomy, Linked
    <3>2. ManageInv'
      BY <1>0, <2>1, <2>2, <2>3, <2>6, <3>1, ManagerMoves DEF Places
    <3> QED BY <2>3, <3>2
  <2> QED BY <2>5, <2>6
<1>6. CASE Delete(t)
  <2>1. /\ pc[t] = "run" /\ mp # Nowhere /\ mp' = Nowhere /\ Goto(t, "wake")
        /\ UNCHANGED heapVars /\ object_list' = object_list /\ object' = object
        /\ start_address' = start_address
    BY <1>6 DEF Delete, At
  <2>2. PoolMemory("run") /\ \A u \in Managers : pc[u] = "run"
    BY <2>1, ManagerOutside
  <2>3. HeapInv' /\ AllocatorStep /\ call' = call /\ OfPool' = OfPool
    BY <1>00, <2>1
  <2>4. PoolMemory("wake")'
    BY <2>1, <2>2, <2>3 DEF PoolMemory, Made, Roomy, Linked
  <2>5. ManageInv'
    BY <1>0, <2>1, <2>2, <2>3, <2>4, ManagerMoves DEF Places
  <2> QED BY <2>3, <2>5
<1>7. CASE DeleteWake(t)
  <2>1. UNCHANGED <<heapVars, pc, containerState>>
    BY <1>7 DEF DeleteWake
  <2>2. HeapInv' /\ AllocatorStep /\ call' = call /\ OfPool' = OfPool
    BY <1>00, <2>1
  <2>3. ManageInv'
    BY <2>1, <2>2 DEF ManageInv, PoolMemory, Made, Roomy, Linked, containerState
  <2> QED BY <2>2, <2>3
<1>8. CASE DeleteRoom(t)
  <2>1. /\ pc[t] = "wake" /\ FreeBlock(start_address) /\ call' = call /\ start_address' = Nowhere
        /\ Goto(t, "unlink") /\ object_list' = object_list /\ object' = object /\ mp' = mp
    BY <1>8 DEF DeleteRoom, At
  <2>2. PoolMemory("wake") /\ \A u \in Managers \ {t} : pc[u] = "run"
    BY <2>1, ManagerAlone
  <2>3. /\ mp = Nowhere /\ object # Nowhere /\ start_address # Nowhere /\ object # start_address
        /\ OfPool = {object, start_address} /\ object_list = <<object>>
    BY <2>2 DEF PoolMemory, Made, Roomy, Linked
  <2>4. HeapInv' /\ AllocatorStep /\ OfPool' = OfPool \ {start_address}
    <3>1. PICK p \in OfPool : p = start_address
      BY <2>3
    <3> QED BY <2>1, <3>1, ManagerFree
  <2>5. PoolMemory("unlink")'
    BY <2>1, <2>3, <2>4 DEF PoolMemory, Made, Roomy, Linked
  <2>6. ManageInv'
    BY <1>0, <2>1, <2>2, <2>5, ManagerMoves DEF Places
  <2> QED BY <2>4, <2>6
<1>9. CASE UnlinkObject(t)
  <2>1. /\ pc[t] = "unlink" /\ object_list' = rt_list_remove(object_list, object) /\ Goto(t, "release")
        /\ UNCHANGED heapVars /\ object' = object /\ start_address' = start_address /\ mp' = mp
    BY <1>9 DEF UnlinkObject, At
  <2>2. PoolMemory("unlink") /\ \A u \in Managers \ {t} : pc[u] = "run"
    BY <2>1, ManagerAlone
  <2>3. HeapInv' /\ AllocatorStep /\ call' = call /\ OfPool' = OfPool
    BY <1>00, <2>1
  <2>4. object_list' = <<>>
    <3>1. object_list = <<object>>
      BY <2>2 DEF PoolMemory, Linked, Made
    <3> QED BY <2>1, <3>1, RemoveOnly
  <2>5. PoolMemory("release")'
    BY <2>1, <2>2, <2>3, <2>4 DEF PoolMemory, Made, Roomy, Linked
  <2>6. ManageInv'
    BY <1>0, <2>1, <2>2, <2>3, <2>5, ManagerMoves DEF Places
  <2> QED BY <2>3, <2>6
<1>10. CASE FreeObject(t)
  <2>1. /\ pc[t] = "release" /\ FreeBlock(object) /\ call' = call /\ object' = Nowhere
        /\ Goto(t, "run") /\ object_list' = object_list /\ start_address' = start_address /\ mp' = mp
    BY <1>10 DEF FreeObject, At
  <2>2. PoolMemory("release") /\ \A u \in Managers \ {t} : pc[u] = "run"
    BY <2>1, ManagerAlone
  <2>3. /\ mp = Nowhere /\ object # Nowhere /\ start_address = Nowhere
        /\ OfPool = {object} /\ object_list = <<>>
    BY <2>2 DEF PoolMemory, Made, Roomy, Linked
  <2>4. HeapInv' /\ AllocatorStep /\ OfPool' = OfPool \ {object}
    <3>1. PICK p \in OfPool : p = object
      BY <2>3
    <3> QED BY <2>1, <3>1, ManagerFree
  <2>5. PoolMemory("run")'
    BY <2>1, <2>3, <2>4 DEF PoolMemory, Made, Roomy, Linked
  <2>6. ManageInv'
    BY <1>0, <2>1, <2>2, <2>5, ManagerMoves DEF Places
  <2> QED BY <2>4, <2>6
<1> QED BY <1>1, <1>2, <1>3, <1>4, <1>5, <1>6, <1>7, <1>8, <1>9, <1>10 DEF Manage

-----------------------------------------------------------------------------
(* The theorems. *)

MemoryInv == HeapInv /\ ManageInv

\* The heap after rt_system_heap_init, before the first pool is created.
LEMMA MemoryInitial == Init => MemoryInv
<1> SUFFICES ASSUME Init PROVE MemoryInv
  OBVIOUS
<1>0. /\ heap = [p \in {0, heap_end} |->
                    IF p = 0 THEN [used |-> FALSE, next |-> heap_end, prev |-> 0]
                    ELSE [used |-> TRUE, next |-> heap_end, prev |-> heap_end]]
      /\ lfree = 0 /\ heap_sem = NoThread
      /\ call = [t \in Callers |-> Idle] /\ blocks = << >>
      /\ pc = [t \in Threads |-> "run"]
      /\ object_list = <<>> /\ object = Nowhere /\ start_address = Nowhere /\ mp = Nowhere
  BY DEF Init, HeapInit, IpcInit
<1>1. /\ DOMAIN heap = {0, heap_end} /\ DOMAIN blocks = {}
      /\ heap[0] = [used |-> FALSE, next |-> heap_end, prev |-> 0]
      /\ heap[heap_end] = [used |-> TRUE, next |-> heap_end, prev |-> heap_end]
  BY <1>0, HeapNumbers
<1>2. HeapOk
  <2>1. heap \in [DOMAIN heap -> Header]
    <3>1. heap[0] \in Header /\ heap[heap_end] \in Header
      BY <1>1, HeapNumbers DEF Header
    <3> QED BY <1>0, <1>1, <3>1
  <2>2. /\ ~heap[0].used /\ heap[0].next = heap_end /\ heap[0].prev = 0 /\ heap[heap_end].used
        /\ HeaderSize <= heap_end
    BY <1>1, HeapNumbers DEF heap_end
  <2>3. InOrder(heap)
    BY <1>1, <2>1, <2>2, HeapNumbers DEF InOrder
  <2>4. Apart(heap, {}) /\ LowOk(heap, lfree)
    BY <1>0, <1>1, <2>2 DEF Apart, LowOk
  <2> QED BY <2>3, <2>4 DEF HeapOk
<1>3. BlocksOk
  <2>1. blocks \in [DOMAIN blocks -> [owner : Callers, size : Nat]]
    BY <1>0, <1>1
  <2> QED BY <1>1, <2>1 DEF BlocksOk
<1>4. CallsOk
  <2>1. /\ Idle \in [at : {"idle", "malloc", "commit", "free"}, size : Nat,
                     mem : Nat \cup {Nowhere}, old : Nat \cup {Nowhere}]
        /\ Idle.at = "idle" /\ Idle.old = Nowhere
    BY DEF Idle
  <2>2. \A t \in Callers : call[t] = Idle /\ heap_sem # t
    BY <1>0, HeapNumbers
  <2> QED BY <1>0, <2>1, <2>2 DEF CallsOk
<1>5. ManageInv
  <2>1. PoolMemory("run")
    BY <1>0, <1>1 DEF PoolMemory, Made, Roomy, Linked, OfPool
  <2>2. \A t \in Managers : pc[t] = "run" /\ call[t].at = "idle" /\ call[t].old = Nowhere
    BY <1>0, Roles DEF Idle
  <2> QED BY <1>0, <2>1, <2>2 DEF ManageInv, Places
<1> QED BY <1>2, <1>3, <1>4, <1>5 DEF MemoryInv, HeapInv

\* Every step keeps the invariant and is a step of an allocator.
LEMMA MemoryStep == MemoryInv /\ [Next]_vars => MemoryInv' /\ AllocatorStep
<1> SUFFICES ASSUME HeapInv, ManageInv, [Next]_vars PROVE HeapInv' /\ ManageInv' /\ AllocatorStep
  BY DEF MemoryInv
\* Steps that leave the heap and the container alone and move no manager.
<1>1. ASSUME UNCHANGED <<heapVars, containerState>>, pc' = [t \in Threads |-> pc'[t]],
             \A t \in Managers : pc'[t] = pc[t]
      PROVE  HeapInv' /\ ManageInv' /\ AllocatorStep
  <2>1. /\ heap' = heap /\ lfree' = lfree /\ heap_sem' = heap_sem /\ call' = call /\ blocks' = blocks
        /\ object_list' = object_list /\ object' = object /\ start_address' = start_address /\ mp' = mp
    BY <1>1 DEF heapVars, heapState, containerState
  <2>2. \A u : Held(u)' = Held(u)
    BY <2>1 DEF Held
  <2>3. UNCHANGED Allocated /\ OfPool' = OfPool
    BY <2>1 DEF Allocated, DataCells, OfPool
  <2>4. HeapOk' /\ BlocksOk' /\ CallsOk'
    BY <2>1, <2>2 DEF HeapInv, HeapOk, BlocksOk, CallsOk, UserSize
  <2>5. ManageInv'
    BY <1>1, <2>1, <2>3 DEF ManageInv, PoolMemory, Made, Roomy, Linked
  <2> QED BY <2>3, <2>4, <2>5 DEF AllocatorStep, HeapInv
<1>2. ASSUME NEW t \in Managers, Manage(t) PROVE HeapInv' /\ ManageInv' /\ AllocatorStep
  BY <1>2, ManageKeeps
<1>3. ASSUME NEW t \in HeapUsers, UseHeap(t) PROVE HeapInv' /\ ManageInv' /\ AllocatorStep
  <2>1. HeapNext(t) /\ pc' = pc /\ UNCHANGED containerState /\ t \in Callers /\ t \notin Managers
    BY <1>3, Roles DEF UseHeap, ipcVars
  <2>2. /\ HeapInv' /\ AllocatorStep
        /\ \A u \in Callers \ {t} : call'[u] = call[u]
        /\ \A q : q \in DOMAIN blocks' /\ blocks'[q].owner # t <=> q \in DOMAIN blocks /\ blocks[q].owner # t
        /\ \A q \in DOMAIN blocks' \cap DOMAIN blocks : blocks'[q].owner = blocks[q].owner
    BY <2>1, UserKeeps
  <2>3. OfPool' = OfPool
    BY <2>1, <2>2 DEF OfPool
  <2>4. \A u \in Managers : call'[u] = call[u]
    BY <2>1, <2>2, Roles
  <2>5. ManageInv'
    BY <2>1, <2>3, <2>4 DEF ManageInv, PoolMemory, Made, Roomy, Linked, containerState
  <2> QED BY <2>2, <2>5
<1>4. ASSUME NEW t \in Users, UsePool(t) PROVE HeapInv' /\ ManageInv' /\ AllocatorStep
  <2>1. UNCHANGED <<heapVars, containerState>> /\ PoolUse(t) /\ t \in Threads /\ t \notin Managers
    BY <1>4, Roles DEF UsePool
  <2>2. pc' = pc \/ \E place : pc' = [pc EXCEPT ![t] = place]
    BY <2>1 DEF PoolUse, Alloc, AllocSuspend, AllocWoken, FreeToPool, Goto, ipcVars
  <2>3. pc = [u \in Threads |-> pc[u]]
    BY DEF ManageInv
  <2>4. pc' = [u \in Threads |-> pc'[u]] /\ \A u \in Managers : pc'[u] = pc[u]
    BY <2>1, <2>2, <2>3, Roles
  <2> QED BY <1>1, <2>1, <2>4
<1>5. ASSUME UNCHANGED vars PROVE HeapInv' /\ ManageInv' /\ AllocatorStep
  <2>1. UNCHANGED <<heapVars, containerState>> /\ pc' = pc
    BY <1>5 DEF vars, ipcVars
  <2>2. pc' = [t \in Threads |-> pc'[t]]
    BY <2>1 DEF ManageInv
  <2> QED BY <1>1, <2>1, <2>2
<1> QED BY <1>2, <1>3, <1>4, <1>5 DEF Next

\* The invariant holds in every reachable state.
THEOREM MemoryInvariant == Spec => []MemoryInv
<1>1. Init => MemoryInv
  BY MemoryInitial
<1>2. MemoryInv /\ [Next]_vars => MemoryInv'
  BY MemoryStep
<1> QED BY <1>1, <1>2, PTL DEF Spec

\* Whatever sequence of splits, joins, shrinks and moves the threads cause, the
\* headers tile the memory, no two neighbours are free and lfree is a free block
\* or the end (mem.c: rt_malloc, rt_realloc, rt_free, plug_holes).
THEOREM HeapAlwaysTiled == Spec => []HeapTiled
<1>1. MemoryInv => HeapTiled
  <2> SUFFICES ASSUME MemoryInv PROVE HeapTiled
    OBVIOUS
  <2>1. InOrder(heap) /\ Apart(heap, {}) /\ LowOk(heap, lfree)
    BY DEF MemoryInv, HeapInv, HeapOk
  <2>2. \A p \in DOMAIN heap \ {heap_end} :
            /\ p \in Nat /\ heap[p].next \in DOMAIN heap /\ heap[p].next \in Nat
            /\ p + HeaderSize <= heap[p].next
            /\ \A q \in DOMAIN heap : q <= p \/ heap[p].next <= q
            /\ heap[p].next # heap_end => heap[heap[p].next].prev = p
    BY <2>1 DEF InOrder
  <2>3. \A p \in DOMAIN heap \ {heap_end} : heap[p].used \/ heap[heap[p].next].used
    BY <2>1 DEF Apart
  <2>4. {0, heap_end, lfree} \subseteq DOMAIN heap /\ heap[heap_end].used
        /\ (lfree = heap_end \/ ~heap[lfree].used)
    BY <2>1 DEF InOrder, LowOk
  <2> QED BY <2>2, <2>3, <2>4, HeapNumbers DEF HeapTiled
<1> QED BY <1>1, MemoryInvariant, PTL

\* The heap is an allocator: blocks that callers hold are disjoint, large enough
\* and touched by nobody else, although rt_malloc commits what an earlier
\* section found and rt_realloc lets go of the semaphore in the middle.
THEOREM HeapImplementsAllocator == Spec => ImplementsAllocator
<1>1. Init => Promise!Init
  <2> SUFFICES ASSUME Init PROVE Promise!Init
    OBVIOUS
  <2>1. blocks = << >>
    BY DEF Init, HeapInit
  <2>2. Allocated = << >>
    BY <2>1 DEF Allocated
  <2> QED BY <2>2 DEF Promise!Init
<1>2. MemoryInv /\ [Next]_vars => [Promise!Next]_Allocated
  BY MemoryStep DEF AllocatorStep
<1> QED BY <1>1, <1>2, MemoryInvariant, PTL DEF Spec, ImplementsAllocator, Promise!Spec

\* A creation that fails half way and a deletion leave nothing behind in the
\* heap, and the container never names memory that was given back (mempool.c:
\* rt_mp_create, rt_mp_delete; object.c: rt_object_allocate, rt_object_delete).
THEOREM PoolNeverLeaks == Spec => []NoLeak
<1>1. MemoryInv => NoLeak
  <2> SUFFICES ASSUME MemoryInv PROVE NoLeak
    OBVIOUS
  <2>1. \E place \in Places : PoolMemory(place)
    BY DEF MemoryInv, ManageInv, Places
  <2>2. ToSet(object_list) \subseteq OfPool
    <3>1. PICK place \in Places : PoolMemory(place)
      BY <2>1
    <3>2. CASE Linked(place)
      <4>1. object_list = <<object>> /\ object \in OfPool
        BY <3>1, <3>2 DEF PoolMemory, Linked
      <4> QED BY <4>1 DEF ToSet
    <3>3. CASE ~Linked(place)
      BY <3>1, <3>3 DEF PoolMemory, ToSet
    <3> QED BY <3>2, <3>3
  <2>3. (\A t \in Managers : pc[t] = "run") =>
            OfPool = IF mp = Nowhere THEN {} ELSE {object, start_address}
    BY DEF MemoryInv, ManageInv, PoolMemory, Made, Roomy
  <2> QED BY <2>2, <2>3 DEF NoLeak, OfPool
<1> QED BY <1>1, MemoryInvariant, PTL

-----------------------------------------------------------------------------
(* The statistics. *)

UsedIn(h) == {q \in DOMAIN h \ {heap_end} : h[q].used}
CellsOf(h) == UNION {p..(h[p].next - 1) : p \in UsedIn(h)}

\* One used block more: the words it covers come on top.
LEMMA CellsOfOneMore ==
    ASSUME NEW h, InOrder(h), NEW g, NEW p \in UsedIn(h),
           UsedIn(g) = UsedIn(h) \ {p}, \A q \in UsedIn(g) : g[q].next = h[q].next
    PROVE  /\ IsFiniteSet(CellsOf(h)) /\ IsFiniteSet(CellsOf(g))
           /\ Cardinality(CellsOf(h)) \in Nat /\ Cardinality(CellsOf(g)) \in Nat
           /\ Cardinality(CellsOf(h)) = Cardinality(CellsOf(g)) + (h[p].next - p)
<1> DEFINE n == h[p].next
           B == p..(n - 1)
           H == CellsOf(h)
           G == CellsOf(g)
<1>1. /\ p \in DOMAIN h \ {heap_end} /\ p \in Nat /\ n \in Nat /\ p <= n
      /\ heap_end \in Nat
      /\ \A q \in UsedIn(h) : q \in Nat /\ h[q].next \in Nat /\ h[q].next <= heap_end
  <2>1. p \in DOMAIN h \ {heap_end}
    BY DEF UsedIn
  <2>2. \A q \in DOMAIN h \ {heap_end} :
            /\ q \in Nat /\ h[q].next \in Nat /\ h[q].next <= heap_end
            /\ q + HeaderSize <= h[q].next
    BY HeapNumbers DEF InOrder
  <2>3. UsedIn(h) \subseteq DOMAIN h \ {heap_end}
    BY DEF UsedIn
  <2> QED BY <2>1, <2>2, <2>3, HeapNumbers
<1>2. H = G \cup B
  <2>1. UsedIn(h) = UsedIn(g) \cup {p}
    OBVIOUS
  <2> QED BY <2>1 DEF CellsOf
<1>3. G \cap B = {}
  <2> SUFFICES ASSUME NEW c \in B, NEW q \in UsedIn(g), c \in q..(g[q].next - 1) PROVE FALSE
    BY DEF CellsOf
  <2>1. q \in UsedIn(h) /\ q # p /\ g[q].next = h[q].next
    OBVIOUS
  <2>2. q \in DOMAIN h \ {heap_end} /\ q \in Nat /\ h[q].next \in Nat
    BY <1>1, <2>1 DEF UsedIn
  <2>3. n <= q \/ h[q].next <= p
    BY <1>1, <2>1, <2>2, BlocksApart
  <2>4. c \in Int /\ p <= c /\ c <= n - 1 /\ q <= c /\ c <= h[q].next - 1
    BY <1>1, <2>1, <2>2
  <2> QED BY <1>1, <2>2, <2>3, <2>4
<1>4. H \in SUBSET (0..(heap_end - 1))
  <2> SUFFICES ASSUME NEW q \in UsedIn(h), NEW c \in q..(h[q].next - 1) PROVE c \in 0..(heap_end - 1)
    BY DEF CellsOf
  <2> QED BY <1>1
<1> HIDE DEF H, G, B
<1>5. IsFiniteSet(0..(heap_end - 1))
  BY <1>1, FS_Interval
<1>6. IsFiniteSet(H) /\ IsFiniteSet(G) /\ IsFiniteSet(B)
  <2>1. IsFiniteSet(H)
    BY <1>4, <1>5, FS_Subset
  <2> QED BY <1>2, <2>1, FS_Subset
<1>7. Cardinality(B) = n - p
  BY <1>1, CellCount DEF B
<1>8. /\ Cardinality(H) = Cardinality(G) + Cardinality(B) - Cardinality(G \cap B)
      /\ Cardinality(G \cap B) = 0
  BY <1>2, <1>3, <1>6, FS_Union, FS_EmptySet
<1>9. Cardinality(H) \in Nat /\ Cardinality(G) \in Nat
  BY <1>6, FS_CardinalityType
<1>10. Cardinality(H) = Cardinality(G) + (n - p)
  BY <1>1, <1>7, <1>8, <1>9
<1> QED BY <1>6, <1>9, <1>10 DEF H, G

\* rt_malloc adds what it carved off.
LEMMA CommitCounts ==
    ASSUME HeapInv, HeapInv', UsedMemExact, NEW t \in Callers, MallocCommit(t)
    PROVE  UsedMemExact'
<1> DEFINE mem == call[t].mem
           size == call[t].size
<1>0. UsedCells = CellsOf(heap) /\ UsedCells' = CellsOf(heap')
  BY DEF UsedCells, CellsOf, UsedIn
<1>1. CASE mem = Nowhere
  <2>1. heap' = heap /\ used_mem' = used_mem
    BY <1>1 DEF MallocCommit, heapState
  <2> QED BY <1>0, <2>1 DEF UsedMemExact
<1>2. CASE mem # Nowhere
  <2>1. /\ call[t].at = "commit" /\ heap' = Carve(mem, size)
        /\ used_mem' = used_mem + Charge(heap, mem, size)
    BY <1>2 DEF MallocCommit, MallocTakes
  <2>2. /\ mem \in DOMAIN heap \ {heap_end} /\ ~heap[mem].used /\ size \in Nat
        /\ size <= UserSize(heap, mem)
    BY <1>2, <2>1 DEF HeapInv, CallsOk
  <2> HIDE DEF mem, size
  <2>3. /\ DOMAIN heap \subseteq DOMAIN heap' /\ heap'[mem].used
        /\ \A q \in DOMAIN heap \ {mem} : heap'[q].used = heap[q].used /\ heap'[q].next = heap[q].next
        /\ heap'[mem].next = mem + Charge(heap, mem, size)
        /\ \A q \in DOMAIN heap' \ DOMAIN heap : ~heap'[q].used
    <3>1. HeapOk
      BY DEF HeapInv
    <3> QED BY <2>1, <2>2, <3>1, CarveKeeps
  <2>4. /\ mem \in UsedIn(heap') /\ UsedIn(heap) = UsedIn(heap') \ {mem}
        /\ \A q \in UsedIn(heap) : heap[q].next = heap'[q].next
    BY <2>2, <2>3 DEF UsedIn
  <2>5. InOrder(heap')
    BY DEF HeapInv, HeapOk
  <2>6. /\ Cardinality(CellsOf(heap')) \in Nat /\ Cardinality(CellsOf(heap)) \in Nat
        /\ Cardinality(CellsOf(heap')) = Cardinality(CellsOf(heap)) + (heap'[mem].next - mem)
    BY <2>4, <2>5, CellsOfOneMore
  <2>7. mem \in Nat /\ heap'[mem].next \in Nat
    <3>1. InOrder(heap)
      BY DEF HeapInv, HeapOk
    <3> QED BY <2>2, <2>3, <2>5, <3>1, HeapNumbers DEF InOrder, Header
  <2>8. Charge(heap, mem, size) = heap'[mem].next - mem
    <3>1. Charge(heap, mem, size) \in Int
      <4>1. InOrder(heap)
        BY DEF HeapInv, HeapOk
      <4>2. heap[mem].next \in Nat
        BY <2>2, <4>1 DEF InOrder, Header
      <4> QED BY <2>2, <2>7, <4>2, HeapNumbers DEF Charge
    <3> QED BY <2>3, <2>7, <3>1
  <2> QED BY <1>0, <2>1, <2>6, <2>7, <2>8 DEF UsedMemExact
<1> QED BY <1>1, <1>2

\* rt_free subtracts the block it frees, whatever plug_holes joins afterwards.
LEMMA FreeCounts ==
    ASSUME HeapInv, UsedMemExact, NEW p \in DOMAIN blocks, FreeBlock(p)
    PROVE  UsedMemExact'
<1> DEFINE low == IF p < lfree THEN p ELSE lfree
           m   == [heap EXCEPT ![p].used = FALSE]
           r   == plug_holes(m, low, p)
<1>0. UsedCells = CellsOf(heap) /\ UsedCells' = CellsOf(heap')
  BY DEF UsedCells, CellsOf, UsedIn
<1>1. heap' = r.heap /\ used_mem' = used_mem - (heap[p].next - p)
  BY DEF FreeBlock
<1>2. /\ InOrder(heap) /\ Apart(heap, {}) /\ LowOk(heap, lfree)
      /\ p \in DOMAIN heap \ {heap_end} /\ heap[p].used
  BY DEF HeapInv, HeapOk, BlocksOk
<1>3. /\ InOrder(m) /\ DOMAIN m = DOMAIN heap
      /\ \A q \in DOMAIN heap : /\ m[q].used = IF q = p THEN FALSE ELSE heap[q].used
                                /\ m[q].next = heap[q].next
  BY <1>2, MarkKeeps
<1> HIDE DEF m, r
<1>4. Apart(m, {p})
  <2> SUFFICES ASSUME NEW q \in DOMAIN m \ {heap_end}, q # p, m[q].next # p
               PROVE  m[q].used \/ m[m[q].next].used
    BY DEF Apart
  <2>1. q \in DOMAIN heap \ {heap_end} /\ m[q].next = heap[q].next /\ heap[q].next \in DOMAIN heap
    BY <1>2, <1>3 DEF InOrder
  <2>2. heap[q].used \/ heap[heap[q].next].used
    BY <1>2, <2>1 DEF Apart
  <2> QED BY <1>3, <2>1, <2>2
<1>5. LowOk(m, low) /\ p \in DOMAIN m \ {heap_end} /\ ~m[p].used
  BY <1>2, <1>3 DEF LowOk
<1> HIDE DEF low
<1>6. /\ \A q \in DOMAIN m : m[q].used =>
            q \in DOMAIN r.heap /\ r.heap[q].used /\ r.heap[q].next = m[q].next
      /\ \A q \in DOMAIN r.heap : r.heap[q].used => q \in DOMAIN m /\ m[q].used
  BY <1>3, <1>4, <1>5, PlugKeeps DEF r
<1>7. /\ p \in UsedIn(heap) /\ UsedIn(heap') = UsedIn(heap) \ {p}
      /\ \A q \in UsedIn(heap') : heap'[q].next = heap[q].next
  BY <1>1, <1>2, <1>3, <1>6 DEF UsedIn
<1>8. /\ Cardinality(CellsOf(heap)) \in Nat /\ Cardinality(CellsOf(heap')) \in Nat
      /\ Cardinality(CellsOf(heap)) = Cardinality(CellsOf(heap')) + (heap[p].next - p)
  BY <1>2, <1>7, CellsOfOneMore
<1>9. p \in Nat /\ heap[p].next \in Nat
  BY <1>2 DEF InOrder, Header
<1> QED BY <1>0, <1>1, <1>8, <1>9 DEF UsedMemExact

\* rt_realloc that cuts a block subtracts what it cuts off.
LEMMA ShrinkCounts ==
    ASSUME HeapInv, UsedMemExact, NEW p \in DOMAIN blocks, NEW newsize \in Nat,
           ReallocShrink(p, newsize)
    PROVE  UsedMemExact'
<1> DEFINE ptr2 == p + HeaderSize + newsize
           m    == Split(heap, p, ptr2)
           r    == plug_holes(m, lfree, ptr2)
           n    == heap[p].next
<1>00. UsedCells = CellsOf(heap) /\ UsedCells' = CellsOf(heap')
  BY DEF UsedCells, CellsOf, UsedIn
<1>0. /\ heap' = r.heap /\ used_mem' = used_mem - (UserSize(heap, p) - newsize)
      /\ newsize + HeaderSize + MinSize < UserSize(heap, p)
  BY DEF ReallocShrink, Shrinks
<1>1. /\ InOrder(heap) /\ Apart(heap, {}) /\ LowOk(heap, lfree)
      /\ p \in DOMAIN heap \ {heap_end} /\ heap[p].used
  BY DEF HeapInv, HeapOk, BlocksOk
<1>2. p \in Nat /\ n \in Nat /\ n \in DOMAIN heap
  BY <1>1 DEF InOrder, Header
<1>3. ptr2 \in Nat /\ p + HeaderSize <= ptr2 /\ ptr2 + HeaderSize <= n
  BY <1>0, <1>2, HeapNumbers DEF UserSize
<1>14. UserSize(heap, p) - newsize = n - ptr2
  BY <1>0, <1>2, HeapNumbers DEF UserSize
<1> HIDE DEF m, r, ptr2
<1>4. /\ ptr2 \notin DOMAIN heap /\ InOrder(m) /\ DOMAIN m = DOMAIN heap \cup {ptr2}
      /\ ~m[ptr2].used /\ m[ptr2].next = n
      /\ \A q \in DOMAIN heap : /\ m[q].used = heap[q].used
                                /\ m[q].next = IF q = p THEN ptr2 ELSE heap[q].next
  <2>1. /\ ptr2 \notin DOMAIN heap /\ InOrder(Split(heap, p, ptr2))
        /\ DOMAIN Split(heap, p, ptr2) = DOMAIN heap \cup {ptr2}
        /\ ~Split(heap, p, ptr2)[ptr2].used /\ Split(heap, p, ptr2)[ptr2].next = n
        /\ \A q \in DOMAIN heap :
              /\ Split(heap, p, ptr2)[q].used = heap[q].used
              /\ Split(heap, p, ptr2)[q].next = IF q = p THEN ptr2 ELSE heap[q].next
    BY <1>1, <1>3, SplitKeeps
  <2> QED BY <2>1 DEF m
<1>5. Apart(m, {ptr2})
  <2> SUFFICES ASSUME NEW q \in DOMAIN m \ {heap_end}, q # ptr2, m[q].next # ptr2
               PROVE  m[q].used \/ m[m[q].next].used
    BY DEF Apart
  <2>1. q \in DOMAIN heap \ {heap_end} /\ m[q].next = heap[q].next /\ m[q].used = heap[q].used
    BY <1>4
  <2>2. heap[q].next \in DOMAIN heap
    BY <1>1, <2>1 DEF InOrder
  <2>3. heap[q].used \/ heap[heap[q].next].used
    BY <1>1, <2>1 DEF Apart
  <2> QED BY <1>4, <2>1, <2>2, <2>3
<1>6. LowOk(m, lfree) /\ ptr2 \in DOMAIN m \ {heap_end} /\ ~m[ptr2].used
  <2>1. heap_end \in DOMAIN heap
    BY <1>1 DEF InOrder
  <2> QED BY <1>1, <1>4, <2>1 DEF LowOk
<1>7. /\ InOrder(r.heap)
      /\ \A q \in DOMAIN m : m[q].used =>
            q \in DOMAIN r.heap /\ r.heap[q].used /\ r.heap[q].next = m[q].next
      /\ \A q \in DOMAIN r.heap : r.heap[q].used => q \in DOMAIN m /\ m[q].used
  BY <1>4, <1>5, <1>6, PlugKeeps DEF r
<1>8. /\ p \in UsedIn(heap) /\ UsedIn(heap') = UsedIn(heap)
      /\ \A q \in UsedIn(heap) : heap'[q].next = IF q = p THEN ptr2 ELSE heap[q].next
  BY <1>0, <1>1, <1>4, <1>7 DEF UsedIn
\* What both have in common.
<1> DEFINE g == [q \in UsedIn(heap) \ {p} |-> heap[q]]
<1>9. /\ UsedIn(g) = UsedIn(heap) \ {p}
      /\ \A q \in UsedIn(g) : g[q].next = heap[q].next /\ g[q].next = heap'[q].next
  <2>1. DOMAIN g = UsedIn(heap) \ {p} /\ \A q \in UsedIn(heap) \ {p} : g[q] = heap[q]
    OBVIOUS
  <2>2. \A q \in UsedIn(heap) : q # heap_end /\ heap[q].used
    BY DEF UsedIn
  <2> HIDE DEF g
  <2>3. UsedIn(g) = UsedIn(heap) \ {p}
    BY <2>1, <2>2 DEF UsedIn
  <2> QED BY <1>8, <2>1, <2>3
<1> HIDE DEF g
<1>10. InOrder(heap')
  BY <1>0, <1>7
<1>11. /\ Cardinality(CellsOf(heap)) \in Nat /\ Cardinality(CellsOf(g)) \in Nat
       /\ Cardinality(CellsOf(heap)) = Cardinality(CellsOf(g)) + (n - p)
  BY <1>1, <1>8, <1>9, CellsOfOneMore
<1>12. /\ Cardinality(CellsOf(heap')) \in Nat
       /\ Cardinality(CellsOf(heap')) = Cardinality(CellsOf(g)) + (heap'[p].next - p)
  <2>1. /\ p \in UsedIn(heap') /\ UsedIn(g) = UsedIn(heap') \ {p}
        /\ \A q \in UsedIn(g) : g[q].next = heap'[q].next
    BY <1>8, <1>9
  <2> QED BY <1>10, <2>1, CellsOfOneMore
<1>13. heap'[p].next = ptr2
  BY <1>8
<1> QED BY <1>00, <1>0, <1>2, <1>3, <1>11, <1>12, <1>13, <1>14 DEF UsedMemExact

\* Every step keeps the statistics exact.
LEMMA StatisticsStep == MemoryInv /\ MemoryInv' /\ UsedMemExact /\ [Next]_vars => UsedMemExact'
<1> SUFFICES ASSUME MemoryInv, MemoryInv', UsedMemExact, [Next]_vars PROVE UsedMemExact'
  OBVIOUS
<1>0. HeapInv /\ ManageInv /\ HeapInv'
  BY DEF MemoryInv
<1>1. ASSUME UNCHANGED heapState PROVE UsedMemExact'
  <2>1. heap' = heap /\ used_mem' = used_mem
    BY <1>1 DEF heapState
  <2>2. UsedCells' = UsedCells
    BY <2>1 DEF UsedCells
  <2> QED BY <2>1, <2>2 DEF UsedMemExact
<1>2. ASSUME NEW t \in Managers, Manage(t) PROVE UsedMemExact'
  <2>0. t \in Callers
    BY Roles
  <2>1. CASE Create(t) \/ CreateRoom(t)
    BY <1>1, <2>1 DEF Create, CreateRoom, MallocSearch
  <2>2. CASE LinkObject(t) \/ Delete(t) \/ DeleteWake(t) \/ UnlinkObject(t)
    BY <1>1, <2>2 DEF LinkObject, Delete, DeleteWake, UnlinkObject, heapVars
  <2>3. CASE CreateObject(t) \/ CreateDone(t)
    <3>1. MallocCommit(t)
      BY <2>3 DEF CreateObject, CreateDone
    <3> QED BY <1>0, <2>0, <3>1, CommitCounts
  <2>4. CASE DeleteRoom(t)
    <3>1. pc[t] = "wake" /\ FreeBlock(start_address)
      BY <2>4 DEF DeleteRoom, At
    <3>2. PoolMemory("wake")
      BY <1>0, <3>1, ManagerAlone
    <3>3. PICK p \in DOMAIN blocks : p = start_address
      BY <3>2 DEF PoolMemory, Roomy, OfPool
    <3> QED BY <1>0, <3>1, <3>3, FreeCounts
  <2>5. CASE FreeObject(t)
    <3>1. pc[t] = "release" /\ FreeBlock(object)
      BY <2>5 DEF FreeObject, At
    <3>2. PoolMemory("release")
      BY <1>0, <3>1, ManagerAlone
    <3>3. PICK p \in DOMAIN blocks : p = object
      BY <3>2 DEF PoolMemory, Made, OfPool
    <3> QED BY <1>0, <3>1, <3>3, FreeCounts
  <2> QED BY <1>2, <2>1, <2>2, <2>3, <2>4, <2>5 DEF Manage
<1>3. ASSUME NEW t \in HeapUsers, UseHeap(t) PROVE UsedMemExact'
  <2>0. t \in Callers /\ HeapNext(t)
    BY <1>3, Roles DEF UseHeap
  <2>1. CASE Malloc(t) \/ ReallocMalloc(t)
    BY <1>1, <2>1 DEF Malloc, ReallocMalloc, MallocSearch
  <2>2. CASE MallocCommit(t)
    BY <1>0, <2>0, <2>2, CommitCounts
  <2>3. CASE Realloc(t)
    <3>1. PICK p \in Held(t), newsize \in Sizes : ReallocShrink(p, newsize) \/ ReallocMove(t, p, newsize)
      BY <2>3 DEF Realloc
    <3>2. CASE ReallocShrink(p, newsize)
      <4>1. p \in DOMAIN blocks /\ newsize \in Nat
        BY HeapNumbers DEF Held
      <4> QED BY <1>0, <3>2, <4>1, ShrinkCounts
    <3>3. CASE ReallocMove(t, p, newsize)
      BY <1>1, <3>3 DEF ReallocMove
    <3> QED BY <3>1, <3>2, <3>3
  <2>4. CASE Free(t)
    <3>1. PICK p \in Held(t) : FreeBlock(p)
      BY <2>4 DEF Free
    <3>2. p \in DOMAIN blocks
      BY DEF Held
    <3> QED BY <1>0, <3>1, <3>2, FreeCounts
  <2>5. CASE ReallocFree(t)
    <3>1. call[t].at = "free" /\ FreeBlock(call[t].old)
      BY <2>5 DEF ReallocFree
    <3>2. call[t].old \in Held(t)
      BY <1>0, <2>0, <3>1 DEF HeapInv, CallsOk
    <3>3. PICK p \in DOMAIN blocks : p = call[t].old
      BY <3>2 DEF Held
    <3> QED BY <1>0, <3>1, <3>3, FreeCounts
  <2> QED BY <2>0, <2>1, <2>2, <2>3, <2>4, <2>5 DEF HeapNext
<1>4. ASSUME NEW t \in Users, UsePool(t) PROVE UsedMemExact'
  BY <1>1, <1>4 DEF UsePool, heapVars
<1>5. ASSUME UNCHANGED vars PROVE UsedMemExact'
  BY <1>1, <1>5 DEF vars, heapVars
<1> QED BY <1>2, <1>3, <1>4, <1>5 DEF Next

\* The headers tile the memory and used_mem is the number of words in use,
\* although rt_malloc charges a near fit by its whole size, rt_realloc by what
\* it cuts off and rt_free by what the header says (mem.c, RT_MEM_STATS).
THEOREM HeapAlwaysConsistent == Spec => []HeapConsistent
<1>1. Init => UsedMemExact
  <2> SUFFICES ASSUME Init PROVE UsedMemExact
    OBVIOUS
  <2>1. heap = [p \in {0, heap_end} |->
                    IF p = 0 THEN [used |-> FALSE, next |-> heap_end, prev |-> 0]
                    ELSE [used |-> TRUE, next |-> heap_end, prev |-> heap_end]]
        /\ used_mem = 0
    BY DEF Init, HeapInit
  <2>2. DOMAIN heap = {0, heap_end} /\ ~heap[0].used
    BY <2>1
  <2>3. UsedCells = {}
    BY <2>2 DEF UsedCells
  <2> QED BY <2>1, <2>3, FS_EmptySet DEF UsedMemExact
<1>2. MemoryInv /\ MemoryInv' /\ UsedMemExact /\ [Next]_vars => UsedMemExact'
  BY StatisticsStep
<1>3. Spec => []UsedMemExact
  BY <1>1, <1>2, MemoryInvariant, PTL DEF Spec
<1>4. HeapTiled /\ UsedMemExact => HeapConsistent
  BY DEF HeapConsistent
<1> QED BY <1>3, <1>4, HeapAlwaysTiled, PTL

-----------------------------------------------------------------------------
(* The pool. *)

\* The use of a pool under which a woken thread finds its block: whoever waits
\* is more urgent than every other thread that uses, creates or deletes the
\* pool, so that it takes the block before anybody else can.  There is then at
\* most one such thread: of two, the more urgent one could take the block that
\* the other was woken for.
WaiterFirst == \A w \in Waiters, t \in Users \cup Managers : t = w \/ Prio[w] < Prio[t]

\* Only waiters are inside rt_mp_alloc, and the suspended ones are linked once.
WaitersOk ==
    /\ stat \in [Threads -> {"READY", "SUSPEND"}]
    /\ error \in [Threads -> Errors]
    /\ \A t \in Threads : pc[t] = "woken" => t \in Waiters
    /\ suspend_thread \in Seq(Waiters) /\ LinkedOnce(suspend_thread)
    /\ \A t \in ToSet(suspend_thread) : stat[t] = "SUSPEND" /\ pc[t] = "woken"

\* A pool that is being deleted owes nobody a block, and one without room has
\* neither blocks nor waiters.
BlockListOk ==
    /\ block_list \in Seq(Blocks) /\ LinkedOnce(block_list)
    /\ held \in [Blocks -> Threads \cup {NoOwner}]
    /\ mp = Nowhere => Promised = {}
    /\ start_address = Nowhere => block_list = <<>> /\ suspend_thread = <<>>

\* The inductive invariant.
PoolInv == WaitersOk /\ BlockListOk /\ PoolConsistent /\ NoWaiterBesideFreeBlock

\* While a thread stands outside rt_mp_alloc and may run, no woken thread is on
\* its way.
LEMMA NobodyWoken ==
    ASSUME WaiterFirst, WaitersOk, NEW t \in Users \cup Managers, pc[t] = "run", Urgent(t)
    PROVE  /\ \A u \in Threads : ~At(u, "woken")
           /\ Promised = {}
<1>1. ASSUME NEW u \in Threads, At(u, "woken") PROVE FALSE
  <2>1. u \in Waiters /\ u # t
    BY <1>1 DEF WaitersOk, At
  <2>2. Prio[u] >= Prio[t]
    BY <1>1, <2>1 DEF Urgent
  <2>3. Prio[u] < Prio[t]
    BY <2>1 DEF WaiterFirst
  <2>4. Prio[u] \in Nat /\ Prio[t] \in Nat
    BY Roles, IpcAssumption
  <2> QED BY <2>2, <2>3, <2>4
<1> QED BY <1>1 DEF Promised

\* Steps that leave the pool and its threads alone.
LEMMA PoolKept ==
    ASSUME PoolInv, UNCHANGED <<stat, error, poolState>>,
           \A t \in Threads : pc'[t] = "woken" <=> pc[t] = "woken",
           start_address' = Nowhere <=> start_address = Nowhere,
           mp' = Nowhere => Promised = {}
    PROVE  PoolInv'
<1>1. /\ stat' = stat /\ error' = error /\ block_list' = block_list
      /\ block_free_count' = block_free_count /\ suspend_thread' = suspend_thread
      /\ suspend_thread_count' = suspend_thread_count /\ held' = held
  BY DEF poolState
<1>2. Promised' = Promised
  BY <1>1 DEF Promised, At
<1>3. ToSet(suspend_thread) \subseteq Threads
  <2>1. suspend_thread \in Seq(Threads)
    BY MemPoolAssumption, Roles DEF PoolInv, WaitersOk
  <2> QED BY <2>1 DEF ToSet
<1>4. WaitersOk'
  BY <1>1, <1>3 DEF PoolInv, WaitersOk
<1>5. BlockListOk'
  BY <1>1, <1>2 DEF PoolInv, BlockListOk
<1>6. PoolConsistent' /\ NoWaiterBesideFreeBlock'
  BY <1>1, <1>2 DEF PoolInv, PoolConsistent, NoWaiterBesideFreeBlock
<1> QED BY <1>4, <1>5, <1>6 DEF PoolInv

\* Where a manager goes is no place inside rt_mp_alloc.
LEMMA ManagerNotWoken ==
    ASSUME ManageInv, NEW t \in Managers, NEW place \in Places, Goto(t, place)
    PROVE  \A u \in Threads : pc'[u] = "woken" <=> pc[u] = "woken"
<1>1. pc = [u \in Threads |-> pc[u]] /\ pc[t] \in Places /\ t \in Threads
  BY Roles DEF ManageInv
<1>2. \A u \in Threads : pc'[u] = IF u = t THEN place ELSE pc[u]
  BY <1>1 DEF Goto
<1> QED BY <1>1, <1>2 DEF Places

\* The head of the list of suspended threads, and what is behind it.
LEMMA FirstWaiter ==
    ASSUME WaitersOk, suspend_thread # <<>>
    PROVE  /\ Head(suspend_thread) \in Waiters /\ Head(suspend_thread) \in Threads
           /\ Head(suspend_thread) \in ToSet(suspend_thread)
           /\ stat[Head(suspend_thread)] = "SUSPEND" /\ pc[Head(suspend_thread)] = "woken"
           /\ Tail(suspend_thread) \in Seq(Waiters) /\ LinkedOnce(Tail(suspend_thread))
           /\ ToSet(Tail(suspend_thread)) \subseteq ToSet(suspend_thread) \ {Head(suspend_thread)}
           /\ Len(Tail(suspend_thread)) = Len(suspend_thread) - 1
<1>1. suspend_thread \in Seq(Waiters) /\ LinkedOnce(suspend_thread)
  BY DEF WaitersOk
<1>2. /\ Head(suspend_thread) \in Waiters /\ Head(suspend_thread) \in ToSet(suspend_thread)
      /\ Tail(suspend_thread) \in Seq(Waiters) /\ LinkedOnce(Tail(suspend_thread))
      /\ ToSet(suspend_thread) = ToSet(Tail(suspend_thread)) \cup {Head(suspend_thread)}
      /\ Head(suspend_thread) \notin ToSet(Tail(suspend_thread))
  BY <1>1, TailMembers
<1>3. Len(Tail(suspend_thread)) = Len(suspend_thread) - 1
  BY <1>1
<1>4. Head(suspend_thread) \in Threads
  BY <1>2, Roles, MemPoolAssumption
<1>5. stat[Head(suspend_thread)] = "SUSPEND" /\ pc[Head(suspend_thread)] = "woken"
  BY <1>2 DEF WaitersOk
<1> QED BY <1>2, <1>3, <1>4, <1>5

\* The first free block is taken.
LEMMA PopKeeps ==
    ASSUME PoolInv, NEW t \in Threads, Pop(t), block_free_count # 0
    PROVE  /\ block_list' \in Seq(Blocks) /\ LinkedOnce(block_list')
           /\ held' \in [Blocks -> Threads \cup {NoOwner}]
           /\ block_free_count' = Len(block_list') /\ block_free_count \in Nat
           /\ block_free_count' = block_free_count - 1
           /\ start_address # Nowhere
           /\ ToSet(block_list') = {b \in Blocks : held'[b] = NoOwner}
<1>1. /\ block_list \in Seq(Blocks) /\ LinkedOnce(block_list) /\ block_free_count = Len(block_list)
      /\ held \in [Blocks -> Threads \cup {NoOwner}]
      /\ block_list' = Tail(block_list) /\ block_free_count' = block_free_count - 1
      /\ held' = [held EXCEPT ![Head(block_list)] = t]
  BY DEF PoolInv, BlockListOk, PoolConsistent, Pop
<1>2. block_list # <<>> /\ Len(block_list) \in Nat
  BY <1>1
<1>3. /\ start_address # Nowhere
      /\ ToSet(block_list) = {b \in Blocks : held[b] = NoOwner}
  BY <1>2 DEF PoolInv, BlockListOk, PoolConsistent
<1>4. /\ Head(block_list) \in Blocks /\ Tail(block_list) \in Seq(Blocks) /\ LinkedOnce(Tail(block_list))
      /\ ToSet(block_list) = ToSet(Tail(block_list)) \cup {Head(block_list)}
      /\ Head(block_list) \notin ToSet(Tail(block_list))
  BY <1>1, <1>2, TailMembers
<1>5. Len(Tail(block_list)) = Len(block_list) - 1
  BY <1>1, <1>2
<1>6. t # NoOwner
  BY MemPoolAssumption
<1>7. \A b \in Blocks : held'[b] = IF b = Head(block_list) THEN t ELSE held[b]
  BY <1>1, <1>4
<1>8. ToSet(block_list') = {b \in Blocks : held'[b] = NoOwner}
  BY <1>1, <1>3, <1>4, <1>6, <1>7
<1> QED BY <1>1, <1>2, <1>3, <1>4, <1>5, <1>8

\* rt_mp_alloc of a pool with a free block.
LEMMA AllocKeeps ==
    ASSUME WaiterFirst, PoolInv, NEW t \in Users, Alloc(t), UNCHANGED containerState
    PROVE  PoolInv'
<1>1. /\ pc[t] = "run" /\ Urgent(t) /\ block_free_count # 0 /\ Pop(t)
      /\ UNCHANGED ipcVars /\ suspend_thread' = suspend_thread
      /\ suspend_thread_count' = suspend_thread_count
  BY DEF Alloc, At
<1>2. stat' = stat /\ error' = error /\ pc' = pc
  BY <1>1 DEF ipcVars
<1>3. start_address' = start_address /\ mp' = mp
  BY DEF containerState
<1>4. Promised = {} /\ Promised' = {}
  <2>1. Promised = {}
    BY <1>1, NobodyWoken DEF PoolInv
  <2> QED BY <1>2, <2>1 DEF Promised, At
<1>5. /\ block_list' \in Seq(Blocks) /\ LinkedOnce(block_list')
      /\ held' \in [Blocks -> Threads \cup {NoOwner}]
      /\ block_free_count' = Len(block_list') /\ block_free_count \in Nat
      /\ block_free_count' = block_free_count - 1
      /\ start_address # Nowhere
      /\ ToSet(block_list') = {b \in Blocks : held'[b] = NoOwner}
  BY <1>1, Roles, PopKeeps
<1>6. WaitersOk'
  BY <1>1, <1>2 DEF PoolInv, WaitersOk
<1>7. BlockListOk'
  BY <1>3, <1>4, <1>5 DEF BlockListOk
<1>8. Cardinality(Promised') = 0 /\ Cardinality(Promised) = 0
  BY <1>4, FS_EmptySet
<1>9. block_free_count' \in Nat
  BY <1>1, <1>5
<1>10. PoolConsistent'
  <2>1. suspend_thread_count' = Len(suspend_thread')
    BY <1>1 DEF PoolInv, PoolConsistent
  <2>2. IsInjective(block_list')
    BY <1>5 DEF LinkedOnce, IsInjective
  <2> QED BY <1>5, <1>8, <1>9, <2>1, <2>2 DEF PoolConsistent
<1>11. NoWaiterBesideFreeBlock'
  BY <1>1, <1>5, <1>8 DEF PoolInv, NoWaiterBesideFreeBlock
<1> QED BY <1>6, <1>7, <1>10, <1>11 DEF PoolInv

\* rt_mp_alloc of an empty pool.
LEMMA AllocSuspendKeeps ==
    ASSUME WaiterFirst, PoolInv, ManageInv, NEW t \in Users, AllocSuspend(t),
           UNCHANGED containerState, mp # Nowhere, start_address # Nowhere
    PROVE  PoolInv'
<1>1. /\ pc[t] = "run" /\ stat[t] = "READY" /\ t \in Waiters /\ Urgent(t) /\ block_free_count = 0
      /\ stat' = [stat EXCEPT ![t] = "SUSPEND"] /\ error' = error
      /\ suspend_thread' = rt_list_insert_after(suspend_thread, t)
      /\ suspend_thread_count' = suspend_thread_count + 1
      /\ pc' = [pc EXCEPT ![t] = "woken"]
      /\ block_list' = block_list /\ block_free_count' = block_free_count /\ held' = held
  BY DEF AllocSuspend, At, Goto
<1>2. start_address' = start_address /\ mp' = mp
  BY DEF containerState
<1>3. /\ stat \in [Threads -> {"READY", "SUSPEND"}] /\ pc = [u \in Threads |-> pc[u]] /\ t \in Threads
      /\ suspend_thread \in Seq(Waiters) /\ LinkedOnce(suspend_thread)
      /\ \A u \in ToSet(suspend_thread) : stat[u] = "SUSPEND" /\ pc[u] = "woken"
  BY Roles DEF PoolInv, WaitersOk, ManageInv
<1>4. \A u \in Threads : /\ stat'[u] = IF u = t THEN "SUSPEND" ELSE stat[u]
                         /\ pc'[u] = IF u = t THEN "woken" ELSE pc[u]
  BY <1>1, <1>3
<1>5. Promised = {} /\ Promised' = {}
  <2>1. \A u \in Threads : ~At(u, "woken")
    BY <1>1, NobodyWoken DEF PoolInv
  <2>2. \A u \in Threads : ~(stat'[u] = "READY" /\ pc'[u] = "woken")
    BY <1>4, <2>1 DEF At
  <2> QED BY <2>1, <2>2 DEF Promised, At
<1>6. /\ suspend_thread' \in Seq(Waiters) /\ LinkedOnce(suspend_thread')
      /\ ToSet(suspend_thread') = ToSet(suspend_thread) \cup {t}
  <2>1. t \notin ToSet(suspend_thread)
    BY <1>1, <1>3
  <2> QED BY <1>1, <1>3, <2>1, PushMembers, PushLinkedOnce
<1>7. Len(suspend_thread') = Len(suspend_thread) + 1
  BY <1>1, <1>3 DEF rt_list_insert_after
<1>8. WaitersOk'
  <2>1. stat' \in [Threads -> {"READY", "SUSPEND"}]
    BY <1>1, <1>3
  <2>2. \A u \in Threads : pc'[u] = "woken" => u \in Waiters
    BY <1>1, <1>4 DEF PoolInv, WaitersOk
  <2>3. ToSet(suspend_thread) \subseteq Threads
    <3>1. ToSet(suspend_thread) \subseteq Waiters
      BY <1>3 DEF ToSet
    <3> QED BY <3>1, MemPoolAssumption
  <2>4. \A u \in ToSet(suspend_thread') : stat'[u] = "SUSPEND" /\ pc'[u] = "woken"
    BY <1>3, <1>4, <1>6, <2>3
  <2> QED BY <1>1, <1>6, <2>1, <2>2, <2>4 DEF PoolInv, WaitersOk
<1>9. BlockListOk'
  BY <1>1, <1>2, <1>5 DEF PoolInv, BlockListOk
<1>10. Cardinality(Promised') = 0
  BY <1>5, FS_EmptySet
<1>11. PoolConsistent'
  <2>1. suspend_thread_count' = Len(suspend_thread')
    BY <1>1, <1>7 DEF PoolInv, PoolConsistent
  <2>2. /\ block_free_count = Len(block_list) /\ IsInjective(block_list)
        /\ ToSet(block_list) = {b \in Blocks : held[b] = NoOwner}
    BY DEF PoolInv, PoolConsistent
  <2>3. Cardinality(Promised') <= block_free_count'
    BY <1>1, <1>10
  <2> QED BY <1>1, <2>1, <2>2, <2>3 DEF PoolConsistent
<1>12. NoWaiterBesideFreeBlock'
  BY <1>1, <1>10 DEF NoWaiterBesideFreeBlock
<1> QED BY <1>8, <1>9, <1>11, <1>12 DEF PoolInv

\* A woken thread takes the block it was woken for, or leaves with an error.
LEMMA AllocWokenKeeps ==
    ASSUME WaiterFirst, PoolInv, ManageInv, NEW t \in Users, AllocWoken(t), UNCHANGED containerState
    PROVE  PoolInv'
<1>1. /\ pc[t] = "woken" /\ stat[t] = "READY" /\ pc' = [pc EXCEPT ![t] = "run"]
      /\ stat' = stat /\ error' = error /\ suspend_thread' = suspend_thread
      /\ suspend_thread_count' = suspend_thread_count
      /\ error[t] = "EOK" => Pop(t)
      /\ error[t] # "EOK" => block_list' = block_list /\ block_free_count' = block_free_count /\ held' = held
  BY DEF AllocWoken, At, Goto
<1>2. start_address' = start_address /\ mp' = mp
  BY DEF containerState
<1>3. /\ pc = [u \in Threads |-> pc[u]] /\ t \in Threads
      /\ suspend_thread \in Seq(Waiters)
      /\ \A u \in ToSet(suspend_thread) : stat[u] = "SUSPEND" /\ pc[u] = "woken"
      /\ \A u \in Threads : pc[u] = "woken" => u \in Waiters
  BY Roles DEF PoolInv, WaitersOk, ManageInv
<1>4. \A u \in Threads : pc'[u] = IF u = t THEN "run" ELSE pc[u]
  BY <1>1, <1>3
\* It is the only waiter.
<1>5. \A u \in Threads : pc[u] = "woken" => u = t
  <2> SUFFICES ASSUME NEW u \in Threads, pc[u] = "woken", u # t PROVE FALSE
    OBVIOUS
  <2>1. u \in Waiters /\ t \in Waiters /\ u \in Users
    BY <1>1, <1>3, MemPoolAssumption
  <2>2. Prio[u] < Prio[t] /\ Prio[t] < Prio[u]
    BY <2>1 DEF WaiterFirst
  <2> QED BY <1>3, <2>2, IpcAssumption
<1>6. suspend_thread = <<>>
  <2> SUFFICES ASSUME suspend_thread # <<>> PROVE FALSE
    OBVIOUS
  <2>1. Head(suspend_thread) \in Threads /\ stat[Head(suspend_thread)] = "SUSPEND" /\ pc[Head(suspend_thread)] = "woken"
    BY FirstWaiter DEF PoolInv
  <2> QED BY <1>1, <1>5, <2>1
<1>7. Promised' = {} /\ Promised = IF error[t] = "EOK" THEN {t} ELSE {}
  BY <1>1, <1>3, <1>4, <1>5 DEF Promised, At
<1>8. WaitersOk'
  <2>1. \A u \in Threads : pc'[u] = "woken" => u \in Waiters
    BY <1>3, <1>4
  <2>2. ToSet(suspend_thread) = {}
    BY <1>6 DEF ToSet
  <2> QED BY <1>1, <2>1, <2>2 DEF PoolInv, WaitersOk
<1>9. Cardinality(Promised') = 0
  BY <1>7, FS_EmptySet
<1>10. suspend_thread_count' = Len(suspend_thread')
  BY <1>1 DEF PoolInv, PoolConsistent
<1>11. CASE error[t] = "EOK"
  <2>1. block_free_count # 0
    <3>1. Cardinality(Promised) = 1
      BY <1>7, <1>11, FS_Singleton
    <3> QED BY <3>1 DEF PoolInv, PoolConsistent
  <2>2. /\ block_list' \in Seq(Blocks) /\ LinkedOnce(block_list')
        /\ held' \in [Blocks -> Threads \cup {NoOwner}]
        /\ block_free_count' = Len(block_list') /\ block_free_count \in Nat
        /\ block_free_count' = block_free_count - 1
        /\ start_address # Nowhere
        /\ ToSet(block_list') = {b \in Blocks : held'[b] = NoOwner}
    BY <1>1, <1>3, <1>11, <2>1, PopKeeps
  <2>3. BlockListOk'
    BY <1>2, <1>7, <2>2 DEF BlockListOk
  <2>4. PoolConsistent'
    <3>1. IsInjective(block_list')
      BY <2>2 DEF LinkedOnce, IsInjective
    <3>2. 0 <= block_free_count'
      BY <2>1, <2>2
    <3> QED BY <1>9, <1>10, <2>2, <3>1, <3>2 DEF PoolConsistent
  <2> QED BY <1>1, <1>6, <1>8, <2>3, <2>4 DEF PoolInv, NoWaiterBesideFreeBlock
<1>12. CASE error[t] # "EOK"
  <2>1. BlockListOk'
    BY <1>1, <1>2, <1>7, <1>12 DEF PoolInv, BlockListOk
  <2>2. block_free_count \in Nat
    BY DEF PoolInv, PoolConsistent, BlockListOk
  <2>3. PoolConsistent'
    BY <1>1, <1>2, <1>9, <1>10, <1>12, <2>2 DEF PoolInv, PoolConsistent
  <2> QED BY <1>1, <1>6, <1>8, <2>1, <2>3 DEF PoolInv, NoWaiterBesideFreeBlock
<1> QED BY <1>11, <1>12

\* rt_mp_free hands the block to the thread it wakes.
LEMMA FreeToPoolKeeps ==
    ASSUME WaiterFirst, PoolInv, ManageInv, NEW t \in Users, NEW b \in Blocks, FreeToPool(t, b),
           UNCHANGED containerState, mp # Nowhere, start_address # Nowhere
    PROVE  PoolInv'
<1>1. /\ pc[t] = "run" /\ held[b] = t /\ Urgent(t)
      /\ block_free_count' = block_free_count + 1
      /\ block_list' = <<b>> \o block_list
      /\ held' = [held EXCEPT ![b] = NoOwner]
      /\ pc' = pc
      /\ suspend_thread_count > 0 => WakeOne
      /\ ~(suspend_thread_count > 0) =>
            /\ stat' = stat /\ error' = error
            /\ suspend_thread' = suspend_thread /\ suspend_thread_count' = suspend_thread_count
  BY DEF FreeToPool, At
<1>2. start_address' = start_address /\ mp' = mp
  BY DEF containerState
<1>3. \A u \in Threads : ~At(u, "woken")
  BY <1>1, NobodyWoken DEF PoolInv
<1>4. Promised = {} /\ Cardinality(Promised) = 0
  BY <1>3, FS_EmptySet DEF Promised
<1>5. /\ block_list \in Seq(Blocks) /\ LinkedOnce(block_list) /\ block_free_count = Len(block_list)
      /\ held \in [Blocks -> Threads \cup {NoOwner}]
      /\ ToSet(block_list) = {c \in Blocks : held[c] = NoOwner}
      /\ suspend_thread \in Seq(Waiters) /\ suspend_thread_count = Len(suspend_thread)
      /\ stat \in [Threads -> {"READY", "SUSPEND"}] /\ error \in [Threads -> Errors]
  BY DEF PoolInv, WaitersOk, BlockListOk, PoolConsistent
<1>6. t # NoOwner
  BY Roles, MemPoolAssumption
<1>7. /\ block_list' \in Seq(Blocks) /\ LinkedOnce(block_list')
      /\ ToSet(block_list') = ToSet(block_list) \cup {b}
  <2>1. block_list' = rt_list_insert_after(block_list, b)
    BY <1>1 DEF rt_list_insert_after
  <2>2. b \notin ToSet(block_list)
    BY <1>1, <1>5, <1>6
  <2> QED BY <1>5, <2>1, <2>2, PushMembers, PushLinkedOnce
<1>8. Len(block_list') = Len(block_list) + 1
  BY <1>1, <1>5
<1>9. /\ held' \in [Blocks -> Threads \cup {NoOwner}]
      /\ ToSet(block_list') = {c \in Blocks : held'[c] = NoOwner}
  BY <1>1, <1>5, <1>7
<1>10. IsInjective(block_list') /\ block_free_count' = Len(block_list') /\ block_free_count \in Nat
  <2>1. IsInjective(block_list')
    BY <1>7 DEF LinkedOnce, IsInjective
  <2> QED BY <1>1, <1>5, <1>8, <2>1
<1>11. CASE ~(suspend_thread_count > 0)
  <2>1. suspend_thread = <<>>
    BY <1>5, <1>11
  <2>2. Promised' = {} /\ Cardinality(Promised') = 0
    <3>1. Promised' = Promised
      BY <1>1, <1>11 DEF Promised, At
    <3> QED BY <1>4, <3>1
  <2>3. WaitersOk'
    BY <1>1, <1>11 DEF PoolInv, WaitersOk
  <2>4. BlockListOk'
    BY <1>2, <1>7, <1>9, <2>2 DEF BlockListOk
  <2>5. PoolConsistent'
    <3>1. suspend_thread_count' = Len(suspend_thread')
      BY <1>1, <1>5, <1>11
    <3>2. Cardinality(Promised') <= block_free_count'
      BY <1>1, <1>10, <2>2
    <3> QED BY <1>9, <1>10, <3>1, <3>2 DEF PoolConsistent
  <2> QED BY <1>1, <1>11, <2>1, <2>3, <2>4, <2>5 DEF PoolInv, NoWaiterBesideFreeBlock
<1>12. CASE suspend_thread_count > 0
  <2> DEFINE w == Head(suspend_thread)
  <2>1. /\ stat' = [stat EXCEPT ![w] = "READY"] /\ error' = [error EXCEPT ![w] = "EOK"]
        /\ suspend_thread' = Tail(suspend_thread) /\ suspend_thread_count' = suspend_thread_count - 1
    BY <1>1, <1>12 DEF WakeOne
  <2>2. suspend_thread # <<>>
    BY <1>5, <1>12
  <2>3. /\ w \in Waiters /\ w \in Threads /\ pc[w] = "woken"
        /\ Tail(suspend_thread) \in Seq(Waiters) /\ LinkedOnce(Tail(suspend_thread))
        /\ ToSet(Tail(suspend_thread)) \subseteq ToSet(suspend_thread) \ {w}
        /\ Len(Tail(suspend_thread)) = Len(suspend_thread) - 1
    BY <2>2, FirstWaiter DEF PoolInv
  <2> HIDE DEF w
  <2>4. \A u \in Threads : /\ stat'[u] = IF u = w THEN "READY" ELSE stat[u]
                           /\ error'[u] = IF u = w THEN "EOK" ELSE error[u]
    BY <1>5, <2>1, <2>3
  <2>5. Promised' = {w} /\ Cardinality(Promised') = 1
    <3>1. Promised' = {w}
      BY <1>1, <1>3, <2>3, <2>4 DEF Promised, At
    <3> QED BY <3>1, FS_Singleton
  <2>6. block_free_count = 0
    BY <1>4, <1>10, <2>2 DEF PoolInv, NoWaiterBesideFreeBlock
  <2>7. WaitersOk'
    <3>1. stat' \in [Threads -> {"READY", "SUSPEND"}] /\ error' \in [Threads -> Errors]
      BY <1>5, <2>1, <2>3 DEF Errors
    <3>2. \A u \in Threads : pc'[u] = "woken" => u \in Waiters
      BY <1>1 DEF PoolInv, WaitersOk
    <3>3. ToSet(suspend_thread) \subseteq Threads
      <4>1. ToSet(suspend_thread) \subseteq Waiters
        BY <1>5 DEF ToSet
      <4> QED BY <4>1, MemPoolAssumption
    <3>4. \A u \in ToSet(suspend_thread') : stat'[u] = "SUSPEND" /\ pc'[u] = "woken"
      BY <1>1, <2>1, <2>3, <2>4, <3>3 DEF PoolInv, WaitersOk
    <3> QED BY <2>1, <2>3, <3>1, <3>2, <3>4 DEF WaitersOk
  <2>8. BlockListOk'
    BY <1>2, <1>7, <1>9 DEF BlockListOk
  <2>9. PoolConsistent'
    <3>1. suspend_thread_count' = Len(suspend_thread')
      BY <1>5, <2>1, <2>3
    <3>2. Cardinality(Promised') <= block_free_count'
      BY <1>1, <2>5, <2>6
    <3> QED BY <1>9, <1>10, <3>1, <3>2 DEF PoolConsistent
  <2>10. NoWaiterBesideFreeBlock'
    BY <1>1, <2>5, <2>6 DEF NoWaiterBesideFreeBlock
  <2> QED BY <2>7, <2>8, <2>9, <2>10 DEF PoolInv
<1> QED BY <1>11, <1>12

\* rt_mp_delete wakes a waiter with an error.
LEMMA DeleteWakeKeeps ==
    ASSUME PoolInv, mp = Nowhere, NEW t \in Managers, DeleteWake(t)
    PROVE  PoolInv'
<1> DEFINE w == Head(suspend_thread)
<1>1. /\ suspend_thread # <<>>
      /\ stat' = [stat EXCEPT ![w] = "READY"] /\ error' = [error EXCEPT ![w] = "ERROR"]
      /\ suspend_thread' = Tail(suspend_thread) /\ suspend_thread_count' = suspend_thread_count - 1
      /\ block_list' = block_list /\ block_free_count' = block_free_count /\ held' = held
      /\ pc' = pc /\ start_address' = start_address /\ mp' = mp
  BY DEF DeleteWake, WakeWithError, rt_list_isempty, containerState
<1>2. /\ w \in Waiters /\ w \in Threads /\ pc[w] = "woken"
      /\ Tail(suspend_thread) \in Seq(Waiters) /\ LinkedOnce(Tail(suspend_thread))
      /\ ToSet(Tail(suspend_thread)) \subseteq ToSet(suspend_thread) \ {w}
      /\ Len(Tail(suspend_thread)) = Len(suspend_thread) - 1
  BY <1>1, FirstWaiter DEF PoolInv
<1> HIDE DEF w
<1>3. /\ stat \in [Threads -> {"READY", "SUSPEND"}] /\ error \in [Threads -> Errors]
      /\ suspend_thread \in Seq(Waiters) /\ suspend_thread_count = Len(suspend_thread)
      /\ \A u \in ToSet(suspend_thread) : stat[u] = "SUSPEND" /\ pc[u] = "woken"
  BY DEF PoolInv, WaitersOk, PoolConsistent
<1>4. \A u \in Threads : /\ stat'[u] = IF u = w THEN "READY" ELSE stat[u]
                         /\ error'[u] = IF u = w THEN "ERROR" ELSE error[u]
  BY <1>1, <1>2, <1>3
<1>5. Promised = {} /\ Promised' = {}
  <2>1. Promised = {}
    BY DEF PoolInv, BlockListOk
  <2> QED BY <1>1, <1>4, <2>1 DEF Promised, At
<1>6. WaitersOk'
  <2>1. stat' \in [Threads -> {"READY", "SUSPEND"}] /\ error' \in [Threads -> Errors]
    BY <1>1, <1>2, <1>3 DEF Errors
  <2>2. ToSet(suspend_thread) \subseteq Threads
    <3>1. ToSet(suspend_thread) \subseteq Waiters
      BY <1>3 DEF ToSet
    <3> QED BY <3>1, MemPoolAssumption
  <2>3. \A u \in ToSet(suspend_thread') : stat'[u] = "SUSPEND" /\ pc'[u] = "woken"
    BY <1>1, <1>2, <1>3, <1>4, <2>2
  <2> QED BY <1>1, <1>2, <2>1, <2>3 DEF PoolInv, WaitersOk
<1>7. BlockListOk'
  <2>1. start_address # Nowhere
    BY <1>1 DEF PoolInv, BlockListOk
  <2> QED BY <1>1, <1>5, <2>1 DEF PoolInv, BlockListOk
<1>8. PoolConsistent' /\ NoWaiterBesideFreeBlock'
  <2>1. suspend_thread_count' = Len(suspend_thread')
    BY <1>1, <1>2, <1>3
  <2>2. Cardinality(Promised') = Cardinality(Promised)
    BY <1>5
  <2> QED BY <1>1, <2>1, <2>2 DEF PoolInv, PoolConsistent, NoWaiterBesideFreeBlock
<1> QED BY <1>6, <1>7, <1>8 DEF PoolInv

\* rt_mp_create fills the list with all the blocks.
LEMMA ResetKeeps ==
    ASSUME PoolInv, ManageInv, mp = Nowhere, start_address = Nowhere, NEW t \in Managers,
           PoolReset, Goto(t, "run"), UNCHANGED <<stat, error>>, start_address' # Nowhere
    PROVE  PoolInv'
<1>1. /\ block_list' = [i \in Blocks |-> i] /\ block_free_count' = BlockCount
      /\ suspend_thread' = <<>> /\ suspend_thread_count' = 0
      /\ held' = [b \in Blocks |-> NoOwner] /\ stat' = stat /\ error' = error
  BY DEF PoolReset
<1>2. \A u \in Threads : pc'[u] = "woken" <=> pc[u] = "woken"
  BY ManagerNotWoken DEF Places
<1>3. Promised' = {} /\ Cardinality(Promised') = 0
  <2>1. Promised = {}
    BY DEF PoolInv, BlockListOk
  <2>2. Promised' = Promised
    BY <1>1, <1>2 DEF Promised, At
  <2> QED BY <2>1, <2>2, FS_EmptySet
<1>4. BlockCount \in Nat
  BY MemPoolAssumption
<1>5. /\ block_list' \in Seq(Blocks) /\ Len(block_list') = BlockCount
      /\ \A i \in Blocks : block_list'[i] = i
  BY <1>1, <1>4 DEF Blocks
<1>6. /\ LinkedOnce(block_list') /\ IsInjective(block_list') /\ ToSet(block_list') = Blocks
  <2>1. DOMAIN block_list' = Blocks
    BY <1>1
  <2> QED BY <1>4, <1>5, <2>1 DEF LinkedOnce, IsInjective, ToSet, Blocks
<1>7. WaitersOk'
  <2>1. ToSet(suspend_thread') = {} /\ suspend_thread' \in Seq(Waiters) /\ LinkedOnce(suspend_thread')
    BY <1>1 DEF ToSet, LinkedOnce
  <2> QED BY <1>1, <1>2, <2>1 DEF PoolInv, WaitersOk
<1>8. BlockListOk'
  <2>1. held' \in [Blocks -> Threads \cup {NoOwner}]
    BY <1>1
  <2>2. start_address' = Nowhere => block_list' = <<>> /\ suspend_thread' = <<>>
    OBVIOUS
  <2> QED BY <1>3, <1>5, <1>6, <2>1, <2>2 DEF BlockListOk
<1>9. PoolConsistent'
  <2>1. ToSet(block_list') = {b \in Blocks : held'[b] = NoOwner}
    BY <1>1, <1>6
  <2>2. suspend_thread_count' = Len(suspend_thread') /\ 0 <= block_free_count'
    BY <1>1, <1>4
  <2> QED BY <1>1, <1>3, <1>5, <1>6, <2>1, <2>2 DEF PoolConsistent
<1>10. NoWaiterBesideFreeBlock'
  BY <1>1 DEF NoWaiterBesideFreeBlock
<1> QED BY <1>7, <1>8, <1>9, <1>10 DEF PoolInv

\* rt_mp_delete gives the room back, when the last waiter is woken.
LEMMA DeleteRoomKeeps ==
    ASSUME PoolInv, ManageInv, mp = Nowhere, NEW t \in Managers, DeleteRoom(t)
    PROVE  PoolInv'
<1>1. /\ suspend_thread = <<>> /\ suspend_thread' = <<>> /\ suspend_thread_count' = suspend_thread_count
      /\ block_list' = <<>> /\ block_free_count' = 0 /\ held' = [b \in Blocks |-> NoOwner]
      /\ stat' = stat /\ error' = error /\ start_address' = Nowhere /\ Goto(t, "unlink")
  BY DEF DeleteRoom, rt_list_isempty
<1>2. \A u \in Threads : pc'[u] = "woken" <=> pc[u] = "woken"
  BY <1>1, ManagerNotWoken DEF Places
<1>3. Promised' = {} /\ Cardinality(Promised') = 0
  <2>1. Promised = {}
    BY DEF PoolInv, BlockListOk
  <2>2. Promised' = Promised
    BY <1>1, <1>2 DEF Promised, At
  <2> QED BY <2>1, <2>2, FS_EmptySet
<1>4. WaitersOk'
  <2>1. ToSet(suspend_thread') = {} /\ suspend_thread' \in Seq(Waiters) /\ LinkedOnce(suspend_thread')
    BY <1>1 DEF ToSet, LinkedOnce
  <2> QED BY <1>1, <1>2, <2>1 DEF PoolInv, WaitersOk
<1>5. BlockListOk'
  <2>1. held' \in [Blocks -> Threads \cup {NoOwner}]
    BY <1>1
  <2>2. block_list' \in Seq(Blocks) /\ LinkedOnce(block_list')
    BY <1>1 DEF LinkedOnce
  <2> QED BY <1>1, <1>3, <2>1, <2>2 DEF BlockListOk
<1>6. PoolConsistent' /\ NoWaiterBesideFreeBlock'
  <2>1. suspend_thread_count' = Len(suspend_thread')
    BY <1>1 DEF PoolInv, PoolConsistent
  <2> QED BY <1>1, <1>3, <2>1 DEF PoolConsistent, NoWaiterBesideFreeBlock
<1> QED BY <1>4, <1>5, <1>6 DEF PoolInv

\* Every step of rt_mp_create and rt_mp_delete.
LEMMA ManagePoolKeeps ==
    ASSUME WaiterFirst, MemoryInv, PoolInv, NEW t \in Managers, Manage(t)
    PROVE  PoolInv'
<1>0. ManageInv /\ (mp = Nowhere => Promised = {})
  BY DEF MemoryInv, PoolInv, BlockListOk
\* Steps that only move the manager on.
<1>00. ASSUME NEW place \in Places, Goto(t, place), UNCHANGED <<stat, error, poolState>>,
              start_address' = start_address, mp' = mp
       PROVE  PoolInv'
  <2>1. \A u \in Threads : pc'[u] = "woken" <=> pc[u] = "woken"
    BY <1>0, <1>00, ManagerNotWoken
  <2> QED BY <1>0, <1>00, <2>1, PoolKept
<1>1. CASE Create(t)
  <2>1. /\ Goto(t, "object") /\ UNCHANGED <<stat, error, poolState>>
        /\ start_address' = start_address /\ mp' = mp
    BY <1>1 DEF Create, containerState
  <2> QED BY <1>00, <2>1 DEF Places
<1>2. CASE CreateObject(t)
  <2>1. /\ Goto(t, IF call[t].mem = Nowhere THEN "run" ELSE "link") /\ UNCHANGED <<stat, error, poolState>>
        /\ start_address' = start_address /\ mp' = mp
    BY <1>2 DEF CreateObject
  <2>2. (IF call[t].mem = Nowhere THEN "run" ELSE "link") \in Places
    BY DEF Places
  <2> QED BY <1>00, <2>1, <2>2
<1>3. CASE LinkObject(t)
  <2>1. /\ Goto(t, "room") /\ UNCHANGED <<stat, error, poolState>>
        /\ start_address' = start_address /\ mp' = mp
    BY <1>3 DEF LinkObject
  <2> QED BY <1>00, <2>1 DEF Places
<1>4. CASE CreateRoom(t)
  <2>1. /\ Goto(t, "fill") /\ UNCHANGED <<stat, error, poolState>>
        /\ start_address' = start_address /\ mp' = mp
    BY <1>4 DEF CreateRoom, containerState
  <2> QED BY <1>00, <2>1 DEF Places
<1>5. CASE CreateDone(t)
  <2>1. /\ pc[t] = "fill" /\ start_address' = call[t].mem /\ UNCHANGED <<stat, error>>
        /\ call[t].mem = Nowhere => Goto(t, "unlink") /\ UNCHANGED poolState /\ mp' = mp
        /\ call[t].mem # Nowhere => Goto(t, "run") /\ PoolReset
    BY <1>5 DEF CreateDone, At, AfterRoom
  <2>2. PoolMemory("fill")
    BY <1>0, <2>1, ManagerAlone
  <2>3. mp = Nowhere /\ start_address = Nowhere
    BY <2>2 DEF PoolMemory, Roomy
  <2>4. CASE call[t].mem = Nowhere
    BY <1>00, <2>1, <2>3, <2>4 DEF Places
  <2>5. CASE call[t].mem # Nowhere
    BY <1>0, <2>1, <2>3, <2>5, ResetKeeps
  <2> QED BY <2>4, <2>5
<1>6. CASE Delete(t)
  <2>1. /\ pc[t] = "run" /\ Urgent(t) /\ Goto(t, "wake") /\ UNCHANGED <<stat, error, poolState>>
        /\ start_address' = start_address
    BY <1>6 DEF Delete, At
  <2>2. Promised = {}
    BY <2>1, NobodyWoken DEF PoolInv
  <2>3. \A u \in Threads : pc'[u] = "woken" <=> pc[u] = "woken"
    BY <1>0, <2>1, ManagerNotWoken DEF Places
  <2> QED BY <2>1, <2>2, <2>3, PoolKept
<1>7. CASE DeleteWake(t)
  <2>1. pc[t] = "wake"
    BY <1>7 DEF DeleteWake, At
  <2>2. mp = Nowhere
    BY <1>0, <2>1, ManagerAlone DEF PoolMemory
  <2> QED BY <1>7, <2>2, DeleteWakeKeeps
<1>8. CASE DeleteRoom(t)
  <2>1. pc[t] = "wake"
    BY <1>8 DEF DeleteRoom, At
  <2>2. mp = Nowhere
    BY <1>0, <2>1, ManagerAlone DEF PoolMemory
  <2> QED BY <1>0, <1>8, <2>2, DeleteRoomKeeps
<1>9. CASE UnlinkObject(t)
  <2>1. /\ Goto(t, "release") /\ UNCHANGED <<stat, error, poolState>>
        /\ start_address' = start_address /\ mp' = mp
    BY <1>9 DEF UnlinkObject
  <2> QED BY <1>00, <2>1 DEF Places
<1>10. CASE FreeObject(t)
  <2>1. /\ Goto(t, "run") /\ UNCHANGED <<stat, error, poolState>>
        /\ start_address' = start_address /\ mp' = mp
    BY <1>10 DEF FreeObject
  <2> QED BY <1>00, <2>1 DEF Places
<1> QED BY <1>1, <1>2, <1>3, <1>4, <1>5, <1>6, <1>7, <1>8, <1>9, <1>10 DEF Manage

\* A pool the users know has its room.
LEMMA KnownPoolHasRoom ==
    ASSUME ManageInv, mp # Nowhere PROVE start_address # Nowhere
<1>1. \A t \in Managers : pc[t] = "run"
  BY DEF ManageInv, PoolMemory
<1> QED BY <1>1 DEF ManageInv, PoolMemory, Roomy

\* Every step keeps the pool in order.
LEMMA PoolStep == WaiterFirst /\ MemoryInv /\ PoolInv /\ [Next]_vars => PoolInv'
<1> SUFFICES ASSUME WaiterFirst, MemoryInv, PoolInv, [Next]_vars PROVE PoolInv'
  OBVIOUS
<1>0. ManageInv /\ (mp = Nowhere => Promised = {})
  BY DEF MemoryInv, PoolInv, BlockListOk
<1>1. ASSUME UNCHANGED <<ipcVars, poolState, containerState>> PROVE PoolInv'
  <2>1. stat' = stat /\ error' = error /\ pc' = pc /\ start_address' = start_address /\ mp' = mp
    BY <1>1 DEF ipcVars, containerState
  <2> QED BY <1>0, <1>1, <2>1, PoolKept
<1>2. ASSUME NEW t \in Managers, Manage(t) PROVE PoolInv'
  BY <1>2, ManagePoolKeeps
<1>3. ASSUME NEW t \in HeapUsers, UseHeap(t) PROVE PoolInv'
  BY <1>1, <1>3 DEF UseHeap
<1>4. ASSUME NEW t \in Users, UsePool(t) PROVE PoolInv'
  <2>1. (mp # Nowhere \/ pc[t] = "woken") /\ PoolUse(t) /\ UNCHANGED containerState
    BY <1>4 DEF UsePool
  <2>2. pc[t] = "run" => mp # Nowhere /\ start_address # Nowhere
    BY <1>0, <2>1, KnownPoolHasRoom
  <2>3. CASE Alloc(t)
    BY <2>1, <2>3, AllocKeeps
  <2>4. CASE AllocSuspend(t)
    <3>1. pc[t] = "run"
      BY <2>4 DEF AllocSuspend, At
    <3> QED BY <1>0, <2>1, <2>2, <2>4, <3>1, AllocSuspendKeeps
  <2>5. CASE AllocWoken(t)
    BY <1>0, <2>1, <2>5, AllocWokenKeeps
  <2>6. ASSUME NEW b \in Blocks, FreeToPool(t, b) PROVE PoolInv'
    <3>1. pc[t] = "run"
      BY <2>6 DEF FreeToPool, At
    <3> QED BY <1>0, <2>1, <2>2, <2>6, <3>1, FreeToPoolKeeps
  <2> QED BY <2>1, <2>3, <2>4, <2>5, <2>6 DEF PoolUse
<1>5. ASSUME UNCHANGED vars PROVE PoolInv'
  BY <1>1, <1>5 DEF vars
<1> QED BY <1>2, <1>3, <1>4, <1>5 DEF Next

\* Before the first pool.
LEMMA PoolInitial == Init => PoolInv
<1> SUFFICES ASSUME Init PROVE PoolInv
  OBVIOUS
<1>1. /\ block_list = <<>> /\ block_free_count = 0 /\ suspend_thread = <<>> /\ suspend_thread_count = 0
      /\ held = [b \in Blocks |-> NoOwner] /\ start_address = Nowhere
      /\ stat = [t \in Threads |-> "READY"] /\ error = [t \in Threads |-> "EOK"]
      /\ pc = [t \in Threads |-> "run"]
  BY DEF Init, NoPool, IpcInit
<1>2. Promised = {} /\ Cardinality(Promised) = 0
  <2>1. Promised = {}
    BY <1>1 DEF Promised, At
  <2> QED BY <2>1, FS_EmptySet
<1>3. WaitersOk
  BY <1>1 DEF WaitersOk, ToSet, LinkedOnce, Errors
<1>4. BlockListOk
  BY <1>1, <1>2 DEF BlockListOk, LinkedOnce
<1>5. PoolConsistent /\ NoWaiterBesideFreeBlock
  BY <1>1, <1>2 DEF PoolConsistent, NoWaiterBesideFreeBlock
<1> QED BY <1>3, <1>4, <1>5 DEF PoolInv

\* With one waiter, more urgent than the other threads of the pool, the pool's
\* invariant holds in every reachable state.
LEMMA PoolInvariant == WaiterFirst => (Spec => []PoolInv)
<1> SUFFICES ASSUME WaiterFirst PROVE Spec => []PoolInv
  OBVIOUS
<1>1. Init => PoolInv
  BY PoolInitial
<1>2. MemoryInv /\ PoolInv /\ [Next]_vars => PoolInv'
  BY PoolStep
<1> QED BY <1>1, <1>2, MemoryInvariant, PTL DEF Spec

\* rt_mp_alloc and rt_mp_free keep the two counters beside the lists, a block is
\* free or held by one thread, and a thread that rt_mp_free has woken finds the
\* block it takes unseen (mempool.c), with pools created and deleted, and
\* creations failing half way, at any time.
THEOREM PoolStaysConsistent == WaiterFirst => (Spec => []PoolConsistent)
<1>1. PoolInv => PoolConsistent
  BY DEF PoolInv
<1> QED BY <1>1, PoolInvariant, PTL

\* No thread stays suspended in rt_mp_alloc beside a block that nobody was
\* promised: rt_mp_free wakes one thread for every block it gets back.
THEOREM NobodyWaitsBesideABlock == WaiterFirst => (Spec => []NoWaiterBesideFreeBlock)
<1>1. PoolInv => NoWaiterBesideFreeBlock
  BY DEF PoolInv
<1> QED BY <1>1, PoolInvariant, PTL

=============================================================================

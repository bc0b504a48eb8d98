----------------------------- MODULE HeapProofs -----------------------------
(***************************************************************************)
(* The heap of any size keeps what it gave out and loses nothing, for any  *)
(* requests that spare its very end.                                       *)
(***************************************************************************)
EXTENDS Heap, WellFoundedInduction, TLAPS

\* The boundary blocks are never free, and the left one has no payload.
Sound(h) ==
    /\ HeapType(h)
    /\ TiledHeap(h)
    /\ h.free[0] = 0
    /\ h.free[Tail] = 0
    /\ h.size[0] = 0

\* Every block in use is a client's.
UsedAreGiven ==
    \A b \in heap.blocks \ {0, Tail} : heap.free[b] = 0 => \E g \in given : g.block = b

IInv == TypeOK /\ Sound(heap) /\ GivenAreKept /\ Coalesced /\ UsedAreGiven

\* What free leaves alone: blocks in use other than b.
Untouched(h, k, b) ==
    /\ k.blocks \subseteq h.blocks
    /\ \A c \in h.blocks : h.free[c] = 0 /\ c # b =>
           c \in k.blocks /\ k.free[c] = 0 /\ k.p_next[c] = h.p_next[c]
    /\ \A c \in k.blocks : k.free[c] = 0 => h.free[c] = 0 /\ c # b

LEMMA ExceptTwice ==
    ASSUME NEW D, NEW R, NEW f \in [D -> R],
           NEW x \in D, NEW u \in R, NEW y \in D, NEW v \in R
    PROVE  [f EXCEPT ![x] = u, ![y] = v] \in [D -> R]
    OBVIOUS

-----------------------------------------------------------------------------
\* The initial heap is sound and has one free block (kernel_heap.c:37-59).
LEMMA InitIInv == Init => IInv
<1> SUFFICES ASSUME Init PROVE IInv
    OBVIOUS
<1>1. heap = InitHeap /\ given = {}
    BY DEF Init
<1>2. /\ heap.blocks = {0, Header, Tail}
      /\ heap.size = [a \in Addresses |-> IF a = Header THEN Tail - Header ELSE 0]
      /\ heap.free = [a \in Addresses |-> IF a = Header THEN 1 ELSE 0]
      /\ heap.p_next = [a \in Addresses |-> IF a = 0 THEN Header ELSE IF a = Header THEN Tail ELSE NULL]
      /\ heap.p_prev = [a \in Addresses |-> IF a = Header THEN 0 ELSE IF a = Tail THEN Header ELSE NULL]
    BY <1>1 DEF InitHeap
<1>3. Header \in Addresses /\ Tail \in Addresses /\ 0 \in Addresses
    BY TailAssumption DEF Addresses, Header
<1>4. HeapType(heap)
  <2>1. heap.size \in [Addresses -> Nat] /\ heap.free \in [Addresses -> {0, 1}]
      BY <1>2, TailAssumption DEF Header
  <2>2. /\ heap.p_next \in [Addresses -> Addresses \cup {NULL}]
        /\ heap.p_prev \in [Addresses -> Addresses \cup {NULL}]
      BY <1>2, <1>3
  <2>3. heap.blocks \in SUBSET Addresses
      BY <1>2, <1>3
  <2>. QED BY <1>1, <2>1, <2>2, <2>3 DEF HeapType, InitHeap
<1>5. TiledHeap(heap)
  <2>1. /\ heap.p_next[0] = Header /\ heap.p_next[Header] = Tail
        /\ heap.p_prev[Header] = 0 /\ heap.p_prev[Tail] = Header
        /\ heap.size[0] = 0 /\ heap.size[Header] = Tail - Header
      BY <1>2, <1>3, TailAssumption DEF Header
  <2>2. End(heap, 0) = Header /\ End(heap, Header) = Tail /\ Header \in Nat /\ 0 < Header
      BY <2>1, TailAssumption DEF End, Header
  <2>3. 0 + Header <= Header /\ Header + Header <= Tail /\ Header < Tail
      BY TailAssumption DEF Header
  <2>4. \A b \in heap.blocks \ {Tail} : b = 0 \/ b = Header
      BY <1>2
  <2>5. \A b \in heap.blocks \ {0} : b = Tail \/ b = Header
      BY <1>2
  <2>6. \A c \in heap.blocks : (c <= 0 \/ Header <= c) /\ (c <= Header \/ Tail <= c)
      BY <1>2, <2>3, TailAssumption DEF Header
  <2>7. {0, Tail} \subseteq heap.blocks /\ Header \in heap.blocks
        /\ 0 \in heap.blocks \ {Tail} /\ Header \in heap.blocks \ {Tail}
      BY <1>2, TailAssumption DEF Header
  <2> HIDE DEF Header
  <2>. QED BY <2>1, <2>2, <2>3, <2>4, <2>5, <2>6, <2>7 DEF TiledHeap
<1>6. heap.free[0] = 0 /\ heap.free[Tail] = 0 /\ heap.size[0] = 0
    BY <1>2, <1>3, TailAssumption DEF Header
<1>7. Coalesced
    BY <1>2, <1>3, TailAssumption DEF Coalesced, CoalescedHeap, Header
<1>8. UsedAreGiven
    BY <1>2, <1>3 DEF UsedAreGiven
<1>. QED BY <1>1, <1>4, <1>5, <1>6, <1>7, <1>8 DEF IInv, TypeOK, Sound, GivenAreKept

-----------------------------------------------------------------------------
\* Cutting a free block in two keeps the heap tiled (kernel_heap_malloc.c:34-52).
LEMMA SplitSound ==
    ASSUME NEW h, Sound(h), NEW b \in h.blocks \ {0, Tail}, NEW n \in Nat,
           h.free[b] = 1, Splits(h, b, n), Spared(h, b, n)
    PROVE  LET k == Split(h, b, n)
               rest == b + Header + n
           IN  /\ Sound(k)
               /\ rest \notin h.blocks
               /\ rest \in Addresses
               /\ k.blocks = h.blocks \cup {rest}
               /\ k.free[b] = 0 /\ k.free[rest] = 1
               /\ k.p_next[b] = rest /\ k.p_next[rest] = h.p_next[b]
               /\ \A c \in h.blocks : c # b => k.free[c] = h.free[c] /\ k.p_next[c] = h.p_next[c]
<1> DEFINE k == Split(h, b, n)
           rest == b + Header + n
           next == h.p_next[b]
<1>1. /\ k.blocks = h.blocks \cup {rest}
      /\ k.size = [h.size EXCEPT ![rest] = h.size[b] - n - Header, ![b] = n]
      /\ k.free = [h.free EXCEPT ![rest] = 1, ![b] = 0]
      /\ k.p_next = [h.p_next EXCEPT ![rest] = next, ![b] = rest]
      /\ k.p_prev = [h.p_prev EXCEPT ![rest] = b, ![next] = rest]
      /\ k = [blocks |-> k.blocks, size |-> k.size, free |-> k.free,
              p_next |-> k.p_next, p_prev |-> k.p_prev]
    BY DEF Split
<1> HIDE DEF k
<1>2. /\ h.blocks \subseteq 0..Tail
      /\ h.size \in [0..Tail -> Nat] /\ h.free \in [0..Tail -> {0, 1}]
      /\ h.p_next \in [0..Tail -> 0..Tail \cup {NULL}]
      /\ h.p_prev \in [0..Tail -> 0..Tail \cup {NULL}]
    BY DEF Sound, HeapType, Addresses
<1>3. TiledHeap(h) /\ h.free[0] = 0 /\ h.free[Tail] = 0 /\ h.size[0] = 0
    BY DEF Sound
<1>4. /\ b \in 0..Tail /\ b > 0 /\ b < Tail /\ Tail \in Nat
      /\ next \in h.blocks /\ next \in 0..Tail
      /\ h.p_prev[next] = b /\ b + Header <= next
      /\ next = b + h.size[b] + (IF next = Tail THEN 0 ELSE Header)
      /\ \A c \in h.blocks : c <= b \/ next <= c
  <2>1. /\ next \in h.blocks /\ h.p_prev[next] = b /\ b + Header <= next
        /\ next = End(h, b) /\ \A c \in h.blocks : c <= b \/ next <= c
      BY <1>3 DEF TiledHeap
  <2>2. b \in 0..Tail /\ b # 0 /\ b # Tail /\ Tail \in Nat /\ next \in 0..Tail
      BY <2>1, <1>2, TailAssumption
  <2>3. b > 0 /\ b < Tail
      BY <2>2
  <2>. QED BY <2>1, <2>2, <2>3 DEF End
<1>5. b + Header <= rest /\ rest + Header <= next /\ h.size[b] - n - Header \in Nat /\ h.size[b] \in Nat
  <2>1. h.size[b] \in Nat /\ h.size[b] >= n + Header
      BY <1>2, <1>4 DEF Splits
  <2>2. next = Tail => h.size[b] >= n + 2 * Header
      BY DEF Spared
  <2> HIDE DEF next
  <2>. QED BY <2>1, <2>2, <1>4 DEF Header
<1>6. rest \in 0..Tail /\ b < rest /\ rest < next /\ rest # b /\ rest # next /\ rest # 0 /\ rest # Tail /\ rest \notin h.blocks
  <2> HIDE DEF next
  <2>1. rest \in 0..Tail /\ b < rest /\ rest < next
      BY <1>4, <1>5 DEF Header
  <2>2. rest \notin h.blocks
    <3> HIDE DEF rest
    <3>. QED BY <2>1, <1>4
  <2>. QED BY <2>1, <2>2, <1>3, <1>4 DEF TiledHeap
<1>7. /\ k.size[rest] = h.size[b] - n - Header /\ k.size[b] = n
      /\ k.free[rest] = 1 /\ k.free[b] = 0
      /\ k.p_next[rest] = next /\ k.p_next[b] = rest
      /\ k.p_prev[rest] = b /\ k.p_prev[next] = rest
  <2>1. /\ rest \in 0..Tail /\ b \in 0..Tail /\ next \in 0..Tail
        /\ rest # b /\ rest # next
      BY <1>4, <1>6
  <2> HIDE DEF rest, next
  <2>2. k.size[rest] = h.size[b] - n - Header /\ k.size[b] = n
    <3> DEFINE left == h.size[b] - n - Header
    <3> HIDE DEF left
    <3>1. k.size = [h.size EXCEPT ![rest] = left, ![b] = n]
        BY <1>1 DEF left
    <3>2. k.size[rest] = left /\ k.size[b] = n
        BY <1>2, <2>1, <3>1
    <3>. QED BY <3>2 DEF left
  <2>3. k.free[rest] = 1 /\ k.free[b] = 0
      BY <1>1, <1>2, <2>1
  <2>4. k.p_next[rest] = next /\ k.p_next[b] = rest
      BY <1>1, <1>2, <2>1
  <2>5. k.p_prev[rest] = b /\ k.p_prev[next] = rest
      BY <1>1, <1>2, <2>1
  <2>. QED BY <2>2, <2>3, <2>4, <2>5
<1>8. \A c \in h.blocks : c # b => /\ k.size[c] = h.size[c] /\ k.free[c] = h.free[c]
                                   /\ k.p_next[c] = h.p_next[c]
    BY <1>1, <1>2, <1>6
<1>9. \A c \in h.blocks : c # next => k.p_prev[c] = h.p_prev[c]
    BY <1>1, <1>2, <1>6
<1>10. HeapType(k)
  <2> HIDE DEF rest, next
  <2> DEFINE left == h.size[b] - n - Header
  <2>0. left \in Nat /\ rest \in Addresses /\ b \in Addresses /\ next \in Addresses
      BY <1>4, <1>5, <1>6 DEF Addresses
  <2>1. k.size \in [Addresses -> Nat] /\ k.free \in [Addresses -> {0, 1}]
    <3>1. h.size \in [Addresses -> Nat] /\ h.free \in [Addresses -> {0, 1}]
        BY <1>2 DEF Addresses
    <3>2. k.size = [h.size EXCEPT ![rest] = left, ![b] = n] /\ k.free = [h.free EXCEPT ![rest] = 1, ![b] = 0]
        BY <1>1
    <3> HIDE DEF left
    <3>3. [h.size EXCEPT ![rest] = left, ![b] = n] \in [Addresses -> Nat]
        BY <2>0, <3>1, ExceptTwice
    <3>4. [h.free EXCEPT ![rest] = 1, ![b] = 0] \in [Addresses -> {0, 1}]
        BY <2>0, <3>1, ExceptTwice
    <3>. QED BY <3>2, <3>3, <3>4
  <2>2. /\ k.p_next \in [Addresses -> Addresses \cup {NULL}]
        /\ k.p_prev \in [Addresses -> Addresses \cup {NULL}]
    <3> DEFINE R == Addresses \cup {NULL}
    <3>1. /\ h.p_next \in [Addresses -> R] /\ h.p_prev \in [Addresses -> R]
          /\ next \in R /\ rest \in R /\ b \in R
        BY <1>2, <2>0 DEF Addresses
    <3> HIDE DEF R
    <3>2. [h.p_next EXCEPT ![rest] = next, ![b] = rest] \in [Addresses -> R]
        BY <2>0, <3>1, ExceptTwice
    <3>3. [h.p_prev EXCEPT ![rest] = b, ![next] = rest] \in [Addresses -> R]
        BY <2>0, <3>1, ExceptTwice
    <3>. QED BY <1>1, <3>2, <3>3 DEF R
  <2>3. k.blocks \subseteq 0..Tail
      BY <1>1, <1>2, <1>6
  <2>. QED BY <1>1, <2>1, <2>2, <2>3 DEF HeapType, Addresses
<1> HIDE DEF rest, next
<1>11. ASSUME NEW c \in k.blocks \ {Tail}
       PROVE  /\ k.p_next[c] \in k.blocks
              /\ k.p_prev[k.p_next[c]] = c
              /\ k.p_next[c] = End(k, c)
              /\ c + Header <= k.p_next[c]
              /\ \A d \in k.blocks : d <= c \/ k.p_next[c] <= d
  <2>1. CASE c = rest
    <3>1. k.p_next[c] = next /\ k.p_next[c] \in k.blocks /\ k.p_prev[k.p_next[c]] = c
        BY <2>1, <1>1, <1>4, <1>7
    <3>2. k.p_next[c] = End(k, c) /\ c + Header <= k.p_next[c]
        BY <2>1, <3>1, <1>4, <1>5, <1>7 DEF End, Header, rest
    <3>3. ASSUME NEW d \in k.blocks PROVE d <= c \/ k.p_next[c] <= d
      <4>1. CASE d = rest
          BY <4>1, <2>1, <1>6
      <4>2. CASE d \in h.blocks
        <5>1. d <= b \/ next <= d
            BY <4>2, <1>4
        <5>2. d \in 0..Tail /\ b \in 0..Tail /\ rest \in 0..Tail /\ b < rest
            BY <4>2, <1>2, <1>4, <1>6
        <5>. QED BY <5>1, <5>2, <2>1, <3>1
      <4>. QED BY <4>1, <4>2, <1>1
    <3>. QED BY <3>1, <3>2, <3>3
  <2>2. CASE c = b
    <3>1. k.p_next[c] = rest /\ k.p_next[c] \in k.blocks /\ k.p_prev[k.p_next[c]] = c
        BY <2>2, <1>1, <1>4, <1>7
    <3>2. k.p_next[c] = End(k, c) /\ c + Header <= k.p_next[c]
      <4>1. k.size[c] = n /\ rest # Tail
          BY <2>2, <1>6, <1>7
      <4>. QED BY <2>2, <3>1, <4>1, <1>4 DEF End, rest, Header
    <3>3. ASSUME NEW d \in k.blocks PROVE d <= c \/ k.p_next[c] <= d
      <4>1. CASE d = rest
          BY <4>1, <3>1, <1>6
      <4>2. CASE d \in h.blocks
        <5>1. d <= b \/ next <= d
            BY <4>2, <1>4
        <5>2. d \in 0..Tail /\ next \in 0..Tail /\ rest \in 0..Tail /\ rest < next
            BY <4>2, <1>2, <1>4, <1>6
        <5>. QED BY <5>1, <5>2, <2>2, <3>1
      <4>. QED BY <4>1, <4>2, <1>1
    <3>. QED BY <3>1, <3>2, <3>3
  <2>3. CASE c \in h.blocks /\ c # b
    <3>1. /\ k.p_next[c] = h.p_next[c] /\ k.size[c] = h.size[c]
          /\ h.p_next[c] \in h.blocks /\ h.p_prev[h.p_next[c]] = c /\ h.p_next[c] = End(h, c)
          /\ c + Header <= h.p_next[c]
          /\ \A d \in h.blocks : d <= c \/ h.p_next[c] <= d
        BY <2>3, <1>3, <1>8 DEF TiledHeap
    <3>2. h.p_next[c] # next
        BY <3>1, <2>3, <1>4
    <3>3. k.p_prev[h.p_next[c]] = c
        BY <3>1, <3>2, <1>9
    <3>4. rest <= c \/ h.p_next[c] <= rest
      <4>1. c \in 0..Tail /\ h.p_next[c] \in 0..Tail /\ (c <= b \/ next <= c)
          BY <2>3, <3>1, <1>2, <1>4
      <4>2. c < b => h.p_next[c] <= b
          BY <4>1, <3>1, <1>4
      <4>. QED BY <2>3, <4>1, <4>2, <1>4, <1>5, <1>6 DEF Header
    <3>. QED BY <3>1, <3>3, <3>4, <1>1 DEF End
  <2>. QED BY <2>1, <2>2, <2>3, <1>1
<1>12. ASSUME NEW c \in k.blocks \ {0}
       PROVE  k.p_prev[c] \in k.blocks \ {Tail} /\ k.p_next[k.p_prev[c]] = c
  <2>1. CASE c = rest \/ c = next
      BY <2>1, <1>1, <1>4, <1>6, <1>7
  <2>2. CASE c \in h.blocks /\ c # next
    <3>1. k.p_prev[c] = h.p_prev[c] /\ h.p_prev[c] \in h.blocks \ {Tail} /\ h.p_next[h.p_prev[c]] = c
        BY <2>2, <1>3, <1>9 DEF TiledHeap
    <3>2. h.p_prev[c] # b
        BY <3>1, <2>2 DEF next
    <3>. QED BY <3>1, <3>2, <1>1, <1>8
  <2>. QED BY <2>1, <2>2, <1>1
<1>13. TiledHeap(k)
    BY <1>1, <1>3, <1>11, <1>12 DEF TiledHeap
<1>14. k.free[0] = 0 /\ k.free[Tail] = 0 /\ k.size[0] = 0
    BY <1>3, <1>4, <1>8 DEF TiledHeap
<1>15. Sound(k)
    BY <1>10, <1>13, <1>14 DEF Sound
<1>16. rest \in Addresses
    BY <1>6 DEF Addresses
<1>. QED BY <1>1, <1>6, <1>7, <1>8, <1>15, <1>16 DEF k, rest, next

-----------------------------------------------------------------------------
\* Joining a block with the one behind it keeps the heap tiled (kernel_heap.c:75-83).
LEMMA JoinSound ==
    ASSUME NEW h, Sound(h), NEW b \in h.blocks \ {0, Tail}, h.p_next[b] # Tail
    PROVE  LET k == Join(h, b)
               next == h.p_next[b]
           IN  /\ Sound(k)
               /\ next \in h.blocks \ {0, b, Tail}
               /\ h.p_next[next] \notin {b, next}
               /\ k.blocks = h.blocks \ {next}
               /\ k.free[b] = 1
               /\ k.p_next[b] = h.p_next[next]
               /\ \A c \in h.blocks : c # b /\ c # next =>
                      k.free[c] = h.free[c] /\ k.p_next[c] = h.p_next[c]
<1> DEFINE k == Join(h, b)
           next == h.p_next[b]
           last == h.p_next[next]
           sum == h.size[b] + Header + h.size[next]
<1>1. /\ k.blocks = h.blocks \ {next}
      /\ k.size = [h.size EXCEPT ![b] = sum, ![next] = 0]
      /\ k.free = [h.free EXCEPT ![b] = 1, ![next] = 0]
      /\ k.p_next = [h.p_next EXCEPT ![b] = last, ![next] = NULL]
      /\ k.p_prev = [h.p_prev EXCEPT ![last] = b, ![next] = NULL]
      /\ k = [blocks |-> k.blocks, size |-> k.size, free |-> k.free,
              p_next |-> k.p_next, p_prev |-> k.p_prev]
    BY DEF Join
<1> HIDE DEF k
<1>2. /\ h.blocks \subseteq Addresses
      /\ h.size \in [Addresses -> Nat] /\ h.free \in [Addresses -> {0, 1}]
      /\ h.p_next \in [Addresses -> Addresses \cup {NULL}]
      /\ h.p_prev \in [Addresses -> Addresses \cup {NULL}]
    BY DEF Sound, HeapType
<1>3. TiledHeap(h) /\ h.free[0] = 0 /\ h.free[Tail] = 0 /\ h.size[0] = 0
    BY DEF Sound
<1>4. /\ next \in h.blocks /\ h.p_prev[next] = b /\ b + Header <= next
      /\ next = End(h, b) /\ \A c \in h.blocks : c <= b \/ next <= c
    BY <1>3 DEF TiledHeap
<1>5. /\ last \in h.blocks /\ h.p_prev[last] = next /\ next + Header <= last
      /\ last = End(h, next) /\ \A c \in h.blocks : c <= next \/ last <= c
    BY <1>3, <1>4 DEF TiledHeap
<1>6. /\ b \in 0..Tail /\ next \in 0..Tail /\ last \in 0..Tail /\ Tail \in Nat
      /\ b \in Addresses /\ next \in Addresses /\ last \in Addresses
      /\ h.size[b] \in Nat /\ h.size[next] \in Nat
      /\ h.blocks \subseteq 0..Tail
    BY <1>2, <1>4, <1>5, TailAssumption DEF Addresses
<1>7. 0 < b /\ b < next /\ next < last /\ next # Tail /\ last = b + sum + (IF last = Tail THEN 0 ELSE Header)
  <2> HIDE DEF next, last
  <2>1. 0 < b /\ b < next /\ next < last
      BY <1>4, <1>5, <1>6 DEF Header
  <2>2. next # Tail
      BY DEF next
  <2>. QED BY <2>1, <2>2, <1>4, <1>5, <1>6 DEF End, Header, next, last
<1>8. sum \in Nat
    BY <1>6 DEF Header
<1> HIDE DEF next, last, sum
<1>9. /\ k.size[b] = sum /\ k.free[b] = 1 /\ k.p_next[b] = last /\ k.p_prev[last] = b
    BY <1>1, <1>2, <1>6, <1>7
<1>10. \A c \in h.blocks : c # b /\ c # next => /\ k.size[c] = h.size[c] /\ k.free[c] = h.free[c]
                                                /\ k.p_next[c] = h.p_next[c]
    BY <1>1, <1>2
<1>11. \A c \in h.blocks : c # next /\ c # last => k.p_prev[c] = h.p_prev[c]
    BY <1>1, <1>2
<1>12. HeapType(k)
  <2>1. k.size \in [Addresses -> Nat] /\ k.free \in [Addresses -> {0, 1}]
    <3>1. [h.size EXCEPT ![b] = sum, ![next] = 0] \in [Addresses -> Nat]
        BY <1>2, <1>6, <1>8, ExceptTwice
    <3>2. [h.free EXCEPT ![b] = 1, ![next] = 0] \in [Addresses -> {0, 1}]
        BY <1>2, <1>6, ExceptTwice
    <3>. QED BY <1>1, <3>1, <3>2
  <2>2. /\ k.p_next \in [Addresses -> Addresses \cup {NULL}]
        /\ k.p_prev \in [Addresses -> Addresses \cup {NULL}]
    <3> DEFINE R == Addresses \cup {NULL}
    <3>1. /\ h.p_next \in [Addresses -> R] /\ h.p_prev \in [Addresses -> R]
          /\ last \in R /\ b \in R /\ NULL \in R
        BY <1>2, <1>6
    <3> HIDE DEF R
    <3>2. [h.p_next EXCEPT ![b] = last, ![next] = NULL] \in [Addresses -> R]
        BY <1>6, <3>1, ExceptTwice
    <3>3. [h.p_prev EXCEPT ![last] = b, ![next] = NULL] \in [Addresses -> R]
        BY <1>6, <3>1, ExceptTwice
    <3>. QED BY <1>1, <3>2, <3>3 DEF R
  <2>3. k.blocks \subseteq Addresses
      BY <1>1, <1>2
  <2>. QED BY <1>1, <2>1, <2>2, <2>3 DEF HeapType
<1>13. ASSUME NEW c \in k.blocks \ {Tail}
       PROVE  /\ k.p_next[c] \in k.blocks
              /\ k.p_prev[k.p_next[c]] = c
              /\ k.p_next[c] = End(k, c)
              /\ c + Header <= k.p_next[c]
              /\ \A d \in k.blocks : d <= c \/ k.p_next[c] <= d
  <2>1. CASE c = b
    <3>1. k.p_next[c] = last /\ last \in k.blocks /\ k.p_prev[k.p_next[c]] = c
        BY <2>1, <1>1, <1>5, <1>6, <1>7, <1>9
    <3>2. k.p_next[c] = End(k, c)
        BY <2>1, <3>1, <1>7, <1>9 DEF End
    <3>3. c + Header <= last
        BY <2>1, <1>4, <1>6, <1>7 DEF Header
    <3>4. ASSUME NEW d \in k.blocks PROVE d <= c \/ last <= d
      <4>1. d \in h.blocks /\ d # next /\ d \in 0..Tail
          BY <1>1, <1>6
      <4>2. (d <= b \/ next <= d) /\ (d <= next \/ last <= d)
          BY <4>1, <1>4, <1>5
      <4>. QED BY <2>1, <4>1, <4>2, <1>6
    <3>. QED BY <3>1, <3>2, <3>3, <3>4
  <2>2. CASE c # b
    <3>1. c \in h.blocks \ {Tail} /\ c # next /\ k.p_next[c] = h.p_next[c] /\ k.size[c] = h.size[c]
        BY <2>2, <1>1, <1>10
    <3>2. /\ h.p_next[c] \in h.blocks /\ h.p_prev[h.p_next[c]] = c /\ h.p_next[c] = End(h, c)
          /\ c + Header <= h.p_next[c]
          /\ \A d \in h.blocks : d <= c \/ h.p_next[c] <= d
        BY <3>1, <1>3 DEF TiledHeap
    <3>3. h.p_next[c] # next /\ h.p_next[c] # last
        BY <2>2, <3>1, <3>2, <1>4, <1>5
    <3>4. k.p_prev[h.p_next[c]] = c
        BY <3>2, <3>3, <1>11
    <3>. QED BY <3>1, <3>2, <3>3, <3>4, <1>1 DEF End
  <2>. QED BY <2>1, <2>2
<1>14. ASSUME NEW c \in k.blocks \ {0}
       PROVE  k.p_prev[c] \in k.blocks \ {Tail} /\ k.p_next[k.p_prev[c]] = c
  <2>1. CASE c = last
      BY <2>1, <1>1, <1>6, <1>7, <1>9
  <2>2. CASE c # last
    <3>1. c \in h.blocks \ {0} /\ c # next /\ k.p_prev[c] = h.p_prev[c]
        BY <2>2, <1>1, <1>11
    <3>2. h.p_prev[c] \in h.blocks \ {Tail} /\ h.p_next[h.p_prev[c]] = c
        BY <3>1, <1>3 DEF TiledHeap
    <3>3. h.p_prev[c] # b /\ h.p_prev[c] # next
        BY <2>2, <3>1, <3>2 DEF next, last
    <3>. QED BY <3>1, <3>2, <3>3, <1>1, <1>10
  <2>. QED BY <2>1, <2>2
<1>15. {0, Tail} \subseteq k.blocks /\ k.free[0] = 0 /\ k.free[Tail] = 0 /\ k.size[0] = 0
  <2>1. 0 \in h.blocks /\ Tail \in h.blocks /\ 0 # b /\ 0 # next /\ Tail # b /\ Tail # next
      BY <1>3, <1>6, <1>7 DEF TiledHeap
  <2>. QED BY <2>1, <1>1, <1>3, <1>10
<1>16. Sound(k)
  <2>1. TiledHeap(k)
      BY <1>13, <1>14, <1>15 DEF TiledHeap
  <2>. QED BY <2>1, <1>12, <1>15 DEF Sound
<1>17. next \in h.blocks \ {0, b, Tail} /\ last \notin {b, next}
    BY <1>4, <1>6, <1>7
<1>. QED BY <1>1, <1>9, <1>10, <1>16, <1>17 DEF k, next, last

-----------------------------------------------------------------------------
\* Marking a block free only changes that flag (kernel_heap_malloc.c:104).
LEMMA MarkSound ==
    ASSUME NEW h, Sound(h), NEW b \in h.blocks \ {0, Tail}
    PROVE  LET k == MarkFree(h, b)
           IN  /\ Sound(k) /\ k.blocks = h.blocks /\ k.p_next = h.p_next
               /\ k.free[b] = 1
               /\ \A c \in h.blocks : c # b => k.free[c] = h.free[c]
<1> DEFINE k == MarkFree(h, b)
<1>1. HeapType(h) /\ TiledHeap(h) /\ h.free[0] = 0 /\ h.free[Tail] = 0 /\ h.size[0] = 0
    BY DEF Sound
<1>2. /\ k \in [blocks : SUBSET Addresses, size : [Addresses -> Nat], free : [Addresses -> {0, 1}],
                p_next : [Addresses -> Addresses \cup {NULL}], p_prev : [Addresses -> Addresses \cup {NULL}]]
      /\ k.blocks = h.blocks /\ k.size = h.size /\ k.p_next = h.p_next /\ k.p_prev = h.p_prev
      /\ k.free = [h.free EXCEPT ![b] = 1]
    BY <1>1 DEF HeapType, MarkFree
<1> HIDE DEF k
<1>3. k.free[b] = 1 /\ \A c \in h.blocks : c # b => k.free[c] = h.free[c]
    BY <1>1, <1>2 DEF HeapType
<1>4. TiledHeap(k)
    BY <1>1, <1>2 DEF TiledHeap, End
<1>5. k.free[0] = 0 /\ k.free[Tail] = 0
    BY <1>1, <1>3 DEF TiledHeap
<1>. QED BY <1>1, <1>2, <1>3, <1>4, <1>5 DEF Sound, HeapType, k

\* A join changes nothing of blocks in use.
LEMMA JoinUntouched ==
    ASSUME NEW h, Sound(h), NEW a \in h.blocks \ {0, Tail}, NEW b,
           h.p_next[a] # Tail, h.free[a] = 1, h.free[h.p_next[a]] = 1, h.free[b] = 1
    PROVE  Untouched(h, Join(h, a), b)
<1> DEFINE k == Join(h, a)
           next == h.p_next[a]
<1>1. /\ next \in h.blocks /\ k.blocks = h.blocks \ {next} /\ k.free[a] = 1
      /\ \A c \in h.blocks : c # a /\ c # next => k.free[c] = h.free[c] /\ k.p_next[c] = h.p_next[c]
    BY JoinSound
<1> HIDE DEF k
<1>2. \A c \in h.blocks : h.free[c] = 0 => c # a /\ c # next
    OBVIOUS
<1>3. \A c \in h.blocks : h.free[c] = 0 /\ c # b =>
          c \in k.blocks /\ k.free[c] = 0 /\ k.p_next[c] = h.p_next[c]
    BY <1>1, <1>2
<1>4. \A c \in k.blocks : k.free[c] = 0 => h.free[c] = 0 /\ c # b
    BY <1>1
<1>. QED BY <1>1, <1>3, <1>4 DEF Untouched, k

\* After the join with the block behind, two free neighbours can only be b and the
\* block in front of it (kernel_heap_malloc.c:106-107).
LEMMA JoinNextSound ==
    ASSUME NEW h, Sound(h), NEW b \in h.blocks \ {0, Tail}, h.free[b] = 1,
           \A c \in h.blocks \ {Tail} :
               h.free[c] = 1 /\ h.free[h.p_next[c]] = 1 => c = b \/ h.p_next[c] = b
    PROVE  LET k == JoinNext(h, b)
           IN  /\ Sound(k) /\ b \in k.blocks /\ k.free[b] = 1 /\ Untouched(h, k, b)
               /\ \A c \in k.blocks \ {Tail} :
                      k.free[c] = 1 /\ k.free[k.p_next[c]] = 1 => k.p_next[c] = b
<1> DEFINE k == JoinNext(h, b)
           next == h.p_next[b]
<1>1. TiledHeap(h) /\ h.free[Tail] = 0
    BY DEF Sound
<1>2. CASE h.free[next] = 1
  <2>1. k = Join(h, b) /\ next # Tail
      BY <1>1, <1>2 DEF JoinNext
  <2>2. /\ Sound(k) /\ next \in h.blocks \ {0, b, Tail} /\ h.p_next[next] \notin {b, next}
        /\ k.blocks = h.blocks \ {next} /\ k.free[b] = 1 /\ k.p_next[b] = h.p_next[next]
        /\ \A c \in h.blocks : c # b /\ c # next => k.free[c] = h.free[c] /\ k.p_next[c] = h.p_next[c]
      BY <2>1, JoinSound
  <2>3. Untouched(h, k, b)
      BY <1>2, <2>1, JoinUntouched
  <2> HIDE DEF k, next
  <2>4. ASSUME NEW c \in k.blocks \ {Tail}, k.free[c] = 1, k.free[k.p_next[c]] = 1
        PROVE  k.p_next[c] = b
    <3>1. k.p_next[c] \in k.blocks
        BY <2>2 DEF Sound, TiledHeap
    <3>2. CASE c = b
      <4>1. h.free[h.p_next[next]] = 1
          BY <2>2, <2>4, <3>1, <3>2
      <4>. QED BY <1>2, <2>2, <4>1
    <3>3. CASE c # b
      <4>1. c \in h.blocks \ {Tail} /\ h.free[c] = 1 /\ k.p_next[c] = h.p_next[c]
          BY <2>2, <2>4, <3>3
      <4>2. SUFFICES ASSUME k.p_next[c] # b PROVE FALSE
          OBVIOUS
      <4>3. h.free[h.p_next[c]] = 1
          BY <2>2, <2>4, <3>1, <4>1, <4>2
      <4>. QED BY <3>3, <4>1, <4>2, <4>3
    <3>. QED BY <3>2, <3>3
  <2>. QED BY <2>2, <2>3, <2>4 DEF k
<1>3. CASE h.free[next] # 1
  <2>1. k = h
      BY <1>3 DEF JoinNext
  <2>2. Untouched(h, h, b)
      BY DEF Untouched
  <2>. QED BY <1>3, <2>1, <2>2
<1>. QED BY <1>2, <1>3

\* The join with the block in front removes that pair (kernel_heap_malloc.c:108-109).
LEMMA JoinPrevSound ==
    ASSUME NEW h, Sound(h), NEW b \in h.blocks \ {0, Tail}, h.free[b] = 1,
           \A c \in h.blocks \ {Tail} :
               h.free[c] = 1 /\ h.free[h.p_next[c]] = 1 => h.p_next[c] = b
    PROVE  LET k == JoinPrev(h, b)
           IN  Sound(k) /\ CoalescedHeap(k) /\ Untouched(h, k, b)
<1> DEFINE k == JoinPrev(h, b)
           p == h.p_prev[b]
<1>1. TiledHeap(h) /\ h.free[0] = 0
    BY DEF Sound
<1>2. p \in h.blocks \ {Tail} /\ h.p_next[p] = b
    BY <1>1 DEF TiledHeap
<1>3. CASE h.free[p] = 1
  <2>1. k = Join(h, p) /\ p \in h.blocks \ {0, Tail} /\ h.p_next[p] # Tail
      BY <1>1, <1>2, <1>3 DEF JoinPrev
  <2>2. /\ Sound(k) /\ b # p /\ h.p_next[b] \notin {p, b}
        /\ k.blocks = h.blocks \ {b} /\ k.free[p] = 1 /\ k.p_next[p] = h.p_next[b]
        /\ \A c \in h.blocks : c # p /\ c # b => k.free[c] = h.free[c] /\ k.p_next[c] = h.p_next[c]
    <3> HIDE DEF k, p
    <3>. QED BY <1>2, <2>1, JoinSound
  <2>3. Untouched(h, k, b)
    <3> HIDE DEF k, p
    <3>. QED BY <1>2, <1>3, <2>1, JoinUntouched
  <2> HIDE DEF k, p
  <2>4. ASSUME NEW c \in k.blocks \ {Tail}, k.free[c] = 1, k.free[k.p_next[c]] = 1
        PROVE  FALSE
    <3>1. k.p_next[c] \in k.blocks
        BY <2>2 DEF Sound, TiledHeap
    <3>2. CASE c = p
      <4>1. h.free[h.p_next[b]] = 1
          BY <2>2, <2>4, <3>1, <3>2
      <4>. QED BY <2>2, <4>1
    <3>3. CASE c # p
      <4>1. /\ c \in h.blocks \ {Tail} /\ h.free[c] = 1
            /\ k.p_next[c] = h.p_next[c] /\ h.p_next[c] # b /\ h.p_next[c] \in h.blocks
          BY <2>2, <2>4, <3>1, <3>3
      <4>2. h.free[h.p_next[c]] = 1
          BY <1>3, <2>2, <2>4, <4>1
      <4>. QED BY <4>1, <4>2
    <3>. QED BY <3>2, <3>3
  <2>. QED BY <2>2, <2>3, <2>4 DEF CoalescedHeap, k
<1>4. CASE h.free[p] # 1
  <2>1. k = h
      BY <1>4 DEF JoinPrev
  <2>2. Untouched(h, h, b)
      BY DEF Untouched
  <2>3. \A c \in h.blocks \ {Tail} : h.p_next[c] = b => c = p
      BY <1>1 DEF TiledHeap
  <2>4. CoalescedHeap(h)
      BY <1>4, <2>3 DEF CoalescedHeap
  <2>. QED BY <2>1, <2>2, <2>4
<1>. QED BY <1>3, <1>4

\* free keeps the heap sound and coalesced, and leaves every other block in use alone
\* (kernel_heap_malloc.c:104-109).
LEMMA FreeSound ==
    ASSUME NEW h, Sound(h), CoalescedHeap(h), NEW b \in h.blocks \ {0, Tail}
    PROVE  LET k == JoinPrev(JoinNext(MarkFree(h, b), b), b)
           IN  Sound(k) /\ CoalescedHeap(k) /\ Untouched(h, k, b)
<1> DEFINE h1 == MarkFree(h, b)
           h2 == JoinNext(h1, b)
           h3 == JoinPrev(h2, b)
<1>1. /\ Sound(h1) /\ h1.blocks = h.blocks /\ h1.p_next = h.p_next /\ h1.free[b] = 1
      /\ \A c \in h.blocks : c # b => h1.free[c] = h.free[c]
    BY MarkSound
<1> HIDE DEF h1
<1>2. Untouched(h, h1, b)
    BY <1>1 DEF Untouched
<1>3. \A c \in h1.blocks \ {Tail} :
          h1.free[c] = 1 /\ h1.free[h1.p_next[c]] = 1 => c = b \/ h1.p_next[c] = b
    BY <1>1 DEF CoalescedHeap, Sound, TiledHeap
<1>4. /\ Sound(h2) /\ b \in h2.blocks /\ h2.free[b] = 1 /\ Untouched(h1, h2, b)
      /\ \A c \in h2.blocks \ {Tail} :
             h2.free[c] = 1 /\ h2.free[h2.p_next[c]] = 1 => h2.p_next[c] = b
    BY <1>1, <1>3, JoinNextSound
<1> HIDE DEF h2
<1>5. Sound(h3) /\ CoalescedHeap(h3) /\ Untouched(h2, h3, b)
    BY <1>4, JoinPrevSound
<1> HIDE DEF h3
<1>6. Untouched(h, h3, b)
    BY <1>2, <1>4, <1>5 DEF Untouched
<1>. QED BY <1>5, <1>6 DEF h1, h2, h3

-----------------------------------------------------------------------------
LEMMA AlignFits == ASSUME NEW n \in Nat PROVE Align(n) \in Nat /\ n <= Align(n)
<1>1. n % 2 \in 0..1
    OBVIOUS
<1>. QED BY <1>1 DEF Align

LEMMA MarkAllocatedSound ==
    ASSUME NEW h, Sound(h), NEW b \in h.blocks \ {0, Tail}
    PROVE  LET k == MarkAllocated(h, b)
           IN  /\ Sound(k) /\ k.blocks = h.blocks /\ k.p_next = h.p_next
               /\ k.free[b] = 0
               /\ \A c \in h.blocks : c # b => k.free[c] = h.free[c]
<1> DEFINE k == MarkAllocated(h, b)
<1>1. HeapType(h) /\ TiledHeap(h) /\ h.free[0] = 0 /\ h.free[Tail] = 0 /\ h.size[0] = 0
    BY DEF Sound
<1>2. /\ k \in [blocks : SUBSET Addresses, size : [Addresses -> Nat], free : [Addresses -> {0, 1}],
                p_next : [Addresses -> Addresses \cup {NULL}], p_prev : [Addresses -> Addresses \cup {NULL}]]
      /\ k.blocks = h.blocks /\ k.size = h.size /\ k.p_next = h.p_next /\ k.p_prev = h.p_prev
      /\ k.free = [h.free EXCEPT ![b] = 0]
    BY <1>1 DEF HeapType, MarkAllocated
<1> HIDE DEF k
<1>3. k.free[b] = 0 /\ \A c \in h.blocks : c # b => k.free[c] = h.free[c]
    BY <1>1, <1>2 DEF HeapType
<1>4. TiledHeap(k)
    BY <1>1, <1>2 DEF TiledHeap, End
<1>5. k.free[0] = 0 /\ k.free[Tail] = 0
    BY <1>1, <1>3 DEF TiledHeap
<1>. QED BY <1>1, <1>2, <1>3, <1>4, <1>5 DEF Sound, HeapType, k

LEMMA MallocStep ==
    ASSUME SparesTail, IInv, NEW size \in Requests, Malloc(size)
    PROVE  IInv' /\ given' # given
<1> DEFINE n == Align(size)
<1>1. n \in Nat /\ size \in Nat /\ size <= n
    BY RequestsAssumption, AlignFits
<1>2. PICK b \in heap.blocks :
          /\ Fits(heap, b, n) /\ Spared(heap, b, n)
          /\ heap' = IF Splits(heap, b, n) THEN Split(heap, b, n) ELSE MarkAllocated(heap, b)
          /\ given' = given \cup {[block |-> b, size |-> size]}
    BY DEF Malloc
<1> HIDE DEF n
<1>3. /\ Sound(heap) /\ HeapType(heap) /\ TiledHeap(heap) /\ Coalesced /\ GivenAreKept /\ UsedAreGiven
      /\ given \subseteq [block : Addresses, size : Nat]
    BY DEF IInv, Sound, TypeOK
<1>4. b \in heap.blocks \ {0, Tail} /\ heap.free[b] = 1
    BY <1>2, <1>3 DEF Fits, Sound
<1>5. \A g \in given : g.block # b
    BY <1>3, <1>4 DEF GivenAreKept
<1>6. \A g \in given' : g \in given \/ g = [block |-> b, size |-> size]
    BY <1>2
<1>7. b \in Addresses /\ heap.size[b] \in Nat /\ heap.p_next[b] \in heap.blocks /\ heap.p_next[b] \in Nat
    BY <1>3, <1>4, TailAssumption DEF HeapType, TiledHeap, Addresses
<1>8. given' \subseteq [block : Addresses, size : Nat] /\ given' # given
  <2> DEFINE mine == [block |-> b, size |-> size]
  <2>1. mine \in [block : Addresses, size : Nat] /\ mine.block = b
      BY <1>1, <1>7
  <2> HIDE DEF mine
  <2>2. given' = given \cup {mine}
      BY <1>2 DEF mine
  <2>3. mine \notin given
      BY <2>1, <1>5
  <2>. QED BY <2>1, <2>2, <2>3, <1>3
\* What is left to show of either way to allocate.
<1>9. ASSUME Sound(heap'), heap.blocks \subseteq heap.blocks', heap'.free[b] = 0,
             b + Header + size <= heap'.p_next[b],
             \A c \in heap.blocks : c # b => heap'.free[c] = heap.free[c] /\ heap'.p_next[c] = heap.p_next[c],
             \A c \in heap.blocks' \ heap.blocks : heap'.free[c] = 1,
             Coalesced'
      PROVE  IInv'
  <2>1. GivenAreKept'
    <3>1. ASSUME NEW g \in given'
          PROVE  /\ g.block \in heap'.blocks \ {0, Tail}
                 /\ heap'.free[g.block] = 0
                 /\ g.block + Header + g.size <= heap'.p_next[g.block]
      <4>1. CASE g \in given
          BY <4>1, <1>3, <1>5, <1>9 DEF GivenAreKept
      <4>2. CASE g = [block |-> b, size |-> size]
          BY <4>2, <1>4, <1>9
      <4>. QED BY <4>1, <4>2, <1>6
    <3>2. ASSUME NEW g \in given', NEW k \in given', g.block = k.block PROVE g = k
        BY <3>2, <1>3, <1>5, <1>6 DEF GivenAreKept
    <3>. QED BY <3>1, <3>2 DEF GivenAreKept
  <2>2. UsedAreGiven'
    <3> SUFFICES ASSUME NEW c \in heap'.blocks \ {0, Tail}, heap'.free[c] = 0
                 PROVE  \E g \in given' : g.block = c
        BY DEF UsedAreGiven
    <3>1. CASE c = b
      <4>1. [block |-> b, size |-> size] \in given' /\ [block |-> b, size |-> size].block = b
          BY <1>2
      <4>. QED BY <3>1, <4>1
    <3>2. CASE c # b
      <4>1. c \in heap.blocks /\ heap.free[c] = 0
          BY <3>2, <1>9
      <4>. QED BY <4>1, <1>2, <1>3 DEF UsedAreGiven
    <3>. QED BY <3>1, <3>2
  <2>. QED BY <2>1, <2>2, <1>8, <1>9 DEF IInv, TypeOK, Sound
<1>10. CASE Splits(heap, b, n)
  <2> DEFINE rest == b + Header + n
  <2>1. heap' = Split(heap, b, n)
      BY <1>2, <1>10
  <2>2. /\ Sound(heap') /\ rest \notin heap.blocks
        /\ heap'.blocks = heap.blocks \cup {rest}
        /\ heap'.free[b] = 0 /\ heap'.free[rest] = 1
        /\ heap'.p_next[b] = rest /\ heap'.p_next[rest] = heap.p_next[b]
        /\ \A c \in heap.blocks : c # b => heap'.free[c] = heap.free[c] /\ heap'.p_next[c] = heap.p_next[c]
      BY <2>1, <1>1, <1>2, <1>3, <1>4, <1>10, SplitSound
  <2>3. b + Header + size <= heap'.p_next[b]
      BY <2>2, <1>1, <1>7 DEF Addresses, Header
  <2> HIDE DEF rest
  <2>4. Coalesced'
    <3> SUFFICES ASSUME NEW c \in heap'.blocks \ {Tail}, heap'.free[c] = 1, heap'.free[heap'.p_next[c]] = 1
                 PROVE  FALSE
        BY DEF Coalesced, CoalescedHeap
    <3>1. CASE c = rest
      <4>1. heap.free[heap.p_next[b]] # 1
          BY <1>3, <1>4 DEF Coalesced, CoalescedHeap
      <4>. QED BY <3>1, <4>1, <2>2, <1>7
    <3>2. CASE c # rest
      <4>1. c \in heap.blocks \ {Tail} /\ c # b
          BY <3>2, <2>2
      <4>2. heap.free[c] = 1 /\ heap'.p_next[c] = heap.p_next[c] /\ heap.p_next[c] \in heap.blocks
          BY <4>1, <2>2, <1>3 DEF TiledHeap
      <4>3. heap.free[heap.p_next[c]] = 1
          BY <4>2, <2>2
      <4>. QED BY <4>1, <4>2, <4>3, <1>3 DEF Coalesced, CoalescedHeap
    <3>. QED BY <3>1, <3>2
  <2>. QED BY <2>2, <2>3, <2>4, <1>8, <1>9
<1>11. CASE ~Splits(heap, b, n)
  <2>1. heap' = MarkAllocated(heap, b)
      BY <1>2, <1>11
  <2>2. /\ Sound(heap') /\ heap'.blocks = heap.blocks /\ heap'.p_next = heap.p_next
        /\ heap'.free[b] = 0
        /\ \A c \in heap.blocks : c # b => heap'.free[c] = heap.free[c]
      BY <2>1, <1>3, <1>4, MarkAllocatedSound
  <2>3. b + Header + size <= heap'.p_next[b]
    <3>1. heap.p_next[b] # Tail
        BY <1>1, <1>2, <1>7, <1>11 DEF Spared, Splits, Header
    <3>2. heap.p_next[b] = b + heap.size[b] + Header
        BY <3>1, <1>3, <1>4 DEF TiledHeap, End
    <3>3. heap.size[b] >= n
        BY <1>2 DEF Fits
    <3>. QED BY <3>2, <3>3, <2>2, <1>1, <1>7 DEF Addresses, Header
  <2>4. Coalesced'
    <3> SUFFICES ASSUME NEW c \in heap'.blocks \ {Tail}, heap'.free[c] = 1, heap'.free[heap'.p_next[c]] = 1
                 PROVE  FALSE
        BY DEF Coalesced, CoalescedHeap
    <3>1. c \in heap.blocks \ {Tail} /\ heap.free[c] = 1 /\ heap.p_next[c] \in heap.blocks
        BY <2>2, <1>3 DEF TiledHeap
    <3>2. heap.free[heap.p_next[c]] = 1
        BY <3>1, <2>2
    <3>. QED BY <3>1, <3>2, <1>3 DEF Coalesced, CoalescedHeap
  <2>. QED BY <2>2, <2>3, <2>4, <1>8, <1>9
<1>. QED BY <1>8, <1>10, <1>11

\* Of a block in use, or of anything else.
LEMMA FreeStep ==
    ASSUME IInv, NEW b \in Addresses \ {0, Tail}, Free(b)
    PROVE  IInv' /\ (given' = given => heap' = heap)
<1>1. /\ Sound(heap) /\ HeapType(heap) /\ TiledHeap(heap) /\ Coalesced /\ GivenAreKept /\ UsedAreGiven
      /\ given \subseteq [block : Addresses, size : Nat]
    BY DEF IInv, Sound, TypeOK
<1>2. given' = {g \in given : g.block # b}
    BY DEF Free
<1>3. CASE b \in heap.blocks
  <2>1. heap' = JoinPrev(JoinNext(MarkFree(heap, b), b), b)
      BY <1>3 DEF Free
  <2>2. Sound(heap') /\ CoalescedHeap(heap') /\ Untouched(heap, heap', b)
      BY <2>1, <1>1, <1>3, FreeSound DEF Coalesced
  <2>3. GivenAreKept'
    <3>1. ASSUME NEW g \in given'
          PROVE  /\ g.block \in heap'.blocks \ {0, Tail}
                 /\ heap'.free[g.block] = 0
                 /\ g.block + Header + g.size <= heap'.p_next[g.block]
        BY <1>1, <1>2, <2>2 DEF GivenAreKept, Untouched
    <3>. QED BY <3>1, <1>1, <1>2 DEF GivenAreKept
  <2>4. UsedAreGiven'
    <3> SUFFICES ASSUME NEW c \in heap'.blocks \ {0, Tail}, heap'.free[c] = 0
                 PROVE  \E g \in given' : g.block = c
        BY DEF UsedAreGiven
    <3>1. c \in heap.blocks \ {0, Tail} /\ heap.free[c] = 0 /\ c # b
        BY <2>2 DEF Untouched
    <3>. QED BY <3>1, <1>1, <1>2 DEF UsedAreGiven
  <2>5. ASSUME given' = given PROVE heap' = heap
    <3>1. \A g \in given : g.block # b
        BY <2>5, <1>2
    <3>2. heap.free \in [Addresses -> {0, 1}] /\ heap.free[b] = 1
        BY <3>1, <1>1, <1>3 DEF UsedAreGiven, HeapType
    <3>3. MarkFree(heap, b) = heap
      <4>1. [heap.free EXCEPT ![b] = 1] = heap.free
          BY <3>2
      <4>2. MarkFree(heap, b) = [heap EXCEPT !.free = [heap.free EXCEPT ![b] = 1]]
          BY DEF MarkFree
      <4>. QED BY <4>1, <4>2, <1>1 DEF HeapType
    <3>4. heap.free[heap.p_next[b]] # 1
        BY <3>2, <1>1, <1>3 DEF Coalesced, CoalescedHeap
    <3>5. heap.free[heap.p_prev[b]] # 1
        BY <3>2, <1>1, <1>3 DEF Coalesced, CoalescedHeap, TiledHeap
    <3>. QED BY <2>1, <3>3, <3>4, <3>5 DEF JoinNext, JoinPrev
  <2>. QED BY <2>2, <2>3, <2>4, <2>5, <1>1, <1>2 DEF IInv, TypeOK, Sound, Coalesced
<1>4. CASE b \notin heap.blocks
  <2>1. heap' = heap
      BY <1>4 DEF Free
  <2>2. given' = given
      BY <1>1, <1>2, <1>4 DEF GivenAreKept
  <2>. QED BY <2>1, <2>2 DEF IInv, TypeOK, Sound, GivenAreKept, Coalesced, UsedAreGiven
<1>. QED BY <1>3, <1>4

LEMMA NextIInv == ASSUME SparesTail, IInv, [Next]_vars PROVE IInv'
<1>1. CASE \E size \in Requests : Malloc(size)
    BY <1>1, MallocStep
<1>2. CASE \E b \in Addresses \ {0, Tail} : Free(b)
    BY <1>2, FreeStep
<1>3. CASE UNCHANGED vars
    BY <1>3 DEF vars, IInv, TypeOK, Sound, GivenAreKept, Coalesced, UsedAreGiven
<1>. QED BY <1>1, <1>2, <1>3 DEF Next

LEMMA SpecIInv == ASSUME SparesTail PROVE Spec => []IInv
    BY InitIInv, NextIInv, PTL DEF Spec

\* The heap is well-formed, of whatever size (kernel_heap.c:37-83,
\* kernel_heap_malloc.c:23-58, 87-111).
THEOREM HeapTypeOK == ASSUME SparesTail PROVE Spec => []TypeOK
<1>1. IInv => TypeOK
    BY DEF IInv
<1>. QED BY <1>1, SpecIInv, PTL

\* Every unit of the heap belongs to exactly one block at all times.
THEOREM HeapIsTiled == ASSUME SparesTail PROVE Spec => []Tiled
<1>1. IInv => Tiled
    BY DEF IInv, Sound, Tiled
<1>. QED BY <1>1, SpecIInv, PTL

\* No two clients get the same memory, and nobody's is reused before it is freed.
THEOREM ClientsKeepTheirBlocks == ASSUME SparesTail PROVE Spec => []GivenAreKept
<1>1. IInv => GivenAreKept
    BY DEF IInv
<1>. QED BY <1>1, SpecIInv, PTL

\* Free neighbours are always joined.
THEOREM FreeNeighboursAreJoined == ASSUME SparesTail PROVE Spec => []Coalesced
<1>1. IInv => Coalesced
    BY DEF IInv
<1>. QED BY <1>1, SpecIInv, PTL

\* When all was freed the whole heap is one block again.
THEOREM HeapNeverLeaks == ASSUME SparesTail PROVE Spec => []NothingLeaks
<1>1. ASSUME IInv PROVE NothingLeaks
  <2> SUFFICES ASSUME given = {}
               PROVE  /\ heap.blocks = {0, Header, Tail}
                      /\ heap.size[Header] = Tail - Header
                      /\ heap.free[Header] = 1
      BY DEF NothingLeaks
  <2>1. TiledHeap(heap) /\ HeapType(heap) /\ CoalescedHeap(heap) /\ UsedAreGiven /\ heap.size[0] = 0
      BY <1>1 DEF IInv, Sound, Coalesced
  <2>2. heap.blocks \subseteq 0..Tail /\ Tail \in heap.blocks /\ 0 \in heap.blocks \ {Tail} /\ Tail \in Nat /\ Tail >= 2 * Header
      BY <2>1, TailAssumption DEF HeapType, TiledHeap, Addresses, Header
  <2>3. \A b \in heap.blocks \ {0, Tail} : heap.free[b] = 1
      BY <2>1, <2>2 DEF UsedAreGiven, HeapType, Addresses
  <2> DEFINE first == heap.p_next[0]
             second == heap.p_next[first]
  <2>4. first = IF first = Tail THEN 0 ELSE Header
      BY <2>1, <2>2 DEF TiledHeap, End, Header
  <2>5. first = Header /\ first # 0 /\ first # Tail
      BY <2>2, <2>4 DEF Header
  <2>6. first \in heap.blocks /\ \A c \in heap.blocks : c <= 0 \/ first <= c
      BY <2>1, <2>2 DEF TiledHeap
  <2>7. second \in heap.blocks /\ first + Header <= second /\ second = End(heap, first)
        /\ \A c \in heap.blocks : c <= first \/ second <= c
      BY <2>1, <2>5, <2>6 DEF TiledHeap
  <2>8. heap.free[first] = 1
      BY <2>3, <2>5, <2>6
  <2>9. second = Tail
    <3>1. heap.free[second] # 1
        BY <2>1, <2>5, <2>6, <2>8 DEF CoalescedHeap
    <3>2. second # 0
        BY <2>5, <2>7 DEF Header
    <3>. QED BY <2>3, <2>7, <3>1, <3>2
  <2>10. heap.size[Header] = Tail - Header
    <3>1. heap.size[first] \in Nat
        BY <2>1, <2>6 DEF HeapType
    <3>. QED BY <3>1, <2>2, <2>5, <2>7, <2>9 DEF End, Header
  <2> HIDE DEF first, second
  <2>11. ASSUME NEW c \in heap.blocks PROVE c \in {0, first, Tail}
      BY <2>2, <2>5, <2>6, <2>7, <2>9 DEF Header
  <2>. QED BY <2>2, <2>5, <2>6, <2>8, <2>10, <2>11
<1>. QED BY <1>1, SpecIInv, PTL

\* Freeing what is not in use changes nothing.
THEOREM FreeingTwice == ASSUME SparesTail PROVE Spec => FreeingTwiceIsHarmless
<1>1. ASSUME IInv, [Next]_vars PROVE [given' = given => UNCHANGED heap]_vars
  <2>1. CASE \E size \in Requests : Malloc(size)
      BY <1>1, <2>1, MallocStep
  <2>2. CASE \E b \in Addresses \ {0, Tail} : Free(b)
      BY <1>1, <2>2, FreeStep
  <2>. QED BY <1>1, <2>1, <2>2 DEF Next
<1>. QED BY <1>1, SpecIInv, PTL DEF Spec, FreeingTwiceIsHarmless

-----------------------------------------------------------------------------
LEMMA SmallestExists ==
    ASSUME NEW T, T \subseteq Nat, T # {}
    PROVE  \E x \in T : \A y \in T : x <= y
<1>1. PICK x \in T : \A y \in T : ~(<<y, x>> \in OpToRel(<, Nat))
    BY NatLessThanWellFounded, WFMin, Zenon
<1>2. ASSUME NEW y \in T PROVE x <= y
  <2> DEFINE pair == <<y, x>>
  <2>1. pair \in Nat \X Nat /\ pair[1] = y /\ pair[2] = x /\ x \in Nat /\ y \in Nat
      OBVIOUS
  <2>2. pair \notin {ss \in Nat \X Nat : ss[1] < ss[2]}
      BY <1>1 DEF OpToRel
  <2> HIDE DEF pair
  <2>. QED BY <2>1, <2>2
<1>. QED BY <1>2

LEMMA LargestExists ==
    ASSUME NEW T, NEW bound \in Nat, T \subseteq 0..bound, T # {}
    PROVE  \E x \in T : \A y \in T : y <= x
<1> DEFINE below == {bound - x : x \in T}
<1>1. below \subseteq Nat /\ below # {}
    OBVIOUS
<1>2. PICK d \in below : \A e \in below : d <= e
    BY <1>1, SmallestExists
<1>3. PICK x \in T : d = bound - x
    BY <1>2
<1>4. ASSUME NEW y \in T PROVE y <= x
  <2>1. bound - y \in below
      OBVIOUS
  <2>. QED BY <1>2, <1>3, <2>1
<1>. QED BY <1>4

\* A size is no larger than the heap (kernel_heap.c:52).
LEMMA SizesBounded ==
    ASSUME NEW h, Sound(h), NEW b \in h.blocks \ {Tail}
    PROVE  h.size[b] \in 0..Tail
<1>1. h.size[b] \in Nat /\ b \in Nat
  <2>1. h.blocks \subseteq Addresses /\ h.size \in [Addresses -> Nat]
      BY DEF Sound, HeapType
  <2>2. b \in Addresses
      BY <2>1
  <2>. QED BY <2>1, <2>2, TailAssumption DEF Addresses
<1>2. h.p_next[b] \in 0..Tail
    BY DEF Sound, HeapType, TiledHeap, Addresses
<1>3. h.p_next[b] = b + h.size[b] + (IF h.p_next[b] = Tail THEN 0 ELSE Header)
    BY DEF Sound, TiledHeap, End
<1>. QED BY <1>1, <1>2, <1>3, TailAssumption DEF Header

\* find_worst_fit always ends with some block (kernel_heap_malloc.c:69-79).
LEMMA CandidateExists ==
    ASSUME NEW h, Sound(h), h.p_next[0] # Tail
    PROVE  \E b \in h.blocks \ {0, Tail} : IsLargest(h, b)
<1> DEFINE against == {h.p_next[0]} \cup {c \in h.blocks \ {0, Tail} : h.free[c] = 1}
           sizes == {h.size[c] : c \in against}
<1>1. against \subseteq h.blocks \ {0, Tail} /\ against # {}
  <2>1. h.p_next[0] \in h.blocks /\ 0 + Header <= h.p_next[0]
      BY TailAssumption DEF Sound, TiledHeap, Header
  <2>. QED BY <2>1 DEF Header
<1>2. \A c \in against : c \in 0..Tail
    BY <1>1 DEF Sound, HeapType, Addresses
<1>3. sizes \subseteq 0..Tail /\ sizes # {} /\ Tail \in Nat
    BY <1>1, SizesBounded, TailAssumption
<1>4. PICK n \in sizes : \A k \in sizes : k <= n
    BY <1>3, LargestExists, Zenon
<1> DEFINE longest == {c \in against : h.size[c] = n}
<1>5. longest \subseteq 0..Tail /\ longest # {}
    BY <1>2, <1>4
<1>6. PICK b \in longest : \A c \in longest : c <= b
    BY <1>3, <1>5, LargestExists, Zenon
<1>7. ASSUME NEW c \in against
      PROVE  h.size[c] < h.size[b] \/ (h.size[c] = h.size[b] /\ c <= b)
  <2>1. h.size[c] \in sizes /\ h.size[c] <= n /\ h.size[b] = n
      BY <1>4, <1>6
  <2>. QED BY <1>3, <1>6, <2>1
<1>. QED BY <1>1, <1>6, <1>7 DEF IsLargest

\* malloc fails beside a free block that is long enough only for the first block's sake.
THEOREM MallocFailsOnlyForFirst == ASSUME SparesTail PROVE Spec => []FailsOnlyForFirst
<1>1. ASSUME IInv PROVE FailsOnlyForFirst
  <2> DEFINE first == heap.p_next[0]
  <2> SUFFICES ASSUME NEW size \in Requests, NEW b \in heap.blocks,
                      heap.free[b] = 1, heap.size[b] >= Align(size),
                      ~(heap.free[first] = 0 /\ heap.size[first] > heap.size[b])
               PROVE  \E c \in heap.blocks : Fits(heap, c, Align(size))
      BY DEF FailsOnlyForFirst
  <2>1. Sound(heap) /\ TiledHeap(heap) /\ HeapType(heap) /\ b \in heap.blocks \ {0, Tail}
      BY <1>1 DEF IInv, Sound
  <2>2. first # Tail
    <3>1. \A c \in heap.blocks : c <= 0 \/ first <= c
        BY <2>1, TailAssumption DEF TiledHeap, Header
    <3>. QED BY <2>1, <3>1, TailAssumption DEF HeapType, Addresses
  <2>3. PICK c \in heap.blocks \ {0, Tail} : IsLargest(heap, c)
      BY <2>1, <2>2, CandidateExists
  <2>4. heap.size[b] <= heap.size[c] /\ (c = first \/ heap.free[c] = 1)
    <3>1. heap.size[b] \in Nat /\ heap.size[c] \in Nat
        BY <2>1, <2>3 DEF HeapType
    <3>2. b \in {first} \cup {d \in heap.blocks \ {0, Tail} : heap.free[d] = 1}
        BY <2>1
    <3>. QED BY <2>3, <3>1, <3>2 DEF IsLargest
  <2>5. heap.free[c] = 1
    <3> SUFFICES ASSUME heap.free[c] # 1, c = first PROVE FALSE
        BY <2>4
    <3>1. heap.free[c] = 0 /\ heap.size[c] = heap.size[b]
        BY <2>1, <2>3, <2>4 DEF HeapType
    <3>2. b <= c
        BY <2>1, <2>3, <3>1 DEF IsLargest, HeapType, Addresses
    <3>3. first <= b
        BY <2>1, TailAssumption DEF TiledHeap, HeapType, Addresses, Header
    <3>4. b = c
        BY <2>1, <2>3, <3>2, <3>3 DEF HeapType, Addresses
    <3>. QED BY <3>1, <3>4
  <2>6. heap.size[c] >= Align(size)
    <3>1. Align(size) \in Nat
        BY RequestsAssumption DEF Align
    <3>2. heap.size[b] \in Nat /\ heap.size[c] \in Nat
        BY <2>1, <2>3 DEF HeapType
    <3>. QED BY <2>4, <3>1, <3>2
  <2>. QED BY <2>3, <2>5, <2>6 DEF Fits
<1>. QED BY <1>1, SpecIInv, PTL

=============================================================================

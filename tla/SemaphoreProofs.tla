--------------------------- MODULE SemaphoreProofs --------------------------
(***************************************************************************)
(* For any threads, semaphores and counts, the ready list and the queues   *)
(* of all semaphores stay apart although they share one next field, every  *)
(* count is exact, and every lock implements SemaphoreQueue.               *)
(*                                                                         *)
(* A linked list is described by the sequence of its threads, so that an   *)
(* operation on pointers is an Append or a Tail.                           *)
(***************************************************************************)
EXTENDS Semaphore, FiniteSetTheorems, WellFoundedInduction, TLAPS

Elements(s) == {s[i] : i \in 1..Len(s)}

\* From first on, next leads through exactly the threads of s.
Chained(m, first, s) ==
    /\ s \in Seq(Threads)
    /\ first = IF s = <<>> THEN NULL ELSE s[1]
    /\ \A i \in 1..(Len(s) - 1) : m.next[s[i]] = s[i + 1]
    /\ s # <<>> => m.next[s[Len(s)]] = NULL
    /\ \A i, j \in 1..Len(s) : s[i] = s[j] => i = j

\* The ready list holds the threads of s.
ReadyIs(m, s) ==
    /\ Chained(m, m.list["threads_ready"].head, s)
    /\ m.list["threads_ready"].size = Len(s)
    /\ m.list["threads_ready"].tail = IF s = <<>> THEN NULL ELSE s[Len(s)]

-----------------------------------------------------------------------------
(* Sequences *)

LEMMA SequenceFacts ==
    ASSUME NEW s \in Seq(Threads)
    PROVE  /\ Len(s) \in Nat /\ (s = <<>> <=> Len(s) = 0)
           /\ \A i \in 1..Len(s) : s[i] \in Threads
           /\ Elements(s) \subseteq Threads
           /\ Elements(s) = {} <=> s = <<>>
<1>1. /\ Len(s) \in Nat /\ (s = <<>> <=> Len(s) = 0)
      /\ \A i \in 1..Len(s) : s[i] \in Threads
    OBVIOUS
<1>2. Len(s) # 0 => 1 \in 1..Len(s)
    BY <1>1
<1>3. Len(s) = 0 => 1..Len(s) = {}
    BY <1>1
<1>. QED BY <1>1, <1>2, <1>3 DEF Elements

LEMMA AppendFacts ==
    ASSUME NEW s \in Seq(Threads), NEW t \in Threads
    PROVE  /\ Append(s, t) \in Seq(Threads) /\ Append(s, t) # <<>>
           /\ Len(Append(s, t)) = Len(s) + 1
           /\ \A i \in 1..Len(s) : Append(s, t)[i] = s[i]
           /\ Append(s, t)[Len(s) + 1] = t
           /\ Elements(Append(s, t)) = Elements(s) \cup {t}
<1>1. /\ Append(s, t) \in Seq(Threads) /\ Append(s, t) # <<>>
      /\ Len(Append(s, t)) = Len(s) + 1 /\ Len(s) \in Nat
      /\ \A i \in 1..Len(s) : Append(s, t)[i] = s[i]
      /\ Append(s, t)[Len(s) + 1] = t
    OBVIOUS
<1>2. /\ 1..(Len(s) + 1) = 1..Len(s) \cup {Len(s) + 1}
    BY <1>1
<1>3. Elements(Append(s, t)) = {Append(s, t)[i] : i \in 1..Len(s) \cup {Len(s) + 1}}
    BY <1>1, <1>2 DEF Elements
<1>4. {Append(s, t)[i] : i \in 1..Len(s) \cup {Len(s) + 1}} = {s[i] : i \in 1..Len(s)} \cup {t}
    BY <1>1
<1>. QED BY <1>1, <1>3, <1>4 DEF Elements

LEMMA TailFacts ==
    ASSUME NEW s \in Seq(Threads), s # <<>>,
           \A i, j \in 1..Len(s) : s[i] = s[j] => i = j
    PROVE  /\ Tail(s) \in Seq(Threads)
           /\ Len(Tail(s)) = Len(s) - 1
           /\ Tail(s) = <<>> <=> Len(s) = 1
           /\ \A i \in 1..(Len(s) - 1) : Tail(s)[i] = s[i + 1]
           /\ \A i, j \in 1..Len(Tail(s)) : Tail(s)[i] = Tail(s)[j] => i = j
           /\ Elements(Tail(s)) = Elements(s) \ {s[1]}
           /\ s[1] \in Elements(s)
<1>1. /\ Len(s) \in Nat /\ Len(s) # 0
      /\ Tail(s) \in Seq(Threads)
      /\ Len(Tail(s)) = Len(s) - 1
      /\ \A i \in 1..(Len(s) - 1) : Tail(s)[i] = s[i + 1]
    OBVIOUS
<1>2. Tail(s) = <<>> <=> Len(s) = 1
  <2>1. Tail(s) = <<>> <=> Len(Tail(s)) = 0
      BY <1>1
  <2>. QED BY <1>1, <2>1
<1>3. \A i \in 1..(Len(s) - 1) : i + 1 \in 1..Len(s)
    BY <1>1
<1>4. ASSUME NEW i \in 1..Len(Tail(s)), NEW j \in 1..Len(Tail(s)), Tail(s)[i] = Tail(s)[j]
      PROVE  i = j
  <2>1. s[i + 1] = s[j + 1] /\ i + 1 \in 1..Len(s) /\ j + 1 \in 1..Len(s)
      BY <1>1, <1>3, <1>4
  <2>2. i + 1 = j + 1
      BY <2>1
  <2>. QED BY <1>1, <2>2
<1>5. ASSUME NEW x \in Elements(Tail(s)) PROVE x \in Elements(s) \ {s[1]}
  <2>1. PICK i \in 1..(Len(s) - 1) : x = s[i + 1]
      BY <1>1, <1>5 DEF Elements
  <2>2. i + 1 \in 1..Len(s) /\ 1 \in 1..Len(s) /\ i + 1 # 1
      BY <1>1, <2>1
  <2>. QED BY <2>1, <2>2 DEF Elements
<1>6. ASSUME NEW x \in Elements(s) \ {s[1]} PROVE x \in Elements(Tail(s))
  <2>1. PICK i \in 1..Len(s) : x = s[i] /\ i # 1
      BY <1>6 DEF Elements
  <2>2. i - 1 \in 1..(Len(s) - 1) /\ (i - 1) + 1 = i
      BY <1>1, <2>1
  <2>3. Tail(s)[i - 1] = x
      BY <1>1, <2>1, <2>2
  <2>. QED BY <1>1, <2>2, <2>3 DEF Elements
<1>7. s[1] \in Elements(s)
  <2>1. 1 \in 1..Len(s)
      BY <1>1
  <2>. QED BY <2>1 DEF Elements
<1>. QED BY <1>1, <1>2, <1>4, <1>5, <1>6, <1>7

LEMMA LastFacts ==
    ASSUME NEW s \in Seq(Threads), s # <<>>
    PROVE  Len(s) \in 1..Len(s) /\ s[Len(s)] \in Elements(s) /\ s[Len(s)] \in Threads
<1>1. Len(s) \in 1..Len(s)
    OBVIOUS
<1>. QED BY <1>1 DEF Elements

-----------------------------------------------------------------------------
(* The linked lists of ThreadList *)

\* A chain is where its nodes' next fields are.
LEMMA ChainKept ==
    ASSUME NEW m, NEW n, NEW first, NEW s, Chained(m, first, s),
           \A t \in Elements(s) : n.next[t] = m.next[t]
    PROVE  Chained(n, first, s)
<1>1. s \in Seq(Threads) /\ Len(s) \in Nat
    BY DEF Chained
<1>2. \A i \in 1..Len(s) : n.next[s[i]] = m.next[s[i]]
    BY DEF Elements
<1>3. \A i \in 1..(Len(s) - 1) : i \in 1..Len(s)
    BY <1>1
<1>4. s # <<>> => Len(s) \in 1..Len(s)
    BY <1>1, LastFacts
<1>. QED BY <1>2, <1>3, <1>4 DEF Chained

\* Without its first thread.
LEMMA ChainTail ==
    ASSUME NEW m, NEW first, NEW s, Chained(m, first, s), s # <<>>
    PROVE  Chained(m, m.next[first], Tail(s))
<1>1. s \in Seq(Threads) /\ \A i, j \in 1..Len(s) : s[i] = s[j] => i = j
    BY DEF Chained
<1>2. /\ Tail(s) \in Seq(Threads) /\ Len(Tail(s)) = Len(s) - 1 /\ Len(s) \in Nat /\ Len(s) # 0
      /\ Tail(s) = <<>> <=> Len(s) = 1
      /\ \A i \in 1..(Len(s) - 1) : Tail(s)[i] = s[i + 1]
      /\ \A i, j \in 1..Len(Tail(s)) : Tail(s)[i] = Tail(s)[j] => i = j
    BY <1>1, TailFacts, SequenceFacts
<1> DEFINE u == Tail(s)
<1>3. m.next[first] = IF u = <<>> THEN NULL ELSE u[1]
  <2>1. first = s[1]
      BY DEF Chained
  <2>2. CASE Len(s) = 1
      BY <1>2, <2>1, <2>2 DEF Chained
  <2>3. CASE Len(s) # 1
    <3>1. 1 \in 1..(Len(s) - 1)
        BY <1>2, <2>3
    <3>. QED BY <1>2, <2>1, <2>3, <3>1 DEF Chained
  <2>. QED BY <2>2, <2>3
<1>4. ASSUME NEW i \in 1..(Len(u) - 1) PROVE m.next[u[i]] = u[i + 1]
  <2>1. i \in 1..(Len(s) - 1) /\ i + 1 \in 1..(Len(s) - 1)
      BY <1>2, <1>4
  <2>. QED BY <1>2, <2>1 DEF Chained
<1>5. ASSUME u # <<>> PROVE m.next[u[Len(u)]] = NULL
  <2>1. Len(s) - 1 \in 1..(Len(s) - 1) /\ (Len(s) - 1) + 1 = Len(s)
      BY <1>2, <1>5
  <2>2. u[Len(u)] = s[Len(s)]
      BY <1>2, <2>1
  <2>. QED BY <2>2 DEF Chained
<1>. QED BY <1>2, <1>3, <1>4, <1>5 DEF Chained

\* A thread t that is on no list is linked behind the last one.
LEMMA ChainAppend ==
    ASSUME NEW m, NEW n, NEW first, NEW s, NEW t \in Threads,
           Chained(m, first, s), t \notin Elements(s),
           n.next[t] = NULL,
           s # <<>> => n.next[s[Len(s)]] = t,
           \A u \in Elements(s) : s # <<>> /\ u # s[Len(s)] => n.next[u] = m.next[u]
    PROVE  Chained(n, IF s = <<>> THEN t ELSE first, Append(s, t))
<1>1. s \in Seq(Threads) /\ \A i, j \in 1..Len(s) : s[i] = s[j] => i = j
    BY DEF Chained
<1>2. Len(s) \in Nat /\ (s = <<>> <=> Len(s) = 0) /\ \A i \in 1..Len(s) : s[i] # t
    BY <1>1, SequenceFacts DEF Elements
<1> DEFINE u == Append(s, t)
<1>3. /\ u \in Seq(Threads) /\ Len(u) = Len(s) + 1 /\ u # <<>>
      /\ \A i \in 1..Len(s) : u[i] = s[i]
      /\ u[Len(s) + 1] = t
    BY <1>1, AppendFacts
<1> HIDE DEF u
<1>4. (IF s = <<>> THEN t ELSE first) = u[1]
  <2>1. CASE s = <<>>
      BY <1>2, <1>3, <2>1
  <2>2. CASE s # <<>>
    <3>1. 1 \in 1..Len(s)
        BY <1>2, <2>2
    <3>. QED BY <1>3, <2>2, <3>1 DEF Chained
  <2>. QED BY <2>1, <2>2
<1>5. ASSUME NEW i \in 1..(Len(u) - 1) PROVE n.next[u[i]] = u[i + 1]
  <2>1. i \in 1..Len(s)
      BY <1>2, <1>3
  <2>2. CASE i = Len(s)
    <3>1. s # <<>>
        BY <1>2, <2>1
    <3>. QED BY <1>3, <2>1, <2>2, <3>1
  <2>3. CASE i # Len(s)
    <3>1. i \in 1..(Len(s) - 1) /\ i + 1 \in 1..Len(s) /\ Len(s) \in 1..Len(s) /\ s # <<>>
        BY <1>2, <2>1, <2>3
    <3>2. s[i] # s[Len(s)] /\ s[i] \in Elements(s)
        BY <1>1, <2>1, <2>3, <3>1 DEF Elements
    <3>3. n.next[s[i]] = m.next[s[i]] /\ m.next[s[i]] = s[i + 1]
        BY <3>1, <3>2 DEF Chained
    <3>. QED BY <1>3, <2>1, <3>1, <3>3
  <2>. QED BY <2>2, <2>3
<1>6. ASSUME NEW i \in 1..Len(u), NEW j \in 1..Len(u), u[i] = u[j] PROVE i = j
  <2>1. \A k \in 1..Len(u) : k \in 1..Len(s) \/ k = Len(s) + 1
      BY <1>2, <1>3
  <2>. QED BY <1>1, <1>2, <1>3, <1>6, <2>1
<1>7. Chained(n, u[1], u)
    BY <1>3, <1>5, <1>6 DEF Chained
<1>. QED BY <1>4, <1>7 DEF u

\* A list is not longer than there are threads, which is where a walk gives up.
LEMMA ChainLength ==
    ASSUME NEW s \in Seq(Threads), \A i, j \in 1..Len(s) : s[i] = s[j] => i = j
    PROVE  Len(s) <= Cardinality(Threads) /\ Cardinality(Threads) \in Nat
<1>1. Len(s) \in Nat /\ s \in [1..Len(s) -> Threads]
    OBVIOUS
<1>2. IsFiniteSet(Threads) /\ Cardinality(Threads) \in Nat
    BY ThreadsAssumption, FS_CardinalityType
<1>3. IsFiniteSet(1..Len(s)) /\ Cardinality(1..Len(s)) = Len(s)
  <2>1. 1 \in Int /\ Len(s) \in Int
      BY <1>1
  <2>2. /\ IsFiniteSet(1..Len(s))
        /\ Cardinality(1..Len(s)) = IF 1 > Len(s) THEN 0 ELSE Len(s) - 1 + 1
      BY <2>1, FS_Interval
  <2>. QED BY <1>1, <2>2
<1>4. ASSUME Cardinality(Threads) < Cardinality(1..Len(s)) PROVE FALSE
  <2>1. \E i, j \in 1..Len(s) : i # j /\ s[i] = s[j]
      BY <1>1, <1>2, <1>3, <1>4, FS_PigeonHole
  <2>. QED BY <2>1
<1>. QED BY <1>1, <1>2, <1>3, <1>4

LEMMA SmallestExists ==
    ASSUME NEW T, T \subseteq Nat, T # {}
    PROVE  \E x \in T : \A y \in T : x <= y
<1>1. PICK x \in T : \A y \in T : ~(<<y, x>> \in OpToRel(<, Nat))
    BY NatLessThanWellFounded, WFMin, Zenon
<1>2. ASSUME NEW y \in T PROVE x <= y
  <2> DEFINE pair == <<y, x>>
  <2>1. pair \in Nat \X Nat /\ pair[1] = y /\ pair[2] = x /\ x \in Nat /\ y \in Nat
      OBVIOUS
  <2>2. pair \notin {ss \in Nat \X Nat : ss[1] < ss[2]}
      BY <1>1 DEF OpToRel
  <2> HIDE DEF pair
  <2>. QED BY <2>1, <2>2
<1>. QED BY <1>2

\* A walk meets the threads of a chain in order, and then NULL.
LEMMA WalkMeetsChain ==
    ASSUME NEW m, NEW first, NEW s, Chained(m, first, s)
    PROVE  WalkFrom(m, first) =
               [n \in 0..Cardinality(Threads) |-> IF n < Len(s) THEN s[n + 1] ELSE NULL]
<1> DEFINE N == Cardinality(Threads)
           Met(n) == IF n < Len(s) THEN s[n + 1] ELSE NULL
           Step(p) == IF p = NULL THEN NULL ELSE m.next[p]
           at[n \in 0..N] == IF n = 0 THEN first
                             ELSE IF at[n - 1] = NULL THEN NULL ELSE m.next[at[n - 1]]
<1>1. /\ s \in Seq(Threads) /\ \A i, j \in 1..Len(s) : s[i] = s[j] => i = j
      /\ Len(s) \in Nat /\ (s = <<>> <=> Len(s) = 0)
      /\ \A i \in 1..Len(s) : s[i] \in Threads /\ s[i] # NULL
    BY SequenceFacts, ThreadsAssumption DEF Chained
<1>2. N \in Nat /\ Len(s) <= N
    BY <1>1, ChainLength
<1>3. Met(0) = first
    BY <1>1 DEF Chained
<1>4. ASSUME NEW n \in Nat, n # 0 PROVE Met(n) = Step(Met(n - 1))
  <2>1. n - 1 \in Nat /\ (n - 1) + 1 = n
      BY <1>4
  <2>2. CASE n < Len(s)
    <3>1. n \in 1..(Len(s) - 1) /\ n \in 1..Len(s) /\ n - 1 < Len(s)
        BY <1>1, <1>4, <2>2
    <3>. QED BY <1>1, <2>1, <2>2, <3>1 DEF Chained
  <2>3. CASE n = Len(s)
    <3>1. n \in 1..Len(s) /\ n - 1 < Len(s) /\ ~(n < Len(s)) /\ s # <<>>
        BY <1>1, <1>4, <2>3
    <3>. QED BY <1>1, <2>1, <2>3, <3>1 DEF Chained
  <2>4. CASE n > Len(s)
    <3>1. ~(n < Len(s)) /\ ~(n - 1 < Len(s))
        BY <1>1, <1>4, <2>4
    <3>. QED BY <3>1
  <2>. QED BY <1>1, <1>4, <2>2, <2>3, <2>4
<1> HIDE DEF Met
<1>5. at = [n \in 0..N |-> IF n = 0 THEN first ELSE Step(at[n - 1])]
  <2> DEFINE R == [n \in 0..N |-> Met(n)]
  <2>1. R = [n \in 0..N |-> IF n = 0 THEN first ELSE Step(R[n - 1])]
    <3>1. ASSUME NEW n \in 0..N, n # 0 PROVE Met(n) = Step(R[n - 1])
      <4>1. n \in Nat /\ n - 1 \in 0..N
          BY <1>2, <3>1
      <4>2. Met(n) = Step(Met(n - 1))
          BY <1>4, <3>1, <4>1
      <4>. QED BY <4>1, <4>2
    <3>. QED BY <1>3, <3>1
  <2>. QED BY <2>1 DEF at
<1> HIDE DEF at
<1>6. ASSUME NEW n \in 0..N PROVE at[n] = Met(n)
  <2> DEFINE wrong == {k \in 0..N : at[k] # Met(k)}
  <2>1. SUFFICES ASSUME wrong # {} PROVE FALSE
      OBVIOUS
  <2>2. wrong \subseteq Nat
      BY <1>2
  <2>3. PICK k \in wrong : \A j \in wrong : k <= j
      BY <2>1, <2>2, SmallestExists
  <2>4. k \in 0..N /\ at[k] # Met(k)
      OBVIOUS
  <2>5. k # 0
      BY <1>2, <1>3, <1>5, <2>4
  <2>6. k \in Nat /\ k - 1 \in 0..N /\ ~(k <= k - 1)
      BY <1>2, <2>4, <2>5
  <2>7. at[k - 1] = Met(k - 1)
      BY <2>3, <2>6
  <2>8. at[k] = Step(Met(k - 1))
      BY <1>5, <2>4, <2>5, <2>7
  <2>. QED BY <1>4, <2>4, <2>5, <2>6, <2>8
<1>7. at = [n \in 0..N |-> Met(n)]
    BY <1>5, <1>6
<1>8. WalkFrom(m, first) = at
    BY DEF WalkFrom, at
<1>. QED BY <1>7, <1>8 DEF Met

\* ChainFrom reads a chain back.
LEMMA ChainReadsBack ==
    ASSUME NEW m, NEW first, NEW s, Chained(m, first, s)
    PROVE  ChainFrom(m, first) = s
<1> DEFINE N == Cardinality(Threads)
           walk == [n \in 0..N |-> IF n < Len(s) THEN s[n + 1] ELSE NULL]
           met == {n \in DOMAIN walk : walk[n] # NULL}
<1>1. /\ s \in Seq(Threads) /\ \A i, j \in 1..Len(s) : s[i] = s[j] => i = j
      /\ Len(s) \in Nat
      /\ \A i \in 1..Len(s) : s[i] \in Threads /\ s[i] # NULL
    BY SequenceFacts, ThreadsAssumption DEF Chained
<1>2. N \in Nat /\ Len(s) <= N
    BY <1>1, ChainLength
<1>3. WalkFrom(m, first) = walk
    BY WalkMeetsChain
<1>4. met = 0..(Len(s) - 1)
  <2>1. ASSUME NEW n \in met PROVE n \in 0..(Len(s) - 1)
      BY <1>1, <1>2, <2>1
  <2>2. ASSUME NEW n \in 0..(Len(s) - 1) PROVE n \in met
    <3>1. n \in 0..N /\ n < Len(s) /\ n + 1 \in 1..Len(s)
        BY <1>1, <1>2, <2>2
    <3>2. walk[n] = s[n + 1]
        BY <3>1
    <3>. QED BY <1>1, <3>1, <3>2
  <2>. QED BY <2>1, <2>2
<1>5. Cardinality(0..(Len(s) - 1)) = Len(s)
  <2>1. 0 \in Int /\ Len(s) - 1 \in Int
      BY <1>1
  <2>2. Cardinality(0..(Len(s) - 1)) = IF 0 > Len(s) - 1 THEN 0 ELSE (Len(s) - 1) - 0 + 1
      BY <2>1, FS_Interval
  <2>. QED BY <1>1, <2>2
<1>6. ChainFrom(m, first) = [n \in 1..Len(s) |-> walk[n - 1]]
  <2>1. Cardinality(met) = Len(s)
      BY <1>4, <1>5
  <2>2. ChainFrom(m, first) = [n \in 1..Cardinality(met) |-> walk[n - 1]]
    <3> HIDE DEF walk
    <3>. QED BY <1>3 DEF ChainFrom
  <2>. QED BY <2>1, <2>2
<1>7. ASSUME NEW n \in 1..Len(s) PROVE walk[n - 1] = s[n]
  <2>1. n - 1 \in 0..N /\ n - 1 < Len(s) /\ (n - 1) + 1 = n
      BY <1>1, <1>2, <1>7
  <2>. QED BY <2>1
<1>8. s = [n \in 1..Len(s) |-> s[n]]
    BY <1>1
<1>. QED BY <1>6, <1>7, <1>8

\* What pop_front leaves.
Rest(s) == IF s = <<>> THEN s ELSE Tail(s)

\* list_thread_push_back puts a thread that is on no list at the end.
LEMMA PushBackAppends ==
    ASSUME NEW m \in MemoryType, NEW r, ReadyIs(m, r), NEW t \in Threads, t \notin Elements(r)
    PROVE  LET n == PushBack(m, "threads_ready", t)
           IN  /\ n \in MemoryType /\ n.fault = m.fault
               /\ ReadyIs(n, Append(r, t))
               /\ \A u \in Threads : u # t /\ u \notin Elements(r) => n.next[u] = m.next[u]
<1> DEFINE l == "threads_ready"
           n == PushBack(m, "threads_ready", t)
           last == m.list[l].tail
<1>1. /\ r \in Seq(Threads) /\ Len(r) \in Nat /\ (r = <<>> <=> Len(r) = 0)
      /\ NULL \notin Threads
    BY SequenceFacts, ThreadsAssumption DEF ReadyIs, Chained
<1>2. /\ m.list[l].head = IF r = <<>> THEN NULL ELSE r[1]
      /\ m.list[l].size = Len(r)
      /\ last = IF r = <<>> THEN NULL ELSE r[Len(r)]
      /\ Chained(m, m.list[l].head, r)
    BY DEF ReadyIs, Chained
<1>3. r # <<>> => r[Len(r)] \in Threads /\ r[Len(r)] \in Elements(r)
    BY <1>1, LastFacts
<1>4. last = NULL <=> r = <<>>
    BY <1>1, <1>2, <1>3
<1>5. /\ n \in MemoryType /\ n.fault = m.fault
      /\ n.list[l] = [head |-> IF r = <<>> THEN t ELSE m.list[l].head,
                      tail |-> t, size |-> Len(r) + 1]
      /\ n.next = IF r = <<>> THEN [m.next EXCEPT ![t] = NULL]
                  ELSE [m.next EXCEPT ![t] = NULL, ![last] = t]
  <2> DEFINE next == IF r = <<>> THEN [m.next EXCEPT ![t] = NULL]
                     ELSE [m.next EXCEPT ![t] = NULL, ![last] = t]
             fields == [head |-> IF r = <<>> THEN t ELSE m.list[l].head,
                        tail |-> t, size |-> Len(r) + 1]
  <2>1. n.fault = m.fault
      BY DEF PushBack, MemoryType
  <2>2. n.next = next
      BY <1>4 DEF PushBack, MemoryType
  <2>3. m.list[l] = [head |-> m.list[l].head, tail |-> m.list[l].tail, size |-> m.list[l].size]
      BY DEF MemoryType
  <2>4. n.list = [m.list EXCEPT ![l] = fields]
    <3>1. CASE r = <<>>
        BY <1>2, <1>4, <3>1 DEF PushBack, MemoryType
    <3>2. CASE r # <<>>
      <4>1. n.list = [m.list EXCEPT ![l].tail = t, ![l].size = @ + 1]
          BY <1>4, <3>2 DEF PushBack, MemoryType
      <4>. QED BY <1>2, <2>3, <3>2, <4>1 DEF MemoryType
    <3>. QED BY <3>1, <3>2
  <2>5. n = [list |-> n.list, next |-> n.next, fault |-> n.fault]
      BY DEF PushBack, MemoryType
  <2>6. n.next \in [Threads -> Threads \cup {NULL}]
      BY <2>2 DEF MemoryType
  <2>7. fields \in [head : Threads \cup {NULL}, tail : Threads \cup {NULL}, size : Nat]
      BY <1>1 DEF MemoryType
  <2>8. n.list \in [{l} -> [head : Threads \cup {NULL}, tail : Threads \cup {NULL}, size : Nat]]
      BY <2>4, <2>7 DEF MemoryType
  <2>9. n.list[l] = fields
      BY <2>4 DEF MemoryType
  <2> HIDE DEF n, next, fields
  <2>10. n \in MemoryType
      BY <2>1, <2>5, <2>6, <2>8 DEF MemoryType
  <2>. QED BY <2>1, <2>2, <2>9, <2>10 DEF next, fields
<1>6. /\ n.next[t] = NULL
      /\ r # <<>> => n.next[r[Len(r)]] = t
      /\ \A u \in Threads : u # t /\ (r = <<>> \/ u # r[Len(r)]) => n.next[u] = m.next[u]
    BY <1>2, <1>3, <1>5 DEF MemoryType
<1> HIDE DEF n
<1>7. Chained(n, n.list[l].head, Append(r, t))
  <2>1. \A u \in Elements(r) : u \in Threads /\ u # t
      BY <1>1, SequenceFacts
  <2>2. Chained(n, IF r = <<>> THEN t ELSE m.list[l].head, Append(r, t))
      BY <1>2, <1>6, <2>1, ChainAppend
  <2>. QED BY <1>5, <2>2
<1>8. Append(r, t) # <<>> /\ Len(Append(r, t)) = Len(r) + 1 /\ Append(r, t)[Len(r) + 1] = t
    BY <1>1, AppendFacts
<1>9. ReadyIs(n, Append(r, t))
    BY <1>5, <1>7, <1>8 DEF ReadyIs
<1>. QED BY <1>3, <1>5, <1>6, <1>9 DEF n

\* list_thread_pop_front takes the first thread and leaves its next field alone.
LEMMA PopFrontTakesFirst ==
    ASSUME NEW m \in MemoryType, NEW r, ReadyIs(m, r)
    PROVE  LET n == PopFront(m, "threads_ready")
           IN  /\ n \in MemoryType /\ n.fault = m.fault /\ n.next = m.next
               /\ ReadyIs(n, Rest(r))
               /\ FrontOf(m, "threads_ready") = IF r = <<>> THEN NULL ELSE r[1]
<1> DEFINE l == "threads_ready"
           n == PopFront(m, "threads_ready")
<1>1. /\ r \in Seq(Threads) /\ Len(r) \in Nat /\ (r = <<>> <=> Len(r) = 0)
      /\ \A i, j \in 1..Len(r) : r[i] = r[j] => i = j
      /\ \A i \in 1..Len(r) : r[i] \in Threads
      /\ NULL \notin Threads
    BY SequenceFacts, ThreadsAssumption DEF ReadyIs, Chained
<1>2. /\ m.list[l].head = IF r = <<>> THEN NULL ELSE r[1]
      /\ m.list[l].size = Len(r)
      /\ m.list[l].tail = IF r = <<>> THEN NULL ELSE r[Len(r)]
      /\ Chained(m, m.list[l].head, r)
    BY DEF ReadyIs, Chained
<1>3. FrontOf(m, l) = IF r = <<>> THEN NULL ELSE r[1]
    BY <1>1, <1>2 DEF FrontOf
<1>4. r # <<>> => r[1] \in Threads
  <2>1. r # <<>> => 1 \in 1..Len(r)
      BY <1>1
  <2>. QED BY <1>1, <2>1
<1>5. CASE r = <<>>
    BY <1>1, <1>2, <1>3, <1>5 DEF PopFront, Rest
<1>6. ASSUME r # <<>> PROVE n \in MemoryType /\ n.fault = m.fault /\ n.next = m.next /\ ReadyIs(n, Tail(r))
  <2>1. /\ Len(Tail(r)) = Len(r) - 1 /\ (Tail(r) = <<>> <=> Len(r) = 1)
        /\ \A i \in 1..(Len(r) - 1) : Tail(r)[i] = r[i + 1]
      BY <1>1, <1>6, TailFacts
  <2>2. Chained(m, m.next[m.list[l].head], Tail(r))
      BY <1>2, <1>6, ChainTail
  <2>3. CASE Len(r) = 1
    <3>1. n = [m EXCEPT !.list[l] = EmptyList]
        BY <1>2, <2>3 DEF PopFront
    <3>2. /\ n \in MemoryType /\ n.fault = m.fault /\ n.next = m.next
          /\ n.list[l] = [head |-> NULL, tail |-> NULL, size |-> 0]
        BY <3>1 DEF MemoryType, EmptyList
    <3>3. Tail(r) = <<>> /\ Len(Tail(r)) = 0
        BY <2>1, <2>3
    <3>4. Chained(n, NULL, Tail(r))
        BY <2>2, <3>2, <3>3 DEF Chained
    <3>. QED BY <3>2, <3>3, <3>4 DEF ReadyIs
  <2>4. CASE Len(r) # 1
    <3>1. ~(Len(r) < 1) /\ m.list[l].head = r[1] /\ m.list[l].head # NULL
        BY <1>1, <1>2, <1>4, <1>6
    <3>2. n = [m EXCEPT !.list[l].head = m.next[@], !.list[l].size = @ - 1]
        BY <1>2, <2>4, <3>1 DEF PopFront
    <3>3. Len(r) - 1 \in Nat
        BY <1>1, <3>1
    <3>4. /\ n \in MemoryType /\ n.fault = m.fault /\ n.next = m.next
          /\ n.list[l] = [head |-> m.next[m.list[l].head], tail |-> m.list[l].tail,
                          size |-> Len(r) - 1]
      <4>1. n.fault = m.fault /\ n.next = m.next
          BY <3>2 DEF MemoryType
      <4>2. n.list = [m.list EXCEPT ![l].head = m.next[@], ![l].size = @ - 1]
          BY <3>2 DEF MemoryType
      <4>3. n.list[l] = [head |-> m.next[m.list[l].head], tail |-> m.list[l].tail,
                         size |-> Len(r) - 1]
          BY <1>2, <4>2 DEF MemoryType
      <4>4. m.next[m.list[l].head] \in Threads \cup {NULL}
          BY <1>4, <1>6, <3>1 DEF MemoryType
      <4>5. n.list[l] \in [head : Threads \cup {NULL}, tail : Threads \cup {NULL}, size : Nat]
          BY <3>3, <4>3, <4>4 DEF MemoryType
      <4>6. n.list = [k \in {l} |-> n.list[l]]
          BY <4>2 DEF MemoryType
      <4>7. n = [list |-> n.list, next |-> n.next, fault |-> n.fault]
          BY <3>2 DEF MemoryType
      <4> HIDE DEF n
      <4>8. n.list \in [{l} -> [head : Threads \cup {NULL}, tail : Threads \cup {NULL},
                               size : Nat]]
          BY <4>5, <4>6
      <4>9. n \in MemoryType
          BY <4>1, <4>7, <4>8 DEF MemoryType
      <4>. QED BY <4>1, <4>3, <4>9
    <3>5. Chained(n, m.next[m.list[l].head], Tail(r))
        BY <2>2, <3>4 DEF Chained
    <3>6. Tail(r) # <<>> /\ Tail(r)[Len(Tail(r))] = r[Len(r)]
      <4>1. Len(r) - 1 \in 1..(Len(r) - 1) /\ (Len(r) - 1) + 1 = Len(r)
        <5>1. Len(r) \in Nat /\ Len(r) # 0 /\ Len(r) # 1
            BY <1>1, <1>6, <2>4
        <5>2. \A k \in Nat : k # 0 /\ k # 1 => k - 1 \in 1..(k - 1) /\ (k - 1) + 1 = k
            OBVIOUS
        <5>. QED BY <5>1, <5>2
      <4>. QED BY <2>1, <2>4, <4>1
    <3>. QED BY <1>2, <1>6, <2>1, <3>4, <3>5, <3>6 DEF ReadyIs
  <2>. QED BY <2>3, <2>4
<1>. QED BY <1>3, <1>5, <1>6 DEF Rest

\* schedule takes the first ready thread and queues the one that had the CPU again if
\* it is still RUNNING: the RUNNING threads stay the ready ones and the current one.
LEMMA DispatchTurns ==
    ASSUME NEW m \in MemoryType, NEW r, ReadyIs(m, r),
           NEW st, NEW cur \in Threads, cur \notin Elements(r),
           \A t \in Elements(r) : st[t] = "running",
           \A t \in Threads : st[t] = "running" => t = cur \/ t \in Elements(r)
    PROVE  LET d == Dispatch(m, st, cur)
           IN  /\ d.mem \in MemoryType /\ d.mem.fault = m.fault
               /\ d.current \in Threads \cup {NULL}
               /\ \A u \in Threads : st[u] # "running" => d.mem.next[u] = m.next[u]
               /\ \E q \in Seq(Threads) :
                      /\ ReadyIs(d.mem, q) /\ d.current \notin Elements(q)
                      /\ \A t \in Threads : st[t] = "running" <=> t = d.current \/ t \in Elements(q)
<1> DEFINE popped == PopFront(m, "threads_ready")
           d == Dispatch(m, st, cur)
<1>1. /\ r \in Seq(Threads) /\ \A i, j \in 1..Len(r) : r[i] = r[j] => i = j
      /\ NULL \notin Threads /\ Elements(r) \subseteq Threads
      /\ Elements(r) = {} <=> r = <<>>
    BY SequenceFacts, ThreadsAssumption DEF ReadyIs, Chained
<1>2. /\ popped \in MemoryType /\ popped.fault = m.fault /\ popped.next = m.next
      /\ ReadyIs(popped, Rest(r))
      /\ FrontOf(m, "threads_ready") = IF r = <<>> THEN NULL ELSE r[1]
    BY PopFrontTakesFirst
<1> HIDE DEF popped
<1> DEFINE Turned(n, c, q) ==
               /\ n \in MemoryType /\ n.fault = m.fault /\ c \in Threads \cup {NULL}
               /\ \A u \in Threads : st[u] # "running" => n.next[u] = m.next[u]
               /\ ReadyIs(n, q) /\ c \notin Elements(q)
               /\ \A t \in Threads : st[t] = "running" <=> t = c \/ t \in Elements(q)
<1>3. CASE r = <<>>
  <2>1. d.mem = popped /\ d.current = IF st[cur] = "running" THEN cur ELSE NULL
      BY <1>2, <1>3 DEF Dispatch, popped
  <2>2. Rest(r) = r /\ Elements(r) = {}
      BY <1>1, <1>3 DEF Rest
  <2>3. Turned(popped, IF st[cur] = "running" THEN cur ELSE NULL, r)
      BY <1>1, <1>2, <2>2
  <2> HIDE DEF d, Turned
  <2>4. Turned(d.mem, d.current, r)
      BY <2>1, <2>3
  <2>. QED BY <1>1, <2>4 DEF d, Turned
<1>4. CASE r # <<>>
  <2>1. /\ Tail(r) \in Seq(Threads) /\ Elements(Tail(r)) = Elements(r) \ {r[1]}
        /\ r[1] \in Elements(r) /\ Rest(r) = Tail(r)
      BY <1>1, <1>4, TailFacts DEF Rest
  <2>2. r[1] \in Threads /\ r[1] # NULL /\ st[r[1]] = "running" /\ r[1] # cur
      BY <1>1, <2>1
  <2>3. FrontOf(m, "threads_ready") = r[1]
      BY <1>2, <1>4
  <2>4. CASE ~(st[cur] = "running")
    <3>1. d.mem = popped /\ d.current = r[1]
        BY <2>2, <2>3, <2>4 DEF Dispatch, popped
    <3>2. \A t \in Threads : st[t] = "running" <=> t = r[1] \/ t \in Elements(Tail(r))
        BY <1>1, <2>1, <2>2, <2>4
    <3>3. Turned(popped, r[1], Tail(r))
        BY <1>2, <2>1, <2>2, <3>2
    <3> HIDE DEF d, Turned
    <3>4. Turned(d.mem, d.current, Tail(r))
        BY <3>1, <3>3
    <3>. QED BY <2>1, <3>4 DEF d, Turned
  <2>5. CASE st[cur] = "running"
    <3> DEFINE pushed == PushBack(popped, "threads_ready", cur)
    <3>1. d.mem = pushed /\ d.current = r[1]
      <4>1. FrontOf(m, "threads_ready") # NULL /\ st[cur] = "running"
          BY <2>2, <2>3, <2>5
      <4>2. d.mem = pushed
        <5>1. d.mem = IF FrontOf(m, "threads_ready") # NULL /\ st[cur] = "running"
                      THEN pushed ELSE popped
            BY DEF Dispatch, popped
        <5> HIDE DEF d, pushed
        <5>. QED BY <4>1, <5>1
      <4>3. d.current = r[1]
          BY <2>2, <2>3 DEF Dispatch
      <4>. QED BY <4>2, <4>3
    <3>2. cur \notin Elements(Tail(r))
        BY <2>1
    <3>3. /\ pushed \in MemoryType /\ pushed.fault = popped.fault
          /\ ReadyIs(pushed, Append(Tail(r), cur))
          /\ \A u \in Threads : u # cur /\ u \notin Elements(Tail(r)) => pushed.next[u] = popped.next[u]
        BY <1>2, <2>1, <3>2, PushBackAppends
    <3> HIDE DEF pushed
    <3>4. /\ Append(Tail(r), cur) \in Seq(Threads)
          /\ Elements(Append(Tail(r), cur)) = (Elements(r) \ {r[1]}) \cup {cur}
      <4> DEFINE rest == Tail(r)
      <4>1. rest \in Seq(Threads) /\ Elements(rest) = Elements(r) \ {r[1]}
          BY <2>1
      <4> HIDE DEF rest
      <4>2. Append(rest, cur) \in Seq(Threads) /\ Elements(Append(rest, cur)) = Elements(rest) \cup {cur}
          BY <4>1, AppendFacts
      <4>. QED BY <4>1, <4>2 DEF rest
    <3>5. \A u \in Threads : st[u] # "running" => pushed.next[u] = m.next[u]
        BY <1>2, <2>1, <2>5, <3>3
    <3>6. \A t \in Threads :
              st[t] = "running" <=> t = r[1] \/ t \in Elements(Append(Tail(r), cur))
        BY <2>1, <2>2, <2>5, <3>4
    <3>7. r[1] \notin Elements(Append(Tail(r), cur))
        BY <2>2, <3>4
    <3>8. Turned(pushed, r[1], Append(Tail(r), cur))
        BY <1>2, <2>2, <3>3, <3>5, <3>6, <3>7
    <3> HIDE DEF d, Turned
    <3>9. Turned(d.mem, d.current, Append(Tail(r), cur))
        BY <3>1, <3>8
    <3>. QED BY <3>4, <3>9 DEF d, Turned
  <2>. QED BY <2>4, <2>5
<1>. QED BY <1>3, <1>4

-----------------------------------------------------------------------------
(* The invariant *)

\* The ready list is r and the queue of each semaphore s is w[s]; the states tell
\* who is on which.
QueuesAre(r, w) ==
    /\ ReadyIs(mem, r)
    /\ \A s \in Semaphores :
           /\ Chained(mem, semaphore[s].first_waiting_task, w[s])
           /\ w[s] # <<>> => semaphore[s].last_waiting_task = w[s][Len(w[s])]
    /\ current_running_tcb \notin Elements(r)
    /\ \A t \in Threads :
           /\ state[t] = "running" <=> t = current_running_tcb \/ t \in Elements(r)
           /\ state[t] = "paused" <=> \E s \in Semaphores : t \in Elements(w[s])
    /\ \A s, u \in Semaphores : s # u => Elements(w[s]) \cap Elements(w[u]) = {}

InsideOf(s, w) == {t \in Threads : asked[t] = s /\ t \notin Elements(w[s])}

\* What the count of a lock says of those inside, and of those that wait.
LockCounts(s, w) ==
    /\ semaphore[s].current_count = Cardinality(InsideOf(s, w))
    /\ Cardinality(InsideOf(s, w)) <= MaxCount[s]
    /\ w[s] # <<>> => Cardinality(InsideOf(s, w)) = MaxCount[s]
    /\ \A t \in Elements(w[s]) : asked[t] = s

CountsAre(w) ==
    /\ \A s \in Locks : LockCounts(s, w)
    /\ \A s \in Signals : semaphore[s].current_count = -Len(w[s])

Queues == [Semaphores -> Seq(Threads)]

IInv ==
    /\ TypeOK /\ ~mem.fault
    /\ \E r \in Seq(Threads), w \in Queues : QueuesAre(r, w) /\ CountsAre(w)

\* A switch at the end of a section that leaves the queues as w says.
LEMMA SwitchKeepsQueues ==
    ASSUME current_running_tcb \in Threads,
           NEW m \in MemoryType, m.fault = mem.fault, NEW st \in [Threads -> {"running", "paused", "none"}],
           NEW r, NEW w \in Queues, ReadyIs(m, r), current_running_tcb \notin Elements(r),
           \A t \in Elements(r) : st[t] = "running",
           \A t \in Threads : st[t] = "running" => t = current_running_tcb \/ t \in Elements(r),
           \A s \in Semaphores :
               /\ Chained(m, semaphore'[s].first_waiting_task, w[s])
               /\ w[s] # <<>> => semaphore'[s].last_waiting_task = w[s][Len(w[s])],
           \A t \in Threads : st[t] = "paused" <=> \E s \in Semaphores : t \in Elements(w[s]),
           \A s, u \in Semaphores : s # u => Elements(w[s]) \cap Elements(w[u]) = {},
           Schedule(m, st), state' = st
    PROVE  /\ mem' \in MemoryType /\ mem'.fault = mem.fault
           /\ current_running_tcb' \in Threads \cup {NULL}
           /\ \E q \in Seq(Threads) : QueuesAre(q, w)'
<1> DEFINE d == Dispatch(m, st, current_running_tcb)
<1>1. /\ d.mem \in MemoryType /\ d.mem.fault = m.fault
      /\ d.current \in Threads \cup {NULL}
      /\ \A u \in Threads : st[u] # "running" => d.mem.next[u] = m.next[u]
      /\ \E q \in Seq(Threads) :
             /\ ReadyIs(d.mem, q) /\ d.current \notin Elements(q)
             /\ \A t \in Threads : st[t] = "running" <=> t = d.current \/ t \in Elements(q)
    BY DispatchTurns
<1>2. mem' = d.mem /\ current_running_tcb' = d.current
    BY DEF Schedule
<1> HIDE DEF d
<1>3. PICK q \in Seq(Threads) :
          /\ ReadyIs(mem', q) /\ current_running_tcb' \notin Elements(q)
          /\ \A t \in Threads : st[t] = "running" <=> t = current_running_tcb' \/ t \in Elements(q)
    BY <1>1, <1>2
<1>4. ASSUME NEW s \in Semaphores PROVE Chained(mem', semaphore'[s].first_waiting_task, w[s])
  <2>1. \A t \in Elements(w[s]) : t \in Threads /\ st[t] = "paused"
      BY SequenceFacts DEF Queues
  <2>2. \A t \in Elements(w[s]) : mem'.next[t] = m.next[t]
      BY <1>1, <1>2, <2>1
  <2>. QED BY <2>2, ChainKept
<1>5. QueuesAre(q, w)'
    BY <1>3, <1>4 DEF QueuesAre, ReadyIs, Chained
<1>. QED BY <1>1, <1>2, <1>5

\* Who is on a list, and what the pointers of a semaphore are.
LEMMA QueueFacts ==
    ASSUME NEW r \in Seq(Threads), NEW w \in Queues, QueuesAre(r, w)
    PROVE  /\ Elements(r) \subseteq Threads /\ \A t \in Elements(r) : state[t] = "running"
           /\ \A s \in Semaphores :
                  /\ w[s] \in Seq(Threads)
                  /\ Elements(w[s]) \subseteq Threads
                  /\ \A t \in Elements(w[s]) : state[t] = "paused"
                  /\ \A i, j \in 1..Len(w[s]) : w[s][i] = w[s][j] => i = j
                  /\ semaphore[s].first_waiting_task = IF w[s] = <<>> THEN NULL ELSE w[s][1]
                  /\ w[s] # <<>> => w[s][1] \in Elements(w[s]) /\ w[s][1] # NULL
           /\ NULL \notin Threads
<1>1. Elements(r) \subseteq Threads /\ NULL \notin Threads
    BY SequenceFacts, ThreadsAssumption
<1>2. ASSUME NEW s \in Semaphores
      PROVE  /\ w[s] \in Seq(Threads)
             /\ Elements(w[s]) \subseteq Threads
             /\ \A t \in Elements(w[s]) : state[t] = "paused"
             /\ \A i, j \in 1..Len(w[s]) : w[s][i] = w[s][j] => i = j
             /\ semaphore[s].first_waiting_task = IF w[s] = <<>> THEN NULL ELSE w[s][1]
             /\ w[s] # <<>> => w[s][1] \in Elements(w[s]) /\ w[s][1] # NULL
  <2>1. w[s] \in Seq(Threads)
      BY DEF Queues
  <2>2. Elements(w[s]) \subseteq Threads
      BY <2>1, SequenceFacts
  <2>3. w[s] # <<>> => 1 \in 1..Len(w[s])
      BY <2>1
  <2>4. w[s] # <<>> => w[s][1] \in Elements(w[s])
      BY <2>3 DEF Elements
  <2>. QED BY <1>1, <2>1, <2>2, <2>4 DEF QueuesAre, Chained
<1>3. \A t \in Elements(r) : state[t] = "running"
    BY <1>1 DEF QueuesAre
<1>. QED BY <1>1, <1>2, <1>3

\* The fields of a semaphore after a thread came to wait on it.
LEMMA EnqueueFields ==
    ASSUME TypeOK, NEW t \in Threads, NEW s \in Semaphores, NEW count \in Int, Enqueue(t, s, count)
    PROVE  /\ semaphore'[s].current_count = count
           /\ semaphore'[s].first_waiting_task =
                  IF semaphore[s].first_waiting_task = NULL THEN t ELSE semaphore[s].first_waiting_task
           /\ semaphore'[s].last_waiting_task = t
           /\ \A u \in Semaphores : u # s => semaphore'[u] = semaphore[u]
           /\ semaphore' \in [Semaphores -> [current_count : Int,
                                             first_waiting_task : Threads \cup {NULL},
                                             last_waiting_task : Threads \cup {NULL}]]
           /\ state' \in [Threads -> {"running", "paused", "none"}]
           /\ state' = [state EXCEPT ![t] = "paused"]
<1> DEFINE Fields == [current_count : Int, first_waiting_task : Threads \cup {NULL},
                      last_waiting_task : Threads \cup {NULL}]
           new == [current_count |-> count,
                   first_waiting_task |-> IF semaphore[s].first_waiting_task = NULL THEN t
                                          ELSE semaphore[s].first_waiting_task,
                   last_waiting_task |-> t]
<1>1. semaphore \in [Semaphores -> Fields] /\ state \in [Threads -> {"running", "paused", "none"}]
    BY DEF TypeOK
<1>2. semaphore' = [semaphore EXCEPT ![s] = new] /\ state' = [state EXCEPT ![t] = "paused"]
    BY DEF Enqueue
<1>3. semaphore[s].first_waiting_task \in Threads \cup {NULL}
    BY <1>1
<1>4. new \in Fields
    BY <1>3
<1>5. /\ new.current_count = count /\ new.last_waiting_task = t
      /\ new.first_waiting_task = IF semaphore[s].first_waiting_task = NULL THEN t
                                  ELSE semaphore[s].first_waiting_task
    OBVIOUS
<1> HIDE DEF new, Fields
<1>6. semaphore' \in [Semaphores -> Fields] /\ semaphore'[s] = new
      /\ \A u \in Semaphores : u # s => semaphore'[u] = semaphore[u]
    BY <1>1, <1>2, <1>4
<1>. QED BY <1>1, <1>2, <1>5, <1>6 DEF Fields

\* The current thread goes to the end of the queue of s, and the CPU to another.
LEMMA EnqueueQueues ==
    ASSUME TypeOK, NEW r \in Seq(Threads), NEW w \in Queues, QueuesAre(r, w),
           NEW t \in Threads, current_running_tcb = t,
           NEW s \in Semaphores, NEW count \in Int, Enqueue(t, s, count)
    PROVE  /\ mem' \in MemoryType /\ mem'.fault = mem.fault
           /\ current_running_tcb' \in Threads \cup {NULL}
           /\ \A u \in Semaphores : t \notin Elements(w[u])
           /\ [w EXCEPT ![s] = Append(@, t)] \in Queues
           /\ \E q \in Seq(Threads) : QueuesAre(q, [w EXCEPT ![s] = Append(@, t)])'
<1> DEFINE v == [w EXCEPT ![s] = Append(@, t)]
           alone == [mem EXCEPT !.next[t] = NULL]
           last == semaphore[s].last_waiting_task
           m == IF semaphore[s].first_waiting_task = NULL THEN alone
                ELSE [alone EXCEPT !.next[last] = t]
<1>1. /\ Elements(r) \subseteq Threads /\ \A x \in Elements(r) : state[x] = "running"
      /\ \A u \in Semaphores :
             /\ w[u] \in Seq(Threads)
             /\ Elements(w[u]) \subseteq Threads
             /\ \A x \in Elements(w[u]) : state[x] = "paused"
             /\ semaphore[u].first_waiting_task = IF w[u] = <<>> THEN NULL ELSE w[u][1]
             /\ w[u] # <<>> => w[u][1] # NULL
      /\ NULL \notin Threads
    BY QueueFacts
<1>2. state[t] = "running" /\ t \notin Elements(r)
    BY DEF QueuesAre
<1>3. \A u \in Semaphores : t \notin Elements(w[u])
    BY <1>1, <1>2
<1>4. semaphore[s].first_waiting_task = NULL <=> w[s] = <<>>
    BY <1>1
<1>5. w[s] # <<>> => last = w[s][Len(w[s])] /\ last \in Elements(w[s]) /\ last \in Threads
    BY <1>1, LastFacts DEF QueuesAre
<1>6. mem \in MemoryType
    BY DEF TypeOK
<1>7. /\ m \in MemoryType /\ m.fault = mem.fault /\ m.list = mem.list
      /\ m.next[t] = NULL
      /\ w[s] # <<>> => m.next[last] = t
      /\ \A x \in Threads : x # t /\ (w[s] = <<>> \/ x # last) => m.next[x] = mem.next[x]
  <2>1. CASE w[s] = <<>>
      BY <1>4, <1>6, <2>1 DEF MemoryType
  <2>2. CASE w[s] # <<>>
    <3>1. last # t
        BY <1>3, <1>5, <2>2
    <3>2. m = [mem EXCEPT !.next = [mem.next EXCEPT ![t] = NULL, ![last] = t]]
        BY <1>4, <1>6, <2>2 DEF MemoryType
    <3>3. [mem.next EXCEPT ![t] = NULL, ![last] = t] \in [Threads -> Threads \cup {NULL}]
        BY <1>6 DEF MemoryType
    <3>. QED BY <1>5, <1>6, <2>2, <3>1, <3>2, <3>3 DEF MemoryType
  <2>. QED BY <2>1, <2>2
<1>8. Schedule(m, state')
    BY DEF Enqueue
<1> HIDE DEF m
<1>9. /\ semaphore'[s].first_waiting_task = IF w[s] = <<>> THEN t ELSE semaphore[s].first_waiting_task
      /\ semaphore'[s].last_waiting_task = t
      /\ \A u \in Semaphores : u # s => semaphore'[u] = semaphore[u]
      /\ state' \in [Threads -> {"running", "paused", "none"}]
      /\ state' = [state EXCEPT ![t] = "paused"]
    BY <1>4, EnqueueFields
<1>10. /\ v \in Queues /\ v[s] = Append(w[s], t) /\ Elements(v[s]) = Elements(w[s]) \cup {t}
       /\ v[s] # <<>> /\ v[s][Len(v[s])] = t
       /\ \A u \in Semaphores : u # s => v[u] = w[u]
    BY <1>1, AppendFacts DEF Queues
<1> HIDE DEF v
<1>11. ReadyIs(m, r)
  <2>1. \A x \in Elements(r) : x # t /\ (w[s] = <<>> \/ x # last)
      BY <1>1, <1>2, <1>5
  <2>2. \A x \in Elements(r) : m.next[x] = mem.next[x]
      BY <1>1, <1>7, <2>1
  <2>3. Chained(mem, mem.list["threads_ready"].head, r)
      BY DEF QueuesAre, ReadyIs
  <2>4. Chained(m, mem.list["threads_ready"].head, r)
      BY <2>2, <2>3, ChainKept
  <2>. QED BY <1>7, <2>4 DEF QueuesAre, ReadyIs
<1>12. ASSUME NEW u \in Semaphores PROVE Chained(m, semaphore'[u].first_waiting_task, v[u])
  <2>1. Chained(mem, semaphore[u].first_waiting_task, w[u])
      BY DEF QueuesAre
  <2>2. CASE u = s
    <3>1. \A x \in Elements(w[s]) : w[s] # <<>> /\ x # w[s][Len(w[s])] => m.next[x] = mem.next[x]
        BY <1>1, <1>3, <1>5, <1>7
    <3>2. w[s] # <<>> => m.next[w[s][Len(w[s])]] = t
        BY <1>5, <1>7
    <3>3. Chained(m, IF w[s] = <<>> THEN t ELSE semaphore[s].first_waiting_task, Append(w[s], t))
        BY <1>3, <1>7, <2>1, <2>2, <3>1, <3>2, ChainAppend
    <3>. QED BY <1>9, <1>10, <2>2, <3>3
  <2>3. CASE u # s
    <3>1. Elements(w[u]) \cap Elements(w[s]) = {}
        BY <2>3 DEF QueuesAre
    <3>2. \A x \in Elements(w[u]) : x # t /\ (w[s] = <<>> \/ x # last)
        BY <1>3, <1>5, <3>1
    <3>3. \A x \in Elements(w[u]) : m.next[x] = mem.next[x]
        BY <1>1, <1>7, <3>2
    <3>4. Chained(m, semaphore[u].first_waiting_task, w[u])
        BY <2>1, <3>3, ChainKept
    <3>. QED BY <1>9, <1>10, <2>3, <3>4
  <2>. QED BY <2>2, <2>3
<1>13. \A u \in Semaphores : v[u] # <<>> => semaphore'[u].last_waiting_task = v[u][Len(v[u])]
    BY <1>9, <1>10 DEF QueuesAre
<1>14. \A x \in Threads : state'[x] = "paused" <=> \E u \in Semaphores : x \in Elements(v[u])
  <2>1. \A x \in Threads : (\E u \in Semaphores : x \in Elements(v[u]))
                              <=> x = t \/ \E u \in Semaphores : x \in Elements(w[u])
      BY <1>10
  <2>2. \A x \in Threads : state'[x] = IF x = t THEN "paused" ELSE state[x]
      BY <1>9 DEF TypeOK
  <2>. QED BY <2>1, <2>2 DEF QueuesAre
<1>15. \A u, x \in Semaphores : u # x => Elements(v[u]) \cap Elements(v[x]) = {}
  <2>1. \A u, x \in Semaphores : u # x => Elements(w[u]) \cap Elements(w[x]) = {}
      BY DEF QueuesAre
  <2>2. ASSUME NEW u \in Semaphores, NEW x \in Semaphores, u # x
        PROVE  Elements(v[u]) \cap Elements(v[x]) = {}
    <3>1. CASE u = s
        BY <1>3, <1>10, <2>1, <2>2, <3>1
    <3>2. CASE x = s
        BY <1>3, <1>10, <2>1, <2>2, <3>2
    <3>3. CASE u # s /\ x # s
        BY <1>10, <2>1, <2>2, <3>3
    <3>. QED BY <3>1, <3>2, <3>3
  <2>. QED BY <2>2
<1>16. /\ \A x \in Elements(r) : state'[x] = "running"
       /\ \A x \in Threads : state'[x] = "running" => x = t \/ x \in Elements(r)
  <2>1. \A x \in Threads : state'[x] = IF x = t THEN "paused" ELSE state[x]
      BY <1>9 DEF TypeOK
  <2>. QED BY <1>1, <1>2, <2>1 DEF QueuesAre
<1>17. /\ mem' \in MemoryType /\ mem'.fault = mem.fault
       /\ current_running_tcb' \in Threads \cup {NULL}
       /\ \E q \in Seq(Threads) : QueuesAre(q, v)'
  <2>1. \A u \in Semaphores :
            /\ Chained(m, semaphore'[u].first_waiting_task, v[u])
            /\ v[u] # <<>> => semaphore'[u].last_waiting_task = v[u][Len(v[u])]
      BY <1>12, <1>13
  <2>2. /\ current_running_tcb \in Threads /\ current_running_tcb \notin Elements(r)
        /\ m \in MemoryType /\ m.fault = mem.fault
        /\ state' \in [Threads -> {"running", "paused", "none"}] /\ v \in Queues
        /\ \A x \in Threads : state'[x] = "running" => x = current_running_tcb \/ x \in Elements(r)
      BY <1>2, <1>7, <1>9, <1>10, <1>16
  <2>. QED BY <1>8, <1>11, <1>14, <1>15, <1>16, <2>1, <2>2, SwitchKeepsQueues
<1>. QED BY <1>3, <1>10, <1>17 DEF v

\* A thread that waits on no semaphore is added to the ready list.
LEMMA ReadyKeepsQueues ==
    ASSUME TypeOK, NEW r \in Seq(Threads), NEW w \in Queues, NEW v \in Queues,
           QueuesAre(r, w), NEW t \in Threads, state[t] # "running",
           mem' = PushBack(mem, "threads_ready", t),
           state' = [state EXCEPT ![t] = "running"],
           UNCHANGED current_running_tcb,
           \A u \in Semaphores :
               /\ Chained(mem, semaphore'[u].first_waiting_task, v[u])
               /\ v[u] # <<>> => semaphore'[u].last_waiting_task = v[u][Len(v[u])]
               /\ Elements(v[u]) = Elements(w[u]) \ {t}
    PROVE  /\ mem' \in MemoryType /\ mem'.fault = mem.fault
           /\ QueuesAre(Append(r, t), v)'
<1>1. /\ Elements(r) \subseteq Threads /\ \A x \in Elements(r) : state[x] = "running"
      /\ \A u \in Semaphores :
             /\ Elements(w[u]) \subseteq Threads
             /\ \A x \in Elements(w[u]) : state[x] = "paused"
      /\ NULL \notin Threads
    BY QueueFacts
<1>2. t \notin Elements(r) /\ t # current_running_tcb
    BY <1>1 DEF QueuesAre
<1>3. /\ mem' \in MemoryType /\ mem'.fault = mem.fault
      /\ ReadyIs(mem', Append(r, t))
      /\ \A x \in Threads : x # t /\ x \notin Elements(r) => mem'.next[x] = mem.next[x]
  <2>1. ReadyIs(mem, r) /\ mem \in MemoryType
      BY DEF QueuesAre, TypeOK
  <2>. QED BY <1>2, <2>1, PushBackAppends
<1>4. Elements(Append(r, t)) = Elements(r) \cup {t}
    BY AppendFacts
<1>5. ASSUME NEW u \in Semaphores PROVE Chained(mem', semaphore'[u].first_waiting_task, v[u])
  <2>1. \A x \in Elements(v[u]) : x \in Threads /\ x # t /\ x \notin Elements(r)
      BY <1>1
  <2>2. \A x \in Elements(v[u]) : mem'.next[x] = mem.next[x]
      BY <1>3, <2>1
  <2>. QED BY <2>2, ChainKept
<1>6. \A x \in Threads : state'[x] = IF x = t THEN "running" ELSE state[x]
    BY DEF TypeOK
<1>7. ASSUME NEW x \in Threads
      PROVE  /\ state'[x] = "running" <=> x = current_running_tcb' \/ x \in Elements(Append(r, t))
             /\ state'[x] = "paused" <=> \E u \in Semaphores : x \in Elements(v[u])
  <2>1. /\ state[x] = "running" <=> x = current_running_tcb \/ x \in Elements(r)
        /\ state[x] = "paused" <=> \E u \in Semaphores : x \in Elements(w[u])
      BY DEF QueuesAre
  <2>2. CASE x = t
      BY <1>4, <1>6, <2>2
  <2>3. CASE x # t
      BY <1>4, <1>6, <2>1, <2>3
  <2>. QED BY <2>2, <2>3
<1>8. ASSUME NEW u \in Semaphores, NEW x \in Semaphores, u # x
      PROVE  Elements(v[u]) \cap Elements(v[x]) = {}
  <2>1. Elements(w[u]) \cap Elements(w[x]) = {}
      BY <1>8 DEF QueuesAre
  <2>. QED BY <2>1
<1>9. current_running_tcb' \notin Elements(Append(r, t))
    BY <1>2, <1>4 DEF QueuesAre
<1>10. QueuesAre(Append(r, t), v)'
    BY <1>3, <1>5, <1>7, <1>8, <1>9 DEF QueuesAre, ReadyIs, Chained
<1>. QED BY <1>3, <1>10

\* The first thread of the queue of s becomes ready.
LEMMA DequeueQueues ==
    ASSUME TypeOK, NEW r \in Seq(Threads), NEW w \in Queues, QueuesAre(r, w),
           NEW s \in Semaphores, NEW count \in Int,
           semaphore[s].first_waiting_task # NULL, Dequeue(s, count)
    PROVE  /\ mem' \in MemoryType /\ mem'.fault = mem.fault
           /\ state' \in [Threads -> {"running", "paused", "none"}]
           /\ semaphore' \in [Semaphores -> [current_count : Int,
                                             first_waiting_task : Threads \cup {NULL},
                                             last_waiting_task : Threads \cup {NULL}]]
           /\ semaphore'[s].current_count = count
           /\ \A u \in Semaphores : u # s => semaphore'[u] = semaphore[u]
           /\ w[s] # <<>> /\ [w EXCEPT ![s] = Tail(@)] \in Queues
           /\ \E q \in Seq(Threads) : QueuesAre(q, [w EXCEPT ![s] = Tail(@)])'
<1> DEFINE v == [w EXCEPT ![s] = Tail(@)]
           Fields == [current_count : Int, first_waiting_task : Threads \cup {NULL},
                      last_waiting_task : Threads \cup {NULL}]
<1>1. /\ \A u \in Semaphores :
             /\ w[u] \in Seq(Threads)
             /\ Elements(w[u]) \subseteq Threads
             /\ \A x \in Elements(w[u]) : state[x] = "paused"
             /\ \A i, j \in 1..Len(w[u]) : w[u][i] = w[u][j] => i = j
             /\ semaphore[u].first_waiting_task = IF w[u] = <<>> THEN NULL ELSE w[u][1]
             /\ w[u] # <<>> => w[u][1] \in Elements(w[u])
      /\ NULL \notin Threads
    BY QueueFacts
<1>2. PICK task \in Threads :
          /\ task = semaphore[s].first_waiting_task
          /\ w[s] # <<>> /\ task = w[s][1] /\ task \in Elements(w[s]) /\ state[task] = "paused"
    BY <1>1
<1>3. /\ v \in Queues /\ v[s] = Tail(w[s]) /\ Elements(v[s]) = Elements(w[s]) \ {task}
      /\ \A u \in Semaphores : u # s => v[u] = w[u]
      /\ Len(v[s]) = Len(w[s]) - 1 /\ (v[s] = <<>> <=> Len(w[s]) = 1)
      /\ \A i \in 1..(Len(w[s]) - 1) : v[s][i] = w[s][i + 1]
    BY <1>1, <1>2, TailFacts DEF Queues
<1> HIDE DEF v
<1>4. /\ semaphore' = [semaphore EXCEPT ![s].first_waiting_task = mem.next[task],
                                        ![s].current_count = count]
      /\ state' = [state EXCEPT ![task] = "running"]
      /\ mem' = PushBack(mem, "threads_ready", task)
      /\ UNCHANGED current_running_tcb
    BY <1>2 DEF Dequeue, Unblocked
<1>5. semaphore \in [Semaphores -> Fields] /\ mem.next[task] \in Threads \cup {NULL}
    BY <1>2 DEF TypeOK, MemoryType
<1>6. /\ semaphore' \in [Semaphores -> Fields]
      /\ semaphore'[s].first_waiting_task = mem.next[task]
      /\ semaphore'[s].current_count = count
      /\ semaphore'[s].last_waiting_task = semaphore[s].last_waiting_task
      /\ \A u \in Semaphores : u # s => semaphore'[u] = semaphore[u]
    BY <1>4, <1>5
<1>7. ASSUME NEW u \in Semaphores
      PROVE  /\ Chained(mem, semaphore'[u].first_waiting_task, v[u])
             /\ v[u] # <<>> => semaphore'[u].last_waiting_task = v[u][Len(v[u])]
             /\ Elements(v[u]) = Elements(w[u]) \ {task}
  <2>1. /\ Chained(mem, semaphore[u].first_waiting_task, w[u])
        /\ w[u] # <<>> => semaphore[u].last_waiting_task = w[u][Len(w[u])]
      BY DEF QueuesAre
  <2>2. CASE u = s
    <3>1. Chained(mem, mem.next[task], Tail(w[s]))
        BY <1>2, <2>1, <2>2, ChainTail
    <3>2. ASSUME v[s] # <<>> PROVE v[s][Len(v[s])] = w[s][Len(w[s])]
      <4>1. Len(w[s]) \in Nat /\ Len(w[s]) # 0 /\ Len(w[s]) # 1
          BY <1>1, <1>2, <1>3, <3>2, SequenceFacts
      <4>2. \A k \in Nat : k # 0 /\ k # 1 => k - 1 \in 1..(k - 1) /\ (k - 1) + 1 = k
          OBVIOUS
      <4>3. Len(w[s]) - 1 \in 1..(Len(w[s]) - 1) /\ (Len(w[s]) - 1) + 1 = Len(w[s])
          BY <4>1, <4>2
      <4>. QED BY <1>3, <4>3
    <3>. QED BY <1>2, <1>3, <1>6, <2>1, <2>2, <3>1, <3>2
  <2>3. CASE u # s
    <3>1. Elements(w[u]) \cap Elements(w[s]) = {}
        BY <2>3 DEF QueuesAre
    <3>. QED BY <1>2, <1>3, <1>6, <2>1, <2>3, <3>1
  <2>. QED BY <2>2, <2>3
<1>8. state' \in [Threads -> {"running", "paused", "none"}]
    BY <1>4 DEF TypeOK
<1>9. mem' \in MemoryType /\ mem'.fault = mem.fault /\ QueuesAre(Append(r, task), v)'
    BY <1>2, <1>3, <1>4, <1>7, ReadyKeepsQueues
<1>10. Append(r, task) \in Seq(Threads)
    BY <1>2
<1>. QED BY <1>2, <1>3, <1>6, <1>8, <1>9, <1>10 DEF v

-----------------------------------------------------------------------------
(* What a step does to one lock *)

\* The steps of SemaphoreQueue, for the lock s whose queue goes from w[s] to v[s].
GateSteps(s, w, v) ==
    LET inside == InsideOf(s, w)
        after  == {t \in Threads : asked'[t] = s /\ t \notin Elements(v[s])}
    IN  \/ after = inside /\ v[s] = w[s]
        \/ \E t \in Threads :
               /\ t \notin inside /\ t \notin Elements(w[s])
               /\ \/ Cardinality(inside) < MaxCount[s] /\ after = inside \cup {t} /\ v[s] = w[s]
                  \/ Cardinality(inside) = MaxCount[s] /\ after = inside /\ v[s] = Append(w[s], t)
        \/ \E t \in inside :
               \/ w[s] = <<>> /\ after = inside \ {t} /\ v[s] = w[s]
               \/ w[s] # <<>> /\ after = (inside \ {t}) \cup {Head(w[s])} /\ v[s] = Tail(w[s])

\* What every step must show.
Keeps(w) ==
    /\ TypeOK' /\ ~mem'.fault
    /\ \E q \in Seq(Threads), v \in Queues :
           /\ QueuesAre(q, v)' /\ CountsAre(v)'
           /\ \A s \in Locks : GateSteps(s, w, v)

LEMMA InsideIsFinite ==
    ASSUME NEW s, NEW w
    PROVE  /\ IsFiniteSet(InsideOf(s, w)) /\ Cardinality(InsideOf(s, w)) \in Nat
           /\ InsideOf(s, w) \subseteq Threads
<1>1. InsideOf(s, w) \subseteq Threads
    BY DEF InsideOf
<1>. QED BY <1>1, ThreadsAssumption, FS_Subset, FS_CardinalityType

\* A lock that nothing happened to.
LEMMA LockUntouched ==
    ASSUME NEW w \in Queues, NEW v \in Queues, NEW s \in Locks, LockCounts(s, w),
           w[s] = v[s], semaphore'[s].current_count = semaphore[s].current_count,
           \A t \in Threads : asked'[t] = s <=> asked[t] = s
    PROVE  LockCounts(s, v)' /\ GateSteps(s, w, v)
<1>1. InsideOf(s, v)' = InsideOf(s, w)
    BY DEF InsideOf
<1>2. \A t \in Elements(v[s]) : t \in Threads
  <2>1. v[s] \in Seq(Threads)
      BY DEF Queues, Semaphores
  <2>. QED BY <2>1, SequenceFacts
<1>3. LockCounts(s, v)'
    BY <1>1, <1>2 DEF LockCounts
<1>4. GateSteps(s, w, v)
    BY <1>1 DEF GateSteps, InsideOf
<1>. QED BY <1>3, <1>4

\* A step that leaves the queues of all semaphores, and what was asked, alone.
LEMMA NoSemaphoreTouched ==
    ASSUME TypeOK, NEW w \in Queues, CountsAre(w),
           UNCHANGED <<semaphore, asked>>,
           mem' \in MemoryType, ~mem'.fault,
           state' \in [Threads -> {"running", "paused", "none"}],
           current_running_tcb' \in Threads \cup {NULL},
           \E q \in Seq(Threads) : QueuesAre(q, w)'
    PROVE  Keeps(w)
<1>1. \A s \in Locks : LockCounts(s, w)' /\ GateSteps(s, w, w)
  <2>1. ASSUME NEW s \in Locks PROVE LockCounts(s, w)' /\ GateSteps(s, w, w)
    <3>1. LockCounts(s, w)
        BY DEF CountsAre
    <3>. QED BY <3>1, LockUntouched
  <2>. QED BY <2>1
<1>2. CountsAre(w)'
    BY <1>1 DEF CountsAre
<1>3. TypeOK'
    BY DEF TypeOK, Semaphores
<1>. QED BY <1>1, <1>2, <1>3 DEF Keeps

LEMMA PreemptKeeps ==
    ASSUME TypeOK, ~mem.fault, NEW r \in Seq(Threads), NEW w \in Queues,
           QueuesAre(r, w), CountsAre(w), Preempt
    PROVE  Keeps(w)
<1>1. current_running_tcb \in Threads
    BY DEF TypeOK, Preempt
<1>2. /\ mem \in MemoryType /\ state \in [Threads -> {"running", "paused", "none"}]
      /\ mem.fault = FALSE
    BY DEF TypeOK, MemoryType
<1>3. /\ ReadyIs(mem, r) /\ current_running_tcb \notin Elements(r)
      /\ \A t \in Elements(r) : state'[t] = "running"
      /\ \A t \in Threads : state'[t] = "running" => t = current_running_tcb \/ t \in Elements(r)
      /\ \A s \in Semaphores :
             /\ Chained(mem, semaphore'[s].first_waiting_task, w[s])
             /\ w[s] # <<>> => semaphore'[s].last_waiting_task = w[s][Len(w[s])]
      /\ \A t \in Threads : state'[t] = "paused" <=> \E s \in Semaphores : t \in Elements(w[s])
      /\ \A s, u \in Semaphores : s # u => Elements(w[s]) \cap Elements(w[u]) = {}
      /\ Schedule(mem, state') /\ state' \in [Threads -> {"running", "paused", "none"}]
    BY <1>2, QueueFacts DEF QueuesAre, Preempt
<1>4. /\ mem' \in MemoryType /\ mem'.fault = mem.fault
      /\ current_running_tcb' \in Threads \cup {NULL}
      /\ \E q \in Seq(Threads) : QueuesAre(q, w)'
    BY <1>1, <1>2, <1>3, SwitchKeepsQueues
<1>. QED BY <1>3, <1>4, NoSemaphoreTouched DEF Preempt

LEMMA LeaveIdleKeeps ==
    ASSUME TypeOK, ~mem.fault, NEW r \in Seq(Threads), NEW w \in Queues,
           QueuesAre(r, w), CountsAre(w), LeaveIdle
    PROVE  Keeps(w)
<1>1. /\ mem' \in MemoryType /\ mem'.fault = mem.fault /\ mem'.next = mem.next
      /\ ReadyIs(mem', Rest(r))
      /\ current_running_tcb' = IF r = <<>> THEN NULL ELSE r[1]
      /\ current_running_tcb' # NULL
  <2>1. mem \in MemoryType /\ ReadyIs(mem, r)
      BY DEF TypeOK, QueuesAre
  <2>. QED BY <2>1, PopFrontTakesFirst DEF LeaveIdle
<1>2. r # <<>> /\ \A i, j \in 1..Len(r) : r[i] = r[j] => i = j
    BY <1>1 DEF QueuesAre, ReadyIs, Chained
<1>3. /\ Rest(r) = Tail(r) /\ Rest(r) \in Seq(Threads)
      /\ Elements(Rest(r)) = Elements(r) \ {r[1]} /\ r[1] \in Elements(r)
    BY <1>2, TailFacts DEF Rest
<1>4. Elements(r) \subseteq Threads /\ NULL \notin Threads
    BY QueueFacts
<1>5. QueuesAre(Rest(r), w)'
  <2>1. ASSUME NEW s \in Semaphores PROVE Chained(mem', semaphore'[s].first_waiting_task, w[s])
    <3>1. Chained(mem, semaphore[s].first_waiting_task, w[s])
        BY DEF QueuesAre
    <3>. QED BY <1>1, <3>1, ChainKept DEF LeaveIdle
  <2>2. \A t \in Threads :
            state'[t] = "running" <=> t = current_running_tcb' \/ t \in Elements(Rest(r))
    <3>1. \A t \in Threads : state[t] = "running" <=> t = NULL \/ t \in Elements(r)
        BY DEF QueuesAre, LeaveIdle
    <3>2. UNCHANGED state
        BY DEF LeaveIdle
    <3>. QED BY <1>1, <1>2, <1>3, <1>4, <3>1, <3>2
  <2>3. current_running_tcb' \notin Elements(Rest(r))
      BY <1>1, <1>2, <1>3
  <2>4. UNCHANGED <<state, semaphore>>
      BY DEF LeaveIdle
  <2>. QED BY <1>1, <2>1, <2>2, <2>3, <2>4 DEF QueuesAre, ReadyIs, Chained
<1>6. PICK q \in Seq(Threads) : q = Rest(r)
    BY <1>3
<1>7. QueuesAre(q, w)'
    BY <1>5, <1>6
<1>8. /\ current_running_tcb' \in Threads \cup {NULL} /\ ~mem'.fault
      /\ UNCHANGED <<semaphore, asked>>
      /\ state' \in [Threads -> {"running", "paused", "none"}]
    BY <1>1, <1>2, <1>3, <1>4 DEF LeaveIdle, TypeOK
<1>. QED BY <1>1, <1>7, <1>8, NoSemaphoreTouched

LEMMA ThreadCreateKeeps ==
    ASSUME TypeOK, ~mem.fault, NEW r \in Seq(Threads), NEW w \in Queues,
           QueuesAre(r, w), CountsAre(w), NEW t \in Threads, ThreadCreate(t)
    PROVE  Keeps(w)
<1>1. /\ state[t] = "none"
      /\ mem' = PushBack(mem, "threads_ready", t)
      /\ state' = [state EXCEPT ![t] = "running"]
      /\ UNCHANGED current_running_tcb /\ UNCHANGED <<semaphore, asked>>
    BY DEF ThreadCreate
<1>2. \A u \in Semaphores :
          /\ Chained(mem, semaphore'[u].first_waiting_task, w[u])
          /\ w[u] # <<>> => semaphore'[u].last_waiting_task = w[u][Len(w[u])]
          /\ Elements(w[u]) = Elements(w[u]) \ {t}
  <2>1. \A u \in Semaphores : \A x \in Elements(w[u]) : state[x] = "paused"
      BY QueueFacts
  <2>2. \A u \in Semaphores : t \notin Elements(w[u])
      BY <1>1, <2>1
  <2>. QED BY <1>1, <2>2 DEF QueuesAre
<1>3. /\ mem' \in MemoryType /\ mem'.fault = mem.fault
      /\ QueuesAre(Append(r, t), w)'
    BY <1>1, <1>2, ReadyKeepsQueues
<1>4. Append(r, t) \in Seq(Threads)
    OBVIOUS
<1>5. /\ state' \in [Threads -> {"running", "paused", "none"}]
      /\ current_running_tcb' \in Threads \cup {NULL} /\ ~mem'.fault
    BY <1>1, <1>3 DEF TypeOK
<1>. QED BY <1>1, <1>3, <1>4, <1>5, NoSemaphoreTouched

\* Only the count of s changes.
LEMMA CountFields ==
    ASSUME TypeOK, NEW s \in Semaphores, NEW count \in Int,
           semaphore' = [semaphore EXCEPT ![s].current_count = count]
    PROVE  /\ semaphore' \in [Semaphores -> [current_count : Int,
                                             first_waiting_task : Threads \cup {NULL},
                                             last_waiting_task : Threads \cup {NULL}]]
           /\ semaphore'[s].current_count = count
           /\ \A u \in Semaphores :
                  /\ u # s => semaphore'[u] = semaphore[u]
                  /\ semaphore'[u].first_waiting_task = semaphore[u].first_waiting_task
                  /\ semaphore'[u].last_waiting_task = semaphore[u].last_waiting_task
<1> DEFINE Fields == [current_count : Int, first_waiting_task : Threads \cup {NULL},
                      last_waiting_task : Threads \cup {NULL}]
           new == [semaphore[s] EXCEPT !.current_count = count]
<1>1. semaphore \in [Semaphores -> Fields]
    BY DEF TypeOK
<1>2. semaphore' = [semaphore EXCEPT ![s] = new]
    BY <1>1
<1>3. semaphore[s] \in Fields
    BY <1>1
<1>4. /\ new \in Fields /\ new.current_count = count
      /\ new.first_waiting_task = semaphore[s].first_waiting_task
      /\ new.last_waiting_task = semaphore[s].last_waiting_task
    BY <1>3
<1> HIDE DEF new, Fields
<1>5. /\ semaphore' \in [Semaphores -> Fields] /\ semaphore'[s] = new
      /\ \A u \in Semaphores : u # s => semaphore'[u] = semaphore[u]
    BY <1>1, <1>2, <1>4
<1>. QED BY <1>4, <1>5 DEF Fields

\* What only counts leaves the queues as they are.
LEMMA QueuesSame ==
    ASSUME NEW r \in Seq(Threads), NEW w \in Queues, QueuesAre(r, w),
           UNCHANGED <<mem, state, current_running_tcb>>,
           \A u \in Semaphores :
               /\ semaphore'[u].first_waiting_task = semaphore[u].first_waiting_task
               /\ semaphore'[u].last_waiting_task = semaphore[u].last_waiting_task
    PROVE  QueuesAre(r, w)'
<1>1. ReadyIs(mem', r)
    BY DEF QueuesAre
<1>2. ASSUME NEW u \in Semaphores
      PROVE  /\ Chained(mem', semaphore'[u].first_waiting_task, w[u])
             /\ w[u] # <<>> => semaphore'[u].last_waiting_task = w[u][Len(w[u])]
  <2>1. /\ Chained(mem, semaphore[u].first_waiting_task, w[u])
        /\ w[u] # <<>> => semaphore[u].last_waiting_task = w[u][Len(w[u])]
      BY DEF QueuesAre
  <2>. QED BY <2>1
<1>3. /\ current_running_tcb' \notin Elements(r)
      /\ \A t \in Threads :
             /\ state'[t] = "running" <=> t = current_running_tcb' \/ t \in Elements(r)
             /\ state'[t] = "paused" <=> \E s \in Semaphores : t \in Elements(w[s])
      /\ \A s, u \in Semaphores : s # u => Elements(w[s]) \cap Elements(w[u]) = {}
    BY DEF QueuesAre
<1>. QED BY <1>1, <1>2, <1>3 DEF QueuesAre, ReadyIs, Chained

LEMMA LockSemaphoreKeeps ==
    ASSUME TypeOK, ~mem.fault, NEW r \in Seq(Threads), NEW w \in Queues,
           QueuesAre(r, w), CountsAre(w), NEW t \in Threads, NEW s \in Locks, LockSemaphore(t, s)
    PROVE  Keeps(w)
<1>1. /\ current_running_tcb = t /\ asked[t] = NULL /\ asked' = [asked EXCEPT ![t] = s]
      /\ s \in Semaphores /\ NULL \notin Locks
    BY ThreadsAssumption DEF LockSemaphore, Semaphores
<1>2. /\ \A x \in Threads : asked'[x] = IF x = t THEN s ELSE asked[x]
      /\ asked' \in [Threads -> Locks \cup {NULL}]
    BY <1>1 DEF TypeOK
<1>3. /\ LockCounts(s, w) /\ w[s] \in Seq(Threads)
      /\ MaxCount[s] \in Nat /\ Cardinality(InsideOf(s, w)) \in Nat
      /\ IsFiniteSet(InsideOf(s, w))
    BY <1>1, SemaphoresAssumption, InsideIsFinite DEF CountsAre, Queues, Semaphores
<1>4. state[t] = "running" /\ \A u \in Semaphores : t \notin Elements(w[u])
  <2>1. state[t] = "running"
      BY <1>1 DEF QueuesAre
  <2>. QED BY <2>1, QueueFacts
<1>5. t \notin InsideOf(s, w)
    BY <1>1, <1>3 DEF InsideOf
<1>6. \A u \in Locks : u # s => \A x \in Threads : asked'[x] = u <=> asked[x] = u
    BY <1>1, <1>2
<1>7. CASE semaphore[s].current_count >= MaxCount[s]
  <2> DEFINE v == [w EXCEPT ![s] = Append(@, t)]
             count == semaphore[s].current_count
  <2>1. Enqueue(t, s, count) /\ count \in Int
      BY <1>1, <1>7 DEF LockSemaphore, TypeOK
  <2>2. Cardinality(InsideOf(s, w)) = MaxCount[s] /\ count = MaxCount[s]
      BY <1>3, <1>7 DEF LockCounts
  <2>3. /\ mem' \in MemoryType /\ ~mem'.fault
        /\ current_running_tcb' \in Threads \cup {NULL}
        /\ v \in Queues
        /\ \E q \in Seq(Threads) : QueuesAre(q, v)'
      BY <1>1, <2>1, EnqueueQueues
  <2>4. /\ semaphore'[s].current_count = count
        /\ \A u \in Semaphores : u # s => semaphore'[u] = semaphore[u]
        /\ semaphore' \in [Semaphores -> [current_count : Int,
                                          first_waiting_task : Threads \cup {NULL},
                                          last_waiting_task : Threads \cup {NULL}]]
        /\ state' \in [Threads -> {"running", "paused", "none"}]
      BY <1>1, <2>1, EnqueueFields
  <2>5. /\ v[s] = Append(w[s], t) /\ Elements(v[s]) = Elements(w[s]) \cup {t}
        /\ \A u \in Semaphores : u # s => v[u] = w[u]
      BY <1>1, <1>3, AppendFacts DEF Queues
  <2> HIDE DEF v, count
  <2>6. InsideOf(s, v)' = InsideOf(s, w)
      BY <1>2, <1>5, <2>5 DEF InsideOf
  <2>7. LockCounts(s, v)'
    <3>1. \A x \in Elements(v[s]) : asked'[x] = s
      <4>1. Elements(w[s]) \subseteq Threads
          BY <1>3, SequenceFacts
      <4>2. \A x \in Elements(w[s]) : asked[x] = s
          BY <1>3 DEF LockCounts
      <4>. QED BY <1>2, <2>5, <4>1, <4>2
    <3>. QED BY <1>3, <2>2, <2>4, <2>6, <3>1 DEF LockCounts
  <2>8. GateSteps(s, w, v)
    <3>1. {x \in Threads : asked'[x] = s /\ x \notin Elements(v[s])} = InsideOf(s, w)
        BY <2>6 DEF InsideOf
    <3>. QED BY <1>1, <1>4, <1>5, <2>2, <2>5, <3>1 DEF GateSteps
  <2>9. \A u \in Locks : LockCounts(u, v)' /\ GateSteps(u, w, v)
    <3>1. ASSUME NEW u \in Locks, u # s PROVE LockCounts(u, v)' /\ GateSteps(u, w, v)
      <4>1. u \in Semaphores /\ LockCounts(u, w)
          BY DEF Semaphores, CountsAre
      <4>. QED BY <1>6, <2>3, <2>4, <2>5, <3>1, <4>1, LockUntouched
    <3>. QED BY <2>7, <2>8, <3>1
  <2>10. \A u \in Signals : u \in Semaphores /\ u # s
      BY SemaphoresAssumption DEF Semaphores
  <2>11. CountsAre(v)'
      BY <2>4, <2>5, <2>9, <2>10 DEF CountsAre
  <2>12. TypeOK'
      BY <1>2, <2>3, <2>4 DEF TypeOK, Semaphores
  <2>. QED BY <2>3, <2>9, <2>11, <2>12 DEF Keeps
<1>8. CASE ~(semaphore[s].current_count >= MaxCount[s])
  <2>1. /\ semaphore' = [semaphore EXCEPT ![s].current_count = @ + 1]
        /\ UNCHANGED <<mem, state, current_running_tcb>>
      BY <1>8 DEF LockSemaphore
  <2>2. /\ semaphore' \in [Semaphores -> [current_count : Int,
                                          first_waiting_task : Threads \cup {NULL},
                                          last_waiting_task : Threads \cup {NULL}]]
        /\ semaphore'[s].current_count = semaphore[s].current_count + 1
        /\ \A u \in Semaphores :
               /\ u # s => semaphore'[u] = semaphore[u]
               /\ semaphore'[u].first_waiting_task = semaphore[u].first_waiting_task
               /\ semaphore'[u].last_waiting_task = semaphore[u].last_waiting_task
    <3>1. semaphore[s].current_count + 1 \in Int
        BY <1>1 DEF TypeOK
    <3>2. semaphore' = [semaphore EXCEPT ![s].current_count = semaphore[s].current_count + 1]
        BY <2>1
    <3>. QED BY <1>1, <3>1, <3>2, CountFields
  <2>3. /\ semaphore[s].current_count = Cardinality(InsideOf(s, w))
        /\ Cardinality(InsideOf(s, w)) < MaxCount[s] /\ w[s] = <<>>
      BY <1>3, <1>8 DEF LockCounts
  <2>4. InsideOf(s, w)' = InsideOf(s, w) \cup {t}
      BY <1>1, <1>2, <1>4 DEF InsideOf
  <2>5. Cardinality(InsideOf(s, w) \cup {t}) = Cardinality(InsideOf(s, w)) + 1
      BY <1>3, <1>5, FS_AddElement
  <2>6. LockCounts(s, w)'
    <3>1. Elements(w[s]) = {}
        BY <1>3, <2>3, SequenceFacts
    <3>. QED BY <1>3, <2>2, <2>3, <2>4, <2>5, <3>1 DEF LockCounts
  <2>7. GateSteps(s, w, w)
    <3>1. {x \in Threads : asked'[x] = s /\ x \notin Elements(w[s])} = InsideOf(s, w) \cup {t}
        BY <2>4 DEF InsideOf
    <3>. QED BY <1>1, <1>4, <1>5, <2>3, <3>1 DEF GateSteps
  <2>8. \A u \in Locks : LockCounts(u, w)' /\ GateSteps(u, w, w)
    <3>1. ASSUME NEW u \in Locks, u # s PROVE LockCounts(u, w)' /\ GateSteps(u, w, w)
      <4>1. u \in Semaphores /\ LockCounts(u, w)
          BY DEF Semaphores, CountsAre
      <4>. QED BY <1>6, <2>2, <3>1, <4>1, LockUntouched
    <3>. QED BY <2>6, <2>7, <3>1
  <2>9. \A u \in Signals : u \in Semaphores /\ u # s
      BY SemaphoresAssumption DEF Semaphores
  <2>10. CountsAre(w)'
      BY <2>2, <2>8, <2>9 DEF CountsAre
  <2>11. QueuesAre(r, w)'
      BY <2>1, <2>2, QueuesSame
  <2>12. TypeOK'
      BY <1>2, <2>1, <2>2 DEF TypeOK, Semaphores
  <2>. QED BY <2>1, <2>8, <2>10, <2>11, <2>12 DEF Keeps
<1>. QED BY <1>7, <1>8

LEMMA UnlockSemaphoreKeeps ==
    ASSUME TypeOK, ~mem.fault, NEW r \in Seq(Threads), NEW w \in Queues,
           QueuesAre(r, w), CountsAre(w), NEW t \in Threads, NEW s \in Locks, UnlockSemaphore(t, s)
    PROVE  Keeps(w)
<1>1. /\ current_running_tcb = t /\ asked[t] = s /\ asked' = [asked EXCEPT ![t] = NULL]
      /\ s \in Semaphores /\ NULL \notin Locks
    BY ThreadsAssumption DEF UnlockSemaphore, Semaphores
<1>2. /\ \A x \in Threads : asked'[x] = IF x = t THEN NULL ELSE asked[x]
      /\ asked' \in [Threads -> Locks \cup {NULL}]
    BY <1>1 DEF TypeOK
<1>3. /\ LockCounts(s, w) /\ w[s] \in Seq(Threads)
      /\ MaxCount[s] \in Nat /\ Cardinality(InsideOf(s, w)) \in Nat
      /\ IsFiniteSet(InsideOf(s, w))
    BY <1>1, SemaphoresAssumption, InsideIsFinite DEF CountsAre, Queues, Semaphores
<1>4. \A u \in Semaphores : t \notin Elements(w[u])
  <2>1. state[t] = "running"
      BY <1>1 DEF QueuesAre
  <2>. QED BY <2>1, QueueFacts
<1>5. t \in InsideOf(s, w)
    BY <1>1, <1>4 DEF InsideOf
<1>6. \A u \in Locks : u # s => \A x \in Threads : asked'[x] = u <=> asked[x] = u
    BY <1>1, <1>2
<1>7. CASE semaphore[s].first_waiting_task # NULL
  <2> DEFINE v == [w EXCEPT ![s] = Tail(@)]
             count == semaphore[s].current_count
  <2>1. Dequeue(s, count) /\ count \in Int
      BY <1>1, <1>7 DEF UnlockSemaphore, TypeOK
  <2>2. /\ mem' \in MemoryType /\ mem'.fault = mem.fault
        /\ state' \in [Threads -> {"running", "paused", "none"}]
        /\ semaphore' \in [Semaphores -> [current_count : Int,
                                          first_waiting_task : Threads \cup {NULL},
                                          last_waiting_task : Threads \cup {NULL}]]
        /\ semaphore'[s].current_count = count
        /\ \A u \in Semaphores : u # s => semaphore'[u] = semaphore[u]
        /\ w[s] # <<>> /\ v \in Queues
        /\ \E q \in Seq(Threads) : QueuesAre(q, v)'
      BY <1>1, <1>7, <2>1, DequeueQueues
  <2>3. /\ v[s] = Tail(w[s]) /\ Elements(v[s]) = Elements(w[s]) \ {Head(w[s])}
        /\ Head(w[s]) \in Elements(w[s]) /\ Head(w[s]) \in Threads
        /\ \A u \in Semaphores : u # s => v[u] = w[u]
    <3>1. Head(w[s]) = w[s][1]
        BY <1>3, <2>2
    <3>2. \A i, j \in 1..Len(w[s]) : w[s][i] = w[s][j] => i = j
        BY <1>1, QueueFacts
    <3>3. /\ Elements(Tail(w[s])) = Elements(w[s]) \ {w[s][1]} /\ w[s][1] \in Elements(w[s])
          /\ w[s][1] \in Threads
        BY <1>3, <2>2, <3>2, TailFacts, SequenceFacts
    <3>. QED BY <1>1, <3>1, <3>3 DEF Queues
  <2>4. UNCHANGED current_running_tcb
      BY <2>1 DEF Dequeue
  <2> HIDE DEF v, count
  <2>5. InsideOf(s, v)' = (InsideOf(s, w) \ {t}) \cup {Head(w[s])}
    <3>1. asked[Head(w[s])] = s /\ Head(w[s]) # t
        BY <1>1, <1>3, <1>4, <2>3 DEF LockCounts
    <3>. QED BY <1>1, <1>2, <2>3, <3>1 DEF InsideOf
  <2>6. Cardinality((InsideOf(s, w) \ {t}) \cup {Head(w[s])}) = Cardinality(InsideOf(s, w))
    <3>1. /\ IsFiniteSet(InsideOf(s, w) \ {t})
          /\ Cardinality(InsideOf(s, w) \ {t}) = Cardinality(InsideOf(s, w)) - 1
        BY <1>3, <1>5, FS_RemoveElement
    <3>2. Head(w[s]) \notin InsideOf(s, w) \ {t}
        BY <2>3 DEF InsideOf
    <3>3. Cardinality((InsideOf(s, w) \ {t}) \cup {Head(w[s])})
              = Cardinality(InsideOf(s, w) \ {t}) + 1
        BY <3>1, <3>2, FS_AddElement
    <3>. QED BY <1>3, <3>1, <3>3
  <2>7. LockCounts(s, v)'
    <3>1. \A x \in Elements(v[s]) : asked'[x] = s
      <4>1. Elements(w[s]) \subseteq Threads /\ t \notin Elements(w[s])
          BY <1>1, <1>3, <1>4, SequenceFacts
      <4>2. \A x \in Elements(w[s]) : asked[x] = s
          BY <1>3 DEF LockCounts
      <4>. QED BY <1>2, <2>3, <4>1, <4>2
    <3>2. count = Cardinality(InsideOf(s, w)) /\ Cardinality(InsideOf(s, w)) = MaxCount[s]
        BY <1>3, <2>2 DEF LockCounts, count
    <3>. QED BY <1>3, <2>2, <2>5, <2>6, <3>1, <3>2 DEF LockCounts
  <2>8. GateSteps(s, w, v)
    <3>1. {x \in Threads : asked'[x] = s /\ x \notin Elements(v[s])}
              = (InsideOf(s, w) \ {t}) \cup {Head(w[s])}
        BY <2>5 DEF InsideOf
    <3>. QED BY <1>5, <2>2, <2>3, <3>1 DEF GateSteps
  <2>9. \A u \in Locks : LockCounts(u, v)' /\ GateSteps(u, w, v)
    <3>1. ASSUME NEW u \in Locks, u # s PROVE LockCounts(u, v)' /\ GateSteps(u, w, v)
      <4>1. u \in Semaphores /\ LockCounts(u, w)
          BY DEF Semaphores, CountsAre
      <4>. QED BY <1>6, <2>2, <2>3, <3>1, <4>1, LockUntouched
    <3>. QED BY <2>7, <2>8, <3>1
  <2>10. \A u \in Signals : u \in Semaphores /\ u # s
      BY SemaphoresAssumption DEF Semaphores
  <2>11. CountsAre(v)'
      BY <2>2, <2>3, <2>9, <2>10 DEF CountsAre
  <2>12. TypeOK'
      BY <1>2, <2>2, <2>4 DEF TypeOK, Semaphores
  <2>. QED BY <2>2, <2>9, <2>11, <2>12 DEF Keeps
<1>8. CASE ~(semaphore[s].first_waiting_task # NULL)
  <2>1. /\ semaphore' = [semaphore EXCEPT ![s].current_count = @ - 1]
        /\ UNCHANGED <<mem, state, current_running_tcb>>
      BY <1>8 DEF UnlockSemaphore
  <2>2. /\ semaphore' \in [Semaphores -> [current_count : Int,
                                          first_waiting_task : Threads \cup {NULL},
                                          last_waiting_task : Threads \cup {NULL}]]
        /\ semaphore'[s].current_count = semaphore[s].current_count - 1
        /\ \A u \in Semaphores :
               /\ u # s => semaphore'[u] = semaphore[u]
               /\ semaphore'[u].first_waiting_task = semaphore[u].first_waiting_task
               /\ semaphore'[u].last_waiting_task = semaphore[u].last_waiting_task
    <3>1. semaphore[s].current_count - 1 \in Int
        BY <1>1 DEF TypeOK
    <3>2. semaphore' = [semaphore EXCEPT ![s].current_count = semaphore[s].current_count - 1]
        BY <2>1
    <3>. QED BY <1>1, <3>1, <3>2, CountFields
  <2>3. w[s] = <<>>
      BY <1>1, <1>8, QueueFacts
  <2>4. InsideOf(s, w)' = InsideOf(s, w) \ {t}
      BY <1>1, <1>2 DEF InsideOf
  <2>5. Cardinality(InsideOf(s, w) \ {t}) = Cardinality(InsideOf(s, w)) - 1
      BY <1>3, <1>5, FS_RemoveElement
  <2>6. LockCounts(s, w)'
    <3>1. Elements(w[s]) = {}
        BY <1>3, <2>3, SequenceFacts
    <3>. QED BY <1>3, <2>2, <2>3, <2>4, <2>5, <3>1 DEF LockCounts
  <2>7. GateSteps(s, w, w)
    <3>1. {x \in Threads : asked'[x] = s /\ x \notin Elements(w[s])} = InsideOf(s, w) \ {t}
        BY <2>4 DEF InsideOf
    <3>. QED BY <1>5, <2>3, <3>1 DEF GateSteps
  <2>8. \A u \in Locks : LockCounts(u, w)' /\ GateSteps(u, w, w)
    <3>1. ASSUME NEW u \in Locks, u # s PROVE LockCounts(u, w)' /\ GateSteps(u, w, w)
      <4>1. u \in Semaphores /\ LockCounts(u, w)
          BY DEF Semaphores, CountsAre
      <4>. QED BY <1>6, <2>2, <3>1, <4>1, LockUntouched
    <3>. QED BY <2>6, <2>7, <3>1
  <2>9. \A u \in Signals : u \in Semaphores /\ u # s
      BY SemaphoresAssumption DEF Semaphores
  <2>10. CountsAre(w)'
      BY <2>2, <2>8, <2>9 DEF CountsAre
  <2>11. QueuesAre(r, w)'
      BY <2>1, <2>2, QueuesSame
  <2>12. TypeOK'
      BY <1>2, <2>1, <2>2 DEF TypeOK, Semaphores
  <2>. QED BY <2>1, <2>8, <2>10, <2>11, <2>12 DEF Keeps
<1>. QED BY <1>7, <1>8

\* A step on the queue of a signal does nothing to the locks.
LEMMA SignalsLeaveLocks ==
    ASSUME NEW w \in Queues, NEW v \in Queues, CountsAre(w), NEW s \in Signals,
           \A u \in Semaphores : u # s => v[u] = w[u] /\ semaphore'[u] = semaphore[u],
           semaphore'[s].current_count = -Len(v[s]),
           UNCHANGED asked
    PROVE  CountsAre(v)' /\ \A u \in Locks : GateSteps(u, w, v)
<1>1. ASSUME NEW u \in Locks PROVE LockCounts(u, v)' /\ GateSteps(u, w, v)
  <2>1. u \in Semaphores /\ u # s /\ LockCounts(u, w)
      BY SemaphoresAssumption DEF Semaphores, CountsAre
  <2>. QED BY <2>1, LockUntouched
<1>2. \A u \in Signals : semaphore'[u].current_count = -Len(v[u])
    BY DEF CountsAre, Semaphores
<1>. QED BY <1>1, <1>2 DEF CountsAre

LEMMA WaitSemaphoreKeeps ==
    ASSUME TypeOK, ~mem.fault, NEW r \in Seq(Threads), NEW w \in Queues,
           QueuesAre(r, w), CountsAre(w), NEW t \in Threads, NEW s \in Signals, WaitSemaphore(t, s)
    PROVE  Keeps(w)
<1> DEFINE v == [w EXCEPT ![s] = Append(@, t)]
           count == semaphore[s].current_count - 1
<1>1. s \in Semaphores /\ current_running_tcb = t /\ UNCHANGED asked /\ MaxCount[s] = 0
    BY SemaphoresAssumption DEF Semaphores, WaitSemaphore
<1>2. w[s] \in Seq(Threads) /\ Len(w[s]) \in Nat /\ semaphore[s].current_count = -Len(w[s])
    BY <1>1, SequenceFacts DEF Queues, CountsAre
<1>3. count \in Int /\ count < MaxCount[s] /\ count = -(Len(w[s]) + 1)
    BY <1>1, <1>2
<1>4. Enqueue(t, s, count)
    BY <1>3 DEF WaitSemaphore
<1>5. /\ mem' \in MemoryType /\ mem'.fault = mem.fault
      /\ current_running_tcb' \in Threads \cup {NULL}
      /\ v \in Queues
      /\ \E q \in Seq(Threads) : QueuesAre(q, v)'
    BY <1>1, <1>3, <1>4, EnqueueQueues
<1>6. /\ semaphore'[s].current_count = count
      /\ \A u \in Semaphores : u # s => semaphore'[u] = semaphore[u]
      /\ semaphore' \in [Semaphores -> [current_count : Int,
                                        first_waiting_task : Threads \cup {NULL},
                                        last_waiting_task : Threads \cup {NULL}]]
      /\ state' \in [Threads -> {"running", "paused", "none"}]
    BY <1>1, <1>3, <1>4, EnqueueFields
<1>7. v[s] = Append(w[s], t) /\ Len(v[s]) = Len(w[s]) + 1 /\ \A u \in Semaphores : u # s => v[u] = w[u]
    BY <1>1, <1>2, AppendFacts DEF Queues
<1> HIDE DEF v, count
<1>8. CountsAre(v)' /\ \A u \in Locks : GateSteps(u, w, v)
    BY <1>1, <1>3, <1>5, <1>6, <1>7, SignalsLeaveLocks
<1>9. TypeOK'
    BY <1>1, <1>5, <1>6 DEF TypeOK, Semaphores
<1>. QED BY <1>5, <1>8, <1>9 DEF Keeps

LEMMA PostSemaphoreKeeps ==
    ASSUME TypeOK, ~mem.fault, NEW r \in Seq(Threads), NEW w \in Queues,
           QueuesAre(r, w), CountsAre(w), NEW s \in Signals, PostSemaphore(s)
    PROVE  Keeps(w)
<1> DEFINE v == [w EXCEPT ![s] = Tail(@)]
           count == semaphore[s].current_count + 1
<1>1. /\ s \in Semaphores /\ UNCHANGED asked
      /\ semaphore[s].first_waiting_task # NULL /\ Dequeue(s, count)
    BY DEF Semaphores, PostSemaphore
<1>2. w[s] \in Seq(Threads) /\ Len(w[s]) \in Nat /\ semaphore[s].current_count = -Len(w[s])
    BY <1>1, SequenceFacts DEF Queues, CountsAre
<1>3. count \in Int /\ count = -(Len(w[s]) - 1)
    BY <1>2
<1>4. /\ mem' \in MemoryType /\ mem'.fault = mem.fault
      /\ state' \in [Threads -> {"running", "paused", "none"}]
      /\ semaphore' \in [Semaphores -> [current_count : Int,
                                        first_waiting_task : Threads \cup {NULL},
                                        last_waiting_task : Threads \cup {NULL}]]
      /\ semaphore'[s].current_count = count
      /\ \A u \in Semaphores : u # s => semaphore'[u] = semaphore[u]
      /\ w[s] # <<>> /\ v \in Queues
      /\ \E q \in Seq(Threads) : QueuesAre(q, v)'
    BY <1>1, <1>3, DequeueQueues
<1>5. /\ UNCHANGED current_running_tcb
      /\ v[s] = Tail(w[s]) /\ Len(v[s]) = Len(w[s]) - 1
      /\ \A u \in Semaphores : u # s => v[u] = w[u]
    BY <1>1, <1>2, <1>4 DEF Queues, Dequeue
<1> HIDE DEF v, count
<1>6. CountsAre(v)' /\ \A u \in Locks : GateSteps(u, w, v)
    BY <1>1, <1>3, <1>4, <1>5, SignalsLeaveLocks
<1>7. TypeOK'
    BY <1>1, <1>4, <1>5 DEF TypeOK, Semaphores
<1>. QED BY <1>4, <1>6, <1>7 DEF Keeps

-----------------------------------------------------------------------------
(* Every behaviour *)

LEMMA InitIInv == Init => IInv
<1>. SUFFICES ASSUME Init PROVE IInv
    OBVIOUS
<1> DEFINE none == <<>>
           w == [s \in Semaphores |-> none]
<1>1. /\ mem.list["threads_ready"] = EmptyList /\ mem.fault = FALSE
      /\ mem \in MemoryType
    BY DEF Init, FreshMemory, EmptyList, MemoryType
<1>2. TypeOK
  <2>1. semaphore \in [Semaphores -> [current_count : Int, first_waiting_task : Threads \cup {NULL},
                                      last_waiting_task : Threads \cup {NULL}]]
      BY DEF Init, Created
  <2>. QED BY <1>1, <2>1, ThreadsAssumption DEF Init, TypeOK
<1>3. none \in Seq(Threads) /\ Len(none) = 0 /\ Elements(none) = {}
    BY DEF Elements
<1>4. w \in Queues /\ \A s \in Semaphores : w[s] = none
    BY <1>3 DEF Queues
<1> HIDE DEF w
<1>5. \A m : Chained(m, NULL, none)
    BY DEF Chained
<1>6. QueuesAre(none, w)
  <2>1. ReadyIs(mem, none)
      BY <1>1, <1>3, <1>5 DEF ReadyIs, EmptyList
  <2>2. \A s \in Semaphores : semaphore[s].first_waiting_task = NULL
      BY DEF Init, Created
  <2>. QED BY <1>3, <1>4, <1>5, <2>1, <2>2, ThreadsAssumption DEF Init, QueuesAre
<1>7. CountsAre(w)
  <2>1. \A s \in Semaphores : semaphore[s].current_count = 0
      BY DEF Init, Created
  <2>2. \A s \in Locks : s \in Semaphores /\ InsideOf(s, w) = {} /\ MaxCount[s] \in Nat
      BY ThreadsAssumption, SemaphoresAssumption DEF Init, InsideOf, Semaphores
  <2>3. Cardinality({}) = 0
      BY FS_EmptySet
  <2>4. ASSUME NEW s \in Locks PROVE LockCounts(s, w)
    <3>1. s \in Semaphores /\ w[s] = <<>> /\ Elements(w[s]) = {}
        BY <1>3, <1>4, <2>2
    <3>2. Cardinality(InsideOf(s, w)) = 0 /\ MaxCount[s] \in Nat
        BY <2>2, <2>3
    <3>. QED BY <2>1, <3>1, <3>2 DEF LockCounts
  <2>5. ASSUME NEW s \in Signals PROVE semaphore[s].current_count = -Len(w[s])
    <3>1. s \in Semaphores /\ Len(w[s]) = 0
        BY <1>3, <1>4 DEF Semaphores
    <3>. QED BY <2>1, <3>1
  <2>. QED BY <2>4, <2>5 DEF CountsAre
<1>. QED BY <1>1, <1>2, <1>3, <1>4, <1>6, <1>7 DEF IInv

\* Every step keeps the queues, and is a step of SemaphoreQueue for every lock.
LEMMA NextKeeps ==
    ASSUME TypeOK, ~mem.fault, NEW r \in Seq(Threads), NEW w \in Queues,
           QueuesAre(r, w), CountsAre(w), [Next]_vars
    PROVE  Keeps(w)
<1>1. CASE UNCHANGED vars
  <2>1. TypeOK' /\ ~mem'.fault
      BY <1>1 DEF vars, TypeOK, Semaphores
  <2>2. QueuesAre(r, w)'
      BY <1>1 DEF vars, QueuesAre, ReadyIs, Chained
  <2>. QED BY <1>1, <2>1, <2>2, NoSemaphoreTouched DEF vars, TypeOK
<1>2. ASSUME NEW t \in Threads, ThreadCreate(t) PROVE Keeps(w)
    BY <1>2, ThreadCreateKeeps
<1>3. ASSUME NEW t \in Threads, NEW s \in Locks, LockSemaphore(t, s) PROVE Keeps(w)
    BY <1>3, LockSemaphoreKeeps
<1>4. ASSUME NEW t \in Threads, NEW s \in Locks, UnlockSemaphore(t, s) PROVE Keeps(w)
    BY <1>4, UnlockSemaphoreKeeps
<1>5. ASSUME NEW t \in Threads, NEW s \in Signals, WaitSemaphore(t, s) PROVE Keeps(w)
    BY <1>5, WaitSemaphoreKeeps
<1>6. ASSUME NEW s \in Signals, PostSemaphore(s) PROVE Keeps(w)
    BY <1>6, PostSemaphoreKeeps
<1>7. CASE Preempt
    BY <1>7, PreemptKeeps
<1>8. CASE LeaveIdle
    BY <1>8, LeaveIdleKeeps
<1>. QED BY <1>1, <1>2, <1>3, <1>4, <1>5, <1>6, <1>7, <1>8 DEF Next

LEMMA NextIInv == IInv /\ [Next]_vars => IInv'
<1>. SUFFICES ASSUME IInv, [Next]_vars PROVE IInv'
    OBVIOUS
<1>1. PICK r \in Seq(Threads), w \in Queues : QueuesAre(r, w) /\ CountsAre(w)
    BY DEF IInv
<1>2. Keeps(w)
    BY <1>1, NextKeeps DEF IInv
<1>3. PICK q \in Seq(Threads), v \in Queues : QueuesAre(q, v)' /\ CountsAre(v)'
    BY <1>2 DEF Keeps
<1>4. TypeOK' /\ ~mem'.fault
    BY <1>2 DEF Keeps
<1>5. (\E x \in Seq(Threads), y \in Queues : QueuesAre(x, y) /\ CountsAre(y))'
    BY <1>3
<1>. QED BY <1>4, <1>5 DEF IInv

\* The queues are what some sequences say, whatever threads do.
THEOREM Invariant == Spec => []IInv
BY InitIInv, NextIInv, PTL DEF Spec

\* What Semaphore reads off the pointers.
LEMMA ReadsBack ==
    ASSUME NEW r \in Seq(Threads), NEW w \in Queues, QueuesAre(r, w)
    PROVE  /\ Chain(mem, "threads_ready") = r /\ Members(mem, "threads_ready") = Elements(r)
           /\ \A s \in Semaphores :
                  /\ Waiting(s) = w[s]
                  /\ \A t \in Threads : WaitsOn(t, s) <=> t \in Elements(w[s])
                  /\ Inside(s) = InsideOf(s, w)
<1>1. Chain(mem, "threads_ready") = r
    BY ChainReadsBack DEF Chain, QueuesAre, ReadyIs
<1>2. \A s \in Seq(Threads) : DOMAIN s = 1..Len(s)
    OBVIOUS
<1>3. Members(mem, "threads_ready") = Elements(r)
    BY <1>1, <1>2 DEF Members, Elements
<1>4. ASSUME NEW s \in Semaphores
      PROVE  /\ Waiting(s) = w[s]
             /\ \A t \in Threads : WaitsOn(t, s) <=> t \in Elements(w[s])
             /\ Inside(s) = InsideOf(s, w)
  <2>1. Chained(mem, semaphore[s].first_waiting_task, w[s]) /\ w[s] \in Seq(Threads)
      BY DEF QueuesAre, Queues
  <2>2. Waiting(s) = w[s]
      BY <2>1, ChainReadsBack DEF Waiting
  <2>3. \A t \in Threads : WaitsOn(t, s) <=> t \in Elements(w[s])
      BY <1>2, <2>1, <2>2 DEF WaitsOn, Elements
  <2>. QED BY <2>2, <2>3 DEF Inside, InsideOf
<1>. QED BY <1>1, <1>3, <1>4

\* For any threads and semaphores the ready list and all queues stay apart and in
\* order, the states tell who is on which, and every count is exact
\* (thread_semaphore.c:34-104, thread_list.h:16-26).
THEOREM SemaphoresAreSound == Spec => []SemaphoresSound
<1>1. ASSUME IInv PROVE SemaphoresSound
  <2>1. PICK r \in Seq(Threads), w \in Queues : QueuesAre(r, w) /\ CountsAre(w)
      BY <1>1 DEF IInv
  <2>2. /\ Chain(mem, "threads_ready") = r /\ Members(mem, "threads_ready") = Elements(r)
        /\ \A s \in Semaphores :
               /\ Waiting(s) = w[s]
               /\ \A t \in Threads : WaitsOn(t, s) <=> t \in Elements(w[s])
               /\ Inside(s) = InsideOf(s, w)
      BY <2>1, ReadsBack
  <2>3. WellFormed(mem, "threads_ready")
    <3>1. DOMAIN r = 1..Len(r) /\ Len(r) \in Nat /\ (r = <<>> <=> Len(r) = 0)
        OBVIOUS
    <3>2. Cardinality(1..Len(r)) = Len(r)
      <4>1. 1 \in Int /\ Len(r) \in Int
          BY <3>1
      <4>2. Cardinality(1..Len(r)) = IF 1 > Len(r) THEN 0 ELSE Len(r) - 1 + 1
          BY <4>1, FS_Interval
      <4>. QED BY <3>1, <4>2
    <3>3. /\ mem.list["threads_ready"].size = Len(r)
          /\ mem.list["threads_ready"].tail = IF r = <<>> THEN NULL ELSE r[Len(r)]
          /\ r # <<>> => mem.next[r[Len(r)]] = NULL
        BY <2>1 DEF QueuesAre, ReadyIs, Chained
    <3>. QED BY <2>2, <3>1, <3>2, <3>3 DEF WellFormed
  <2>4. \A s \in Semaphores : Waiting(s) # <<>> =>
            /\ semaphore[s].last_waiting_task = Waiting(s)[Len(Waiting(s))]
            /\ mem.next[semaphore[s].last_waiting_task] = NULL
      BY <2>1, <2>2 DEF QueuesAre, Chained
  <2>5. ASSUME NEW t \in Threads
        PROVE  /\ Cardinality({s \in Semaphores : WaitsOn(t, s)}) =
                      IF state[t] = "paused" THEN 1 ELSE 0
               /\ state[t] = "running" <=>
                      t = current_running_tcb \/ t \in Members(mem, "threads_ready")
               /\ ~(t = current_running_tcb /\ t \in Members(mem, "threads_ready"))
    <3>1. {s \in Semaphores : WaitsOn(t, s)} = {s \in Semaphores : t \in Elements(w[s])}
        BY <2>2
    <3>2. state[t] = "paused" <=> \E s \in Semaphores : t \in Elements(w[s])
        BY <2>1 DEF QueuesAre
    <3>3. /\ state[t] = "running" <=>
                 t = current_running_tcb \/ t \in Members(mem, "threads_ready")
          /\ ~(t = current_running_tcb /\ t \in Members(mem, "threads_ready"))
        BY <2>1, <2>2 DEF QueuesAre
    <3>4. CASE state[t] = "paused"
      <4>1. PICK s \in Semaphores : t \in Elements(w[s])
          BY <3>2, <3>4
      <4>2. \A u \in Semaphores : u # s => t \notin Elements(w[u])
          BY <2>1, <4>1 DEF QueuesAre
      <4>3. {u \in Semaphores : t \in Elements(w[u])} = {s}
          BY <4>1, <4>2
      <4>4. Cardinality({s}) = 1
          BY FS_Singleton
      <4>. QED BY <3>1, <3>3, <3>4, <4>3, <4>4
    <3>5. CASE ~(state[t] = "paused")
      <4>1. {u \in Semaphores : t \in Elements(w[u])} = {}
          BY <3>2, <3>5
      <4>2. Cardinality({}) = 0
          BY FS_EmptySet
      <4>. QED BY <3>1, <3>3, <3>5, <4>1, <4>2
    <3>. QED BY <3>4, <3>5
  <2>6. QueuesSound
      BY <1>1, <2>3, <2>4, <2>5 DEF QueuesSound, IInv
  <2>7. CountsAreExact
      BY <2>1, <2>2 DEF CountsAreExact, CountsAre, LockCounts, Semaphores
  <2>. QED BY <2>6, <2>7 DEF SemaphoresSound
<1>. QED BY <1>1, Invariant, PTL

\* The instance of SemaphoreQueue counts like everybody.
LEMMA GateCounts ==
    ASSUME NEW s, NEW A
    PROVE  /\ Gate(s)!Cardinality(A) = Cardinality(A)
           /\ Gate(s)!IsFiniteSet(A) <=> IsFiniteSet(A)
BY DEF Gate!Cardinality, Gate!IsFiniteSet, Cardinality, IsFiniteSet

\* Nobody gets past a lock that max_count threads are inside of, and nobody waits
\* while there is room: what SemaphoreQueue promises holds of the pointers and the
\* counter (thread_semaphore.c:53-69, 90-100).
THEOREM LocksAdmitAtMostMaxCount ==
    Spec => [](\A s \in Locks : Gate(s)!Exclusion /\ Gate(s)!WaitsOnce /\ Gate(s)!NoIdleSlot)
<1>1. ASSUME IInv, NEW s \in Locks
      PROVE  Gate(s)!Exclusion /\ Gate(s)!WaitsOnce /\ Gate(s)!NoIdleSlot
  <2>1. PICK r \in Seq(Threads), w \in Queues : QueuesAre(r, w) /\ CountsAre(w)
      BY <1>1 DEF IInv
  <2>2. s \in Semaphores /\ Waiting(s) = w[s] /\ Inside(s) = InsideOf(s, w)
      BY <2>1, ReadsBack DEF Semaphores
  <2>3. LockCounts(s, w) /\ IsFiniteSet(InsideOf(s, w))
      BY <2>1, InsideIsFinite DEF CountsAre
  <2>4. \A i, j \in 1..Len(w[s]) : w[s][i] = w[s][j] => i = j
      BY <2>1, <2>2, QueueFacts
  <2>5. \A i \in 1..Len(w[s]) : w[s][i] \notin InsideOf(s, w)
      BY DEF InsideOf, Elements
  <2>. QED BY <2>2, <2>3, <2>4, <2>5, GateCounts DEF Gate!Exclusion, Gate!WaitsOnce, Gate!NoIdleSlot, LockCounts
<1>2. IInv => \A s \in Locks : Gate(s)!Exclusion /\ Gate(s)!WaitsOnce /\ Gate(s)!NoIdleSlot
    BY <1>1
<1>. QED BY <1>2, Invariant, PTL

\* A step of Semaphore is, for every lock, a step of SemaphoreQueue or none.
LEMMA StepIsGateStep == IInv /\ [Next]_vars => \A s \in Locks : [Gate(s)!Next]_(Gate(s)!qvars)
<1>. SUFFICES ASSUME IInv, [Next]_vars, NEW s \in Locks PROVE [Gate(s)!Next]_(Gate(s)!qvars)
    OBVIOUS
<1>1. PICK r \in Seq(Threads), w \in Queues : QueuesAre(r, w) /\ CountsAre(w)
    BY DEF IInv
<1>2. Keeps(w)
    BY <1>1, NextKeeps DEF IInv
<1>3. PICK q \in Seq(Threads), v \in Queues :
          QueuesAre(q, v)' /\ CountsAre(v)' /\ GateSteps(s, w, v)
    BY <1>2 DEF Keeps
<1>4. /\ s \in Semaphores /\ Waiting(s) = w[s] /\ Inside(s) = InsideOf(s, w)
      /\ \A t \in Threads : WaitsOn(t, s) <=> t \in Elements(w[s])
    BY <1>1, ReadsBack DEF Semaphores
<1>5. Waiting(s)' = v[s] /\ Inside(s)' = {t \in Threads : asked'[t] = s /\ t \notin Elements(v[s])}
  <2>1. Chained(mem', semaphore'[s].first_waiting_task, v[s]) /\ v[s] \in Seq(Threads)
      BY <1>3, <1>4 DEF QueuesAre, Queues
  <2>2. Waiting(s)' = v[s]
      BY <2>1, ChainReadsBack DEF Waiting
  <2>3. DOMAIN v[s] = 1..Len(v[s])
      BY <2>1
  <2>4. \A t \in Threads : WaitsOn(t, s)' <=> t \in Elements(v[s])
      BY <2>2, <2>3 DEF WaitsOn, Elements
  <2>5. Inside(s)' = {t \in Threads : asked'[t] = s /\ ~WaitsOn(t, s)'}
      BY DEF Inside
  <2>. QED BY <2>2, <2>4, <2>5
<1>6. CASE Inside(s)' = Inside(s) /\ Waiting(s)' = Waiting(s)
    BY <1>6 DEF Gate!qvars
<1>7. ASSUME NEW t \in Threads, t \notin Inside(s), t \notin Elements(w[s]),
             \/ Cardinality(Inside(s)) < MaxCount[s] /\ Inside(s)' = Inside(s) \cup {t}
                    /\ Waiting(s)' = Waiting(s)
             \/ Cardinality(Inside(s)) = MaxCount[s] /\ Inside(s)' = Inside(s)
                    /\ Waiting(s)' = Append(Waiting(s), t)
      PROVE  Gate(s)!Next
  <2>1. Gate(s)!Outside(t)
      BY <1>4, <1>7 DEF Gate!Outside, Gate!Waits, Elements
  <2>2. Gate(s)!Enter(t) \/ Gate(s)!Queue(t)
      BY <1>7, <2>1, GateCounts DEF Gate!Enter, Gate!Queue
  <2>. QED BY <2>2 DEF Gate!Next
<1>8. ASSUME NEW t \in Inside(s),
             \/ Waiting(s) = <<>> /\ Inside(s)' = Inside(s) \ {t} /\ Waiting(s)' = Waiting(s)
             \/ Waiting(s) # <<>> /\ Inside(s)' = (Inside(s) \ {t}) \cup {Head(Waiting(s))}
                    /\ Waiting(s)' = Tail(Waiting(s))
      PROVE  Gate(s)!Next
  <2>1. t \in Threads
      BY <1>8 DEF Inside
  <2>2. Gate(s)!Leave(t) \/ Gate(s)!HandOver(t)
      BY <1>8 DEF Gate!Leave, Gate!HandOver
  <2>. QED BY <2>1, <2>2 DEF Gate!Next
<1>9. \/ Inside(s)' = Inside(s) /\ Waiting(s)' = Waiting(s)
      \/ \E t \in Threads :
             /\ t \notin Inside(s) /\ t \notin Elements(w[s])
             /\ \/ Cardinality(Inside(s)) < MaxCount[s] /\ Inside(s)' = Inside(s) \cup {t}
                       /\ Waiting(s)' = Waiting(s)
                \/ Cardinality(Inside(s)) = MaxCount[s] /\ Inside(s)' = Inside(s)
                       /\ Waiting(s)' = Append(Waiting(s), t)
      \/ \E t \in Inside(s) :
             \/ Waiting(s) = <<>> /\ Inside(s)' = Inside(s) \ {t} /\ Waiting(s)' = Waiting(s)
             \/ Waiting(s) # <<>> /\ Inside(s)' = (Inside(s) \ {t}) \cup {Head(Waiting(s))}
                    /\ Waiting(s)' = Tail(Waiting(s))
    BY <1>3, <1>4, <1>5 DEF GateSteps
<1>. QED BY <1>6, <1>7, <1>8, <1>9

\* Every lock implements SemaphoreQueue: its pointers are a queue that only the
\* threads inside shorten, whatever the scheduler and the other semaphores do
\* (thread_semaphore.c:34-104).
THEOREM LocksImplementGates == Spec => ImplementsGates
<1>1. Init => \A s \in Locks : Gate(s)!Init
  <2>1. SUFFICES ASSUME Init, NEW s \in Locks PROVE Gate(s)!Init
      OBVIOUS
  <2>2. PICK r \in Seq(Threads), w \in Queues : QueuesAre(r, w) /\ CountsAre(w)
      BY <2>1, InitIInv DEF IInv
  <2>3. s \in Semaphores /\ Waiting(s) = w[s] /\ Inside(s) = InsideOf(s, w)
      BY <2>2, ReadsBack DEF Semaphores
  <2>4. Waiting(s) = <<>>
    <3>1. semaphore[s].first_waiting_task = NULL
        BY <2>1, <2>3 DEF Init, Created
    <3>. QED BY <2>2, <2>3, <3>1, QueueFacts
  <2>5. Inside(s) = {}
      BY <2>1, ThreadsAssumption DEF Init, Inside
  <2>. QED BY <2>4, <2>5 DEF Gate!Init
<1>. QED BY <1>1, StepIsGateStep, Invariant, PTL DEF Spec, ImplementsGates

=============================================================================

----------------------------- MODULE TasksProofs ----------------------------
(***************************************************************************)
(* For any number of threads, of which at most two sleep at a time: the    *)
(* three lists that share one next field stay well-formed and apart, the   *)
(* state of a thread tells where it is, and nothing refers to freed memory.*)
(*                                                                         *)
(* A linked list is described by the sequence of its threads, so that an   *)
(* operation on pointers is an Append, a Tail or the first of two.         *)
(***************************************************************************)
EXTENDS Tasks, Sequences, FiniteSetTheorems, WellFoundedInduction, TLAPS

Elements(s) == {s[i] : i \in 1..Len(s)}

\* From first on, next leads through exactly the threads of s.
Chained(m, first, s) ==
    /\ s \in Seq(Threads)
    /\ first = IF s = <<>> THEN NULL ELSE s[1]
    /\ \A i \in 1..(Len(s) - 1) : m.next[s[i]] = s[i + 1]
    /\ s # <<>> => m.next[s[Len(s)]] = NULL
    /\ \A i, j \in 1..Len(s) : s[i] = s[j] => i = j

\* The list l holds the threads of s.
ListIs(m, l, s) ==
    /\ Chained(m, m.list[l].head, s)
    /\ m.list[l].size = Len(s)
    /\ m.list[l].tail = IF s = <<>> THEN NULL ELSE s[Len(s)]

-----------------------------------------------------------------------------
(* Sequences *)

LEMMA SequenceFacts ==
    ASSUME NEW s \in Seq(Threads)
    PROVE  /\ Len(s) \in Nat /\ (s = <<>> <=> Len(s) = 0)
           /\ \A i \in 1..Len(s) : s[i] \in Threads
           /\ Elements(s) \subseteq Threads
           /\ Elements(s) = {} <=> s = <<>>
<1>1. /\ Len(s) \in Nat /\ (s = <<>> <=> Len(s) = 0)
      /\ \A i \in 1..Len(s) : s[i] \in Threads
    OBVIOUS
<1>2. Len(s) # 0 => 1 \in 1..Len(s)
    BY <1>1
<1>3. Len(s) = 0 => 1..Len(s) = {}
    BY <1>1
<1>. QED BY <1>1, <1>2, <1>3 DEF Elements

LEMMA AppendFacts ==
    ASSUME NEW s \in Seq(Threads), NEW t \in Threads
    PROVE  /\ Append(s, t) \in Seq(Threads) /\ Append(s, t) # <<>>
           /\ Len(Append(s, t)) = Len(s) + 1
           /\ \A i \in 1..Len(s) : Append(s, t)[i] = s[i]
           /\ Append(s, t)[Len(s) + 1] = t
           /\ Elements(Append(s, t)) = Elements(s) \cup {t}
<1>1. /\ Append(s, t) \in Seq(Threads) /\ Append(s, t) # <<>>
      /\ Len(Append(s, t)) = Len(s) + 1 /\ Len(s) \in Nat
      /\ \A i \in 1..Len(s) : Append(s, t)[i] = s[i]
      /\ Append(s, t)[Len(s) + 1] = t
    OBVIOUS
<1>2. /\ 1..(Len(s) + 1) = 1..Len(s) \cup {Len(s) + 1}
    BY <1>1
<1>3. Elements(Append(s, t)) = {Append(s, t)[i] : i \in 1..Len(s) \cup {Len(s) + 1}}
    BY <1>1, <1>2 DEF Elements
<1>4. {Append(s, t)[i] : i \in 1..Len(s) \cup {Len(s) + 1}} = {s[i] : i \in 1..Len(s)} \cup {t}
    BY <1>1
<1>. QED BY <1>1, <1>3, <1>4 DEF Elements

LEMMA TailFacts ==
    ASSUME NEW s \in Seq(Threads), s # <<>>,
           \A i, j \in 1..Len(s) : s[i] = s[j] => i = j
    PROVE  /\ Tail(s) \in Seq(Threads)
           /\ Len(Tail(s)) = Len(s) - 1
           /\ Tail(s) = <<>> <=> Len(s) = 1
           /\ \A i \in 1..(Len(s) - 1) : Tail(s)[i] = s[i + 1]
           /\ \A i, j \in 1..Len(Tail(s)) : Tail(s)[i] = Tail(s)[j] => i = j
           /\ Elements(Tail(s)) = Elements(s) \ {s[1]}
           /\ s[1] \in Elements(s)
<1>1. /\ Len(s) \in Nat /\ Len(s) # 0
      /\ Tail(s) \in Seq(Threads)
      /\ Len(Tail(s)) = Len(s) - 1
      /\ \A i \in 1..(Len(s) - 1) : Tail(s)[i] = s[i + 1]
    OBVIOUS
<1>2. Tail(s) = <<>> <=> Len(s) = 1
  <2>1. Tail(s) = <<>> <=> Len(Tail(s)) = 0
      BY <1>1
  <2>. QED BY <1>1, <2>1
<1>3. \A i \in 1..(Len(s) - 1) : i + 1 \in 1..Len(s)
    BY <1>1
<1>4. ASSUME NEW i \in 1..Len(Tail(s)), NEW j \in 1..Len(Tail(s)), Tail(s)[i] = Tail(s)[j]
      PROVE  i = j
  <2>1. s[i + 1] = s[j + 1] /\ i + 1 \in 1..Len(s) /\ j + 1 \in 1..Len(s)
      BY <1>1, <1>3, <1>4
  <2>2. i + 1 = j + 1
      BY <2>1
  <2>. QED BY <1>1, <2>2
<1>5. ASSUME NEW x \in Elements(Tail(s)) PROVE x \in Elements(s) \ {s[1]}
  <2>1. PICK i \in 1..(Len(s) - 1) : x = s[i + 1]
      BY <1>1, <1>5 DEF Elements
  <2>2. i + 1 \in 1..Len(s) /\ 1 \in 1..Len(s) /\ i + 1 # 1
      BY <1>1, <2>1
  <2>. QED BY <2>1, <2>2 DEF Elements
<1>6. ASSUME NEW x \in Elements(s) \ {s[1]} PROVE x \in Elements(Tail(s))
  <2>1. PICK i \in 1..Len(s) : x = s[i] /\ i # 1
      BY <1>6 DEF Elements
  <2>2. i - 1 \in 1..(Len(s) - 1) /\ (i - 1) + 1 = i
      BY <1>1, <2>1
  <2>3. Tail(s)[i - 1] = x
      BY <1>1, <2>1, <2>2
  <2>. QED BY <1>1, <2>2, <2>3 DEF Elements
<1>7. s[1] \in Elements(s)
  <2>1. 1 \in 1..Len(s)
      BY <1>1
  <2>. QED BY <2>1 DEF Elements
<1>. QED BY <1>1, <1>2, <1>4, <1>5, <1>6, <1>7

LEMMA LastFacts ==
    ASSUME NEW s \in Seq(Threads), s # <<>>
    PROVE  Len(s) \in 1..Len(s) /\ s[Len(s)] \in Elements(s) /\ s[Len(s)] \in Threads
<1>1. Len(s) \in 1..Len(s)
    OBVIOUS
<1>. QED BY <1>1 DEF Elements

-----------------------------------------------------------------------------
(* The linked lists of ThreadList *)

\* A chain is where its nodes' next fields are.
LEMMA ChainKept ==
    ASSUME NEW m, NEW n, NEW first, NEW s, Chained(m, first, s),
           \A t \in Elements(s) : n.next[t] = m.next[t]
    PROVE  Chained(n, first, s)
<1>1. s \in Seq(Threads) /\ Len(s) \in Nat
    BY DEF Chained
<1>2. \A i \in 1..Len(s) : n.next[s[i]] = m.next[s[i]]
    BY DEF Elements
<1>3. \A i \in 1..(Len(s) - 1) : i \in 1..Len(s)
    BY <1>1
<1>4. s # <<>> => Len(s) \in 1..Len(s)
    BY <1>1, LastFacts
<1>. QED BY <1>2, <1>3, <1>4 DEF Chained

\* Without its first thread.
LEMMA ChainTail ==
    ASSUME NEW m, NEW first, NEW s, Chained(m, first, s), s # <<>>
    PROVE  Chained(m, m.next[first], Tail(s))
<1>1. s \in Seq(Threads) /\ \A i, j \in 1..Len(s) : s[i] = s[j] => i = j
    BY DEF Chained
<1>2. /\ Tail(s) \in Seq(Threads) /\ Len(Tail(s)) = Len(s) - 1 /\ Len(s) \in Nat /\ Len(s) # 0
      /\ Tail(s) = <<>> <=> Len(s) = 1
      /\ \A i \in 1..(Len(s) - 1) : Tail(s)[i] = s[i + 1]
      /\ \A i, j \in 1..Len(Tail(s)) : Tail(s)[i] = Tail(s)[j] => i = j
    BY <1>1, TailFacts, SequenceFacts
<1> DEFINE u == Tail(s)
<1>3. m.next[first] = IF u = <<>> THEN NULL ELSE u[1]
  <2>1. first = s[1]
      BY DEF Chained
  <2>2. CASE Len(s) = 1
      BY <1>2, <2>1, <2>2 DEF Chained
  <2>3. CASE Len(s) # 1
    <3>1. 1 \in 1..(Len(s) - 1)
        BY <1>2, <2>3
    <3>. QED BY <1>2, <2>1, <2>3, <3>1 DEF Chained
  <2>. QED BY <2>2, <2>3
<1>4. ASSUME NEW i \in 1..(Len(u) - 1) PROVE m.next[u[i]] = u[i + 1]
  <2>1. i \in 1..(Len(s) - 1) /\ i + 1 \in 1..(Len(s) - 1)
      BY <1>2, <1>4
  <2>. QED BY <1>2, <2>1 DEF Chained
<1>5. ASSUME u # <<>> PROVE m.next[u[Len(u)]] = NULL
  <2>1. Len(s) - 1 \in 1..(Len(s) - 1) /\ (Len(s) - 1) + 1 = Len(s)
      BY <1>2, <1>5
  <2>2. u[Len(u)] = s[Len(s)]
      BY <1>2, <2>1
  <2>. QED BY <2>2 DEF Chained
<1>. QED BY <1>2, <1>3, <1>4, <1>5 DEF Chained

\* A thread t that is on no list is linked behind the last one.
LEMMA ChainAppend ==
    ASSUME NEW m, NEW n, NEW first, NEW s, NEW t \in Threads,
           Chained(m, first, s), t \notin Elements(s),
           n.next[t] = NULL,
           s # <<>> => n.next[s[Len(s)]] = t,
           \A u \in Elements(s) : s # <<>> /\ u # s[Len(s)] => n.next[u] = m.next[u]
    PROVE  Chained(n, IF s = <<>> THEN t ELSE first, Append(s, t))
<1>1. s \in Seq(Threads) /\ \A i, j \in 1..Len(s) : s[i] = s[j] => i = j
    BY DEF Chained
<1>2. Len(s) \in Nat /\ (s = <<>> <=> Len(s) = 0) /\ \A i \in 1..Len(s) : s[i] # t
    BY <1>1, SequenceFacts DEF Elements
<1> DEFINE u == Append(s, t)
<1>3. /\ u \in Seq(Threads) /\ Len(u) = Len(s) + 1 /\ u # <<>>
      /\ \A i \in 1..Len(s) : u[i] = s[i]
      /\ u[Len(s) + 1] = t
    BY <1>1, AppendFacts
<1> HIDE DEF u
<1>4. (IF s = <<>> THEN t ELSE first) = u[1]
  <2>1. CASE s = <<>>
      BY <1>2, <1>3, <2>1
  <2>2. CASE s # <<>>
    <3>1. 1 \in 1..Len(s)
        BY <1>2, <2>2
    <3>. QED BY <1>3, <2>2, <3>1 DEF Chained
  <2>. QED BY <2>1, <2>2
<1>5. ASSUME NEW i \in 1..(Len(u) - 1) PROVE n.next[u[i]] = u[i + 1]
  <2>1. i \in 1..Len(s)
      BY <1>2, <1>3
  <2>2. CASE i = Len(s)
    <3>1. s # <<>>
        BY <1>2, <2>1
    <3>. QED BY <1>3, <2>1, <2>2, <3>1
  <2>3. CASE i # Len(s)
    <3>1. i \in 1..(Len(s) - 1) /\ i + 1 \in 1..Len(s) /\ Len(s) \in 1..Len(s) /\ s # <<>>
        BY <1>2, <2>1, <2>3
    <3>2. s[i] # s[Len(s)] /\ s[i] \in Elements(s)
        BY <1>1, <2>1, <2>3, <3>1 DEF Elements
    <3>3. n.next[s[i]] = m.next[s[i]] /\ m.next[s[i]] = s[i + 1]
        BY <3>1, <3>2 DEF Chained
    <3>. QED BY <1>3, <2>1, <3>1, <3>3
  <2>. QED BY <2>2, <2>3
<1>6. ASSUME NEW i \in 1..Len(u), NEW j \in 1..Len(u), u[i] = u[j] PROVE i = j
  <2>1. \A k \in 1..Len(u) : k \in 1..Len(s) \/ k = Len(s) + 1
      BY <1>2, <1>3
  <2>. QED BY <1>1, <1>2, <1>3, <1>6, <2>1
<1>7. Chained(n, u[1], u)
    BY <1>3, <1>5, <1>6 DEF Chained
<1>. QED BY <1>4, <1>7 DEF u

\* A list is not longer than there are threads, which is where a walk gives up.
LEMMA ChainLength ==
    ASSUME NEW s \in Seq(Threads), \A i, j \in 1..Len(s) : s[i] = s[j] => i = j
    PROVE  Len(s) <= Cardinality(Threads) /\ Cardinality(Threads) \in Nat
<1>1. Len(s) \in Nat /\ s \in [1..Len(s) -> Threads]
    OBVIOUS
<1>2. IsFiniteSet(Threads) /\ Cardinality(Threads) \in Nat
    BY ThreadsAssumption, FS_CardinalityType
<1>3. IsFiniteSet(1..Len(s)) /\ Cardinality(1..Len(s)) = Len(s)
  <2>1. 1 \in Int /\ Len(s) \in Int
      BY <1>1
  <2>2. /\ IsFiniteSet(1..Len(s))
        /\ Cardinality(1..Len(s)) = IF 1 > Len(s) THEN 0 ELSE Len(s) - 1 + 1
      BY <2>1, FS_Interval
  <2>. QED BY <1>1, <2>2
<1>4. ASSUME Cardinality(Threads) < Cardinality(1..Len(s)) PROVE FALSE
  <2>1. \E i, j \in 1..Len(s) : i # j /\ s[i] = s[j]
      BY <1>1, <1>2, <1>3, <1>4, FS_PigeonHole
  <2>. QED BY <2>1
<1>. QED BY <1>1, <1>2, <1>3, <1>4

LEMMA SmallestExists ==
    ASSUME NEW T, T \subseteq Nat, T # {}
    PROVE  \E x \in T : \A y \in T : x <= y
<1>1. PICK x \in T : \A y \in T : ~(<<y, x>> \in OpToRel(<, Nat))
    BY NatLessThanWellFounded, WFMin, Zenon
<1>2. ASSUME NEW y \in T PROVE x <= y
  <2> DEFINE pair == <<y, x>>
  <2>1. pair \in Nat \X Nat /\ pair[1] = y /\ pair[2] = x /\ x \in Nat /\ y \in Nat
      OBVIOUS
  <2>2. pair \notin {ss \in Nat \X Nat : ss[1] < ss[2]}
      BY <1>1 DEF OpToRel
  <2> HIDE DEF pair
  <2>. QED BY <2>1, <2>2
<1>. QED BY <1>2

\* The threads of s in order, and then NULL.
Visits(s) == [n \in 0..Cardinality(Threads) |-> IF n < Len(s) THEN s[n + 1] ELSE NULL]

\* A walk meets the threads of a chain in order, and then NULL.
LEMMA WalkMeetsChain ==
    ASSUME NEW m, NEW first, NEW s, Chained(m, first, s)
    PROVE  WalkFrom(m, first) = Visits(s)
<1> DEFINE N == Cardinality(Threads)
           Met(n) == IF n < Len(s) THEN s[n + 1] ELSE NULL
           Step(p) == IF p = NULL THEN NULL ELSE m.next[p]
           at[n \in 0..N] == IF n = 0 THEN first
                             ELSE IF at[n - 1] = NULL THEN NULL ELSE m.next[at[n - 1]]
<1>1. /\ s \in Seq(Threads) /\ \A i, j \in 1..Len(s) : s[i] = s[j] => i = j
      /\ Len(s) \in Nat /\ (s = <<>> <=> Len(s) = 0)
      /\ \A i \in 1..Len(s) : s[i] \in Threads /\ s[i] # NULL
    BY SequenceFacts, ThreadsAssumption DEF Chained
<1>2. N \in Nat /\ Len(s) <= N
    BY <1>1, ChainLength
<1>3. Met(0) = first
    BY <1>1 DEF Chained
<1>4. ASSUME NEW n \in Nat, n # 0 PROVE Met(n) = Step(Met(n - 1))
  <2>1. n - 1 \in Nat /\ (n - 1) + 1 = n
      BY <1>4
  <2>2. CASE n < Len(s)
    <3>1. n \in 1..(Len(s) - 1) /\ n \in 1..Len(s) /\ n - 1 < Len(s)
        BY <1>1, <1>4, <2>2
    <3>. QED BY <1>1, <2>1, <2>2, <3>1 DEF Chained
  <2>3. CASE n = Len(s)
    <3>1. n \in 1..Len(s) /\ n - 1 < Len(s) /\ ~(n < Len(s)) /\ s # <<>>
        BY <1>1, <1>4, <2>3
    <3>. QED BY <1>1, <2>1, <2>3, <3>1 DEF Chained
  <2>4. CASE n > Len(s)
    <3>1. ~(n < Len(s)) /\ ~(n - 1 < Len(s))
        BY <1>1, <1>4, <2>4
    <3>. QED BY <3>1
  <2>. QED BY <1>1, <1>4, <2>2, <2>3, <2>4
<1> HIDE DEF Met
<1>5. at = [n \in 0..N |-> IF n = 0 THEN first ELSE Step(at[n - 1])]
  <2> DEFINE R == [n \in 0..N |-> Met(n)]
  <2>1. R = [n \in 0..N |-> IF n = 0 THEN first ELSE Step(R[n - 1])]
    <3>1. ASSUME NEW n \in 0..N, n # 0 PROVE Met(n) = Step(R[n - 1])
      <4>1. n \in Nat /\ n - 1 \in 0..N
          BY <1>2, <3>1
      <4>2. Met(n) = Step(Met(n - 1))
          BY <1>4, <3>1, <4>1
      <4>. QED BY <4>1, <4>2
    <3>. QED BY <1>3, <3>1
  <2>. QED BY <2>1 DEF at
<1> HIDE DEF at
<1>6. ASSUME NEW n \in 0..N PROVE at[n] = Met(n)
  <2> DEFINE wrong == {k \in 0..N : at[k] # Met(k)}
  <2>1. SUFFICES ASSUME wrong # {} PROVE FALSE
      OBVIOUS
  <2>2. wrong \subseteq Nat
      BY <1>2
  <2>3. PICK k \in wrong : \A j \in wrong : k <= j
      BY <2>1, <2>2, SmallestExists
  <2>4. k \in 0..N /\ at[k] # Met(k)
      OBVIOUS
  <2>5. k # 0
      BY <1>2, <1>3, <1>5, <2>4
  <2>6. k \in Nat /\ k - 1 \in 0..N /\ ~(k <= k - 1)
      BY <1>2, <2>4, <2>5
  <2>7. at[k - 1] = Met(k - 1)
      BY <2>3, <2>6
  <2>8. at[k] = Step(Met(k - 1))
      BY <1>5, <2>4, <2>5, <2>7
  <2>. QED BY <1>4, <2>4, <2>5, <2>6, <2>8
<1>7. at = [n \in 0..N |-> Met(n)]
    BY <1>5, <1>6
<1>8. WalkFrom(m, first) = at
    BY DEF WalkFrom, at
<1>. QED BY <1>7, <1>8 DEF Met, Visits

\* ChainFrom reads a chain back.
LEMMA ChainReadsBack ==
    ASSUME NEW m, NEW first, NEW s, Chained(m, first, s)
    PROVE  ChainFrom(m, first) = s
<1> DEFINE N == Cardinality(Threads)
           walk == [n \in 0..N |-> IF n < Len(s) THEN s[n + 1] ELSE NULL]
           met == {n \in DOMAIN walk : walk[n] # NULL}
<1>1. /\ s \in Seq(Threads) /\ \A i, j \in 1..Len(s) : s[i] = s[j] => i = j
      /\ Len(s) \in Nat
      /\ \A i \in 1..Len(s) : s[i] \in Threads /\ s[i] # NULL
    BY SequenceFacts, ThreadsAssumption DEF Chained
<1>2. N \in Nat /\ Len(s) <= N
    BY <1>1, ChainLength
<1>3. WalkFrom(m, first) = walk
    BY WalkMeetsChain DEF Visits
<1>4. met = 0..(Len(s) - 1)
  <2>1. ASSUME NEW n \in met PROVE n \in 0..(Len(s) - 1)
      BY <1>1, <1>2, <2>1
  <2>2. ASSUME NEW n \in 0..(Len(s) - 1) PROVE n \in met
    <3>1. n \in 0..N /\ n < Len(s) /\ n + 1 \in 1..Len(s)
        BY <1>1, <1>2, <2>2
    <3>2. walk[n] = s[n + 1]
        BY <3>1
    <3>. QED BY <1>1, <3>1, <3>2
  <2>. QED BY <2>1, <2>2
<1>5. Cardinality(0..(Len(s) - 1)) = Len(s)
  <2>1. 0 \in Int /\ Len(s) - 1 \in Int
      BY <1>1
  <2>2. Cardinality(0..(Len(s) - 1)) = IF 0 > Len(s) - 1 THEN 0 ELSE (Len(s) - 1) - 0 + 1
      BY <2>1, FS_Interval
  <2>. QED BY <1>1, <2>2
<1>6. ChainFrom(m, first) = [n \in 1..Len(s) |-> walk[n - 1]]
  <2>1. Cardinality(met) = Len(s)
      BY <1>4, <1>5
  <2>2. ChainFrom(m, first) = [n \in 1..Cardinality(met) |-> walk[n - 1]]
    <3> HIDE DEF walk
    <3>. QED BY <1>3 DEF ChainFrom
  <2>. QED BY <2>1, <2>2
<1>7. ASSUME NEW n \in 1..Len(s) PROVE walk[n - 1] = s[n]
  <2>1. n - 1 \in 0..N /\ n - 1 < Len(s) /\ (n - 1) + 1 = n
      BY <1>1, <1>2, <1>7
  <2>. QED BY <2>1
<1>8. s = [n \in 1..Len(s) |-> s[n]]
    BY <1>1
<1>. QED BY <1>6, <1>7, <1>8

\* What pop_front leaves.
Rest(s) == IF s = <<>> THEN s ELSE Tail(s)

\* list_thread_push_back puts a thread that is on no list at the end.
LEMMA PushBackAppends ==
    ASSUME NEW m \in MemoryType, NEW l \in ThreadLists, NEW r, ListIs(m, l, r),
           NEW t \in Threads, t \notin Elements(r)
    PROVE  LET n == PushBack(m, l, t)
           IN  /\ n \in MemoryType /\ n.fault = m.fault
               /\ \A k \in ThreadLists \ {l} : n.list[k] = m.list[k]
               /\ ListIs(n, l, Append(r, t))
               /\ \A u \in Threads : u # t /\ u \notin Elements(r) => n.next[u] = m.next[u]
<1> DEFINE n == PushBack(m, l, t)
           last == m.list[l].tail
<1>1. /\ r \in Seq(Threads) /\ Len(r) \in Nat /\ (r = <<>> <=> Len(r) = 0)
      /\ NULL \notin Threads
    BY SequenceFacts, ThreadsAssumption DEF ListIs, Chained
<1>2. /\ m.list[l].head = IF r = <<>> THEN NULL ELSE r[1]
      /\ m.list[l].size = Len(r)
      /\ last = IF r = <<>> THEN NULL ELSE r[Len(r)]
      /\ Chained(m, m.list[l].head, r)
    BY DEF ListIs, Chained
<1>3. r # <<>> => r[Len(r)] \in Threads /\ r[Len(r)] \in Elements(r)
    BY <1>1, LastFacts
<1>4. last = NULL <=> r = <<>>
    BY <1>1, <1>2, <1>3
<1>5. /\ n \in MemoryType /\ n.fault = m.fault
      /\ \A k \in ThreadLists \ {l} : n.list[k] = m.list[k]
      /\ n.list[l] = [head |-> IF r = <<>> THEN t ELSE m.list[l].head,
                      tail |-> t, size |-> Len(r) + 1]
      /\ n.next = IF r = <<>> THEN [m.next EXCEPT ![t] = NULL]
                  ELSE [m.next EXCEPT ![t] = NULL, ![last] = t]
  <2> DEFINE next == IF r = <<>> THEN [m.next EXCEPT ![t] = NULL]
                     ELSE [m.next EXCEPT ![t] = NULL, ![last] = t]
             fields == [head |-> IF r = <<>> THEN t ELSE m.list[l].head,
                        tail |-> t, size |-> Len(r) + 1]
  <2>1. n.fault = m.fault
      BY DEF PushBack, MemoryType
  <2>2. n.next = next
      BY <1>4 DEF PushBack, MemoryType
  <2>3. m.list[l] = [head |-> m.list[l].head, tail |-> m.list[l].tail, size |-> m.list[l].size]
      BY DEF MemoryType
  <2>4. n.list = [m.list EXCEPT ![l] = fields]
    <3>1. CASE r = <<>>
        BY <1>2, <1>4, <3>1 DEF PushBack, MemoryType
    <3>2. CASE r # <<>>
      <4>1. n.list = [m.list EXCEPT ![l].tail = t, ![l].size = @ + 1]
          BY <1>4, <3>2 DEF PushBack, MemoryType
      <4>. QED BY <1>2, <2>3, <3>2, <4>1 DEF MemoryType
    <3>. QED BY <3>1, <3>2
  <2>5. n = [list |-> n.list, next |-> n.next, fault |-> n.fault]
      BY DEF PushBack, MemoryType
  <2>6. n.next \in [Threads -> Threads \cup {NULL}]
      BY <2>2 DEF MemoryType
  <2>7. fields \in [head : Threads \cup {NULL}, tail : Threads \cup {NULL}, size : Nat]
      BY <1>1 DEF MemoryType
  <2>8. n.list \in [ThreadLists -> [head : Threads \cup {NULL}, tail : Threads \cup {NULL}, size : Nat]]
      BY <2>4, <2>7 DEF MemoryType
  <2>9. n.list[l] = fields /\ \A k \in ThreadLists \ {l} : n.list[k] = m.list[k]
    <3> HIDE DEF fields
    <3>. QED BY <2>4 DEF MemoryType
  <2> HIDE DEF n, next, fields
  <2>10. n \in MemoryType
      BY <2>1, <2>5, <2>6, <2>8 DEF MemoryType
  <2>. QED BY <2>1, <2>2, <2>9, <2>10 DEF next, fields
<1>6. /\ n.next[t] = NULL
      /\ r # <<>> => n.next[r[Len(r)]] = t
      /\ \A u \in Threads : u # t /\ (r = <<>> \/ u # r[Len(r)]) => n.next[u] = m.next[u]
    BY <1>2, <1>3, <1>5 DEF MemoryType
<1> HIDE DEF n
<1>7. Chained(n, n.list[l].head, Append(r, t))
  <2>1. \A u \in Elements(r) : u \in Threads /\ u # t
      BY <1>1, SequenceFacts
  <2>2. Chained(n, IF r = <<>> THEN t ELSE m.list[l].head, Append(r, t))
      BY <1>2, <1>6, <2>1, ChainAppend
  <2>. QED BY <1>5, <2>2
<1>8. Append(r, t) # <<>> /\ Len(Append(r, t)) = Len(r) + 1 /\ Append(r, t)[Len(r) + 1] = t
    BY <1>1, AppendFacts
<1>9. ListIs(n, l, Append(r, t))
    BY <1>5, <1>7, <1>8 DEF ListIs
<1>. QED BY <1>3, <1>5, <1>6, <1>9 DEF n

\* list_thread_pop_front takes the first thread and leaves its next field alone.
LEMMA PopFrontTakesFirst ==
    ASSUME NEW m \in MemoryType, NEW l \in ThreadLists, NEW r, ListIs(m, l, r)
    PROVE  LET n == PopFront(m, l)
           IN  /\ n \in MemoryType /\ n.fault = m.fault /\ n.next = m.next
               /\ \A k \in ThreadLists \ {l} : n.list[k] = m.list[k]
               /\ ListIs(n, l, Rest(r))
               /\ FrontOf(m, l) = IF r = <<>> THEN NULL ELSE r[1]
<1> DEFINE n == PopFront(m, l)
<1>1. /\ r \in Seq(Threads) /\ Len(r) \in Nat /\ (r = <<>> <=> Len(r) = 0)
      /\ \A i, j \in 1..Len(r) : r[i] = r[j] => i = j
      /\ \A i \in 1..Len(r) : r[i] \in Threads
      /\ NULL \notin Threads
    BY SequenceFacts, ThreadsAssumption DEF ListIs, Chained
<1>2. /\ m.list[l].head = IF r = <<>> THEN NULL ELSE r[1]
      /\ m.list[l].size = Len(r)
      /\ m.list[l].tail = IF r = <<>> THEN NULL ELSE r[Len(r)]
      /\ Chained(m, m.list[l].head, r)
    BY DEF ListIs, Chained
<1>3. FrontOf(m, l) = IF r = <<>> THEN NULL ELSE r[1]
    BY <1>1, <1>2 DEF FrontOf
<1>4. r # <<>> => r[1] \in Threads
  <2>1. r # <<>> => 1 \in 1..Len(r)
      BY <1>1
  <2>. QED BY <1>1, <2>1
<1>5. CASE r = <<>>
    BY <1>1, <1>2, <1>3, <1>5 DEF PopFront, Rest
<1>6. ASSUME r # <<>>
      PROVE  /\ n \in MemoryType /\ n.fault = m.fault /\ n.next = m.next
             /\ \A k \in ThreadLists \ {l} : n.list[k] = m.list[k]
             /\ ListIs(n, l, Tail(r))
  <2>1. /\ Len(Tail(r)) = Len(r) - 1 /\ (Tail(r) = <<>> <=> Len(r) = 1)
        /\ \A i \in 1..(Len(r) - 1) : Tail(r)[i] = r[i + 1]
      BY <1>1, <1>6, TailFacts
  <2>2. Chained(m, m.next[m.list[l].head], Tail(r))
      BY <1>2, <1>6, ChainTail
  <2>3. CASE Len(r) = 1
    <3>1. n = [m EXCEPT !.list[l] = EmptyList]
        BY <1>2, <2>3 DEF PopFront
    <3>2. /\ n \in MemoryType /\ n.fault = m.fault /\ n.next = m.next
          /\ \A k \in ThreadLists \ {l} : n.list[k] = m.list[k]
          /\ n.list[l] = [head |-> NULL, tail |-> NULL, size |-> 0]
        BY <3>1 DEF MemoryType, EmptyList
    <3>3. Tail(r) = <<>> /\ Len(Tail(r)) = 0
        BY <2>1, <2>3
    <3>4. Chained(n, NULL, Tail(r))
        BY <2>2, <3>2, <3>3 DEF Chained
    <3>. QED BY <3>2, <3>3, <3>4 DEF ListIs
  <2>4. CASE Len(r) # 1
    <3>1. ~(Len(r) < 1) /\ m.list[l].head = r[1] /\ m.list[l].head # NULL
        BY <1>1, <1>2, <1>4, <1>6
    <3>2. n = [m EXCEPT !.list[l].head = m.next[@], !.list[l].size = @ - 1]
        BY <1>2, <2>4, <3>1 DEF PopFront
    <3>3. Len(r) - 1 \in Nat
        BY <1>1, <3>1
    <3>4. /\ n \in MemoryType /\ n.fault = m.fault /\ n.next = m.next
          /\ \A k \in ThreadLists \ {l} : n.list[k] = m.list[k]
          /\ n.list[l] = [head |-> m.next[m.list[l].head], tail |-> m.list[l].tail,
                          size |-> Len(r) - 1]
      <4>1. n.fault = m.fault /\ n.next = m.next
          BY <3>2 DEF MemoryType
      <4>2. n.list = [m.list EXCEPT ![l].head = m.next[@], ![l].size = @ - 1]
          BY <3>2 DEF MemoryType
      <4>3. n.list[l] = [head |-> m.next[m.list[l].head], tail |-> m.list[l].tail,
                         size |-> Len(r) - 1]
          BY <1>2, <4>2 DEF MemoryType
      <4>4. m.next[m.list[l].head] \in Threads \cup {NULL}
          BY <1>4, <1>6, <3>1 DEF MemoryType
      <4>5. n.list[l] \in [head : Threads \cup {NULL}, tail : Threads \cup {NULL}, size : Nat]
          BY <3>3, <4>3, <4>4 DEF MemoryType
      <4>6. /\ n.list = [k \in ThreadLists |-> n.list[k]]
            /\ \A k \in ThreadLists \ {l} : n.list[k] = m.list[k]
          BY <4>2 DEF MemoryType
      <4>7. n = [list |-> n.list, next |-> n.next, fault |-> n.fault]
          BY <3>2 DEF MemoryType
      <4> HIDE DEF n
      <4>8. n.list \in [ThreadLists -> [head : Threads \cup {NULL}, tail : Threads \cup {NULL},
                                       size : Nat]]
        <5> DEFINE R == [head : Threads \cup {NULL}, tail : Threads \cup {NULL}, size : Nat]
        <5>1. n.list[l] \in R /\ \A k \in ThreadLists : m.list[k] \in R
            BY <4>5 DEF MemoryType
        <5> HIDE DEF R
        <5>. QED BY <4>6, <5>1 DEF R
      <4>9. n \in MemoryType
          BY <4>1, <4>7, <4>8 DEF MemoryType
      <4>. QED BY <4>1, <4>3, <4>6, <4>9
    <3>5. Chained(n, m.next[m.list[l].head], Tail(r))
        BY <2>2, <3>4 DEF Chained
    <3>6. Tail(r) # <<>> /\ Tail(r)[Len(Tail(r))] = r[Len(r)]
      <4>1. Len(r) - 1 \in 1..(Len(r) - 1) /\ (Len(r) - 1) + 1 = Len(r)
        <5>1. Len(r) \in Nat /\ Len(r) # 0 /\ Len(r) # 1
            BY <1>1, <1>6, <2>4
        <5>2. \A k \in Nat : k # 0 /\ k # 1 => k - 1 \in 1..(k - 1) /\ (k - 1) + 1 = k
            OBVIOUS
        <5>. QED BY <5>1, <5>2
      <4>. QED BY <2>1, <2>4, <4>1
    <3>. QED BY <1>2, <1>6, <2>1, <3>4, <3>5, <3>6 DEF ListIs
  <2>. QED BY <2>3, <2>4
<1>. QED BY <1>3, <1>5, <1>6 DEF Rest

LEMMA TwoFacts ==
    ASSUME NEW s \in Seq(Threads), Len(s) = 2, \A i, j \in 1..Len(s) : s[i] = s[j] => i = j
    PROVE  /\ s # <<>> /\ s[1] \in Threads /\ s[2] \in Threads /\ s[1] # s[2]
           /\ Elements(s) = {s[1], s[2]}
           /\ 1 \in 1..(Len(s) - 1) /\ s[1 + 1] = s[2]
<1>1. 1 \in 1..Len(s) /\ 2 \in 1..Len(s) /\ 1..Len(s) = {1, 2}
    OBVIOUS
<1>2. s[1] \in Threads /\ s[2] \in Threads
    BY <1>1
<1>3. s[1] # s[2]
    BY <1>1
<1>4. Elements(s) = {s[1], s[2]}
    BY <1>1 DEF Elements
<1>. QED BY <1>1, <1>2, <1>3, <1>4

LEMMA OneFacts ==
    ASSUME NEW t \in Threads
    PROVE  /\ <<t>> \in Seq(Threads) /\ <<t>> # <<>> /\ Len(<<t>>) = 1 /\ <<t>>[1] = t
           /\ Elements(<<t>>) = {t}
           /\ \A m : m.next[t] = NULL => Chained(m, t, <<t>>)
<1>1. <<t>> \in Seq(Threads) /\ <<t>> # <<>> /\ Len(<<t>>) = 1 /\ <<t>>[1] = t
    OBVIOUS
<1>2. 1..Len(<<t>>) = {1} /\ 1..(Len(<<t>>) - 1) = {}
    BY <1>1
<1>3. Elements(<<t>>) = {t}
    BY <1>1, <1>2 DEF Elements
<1> DEFINE s == <<t>>
<1> HIDE DEF s
<1>4. ASSUME NEW m, m.next[t] = NULL PROVE Chained(m, t, s)
    BY <1>1, <1>2, <1>4 DEF Chained, s
<1>. QED BY <1>1, <1>3, <1>4 DEF s

\* A walk along the list l visits its threads.
LEMMA WalkIs ==
    ASSUME NEW m, NEW l, NEW r, ListIs(m, l, r)
    PROVE  Walk(m, l) = Visits(r)
<1> DEFINE head == m.list[l].head
<1>1. Chained(m, head, r)
    BY DEF ListIs
<1>2. Walk(m, l) = WalkFrom(m, head)
    BY DEF Walk
<1> HIDE DEF head
<1>. QED BY <1>1, <1>2, WalkMeetsChain

\* The head, the tail and the size of a list.
ListType == [head : Threads \cup {NULL}, tail : Threads \cup {NULL}, size : Nat]

\* n is m with the list l and next fields replaced.
Updated(m, n, l, fields) ==
    /\ n.list = [m.list EXCEPT ![l] = fields]
    /\ n.next \in [Threads -> Threads \cup {NULL}] /\ n.fault = m.fault
    /\ n = [list |-> n.list, next |-> n.next, fault |-> n.fault]

LEMMA UpdatedFacts ==
    ASSUME NEW m, m \in MemoryType, NEW l, l \in ThreadLists, NEW fields, fields \in ListType,
           NEW n, Updated(m, n, l, fields)
    PROVE  /\ n \in MemoryType /\ n.list[l] = fields
           /\ \A k \in ThreadLists \ {l} : n.list[k] = m.list[k]
<1>1. MemoryType = [list : [ThreadLists -> ListType], next : [Threads -> Threads \cup {NULL}],
                    fault : BOOLEAN]
    BY DEF MemoryType, ListType
<1>2. /\ n.list \in [ThreadLists -> ListType] /\ n.list[l] = fields
      /\ \A k \in ThreadLists \ {l} : n.list[k] = m.list[k]
    BY <1>1 DEF Updated
<1>3. n \in MemoryType
    BY <1>1, <1>2 DEF Updated
<1>. QED BY <1>2, <1>3

\* From m to n, no list but l has changed.
OnlyOn(l, m, n) ==
    /\ n \in MemoryType /\ n.fault = m.fault
    /\ \A k \in ThreadLists \ {l} : n.list[k] = m.list[k]

\* The first of two threads alone on a list.
OneLeft(r) == [head |-> r[1], tail |-> r[1], size |-> 1]

LEMMA OneIsLeft ==
    ASSUME NEW m \in MemoryType, NEW l \in ThreadLists, NEW r, r[1] \in Threads,
           NEW n, n.next = [m.next EXCEPT ![r[1]] = NULL], Updated(m, n, l, OneLeft(r))
    PROVE  /\ OnlyOn(l, m, n)
           /\ ListIs(n, l, <<r[1]>>)
           /\ \A u \in Threads : u # r[1] => n.next[u] = m.next[u]
<1> DEFINE fields == OneLeft(r)
<1>1. fields \in ListType /\ fields.head = r[1] /\ fields.tail = r[1] /\ fields.size = 1
    BY DEF ListType, OneLeft
<1> HIDE DEF fields
<1>2. Updated(m, n, l, fields)
    BY DEF fields
<1>3. /\ n \in MemoryType /\ n.list[l] = fields
      /\ \A k \in ThreadLists \ {l} : n.list[k] = m.list[k]
    BY <1>1, <1>2, UpdatedFacts
<1>4. n.next[r[1]] = NULL /\ \A u \in Threads : u # r[1] => n.next[u] = m.next[u]
    BY DEF MemoryType
<1>5. n.fault = m.fault
    BY DEF Updated
<1>6. ListIs(n, l, <<r[1]>>)
    BY <1>1, <1>3, <1>4, OneFacts DEF ListIs
<1>7. OnlyOn(l, m, n)
    BY <1>3, <1>5 DEF OnlyOn
<1>. QED BY <1>4, <1>6, <1>7

\* list_thread_pop_back, on two threads: the walk to the one before the last stops at once.
LEMMA PopBackOfTwo ==
    ASSUME NEW m \in MemoryType, NEW l \in ThreadLists, NEW r, ListIs(m, l, r), Len(r) = 2
    PROVE  LET n == PopBack(m, l)
           IN  /\ OnlyOn(l, m, n)
               /\ ListIs(n, l, <<r[1]>>)
               /\ \A u \in Threads : u # r[1] => n.next[u] = m.next[u]
<1> DEFINE n == PopBack(m, l)
           N == Cardinality(Threads)
           back == m.list[l].tail
           walk == Walk(m, l)
           stops == {i \in DOMAIN walk : walk[i] = NULL \/ m.next[walk[i]] = back}
           first == CHOOSE i \in stops : \A k \in stops : i <= k
           temp == IF stops = {} THEN NULL ELSE walk[first]
           trimmed == [m EXCEPT !.next[temp] = NULL, !.list[l].tail = temp, !.list[l].size = @ - 1]
<1>1. /\ r \in Seq(Threads) /\ Chained(m, m.list[l].head, r)
      /\ \A i, j \in 1..Len(r) : r[i] = r[j] => i = j
      /\ m.list[l].size = Len(r) /\ m.list[l].tail = IF r = <<>> THEN NULL ELSE r[Len(r)]
    BY DEF ListIs, Chained
<1>2. /\ r # <<>> /\ r[1] \in Threads /\ r[2] \in Threads /\ r[1] # r[2] /\ NULL \notin Threads
      /\ 1 \in 1..(Len(r) - 1) /\ r[1 + 1] = r[2]
    BY <1>1, TwoFacts, ThreadsAssumption
<1>3. m.list[l].size = 2 /\ back = r[2] /\ m.next[r[1]] = r[2] /\ m.list[l].head = r[1]
    BY <1>1, <1>2 DEF Chained
<1>4. N \in Nat /\ 2 <= N
    BY <1>1, ChainLength
<1>5. walk = [i \in 0..N |-> IF i < Len(r) THEN r[i + 1] ELSE NULL]
  <2>1. walk = Visits(r)
      BY WalkIs
  <2>. QED BY <2>1 DEF Visits
<1> HIDE DEF walk
<1>6. walk[0] = r[1] /\ 0 \in DOMAIN walk /\ DOMAIN walk \subseteq Nat
    BY <1>4, <1>5
<1>7. 0 \in stops /\ stops \subseteq Nat
    BY <1>3, <1>6
<1>8. PopBack(m, l) =
          CASE m.list[l].size < 1  -> m
            [] m.list[l].size = 1  -> [m EXCEPT !.list[l] = EmptyList]
            [] OTHER               -> IF temp = NULL THEN Fault(m) ELSE trimmed
    BY DEF PopBack, FirstStop, walk
<1> HIDE DEF stops, n, back
<1>9. first = 0
  <2>1. \A k \in stops : 0 <= k
      BY <1>7
  <2>2. first \in stops /\ \A k \in stops : first <= k
    <3>1. \E i \in stops : \A k \in stops : i <= k
        BY <1>7, <2>1
    <3>. QED BY <3>1
  <2> HIDE DEF first
  <2>. QED BY <1>7, <2>1, <2>2
<1> HIDE DEF first
<1>10. temp = r[1]
    BY <1>6, <1>7, <1>9
<1> HIDE DEF temp, trimmed
<1>11. n = [m EXCEPT !.next[r[1]] = NULL, !.list[l].tail = r[1], !.list[l].size = @ - 1]
    BY <1>2, <1>3, <1>8, <1>10 DEF n, trimmed
<1>12. n.next = [m.next EXCEPT ![r[1]] = NULL]
    BY <1>11 DEF MemoryType
<1>13. n.list = [m.list EXCEPT ![l].tail = r[1], ![l].size = @ - 1]
    BY <1>11 DEF MemoryType
<1>14. Updated(m, n, l, OneLeft(r))
  <2>1. n.list = [m.list EXCEPT ![l] = OneLeft(r)]
    <3>1. m.list[l] = [head |-> r[1], tail |-> m.list[l].tail, size |-> 2]
        BY <1>3 DEF MemoryType
    <3>. QED BY <1>13, <3>1 DEF MemoryType, OneLeft
  <2>2. n.next \in [Threads -> Threads \cup {NULL}] /\ n.fault = m.fault
      BY <1>2, <1>11 DEF MemoryType
  <2>3. n = [list |-> n.list, next |-> n.next, fault |-> n.fault]
      BY <1>11 DEF MemoryType
  <2>. QED BY <2>1, <2>2, <2>3 DEF Updated
<1>15. OnlyOn(l, m, n)
    BY <1>2, <1>12, <1>14, OneIsLeft
<1>16. ListIs(n, l, <<r[1]>>)
    BY <1>2, <1>12, <1>14, OneIsLeft
<1>17. \A u \in Threads : u # r[1] => n.next[u] = m.next[u]
    BY <1>2, <1>12, <1>14, OneIsLeft
<1>. QED BY <1>15, <1>16, <1>17 DEF n

-----------------------------------------------------------------------------
(* The three lists together *)

\* The list l of m holds the threads of q[l], and no thread is on two lists.
Listed(m, q) ==
    /\ q \in [ThreadLists -> Seq(Threads)]
    /\ \A l \in ThreadLists : ListIs(m, l, q[l])
    /\ \A k, l \in ThreadLists : k # l => Elements(q[k]) \cap Elements(q[l]) = {}

\* The memory the program may leave: each of its three lists is a queue of threads.
Sound(m) == m \in MemoryType /\ ~m.fault /\ \E q : Listed(m, q)

LEMMA ChainIs ==
    ASSUME NEW m, NEW l, NEW r, ListIs(m, l, r)
    PROVE  Chain(m, l) = r
<1> DEFINE head == m.list[l].head
<1>1. Chained(m, head, r)
    BY DEF ListIs
<1>2. Chain(m, l) = ChainFrom(m, head)
    BY DEF Chain
<1> HIDE DEF head
<1>. QED BY <1>1, <1>2, ChainReadsBack

LEMMA MembersAre ==
    ASSUME NEW m, NEW l, NEW r, ListIs(m, l, r)
    PROVE  Members(m, l) = Elements(r) /\ r \in Seq(Threads) /\ Elements(r) \subseteq Threads
<1>1. r \in Seq(Threads)
    BY DEF ListIs, Chained
<1>2. DOMAIN r = 1..Len(r)
    BY <1>1
<1>3. Members(m, l) = {r[n] : n \in DOMAIN r}
    BY ChainIs DEF Members
<1>. QED BY <1>1, <1>2, <1>3, SequenceFacts DEF Elements

LEMMA ListIsWellFormed ==
    ASSUME NEW m, NEW l, NEW r, ListIs(m, l, r)
    PROVE  WellFormed(m, l)
<1>1. r \in Seq(Threads) /\ Len(r) \in Nat /\ (r = <<>> <=> Len(r) = 0) /\ DOMAIN r = 1..Len(r)
  <2>1. r \in Seq(Threads)
      BY DEF ListIs, Chained
  <2>. QED BY <2>1
<1>2. Cardinality(1..Len(r)) = Len(r)
  <2>1. 1 \in Int /\ Len(r) \in Int
      BY <1>1
  <2>2. Cardinality(1..Len(r)) = IF 1 > Len(r) THEN 0 ELSE Len(r) - 1 + 1
      BY <2>1, FS_Interval
  <2>. QED BY <1>1, <2>2
<1>3. Chain(m, l) = r
    BY ChainIs
<1>4. /\ m.list[l].size = Len(r)
      /\ Len(r) = 0 => m.list[l].tail = NULL
      /\ Len(r) > 0 => m.list[l].tail = r[Len(r)] /\ m.next[r[Len(r)]] = NULL
    BY <1>1 DEF ListIs, Chained
<1>. QED BY <1>1, <1>2, <1>3, <1>4 DEF WellFormed

\* What the lists of sound memory are.
LEMMA SoundFacts ==
    ASSUME NEW m, Sound(m)
    PROVE  /\ \A l \in ThreadLists : WellFormed(m, l) /\ Members(m, l) \subseteq Threads
           /\ \A k, l \in ThreadLists : k # l => Members(m, k) \cap Members(m, l) = {}
<1>1. PICK q : Listed(m, q)
    BY DEF Sound
<1>2. ASSUME NEW l \in ThreadLists
      PROVE  /\ WellFormed(m, l) /\ Members(m, l) = Elements(q[l])
             /\ Elements(q[l]) \subseteq Threads
  <2>1. ListIs(m, l, q[l])
      BY <1>1 DEF Listed
  <2>. QED BY <2>1, MembersAre, ListIsWellFormed
<1>3. \A k, l \in ThreadLists : k # l => Elements(q[k]) \cap Elements(q[l]) = {}
    BY <1>1 DEF Listed
<1>. QED BY <1>2, <1>3

\* One list changes, and with it the next fields of no thread on another one.
LEMMA Relisted ==
    ASSUME NEW m, Sound(m), NEW q, Listed(m, q), NEW l \in ThreadLists,
           NEW n, OnlyOn(l, m, n), NEW s, ListIs(n, l, s),
           \A k \in ThreadLists \ {l} : \A u \in Elements(q[k]) :
               u \notin Elements(s) /\ n.next[u] = m.next[u]
    PROVE  /\ Sound(n) /\ Members(n, l) = Elements(s)
           /\ \A k \in ThreadLists \ {l} : Members(n, k) = Members(m, k)
<1> DEFINE p == [q EXCEPT ![l] = s]
<1>1. /\ q \in [ThreadLists -> Seq(Threads)] /\ s \in Seq(Threads)
      /\ \A k \in ThreadLists : ListIs(m, k, q[k])
    BY DEF Listed, ListIs, Chained
<1>2. /\ p \in [ThreadLists -> Seq(Threads)] /\ p[l] = s
      /\ \A k \in ThreadLists \ {l} : p[k] = q[k]
    BY <1>1
<1> HIDE DEF p
<1>3. ASSUME NEW k \in ThreadLists \ {l} PROVE ListIs(n, k, q[k])
  <2>1. ListIs(m, k, q[k]) /\ n.list[k] = m.list[k]
      BY <1>1 DEF OnlyOn
  <2>2. \A u \in Elements(q[k]) : n.next[u] = m.next[u]
      OBVIOUS
  <2>3. Chained(n, m.list[k].head, q[k])
    <3> DEFINE head == m.list[k].head
               r == q[k]
    <3>1. Chained(m, head, r) /\ \A u \in Elements(r) : n.next[u] = m.next[u]
        BY <2>1, <2>2 DEF ListIs
    <3> HIDE DEF head, r
    <3>2. Chained(n, head, r)
        BY <3>1, ChainKept
    <3>. QED BY <3>2 DEF head, r
  <2>. QED BY <2>1, <2>3 DEF ListIs
<1>4. \A k \in ThreadLists : ListIs(n, k, p[k])
    BY <1>2, <1>3
<1>5. \A j, k \in ThreadLists : j # k => Elements(p[j]) \cap Elements(p[k]) = {}
  <2>1. \A j, k \in ThreadLists : j # k => Elements(q[j]) \cap Elements(q[k]) = {}
      BY DEF Listed
  <2>2. \A k \in ThreadLists \ {l} : Elements(q[k]) \cap Elements(s) = {}
      OBVIOUS
  <2>. QED BY <1>2, <2>1, <2>2
<1>6. Listed(n, p)
    BY <1>2, <1>4, <1>5 DEF Listed
<1>7. Sound(n)
    BY <1>6 DEF Sound, OnlyOn
<1>8. Members(n, l) = Elements(s)
    BY MembersAre
<1>9. ASSUME NEW k \in ThreadLists \ {l} PROVE Members(n, k) = Members(m, k)
  <2> DEFINE r == q[k]
  <2>1. ListIs(m, k, r) /\ ListIs(n, k, r)
      BY <1>1, <1>3
  <2> HIDE DEF r
  <2>2. Members(m, k) = Elements(r)
      BY <2>1, MembersAre
  <2>3. Members(n, k) = Elements(r)
      BY <2>1, MembersAre
  <2>. QED BY <2>2, <2>3
<1>. QED BY <1>7, <1>8, <1>9

\* The sequence a list of sound memory is.
LEMMA ListOf ==
    ASSUME NEW m, NEW q, Listed(m, q), NEW l \in ThreadLists
    PROVE  \E r : /\ r = q[l] /\ ListIs(m, l, r) /\ Members(m, l) = Elements(r)
                  /\ r \in Seq(Threads) /\ Elements(r) \subseteq Threads
                  /\ \A k \in ThreadLists \ {l} : \A u \in Elements(q[k]) : u \notin Elements(r)
<1> DEFINE r == q[l]
<1>1. ListIs(m, l, r) /\ \A k \in ThreadLists \ {l} : \A u \in Elements(q[k]) : u \notin Elements(r)
    BY DEF Listed
<1> HIDE DEF r
<1>2. Members(m, l) = Elements(r) /\ r \in Seq(Threads) /\ Elements(r) \subseteq Threads
    BY <1>1, MembersAre
<1>. QED BY <1>1, <1>2 DEF r

\* A thread that is on no list is put on one.
LEMMA PushSound ==
    ASSUME NEW m, Sound(m), NEW l \in ThreadLists, NEW t \in Threads,
           \A k \in ThreadLists : t \notin Members(m, k),
           NEW n, n = PushBack(m, l, t)
    PROVE  /\ Sound(n) /\ Members(n, l) = Members(m, l) \cup {t}
           /\ \A k \in ThreadLists \ {l} : Members(n, k) = Members(m, k)
<1>1. PICK q : Listed(m, q)
    BY DEF Sound
<1>2. PICK r : /\ r = q[l] /\ ListIs(m, l, r) /\ Members(m, l) = Elements(r)
               /\ r \in Seq(Threads) /\ Elements(r) \subseteq Threads
               /\ \A k \in ThreadLists \ {l} : \A u \in Elements(q[k]) : u \notin Elements(r)
    BY <1>1, ListOf
<1>3. t \notin Elements(r) /\ m \in MemoryType
    BY <1>2 DEF Sound
<1>4. /\ n \in MemoryType /\ n.fault = m.fault
      /\ \A k \in ThreadLists \ {l} : n.list[k] = m.list[k]
      /\ ListIs(n, l, Append(r, t))
      /\ \A u \in Threads : u # t /\ u \notin Elements(r) => n.next[u] = m.next[u]
    BY <1>2, <1>3, PushBackAppends
<1>5. PICK s : s = Append(r, t)
    OBVIOUS
<1>6. Elements(s) = Elements(r) \cup {t}
    BY <1>2, <1>5, AppendFacts
<1>7. ASSUME NEW k \in ThreadLists \ {l}, NEW u \in Elements(q[k])
      PROVE  u \notin Elements(s) /\ n.next[u] = m.next[u]
  <2>1. Members(m, k) = Elements(q[k]) /\ Elements(q[k]) \subseteq Threads
      BY <1>1, ListOf
  <2>2. u \in Threads /\ u # t /\ u \notin Elements(r)
      BY <1>2, <1>7, <2>1
  <2>. QED BY <1>4, <1>6, <2>2
<1>8. OnlyOn(l, m, n) /\ ListIs(n, l, s)
    BY <1>4, <1>5 DEF OnlyOn
<1>9. /\ Sound(n) /\ Members(n, l) = Elements(s)
      /\ \A k \in ThreadLists \ {l} : Members(n, k) = Members(m, k)
    BY <1>1, <1>7, <1>8, Relisted
<1>. QED BY <1>2, <1>6, <1>9

LEMMA RestFacts ==
    ASSUME NEW m, NEW l, NEW r, ListIs(m, l, r)
    PROVE  /\ r # <<>> => r[1] \in Elements(r) /\ Elements(Rest(r)) = Elements(r) \ {r[1]}
           /\ r = <<>> => Elements(r) = {} /\ Rest(r) = r
<1>1. r \in Seq(Threads) /\ \A i, j \in 1..Len(r) : r[i] = r[j] => i = j
    BY DEF ListIs, Chained
<1>2. r # <<>> => r[1] \in Elements(r) /\ Elements(Tail(r)) = Elements(r) \ {r[1]}
    BY <1>1, TailFacts
<1>3. r = <<>> => Elements(r) = {}
    BY <1>1, SequenceFacts
<1>. QED BY <1>2, <1>3 DEF Rest

\* The first thread of a list, if there is one, is taken off it.
LEMMA PopSound ==
    ASSUME NEW m, Sound(m), NEW l \in ThreadLists,
           NEW n, n = PopFront(m, l), NEW t, t = FrontOf(m, l)
    PROVE  /\ Sound(n) /\ Members(n, l) = Members(m, l) \ {t}
           /\ \A k \in ThreadLists \ {l} : Members(n, k) = Members(m, k)
           /\ IF Members(m, l) = {} THEN t = NULL ELSE t \in Members(m, l) /\ t \in Threads
<1>1. PICK q : Listed(m, q)
    BY DEF Sound
<1>2. PICK r : /\ r = q[l] /\ ListIs(m, l, r) /\ Members(m, l) = Elements(r)
               /\ r \in Seq(Threads) /\ Elements(r) \subseteq Threads
               /\ \A k \in ThreadLists \ {l} : \A u \in Elements(q[k]) : u \notin Elements(r)
    BY <1>1, ListOf
<1>3. m \in MemoryType
    BY DEF Sound
<1>4. /\ n \in MemoryType /\ n.fault = m.fault /\ n.next = m.next
      /\ \A k \in ThreadLists \ {l} : n.list[k] = m.list[k]
      /\ ListIs(n, l, Rest(r))
      /\ t = IF r = <<>> THEN NULL ELSE r[1]
    BY <1>2, <1>3, PopFrontTakesFirst
<1>5. PICK s : s = Rest(r)
    OBVIOUS
<1>6. /\ r # <<>> => r[1] \in Elements(r) /\ Elements(s) = Elements(r) \ {r[1]}
      /\ r = <<>> => Elements(r) = {} /\ s = r
    BY <1>2, <1>5, RestFacts
<1>7. /\ Elements(s) = Elements(r) \ {t}
      /\ IF Elements(r) = {} THEN t = NULL ELSE t \in Elements(r)
    BY <1>4, <1>6
<1>8. OnlyOn(l, m, n) /\ ListIs(n, l, s)
    BY <1>4, <1>5 DEF OnlyOn
<1>9. \A k \in ThreadLists \ {l} : \A u \in Elements(q[k]) : u \notin Elements(s) /\ n.next[u] = m.next[u]
    BY <1>2, <1>4, <1>7
<1>10. /\ Sound(n) /\ Members(n, l) = Elements(s)
       /\ \A k \in ThreadLists \ {l} : Members(n, k) = Members(m, k)
    BY <1>1, <1>8, <1>9, Relisted
<1>. QED BY <1>2, <1>7, <1>10

\* head and size tell whether a list is empty.
LEMMA HeadFacts ==
    ASSUME NEW m, Sound(m), NEW l \in ThreadLists
    PROVE  /\ m.list[l].head = NULL <=> Members(m, l) = {}
           /\ m.list[l].size = 0 <=> Members(m, l) = {}
           /\ m.list[l].head # NULL => m.list[l].head = FrontOf(m, l)
<1>1. PICK q : Listed(m, q)
    BY DEF Sound
<1>2. PICK r : /\ r = q[l] /\ ListIs(m, l, r) /\ Members(m, l) = Elements(r)
               /\ r \in Seq(Threads) /\ Elements(r) \subseteq Threads
    BY <1>1, ListOf
<1>3. /\ Len(r) \in Nat /\ (r = <<>> <=> Len(r) = 0) /\ (Elements(r) = {} <=> r = <<>>)
    BY <1>2, SequenceFacts
<1>4. r # <<>> => r[1] \in Elements(r)
    BY <1>2, RestFacts
<1>5. /\ m.list[l].head = IF r = <<>> THEN NULL ELSE r[1]
      /\ m.list[l].size = Len(r)
    BY <1>2 DEF ListIs, Chained
<1>6. NULL \notin Threads
    BY ThreadsAssumption
<1>. QED BY <1>2, <1>3, <1>4, <1>5, <1>6 DEF FrontOf

\* One thread or two.
AtMostTwo(two) == \E a, b : two = {a, b}

LEMMA AtMostTwoIsShort ==
    ASSUME NEW s \in Seq(Threads), \A i, j \in 1..Len(s) : s[i] = s[j] => i = j,
           NEW two, AtMostTwo(two), Elements(s) \subseteq two
    PROVE  Len(s) <= 2
<1>. PICK a, b : two = {a, b}
    BY DEF AtMostTwo
<1>1. Len(s) \in Nat /\ \A i \in 1..Len(s) : s[i] \in {a, b}
    BY DEF Elements
<1>2. ASSUME Len(s) > 2 PROVE FALSE
  <2>1. 1 \in 1..Len(s) /\ 2 \in 1..Len(s) /\ 3 \in 1..Len(s)
      BY <1>1, <1>2
  <2>2. s[1] # s[2] /\ s[2] # s[3] /\ s[1] # s[3]
      BY <2>1
  <2>3. s[1] \in {a, b} /\ s[2] \in {a, b} /\ s[3] \in {a, b}
      BY <1>1, <2>1
  <2>. QED BY <2>2, <2>3
<1>. QED BY <1>1, <1>2

\* Of two threads the one that is not the first is the last.
LEMMA SecondIsLast ==
    ASSUME NEW m, NEW l, NEW r, ListIs(m, l, r), NEW two, AtMostTwo(two),
           Elements(r) \subseteq two, NEW t \in Elements(r), t # m.list[l].head
    PROVE  Len(r) = 2 /\ t = m.list[l].tail /\ r[1] # t
           /\ r[1] \in Threads /\ Elements(r) = {r[1], t}
<1>1. /\ r \in Seq(Threads) /\ \A i, j \in 1..Len(r) : r[i] = r[j] => i = j
      /\ m.list[l].head = IF r = <<>> THEN NULL ELSE r[1]
      /\ m.list[l].tail = IF r = <<>> THEN NULL ELSE r[Len(r)]
    BY DEF ListIs, Chained
<1>2. Len(r) \in Nat /\ Len(r) <= 2
  <2>1. Len(r) \in Nat
      BY <1>1
  <2>2. Len(r) <= 2
      BY <1>1, AtMostTwoIsShort
  <2>. QED BY <2>1, <2>2
<1>3. PICK i \in 1..Len(r) : r[i] = t
    BY DEF Elements
<1>4. r # <<>> /\ m.list[l].head = r[1]
    BY <1>1, <1>2, <1>3
<1>5. i # 1
    BY <1>3, <1>4
<1>6. Len(r) = 2 /\ i = 2
  <2>1. \A length \in Nat : length <= 2 => \A k \in 1..length : k # 1 => length = 2 /\ k = 2
      OBVIOUS
  <2>2. PICK length \in Nat : length = Len(r)
      BY <1>2
  <2>3. length <= 2 /\ i \in 1..length
      BY <1>2, <2>2
  <2>. QED BY <1>5, <2>1, <2>2, <2>3
<1>7. r[1] \in Threads /\ Elements(r) = {r[1], r[2]} /\ r[1] # r[2]
    BY <1>1, <1>6, TwoFacts
<1>. QED BY <1>1, <1>3, <1>4, <1>6, <1>7

\* list_thread_remove takes a thread off a list of at most two.
LEMMA RemoveSound ==
    ASSUME NEW m, Sound(m), NEW l \in ThreadLists, NEW two, AtMostTwo(two),
           Members(m, l) \subseteq two,
           NEW t \in Members(m, l), NEW n, n = Remove(m, l, t)
    PROVE  /\ Sound(n) /\ Members(n, l) = Members(m, l) \ {t}
           /\ \A k \in ThreadLists \ {l} : Members(n, k) = Members(m, k)
<1>1. CASE t = m.list[l].head
  <2>1. n = PopFront(m, l)
      BY <1>1 DEF Remove
  <2>2. t # NULL
      BY SoundFacts, ThreadsAssumption
  <2>3. t = FrontOf(m, l)
      BY <1>1, <2>2, HeadFacts
  <2>. QED BY <2>1, <2>3, PopSound
<1>2. CASE t # m.list[l].head
  <2>1. PICK q : Listed(m, q)
      BY DEF Sound
  <2>2. PICK r : /\ r = q[l] /\ ListIs(m, l, r) /\ Members(m, l) = Elements(r)
                 /\ r \in Seq(Threads) /\ Elements(r) \subseteq Threads
                 /\ \A k \in ThreadLists \ {l} : \A u \in Elements(q[k]) : u \notin Elements(r)
      BY <2>1, ListOf
  <2>3. /\ Len(r) = 2 /\ t = m.list[l].tail /\ r[1] # t
        /\ r[1] \in Threads /\ Elements(r) = {r[1], t}
    <3>1. ListIs(m, l, r) /\ Elements(r) \subseteq two /\ t \in Elements(r)
        BY <2>2
    <3>2. Len(r) = 2 /\ t = m.list[l].tail
        BY <1>2, <3>1, SecondIsLast
    <3>3. r[1] # t /\ r[1] \in Threads
        BY <1>2, <3>1, SecondIsLast
    <3>4. Elements(r) = {r[1], t}
        BY <1>2, <3>1, SecondIsLast
    <3>. QED BY <3>2, <3>3, <3>4
  <2>4. n = PopBack(m, l)
      BY <1>2, <2>3 DEF Remove
  <2>5. m \in MemoryType
      BY DEF Sound
  <2>6. /\ OnlyOn(l, m, n) /\ ListIs(n, l, <<r[1]>>)
        /\ \A u \in Threads : u # r[1] => n.next[u] = m.next[u]
      BY <2>2, <2>3, <2>4, <2>5, PopBackOfTwo
  <2>7. PICK s : s = <<r[1]>>
      OBVIOUS
  <2>8. Elements(s) = {r[1]} /\ Elements(s) = Elements(r) \ {t}
      BY <2>3, <2>7, OneFacts
  <2>9. ASSUME NEW k \in ThreadLists \ {l}, NEW u \in Elements(q[k])
        PROVE  u \notin Elements(s) /\ n.next[u] = m.next[u]
    <3>1. Elements(q[k]) \subseteq Threads
        BY <2>1, ListOf
    <3>2. u \in Threads /\ u # r[1] /\ u \notin Elements(r)
        BY <2>2, <2>3, <2>9, <3>1
    <3>. QED BY <2>6, <2>8, <3>2
  <2>10. OnlyOn(l, m, n) /\ ListIs(n, l, s)
      BY <2>6, <2>7
  <2>11. /\ Sound(n) /\ Members(n, l) = Elements(s)
         /\ \A k \in ThreadLists \ {l} : Members(n, k) = Members(m, k)
      BY <2>1, <2>9, <2>10, Relisted
  <2>. QED BY <2>2, <2>8, <2>11
<1>. QED BY <1>1, <1>2

\* What a walk along a list meets: threads of the list, and NULL where it ends.
LEMMA WalkMeetsMembers ==
    ASSUME NEW m, Sound(m), NEW l \in ThreadLists, NEW walk, walk = Walk(m, l)
    PROVE  /\ DOMAIN walk \subseteq Nat
           /\ \A n \in DOMAIN walk : walk[n] # NULL => walk[n] \in Members(m, l)
           /\ walk[Cardinality(Threads)] = NULL
<1>1. PICK q : Listed(m, q)
    BY DEF Sound
<1>2. PICK r : ListIs(m, l, r) /\ Members(m, l) = Elements(r) /\ r \in Seq(Threads)
    BY <1>1, ListOf
<1>3. \A i, j \in 1..Len(r) : r[i] = r[j] => i = j
    BY <1>2 DEF ListIs, Chained
<1>4. Len(r) \in Nat /\ Cardinality(Threads) \in Nat /\ Len(r) <= Cardinality(Threads)
    BY <1>2, <1>3, ChainLength
<1>5. walk = Visits(r)
    BY <1>2, WalkIs
<1>6. DOMAIN walk = 0..Cardinality(Threads)
    BY <1>5 DEF Visits
<1>7. \A n \in 0..Cardinality(Threads) : walk[n] = IF n < Len(r) THEN r[n + 1] ELSE NULL
    BY <1>5 DEF Visits
<1>8. ASSUME NEW n \in DOMAIN walk, walk[n] # NULL PROVE walk[n] \in Members(m, l)
  <2>1. n \in Nat /\ n < Len(r) /\ walk[n] = r[n + 1]
      BY <1>4, <1>6, <1>7, <1>8
  <2>2. n + 1 \in 1..Len(r)
      BY <1>4, <2>1
  <2>. QED BY <1>2, <2>1, <2>2 DEF Elements
<1>9. walk[Cardinality(Threads)] = NULL
  <2>1. Cardinality(Threads) \in 0..Cardinality(Threads) /\ ~(Cardinality(Threads) < Len(r))
      BY <1>4
  <2>. QED BY <1>7, <2>1
<1>10. DOMAIN walk \subseteq Nat
    BY <1>4, <1>6
<1>. QED BY <1>8, <1>9, <1>10

\* One thread of threads_sleeping, whose time has come, goes from threads_sleeping to
\* threads_ready and is RUNNING.
Woken(m, st, n, su, t, tick) ==
    /\ t \in Members(m, "threads_sleeping") /\ t \in Threads /\ paused_until[t] <= tick
    /\ su = [st EXCEPT ![t] = "running"]
    /\ Sound(n)
    /\ Members(n, "threads_sleeping") = Members(m, "threads_sleeping") \ {t}
    /\ Members(n, "threads_ready") = Members(m, "threads_ready") \cup {t}
    /\ Members(n, "threads_terminated") = Members(m, "threads_terminated")

\* pit_interrupt's loop wakes one thread or none, if there are at most two.
LEMMA WakeSound ==
    ASSUME NEW m, Sound(m), NEW two, AtMostTwo(two), Members(m, "threads_sleeping") \subseteq two,
           NEW st, NEW tick, NEW woken, woken = WakeOne(m, st, tick)
    PROVE  \/ woken.mem = m /\ woken.state = st
           \/ \E t \in Threads : Woken(m, st, woken.mem, woken.state, t, tick)
<1> DEFINE walk == Walk(m, "threads_sleeping")
           stops == {n \in DOMAIN walk : walk[n] = NULL \/ paused_until[walk[n]] <= tick}
           first == CHOOSE n \in stops : \A k \in stops : n <= k
           t == IF stops = {} THEN NULL ELSE walk[first]
<1>1. "threads_sleeping" \in ThreadLists
    BY DEF ThreadLists
<1>2. /\ DOMAIN walk \subseteq Nat
      /\ \A n \in DOMAIN walk : walk[n] # NULL => walk[n] \in Members(m, "threads_sleeping")
      /\ walk[Cardinality(Threads)] = NULL
    BY <1>1, WalkMeetsMembers
<1>3. woken = IF m.list["threads_sleeping"].size = 0 THEN [mem |-> m, state |-> st]
              ELSE IF t # NULL THEN [mem |-> Unblocked(Remove(m, "threads_sleeping", t), t),
                                     state |-> [st EXCEPT ![t] = "running"]]
              ELSE [mem |-> IF walk[Cardinality(Threads)] = NULL THEN m ELSE Fault(m), state |-> st]
    BY DEF WakeOne, FirstStop
<1> HIDE DEF walk
<1>4. stops # {} => first \in stops
  <2>1. stops \subseteq Nat
      BY <1>2
  <2>2. stops # {} => \E n \in stops : \A k \in stops : n <= k
      BY <2>1, SmallestExists
  <2> HIDE DEF stops
  <2>. QED BY <2>2
<1> HIDE DEF first
<1>5. t # NULL => t \in Members(m, "threads_sleeping") /\ paused_until[t] <= tick
    BY <1>2, <1>4
<1> HIDE DEF t
<1>6. CASE m.list["threads_sleeping"].size = 0 \/ t = NULL
    BY <1>2, <1>3, <1>6
<1>7. CASE m.list["threads_sleeping"].size # 0 /\ t # NULL
  <2>1. PICK left : left = Remove(m, "threads_sleeping", t)
      OBVIOUS
  <2>2. /\ Sound(left) /\ Members(left, "threads_sleeping") = Members(m, "threads_sleeping") \ {t}
        /\ \A k \in ThreadLists \ {"threads_sleeping"} : Members(left, k) = Members(m, k)
      BY <1>1, <1>5, <1>7, <2>1, RemoveSound
  <2>3. t \in Threads /\ \A k \in ThreadLists \ {"threads_sleeping"} : t \notin Members(m, k)
      BY <1>1, <1>5, <1>7, SoundFacts
  <2>4. \A k \in ThreadLists : t \notin Members(left, k)
      BY <2>2, <2>3
  <2>5. PICK n : n = PushBack(left, "threads_ready", t)
      OBVIOUS
  <2>6. "threads_ready" \in ThreadLists
      BY DEF ThreadLists
  <2>7. /\ Sound(n) /\ Members(n, "threads_ready") = Members(left, "threads_ready") \cup {t}
        /\ \A k \in ThreadLists \ {"threads_ready"} : Members(n, k) = Members(left, k)
      BY <2>2, <2>3, <2>4, <2>5, <2>6, PushSound
  <2>8. woken.mem = n /\ woken.state = [st EXCEPT ![t] = "running"]
      BY <1>3, <1>7, <2>1, <2>5 DEF Unblocked
  <2>9. /\ "threads_ready" \in ThreadLists \ {"threads_sleeping"}
        /\ "threads_terminated" \in ThreadLists \ {"threads_sleeping"}
        /\ "threads_terminated" \in ThreadLists \ {"threads_ready"}
        /\ "threads_sleeping" \in ThreadLists \ {"threads_ready"}
      BY DEF ThreadLists
  <2>10. Woken(m, st, woken.mem, woken.state, t, tick)
      BY <1>5, <1>7, <2>2, <2>3, <2>7, <2>8, <2>9 DEF Woken
  <2>. QED BY <2>3, <2>10
<1>. QED BY <1>6, <1>7

\* schedule: the first ready thread gets the CPU, the one that had it is queued if it
\* is still RUNNING; the other lists stay as they were.
Dispatched(m, st, cur, d) ==
    /\ Sound(d.mem) /\ d.current \in Threads \cup {NULL}
    /\ d.current \notin Members(d.mem, "threads_ready")
    /\ \A t \in Threads :
           t = d.current \/ t \in Members(d.mem, "threads_ready")
               <=> t \in Members(m, "threads_ready") \/ (t = cur /\ st[cur] = "running")
    /\ Members(d.mem, "threads_sleeping") = Members(m, "threads_sleeping")
    /\ Members(d.mem, "threads_terminated") = Members(m, "threads_terminated")

LEMMA DispatchSound ==
    ASSUME NEW m, Sound(m), NEW st, NEW cur \in Threads,
           st[cur] = "running" => \A l \in ThreadLists : cur \notin Members(m, l),
           NEW d, d = Dispatch(m, st, cur)
    PROVE  Dispatched(m, st, cur, d)
<1>1. PICK next : next = FrontOf(m, "threads_ready")
    OBVIOUS
<1>2. PICK popped : popped = PopFront(m, "threads_ready")
    OBVIOUS
<1>3. /\ d.mem = IF next # NULL /\ st[cur] = "running" THEN PushBack(popped, "threads_ready", cur)
                 ELSE popped
      /\ d.current = IF next # NULL THEN next ELSE IF st[cur] = "running" THEN cur ELSE NULL
    BY <1>1, <1>2 DEF Dispatch
<1>4. /\ "threads_ready" \in ThreadLists
      /\ "threads_sleeping" \in ThreadLists \ {"threads_ready"}
      /\ "threads_terminated" \in ThreadLists \ {"threads_ready"}
    BY DEF ThreadLists
<1>5. /\ Sound(popped) /\ Members(popped, "threads_ready") = Members(m, "threads_ready") \ {next}
      /\ \A k \in ThreadLists \ {"threads_ready"} : Members(popped, k) = Members(m, k)
    BY <1>1, <1>2, <1>4, PopSound
<1>6. IF Members(m, "threads_ready") = {} THEN next = NULL
      ELSE next \in Members(m, "threads_ready") /\ next \in Threads
    BY <1>1, <1>4, PopSound
<1>7. NULL \notin Threads /\ Members(m, "threads_ready") \subseteq Threads
    BY <1>4, SoundFacts, ThreadsAssumption
<1>8. CASE next # NULL /\ st[cur] = "running"
  <2>1. \A k \in ThreadLists : cur \notin Members(popped, k)
      BY <1>4, <1>5, <1>8
  <2>2. /\ Sound(d.mem)
        /\ Members(d.mem, "threads_ready") = Members(popped, "threads_ready") \cup {cur}
        /\ \A k \in ThreadLists \ {"threads_ready"} : Members(d.mem, k) = Members(popped, k)
    <3>1. PICK n : n = PushBack(popped, "threads_ready", cur)
        OBVIOUS
    <3>2. /\ Sound(n)
          /\ Members(n, "threads_ready") = Members(popped, "threads_ready") \cup {cur}
          /\ \A k \in ThreadLists \ {"threads_ready"} : Members(n, k) = Members(popped, k)
        BY <1>4, <1>5, <2>1, <3>1, PushSound
    <3>. QED BY <1>3, <1>8, <3>1, <3>2
  <2>3. d.current = next /\ next \in Members(m, "threads_ready") /\ next \in Threads /\ next # cur
      BY <1>3, <1>4, <1>6, <1>8
  <2>4. \A t \in Threads :
           t = d.current \/ t \in Members(d.mem, "threads_ready")
               <=> t \in Members(m, "threads_ready") \/ (t = cur /\ st[cur] = "running")
      BY <1>5, <1>8, <2>2, <2>3
  <2>. QED BY <1>4, <1>5, <2>2, <2>3, <2>4 DEF Dispatched
<1>9. CASE ~(next # NULL /\ st[cur] = "running")
  <2>1. d.mem = popped
      BY <1>3, <1>9
  <2>2. /\ d.current \in Threads \cup {NULL}
        /\ d.current \notin Members(popped, "threads_ready")
      BY <1>3, <1>4, <1>5, <1>6, <1>7
  <2>3. \A t \in Threads :
           t = d.current \/ t \in Members(popped, "threads_ready")
               <=> t \in Members(m, "threads_ready") \/ (t = cur /\ st[cur] = "running")
      BY <1>3, <1>5, <1>6, <1>7, <1>9
  <2>. QED BY <1>4, <1>5, <2>1, <2>2, <2>3 DEF Dispatched
<1>. QED BY <1>8, <1>9

-----------------------------------------------------------------------------
(* Ticks *)

LEMMA HalfRangeType == HalfRange \in Nat \ {0}
<1> DEFINE S == 1..(TickBits - 1)
<1>1. TickBits \in Nat /\ TickBits # 0
    BY TickAssumption
<1>2. TickBits - 1 \in Nat
    BY <1>1
<1>3. IsFiniteSet(S) /\ Cardinality(S) = TickBits - 1
  <2>1. 1 \in Int /\ TickBits - 1 \in Int
      BY <1>2
  <2>2. IsFiniteSet(S) /\ Cardinality(S) = IF 1 > TickBits - 1 THEN 0 ELSE (TickBits - 1) - 1 + 1
      BY <2>1, FS_Interval
  <2>. QED BY <1>2, <2>2
<1> HIDE DEF S
<1>4. IsFiniteSet(SUBSET S) /\ Cardinality(SUBSET S) = 2 ^ Cardinality(S)
    BY <1>3, FS_SUBSET
<1>5. Cardinality(SUBSET S) \in Nat
    BY <1>4, FS_CardinalityType
<1>6. Cardinality(SUBSET S) # 0
  <2>1. SUBSET S # {}
      OBVIOUS
  <2>. QED BY <1>4, <2>1, FS_EmptySet
<1>. QED BY <1>3, <1>4, <1>5, <1>6 DEF HalfRange

\* i32 arithmetic stays in i32.
LEMMA WrapType ==
    ASSUME NEW n \in Int
    PROVE  Wrap(n) \in Ticks
<1>1. \A h \in Nat \ {0} : ((n + h) % (2 * h)) - h \in (-h)..(h - 1)
    OBVIOUS
<1>2. HalfRange \in Nat \ {0}
    BY HalfRangeType
<1> HIDE DEF HalfRange
<1>. QED BY <1>1, <1>2 DEF Wrap, Ticks

LEMMA TickTypes == Ticks \subseteq Int /\ 0 \in Ticks
<1>1. \A h \in Nat \ {0} : (-h)..(h - 1) \subseteq Int /\ 0 \in (-h)..(h - 1)
    OBVIOUS
<1>2. HalfRange \in Nat \ {0}
    BY HalfRangeType
<1> HIDE DEF HalfRange
<1>. QED BY <1>1, <1>2 DEF Ticks

-----------------------------------------------------------------------------
(* The inductive invariant *)

\* A list holds the threads whose state is the reason to be on it; only the thread
\* that is about to block is on threads_sleeping before its state says so.
Located(m, st, p) ==
    /\ \A t \in Threads : t \in Members(m, "threads_ready") => st[t] = "running"
    /\ \A t \in Threads :
           t \in Members(m, "threads_sleeping") <=> st[t] = "sleeping" \/ p[t] = "nap"
    /\ \A t \in Threads : t \in Members(m, "threads_terminated") <=> st[t] = "terminated"
    /\ \A t \in Threads : st[t] = "paused" => t = Kernel /\ Members(m, "threads_terminated") = {}
    /\ st[Kernel] \in {"running", "paused"}
    /\ p[Kernel] \notin {"until", "nap"}

\* RUNNING threads have the CPU or wait for it, and not both.
Manned(m, st, cur) ==
    /\ cur \notin Members(m, "threads_ready")
    /\ \A t \in Threads : st[t] = "running" => t = cur \/ t \in Members(m, "threads_ready")

\* The stack in use is the current thread's, or, in the idle loop, one not freed.
Stacked(st, cur, stk) ==
    /\ cur \in Threads \cup {NULL} /\ stk \in Threads
    /\ cur # NULL => st[cur] = "running" /\ stk = cur
    /\ st[stk] # "none"

Settled(m, st, p, cur, stk) ==
    /\ Sound(m) /\ Located(m, st, p) /\ Manned(m, st, cur) /\ Stacked(st, cur, stk)
    /\ \A t \in Threads : p[t] = "nap" => t = cur

IInv == TypeOK /\ Settled(mem, state, pc, current_running_tcb, stack)

\* At most two threads sleep: list_thread_remove is then never asked for a thread
\* between two others, whose removal leaves the size as it was (thread_list.c:74-98).
AtMostTwoSleep ==
    \E a, b \in Threads : \A t \in Threads : state[t] = "sleeping" => t \in {a, b}

\* Who is RUNNING, PAUSED or not there at all, and neither queued nor about to block, is on no list.
LEMMA WhoIsOnNoList ==
    ASSUME NEW m, NEW st, NEW p, Located(m, st, p), NEW t \in Threads, p[t] # "nap",
           st[t] \in {"running", "paused", "none"}, t \notin Members(m, "threads_ready")
    PROVE  \A l \in ThreadLists : t \notin Members(m, l)
BY DEF Located, ThreadLists

\* schedule, at the end of a section, settles what the section left.
LEMMA ScheduleSettles ==
    ASSUME NEW m, Sound(m), NEW st, NEW p, Located(m, st, p), \A t \in Threads : p[t] # "nap",
           current_running_tcb \in Threads, Manned(m, st, current_running_tcb),
           st[current_running_tcb] # "none", stack = current_running_tcb,
           Schedule(m, st)
    PROVE  Settled(mem', st, p, current_running_tcb', stack')
<1>1. PICK cur : cur = current_running_tcb
    OBVIOUS
<1>2. PICK d : d = Dispatch(m, st, cur)
    OBVIOUS
<1>3. /\ mem' = d.mem /\ current_running_tcb' = d.current
      /\ stack' = IF d.current = NULL THEN cur ELSE d.current
    BY <1>1, <1>2 DEF Schedule
<1>4. cur \in Threads /\ Manned(m, st, cur) /\ st[cur] # "none"
    BY <1>1
<1>5. st[cur] = "running" => \A l \in ThreadLists : cur \notin Members(m, l)
    BY <1>4, WhoIsOnNoList DEF Manned
<1>6. Dispatched(m, st, cur, d)
    BY <1>2, <1>4, <1>5, DispatchSound
<1>7. NULL \notin Threads
    BY ThreadsAssumption
<1>8. Sound(d.mem) /\ d.current \in Threads \cup {NULL}
    BY <1>6 DEF Dispatched
<1>9. Manned(d.mem, st, d.current)
    BY <1>4, <1>6 DEF Manned, Dispatched
<1>10. \A t \in Threads : t = d.current \/ t \in Members(d.mem, "threads_ready") => st[t] = "running"
    BY <1>6 DEF Dispatched, Located
<1>11. Located(d.mem, st, p)
    BY <1>6, <1>10 DEF Dispatched, Located
<1>12. Stacked(st, d.current, IF d.current = NULL THEN cur ELSE d.current)
    BY <1>4, <1>7, <1>8, <1>10 DEF Stacked
<1>. QED BY <1>3, <1>8, <1>9, <1>11, <1>12 DEF Settled

-----------------------------------------------------------------------------
(* Every step keeps it *)

LEMMA InitIInv == Init => IInv
<1>. SUFFICES ASSUME Init PROVE IInv
    OBVIOUS
<1>1. /\ mem = FreshMemory /\ state = [t \in Threads |-> IF t = Kernel THEN "running" ELSE "none"]
      /\ paused_until = [t \in Threads |-> 0] /\ timer_tick = 0
      /\ current_running_tcb = Kernel /\ stack = Kernel
      /\ until = [t \in Threads |-> 0] /\ pc = [t \in Threads |-> "run"]
      /\ Kernel \in Threads
    BY ThreadsAssumption DEF Init
<1>2. mem \in MemoryType /\ mem.fault = FALSE
    BY <1>1 DEF FreshMemory, EmptyList, MemoryType
<1>3. TypeOK
  <2>1. 0 \in Ticks
      BY TickTypes
  <2>. QED BY <1>1, <1>2, <2>1 DEF TypeOK, Statuses, Places
<1>4. PICK none : none = <<>>
    OBVIOUS
<1>5. none \in Seq(Threads) /\ Len(none) = 0 /\ Elements(none) = {}
  <2>1. none \in Seq(Threads) /\ Len(none) = 0
      BY <1>4
  <2>. QED BY <1>4, <2>1, SequenceFacts
<1>6. ASSUME NEW l \in ThreadLists PROVE ListIs(mem, l, none)
  <2>1. mem.list[l].head = NULL /\ mem.list[l].tail = NULL /\ mem.list[l].size = 0
      BY <1>1 DEF FreshMemory, EmptyList
  <2>2. 1..Len(none) = {} /\ 1..(Len(none) - 1) = {}
      BY <1>5
  <2>. QED BY <1>4, <1>5, <2>1, <2>2 DEF ListIs, Chained
<1>7. Sound(mem)
  <2> DEFINE q == [l \in ThreadLists |-> none]
  <2>1. q \in [ThreadLists -> Seq(Threads)] /\ \A l \in ThreadLists : q[l] = none
      BY <1>5
  <2> HIDE DEF q
  <2>2. Listed(mem, q)
      BY <1>5, <1>6, <2>1 DEF Listed
  <2>. QED BY <1>2, <2>2 DEF Sound
<1>8. \A l \in ThreadLists : Members(mem, l) = {}
    BY <1>5, <1>6, MembersAre
<1>9. /\ Members(mem, "threads_ready") = {} /\ Members(mem, "threads_sleeping") = {}
      /\ Members(mem, "threads_terminated") = {}
    BY <1>8 DEF ThreadLists
<1>10. Settled(mem, state, pc, current_running_tcb, stack)
    BY <1>1, <1>7, <1>9 DEF Settled, Located, Manned, Stacked
<1>. QED BY <1>3, <1>10 DEF IInv

\* The types, when the memory is sound and the rest is right.
LEMMA TypesKept ==
    ASSUME Settled(mem', state', pc', current_running_tcb', stack'),
           state' \in [Threads -> Statuses], paused_until' \in [Threads -> Ticks],
           timer_tick' \in Ticks, until' \in [Threads -> Ticks], pc' \in [Threads -> Places]
    PROVE  IInv'
BY DEF IInv, TypeOK, Settled, Stacked, Sound

\* What holds when the current thread takes a step of its own.
LEMMA AtFacts ==
    ASSUME IInv, NEW t \in Threads, NEW place, At(t, place)
    PROVE  /\ t = current_running_tcb /\ t = stack /\ state[t] = "running" /\ pc[t] = place
           /\ t \notin Members(mem, "threads_ready")
           /\ \A u \in Threads : u # t => pc[u] # "nap"
           /\ place # "nap" => \A l \in ThreadLists : t \notin Members(mem, l)
<1>1. NULL \notin Threads
    BY ThreadsAssumption
<1>2. /\ t = current_running_tcb /\ t = stack /\ state[t] = "running" /\ pc[t] = place
      /\ t \notin Members(mem, "threads_ready")
      /\ \A u \in Threads : u # t => pc[u] # "nap"
    BY <1>1 DEF IInv, Settled, Stacked, Manned, At
<1>3. place # "nap" => \A l \in ThreadLists : t \notin Members(mem, l)
    BY <1>2, WhoIsOnNoList DEF IInv, Settled
<1>. QED BY <1>2, <1>3

LEMMA MiliSleepStep ==
    ASSUME IInv, NEW t \in Threads, NEW mili_seconds \in Sleeps, MiliSleep(t, mili_seconds)
    PROVE  IInv'
<1>1. /\ At(t, "run") /\ t # Kernel
      /\ until' = [until EXCEPT ![t] = Wrap(timer_tick + mili_seconds)]
      /\ pc' = [pc EXCEPT ![t] = "until"]
      /\ UNCHANGED <<mem, state, paused_until, timer_tick, current_running_tcb, stack>>
    BY DEF MiliSleep, GoTo
<1>2. pc[t] = "run"
    BY <1>1, AtFacts
<1>3. TypeOK /\ Settled(mem, state, pc, current_running_tcb, stack)
    BY DEF IInv
<1>4. until' \in [Threads -> Ticks]
  <2>1. timer_tick + mili_seconds \in Int
      BY <1>3, TickAssumption, TickTypes DEF TypeOK
  <2>2. PICK tick : tick = Wrap(timer_tick + mili_seconds) /\ tick \in Ticks
      BY <2>1, WrapType
  <2>. QED BY <1>1, <1>3, <2>2 DEF TypeOK
<1>5. pc' \in [Threads -> Places] /\ \A u \in Threads : pc'[u] = IF u = t THEN "until" ELSE pc[u]
    BY <1>1, <1>3 DEF TypeOK, Places
<1>6. Settled(mem', state', pc', current_running_tcb', stack')
  <2>1. \A u \in Threads : pc'[u] = "nap" <=> pc[u] = "nap"
      BY <1>2, <1>5
  <2>2. pc'[Kernel] \notin {"until", "nap"}
      BY <1>1, <1>3, <1>5, ThreadsAssumption DEF Settled, Located
  <2>. QED BY <1>1, <1>3, <2>1, <2>2 DEF Settled, Located
<1>. QED BY <1>1, <1>3, <1>4, <1>5, <1>6, TypesKept DEF TypeOK

LEMMA MiliSleepUntilStep ==
    ASSUME IInv, NEW t \in Threads, MiliSleepUntil(t)
    PROVE  IInv'
<1>1. /\ At(t, "until")
      /\ until' = [until EXCEPT ![t] = 0]
      /\ UNCHANGED <<state, timer_tick, current_running_tcb, stack>>
    BY DEF MiliSleepUntil
<1>2. /\ pc[t] = "until" /\ t = current_running_tcb /\ state[t] = "running"
      /\ \A l \in ThreadLists : t \notin Members(mem, l)
      /\ \A u \in Threads : u # t => pc[u] # "nap"
    BY <1>1, AtFacts
<1>3. TypeOK /\ Settled(mem, state, pc, current_running_tcb, stack)
    BY DEF IInv
<1>4. t # Kernel
    BY <1>2, <1>3 DEF Settled, Located
<1>5. until' \in [Threads -> Ticks]
    BY <1>1, <1>3, TickTypes DEF TypeOK
<1>6. CASE until[t] < timer_tick
  <2>1. pc' = [pc EXCEPT ![t] = "run"] /\ UNCHANGED <<mem, paused_until>>
      BY <1>6 DEF MiliSleepUntil, GoTo
  <2>2. pc' \in [Threads -> Places] /\ \A u \in Threads : pc'[u] = IF u = t THEN "run" ELSE pc[u]
      BY <1>3, <2>1 DEF TypeOK, Places
  <2>3. \A u \in Threads : pc'[u] = "nap" <=> pc[u] = "nap"
      BY <1>2, <2>2
  <2>4. pc'[Kernel] \notin {"until", "nap"}
      BY <1>3, <1>4, <2>2, ThreadsAssumption DEF Settled, Located
  <2>5. Settled(mem', state', pc', current_running_tcb', stack')
      BY <1>1, <1>3, <2>1, <2>3, <2>4 DEF Settled, Located
  <2>. QED BY <1>1, <1>3, <1>5, <2>1, <2>2, <2>5, TypesKept DEF TypeOK
<1>7. CASE ~(until[t] < timer_tick)
  <2>1. /\ pc' = [pc EXCEPT ![t] = "nap"]
        /\ mem' = PushBack(mem, "threads_sleeping", t)
        /\ paused_until' = [paused_until EXCEPT ![t] = until[t]]
      BY <1>7 DEF MiliSleepUntil, GoTo
  <2>2. pc' \in [Threads -> Places] /\ \A u \in Threads : pc'[u] = IF u = t THEN "nap" ELSE pc[u]
      BY <1>3, <2>1 DEF TypeOK, Places
  <2>3. paused_until' \in [Threads -> Ticks]
      BY <1>3, <2>1 DEF TypeOK
  <2>4. /\ Sound(mem')
        /\ Members(mem', "threads_sleeping") = Members(mem, "threads_sleeping") \cup {t}
        /\ \A k \in ThreadLists \ {"threads_sleeping"} : Members(mem', k) = Members(mem, k)
    <3>1. PICK n : n = PushBack(mem, "threads_sleeping", t)
        OBVIOUS
    <3>2. "threads_sleeping" \in ThreadLists /\ Sound(mem)
        BY <1>3 DEF ThreadLists, Settled
    <3>3. /\ Sound(n) /\ Members(n, "threads_sleeping") = Members(mem, "threads_sleeping") \cup {t}
          /\ \A k \in ThreadLists \ {"threads_sleeping"} : Members(n, k) = Members(mem, k)
        BY <1>2, <3>1, <3>2, PushSound
    <3>. QED BY <2>1, <3>1, <3>3
  <2>5. /\ Members(mem', "threads_ready") = Members(mem, "threads_ready")
        /\ Members(mem', "threads_terminated") = Members(mem, "threads_terminated")
      BY <2>4 DEF ThreadLists
  <2>6. Located(mem', state, pc')
      BY <1>2, <1>3, <1>4, <2>2, <2>4, <2>5, ThreadsAssumption DEF Settled, Located
  <2>7. Manned(mem', state, current_running_tcb)
      BY <1>3, <2>5 DEF Settled, Manned
  <2>8. \A u \in Threads : pc'[u] = "nap" => u = current_running_tcb
      BY <1>2, <2>2
  <2>9. Settled(mem', state', pc', current_running_tcb', stack')
      BY <1>1, <1>3, <2>4, <2>6, <2>7, <2>8 DEF Settled
  <2>. QED BY <1>1, <1>3, <1>5, <2>2, <2>3, <2>9, TypesKept DEF TypeOK
<1>. QED BY <1>6, <1>7

LEMMA BlockSleepingStep ==
    ASSUME IInv, NEW t \in Threads, BlockSleeping(t)
    PROVE  IInv'
<1>1. /\ At(t, "nap") /\ state' = [state EXCEPT ![t] = "sleeping"]
      /\ Schedule(mem, state') /\ pc' = [pc EXCEPT ![t] = "run"]
      /\ UNCHANGED <<paused_until, timer_tick, until>>
    BY DEF BlockSleeping, GoTo
<1>2. /\ pc[t] = "nap" /\ t = current_running_tcb /\ t = stack /\ state[t] = "running"
      /\ t \notin Members(mem, "threads_ready")
      /\ \A u \in Threads : u # t => pc[u] # "nap"
    BY <1>1, AtFacts
<1>3. TypeOK /\ Settled(mem, state, pc, current_running_tcb, stack)
    BY DEF IInv
<1>4. t # Kernel
    BY <1>2, <1>3 DEF Settled, Located
<1>5. /\ state' \in [Threads -> Statuses] /\ pc' \in [Threads -> Places]
      /\ \A u \in Threads : state'[u] = IF u = t THEN "sleeping" ELSE state[u]
      /\ \A u \in Threads : pc'[u] = IF u = t THEN "run" ELSE pc[u]
    BY <1>1, <1>3 DEF TypeOK, Statuses, Places
<1>6. \A u \in Threads : pc'[u] # "nap"
    BY <1>2, <1>5
<1>7. Located(mem, state', pc')
    BY <1>2, <1>3, <1>4, <1>5, <1>6, ThreadsAssumption DEF Settled, Located
<1>8. Manned(mem, state', t) /\ state'[t] # "none"
    BY <1>2, <1>3, <1>5 DEF Settled, Manned
<1>9. Settled(mem', state', pc', current_running_tcb', stack')
  <2>1. PICK st : st = state'
      OBVIOUS
  <2>2. PICK p : p = pc'
      OBVIOUS
  <2>3. /\ Sound(mem) /\ Located(mem, st, p) /\ \A u \in Threads : p[u] # "nap"
        /\ current_running_tcb \in Threads /\ Manned(mem, st, current_running_tcb)
        /\ st[current_running_tcb] # "none" /\ stack = current_running_tcb
        /\ Schedule(mem, st)
      BY <1>1, <1>2, <1>3, <1>6, <1>7, <1>8, <2>1, <2>2 DEF Settled
  <2>4. Settled(mem', st, p, current_running_tcb', stack')
      BY <2>3, ScheduleSettles
  <2>. QED BY <2>1, <2>2, <2>4
<1>. QED BY <1>1, <1>3, <1>5, <1>9, TypesKept DEF TypeOK

LEMMA TerminateTaskStep ==
    ASSUME IInv, ButlerWaits, NEW t \in Threads, TerminateTask(t)
    PROVE  IInv'
<1>1. /\ At(t, "run") /\ t # Kernel /\ state[Kernel] = "paused"
      /\ state' = [state EXCEPT ![t] = "terminated", ![Kernel] = "running"]
      /\ Schedule(Unblocked(PushBack(mem, "threads_terminated", t), Kernel), state')
      /\ UNCHANGED <<paused_until, timer_tick, until, pc>>
    BY DEF TerminateTask
<1>2. /\ pc[t] = "run" /\ t = current_running_tcb /\ t = stack /\ state[t] = "running"
      /\ \A l \in ThreadLists : t \notin Members(mem, l)
      /\ \A u \in Threads : u # t => pc[u] # "nap"
    BY <1>1, AtFacts
<1>3. TypeOK /\ Settled(mem, state, pc, current_running_tcb, stack) /\ Kernel \in Threads
    BY ThreadsAssumption DEF IInv
<1>4. /\ state' \in [Threads -> Statuses]
      /\ \A u \in Threads : state'[u] = IF u = Kernel THEN "running"
                                        ELSE IF u = t THEN "terminated" ELSE state[u]
    BY <1>1, <1>3 DEF TypeOK, Statuses
<1>5. /\ "threads_ready" \in ThreadLists /\ "threads_terminated" \in ThreadLists
      /\ "threads_ready" \in ThreadLists \ {"threads_terminated"}
      /\ "threads_sleeping" \in ThreadLists \ {"threads_terminated"}
      /\ "threads_sleeping" \in ThreadLists \ {"threads_ready"}
      /\ "threads_terminated" \in ThreadLists \ {"threads_ready"}
    BY DEF ThreadLists
<1>6. \A u \in Threads : pc[u] # "nap"
    BY <1>2
<1>7. \A l \in ThreadLists : Kernel \notin Members(mem, l)
  <2>1. Kernel \notin Members(mem, "threads_ready")
      BY <1>1, <1>3 DEF Settled, Located
  <2>. QED BY <1>1, <1>3, <1>6, <2>1, WhoIsOnNoList DEF Settled
<1>8. PICK m : m = PushBack(mem, "threads_terminated", t)
    OBVIOUS
<1>9. /\ Sound(m) /\ Members(m, "threads_terminated") = Members(mem, "threads_terminated") \cup {t}
      /\ \A k \in ThreadLists \ {"threads_terminated"} : Members(m, k) = Members(mem, k)
    BY <1>2, <1>3, <1>5, <1>8, PushSound DEF Settled
<1>10. \A l \in ThreadLists : Kernel \notin Members(m, l)
    BY <1>1, <1>5, <1>7, <1>9
<1>11. PICK n : n = PushBack(m, "threads_ready", Kernel)
    OBVIOUS
<1>12. /\ Sound(n) /\ Members(n, "threads_ready") = Members(m, "threads_ready") \cup {Kernel}
       /\ \A k \in ThreadLists \ {"threads_ready"} : Members(n, k) = Members(m, k)
    BY <1>3, <1>5, <1>9, <1>10, <1>11, PushSound
<1>13. /\ Members(n, "threads_ready") = Members(mem, "threads_ready") \cup {Kernel}
       /\ Members(n, "threads_sleeping") = Members(mem, "threads_sleeping")
       /\ Members(n, "threads_terminated") = Members(mem, "threads_terminated") \cup {t}
    BY <1>5, <1>9, <1>12
<1>14. Located(n, state', pc)
  <2>1. \A u \in Threads : u \in Members(n, "threads_ready") => state'[u] = "running"
      BY <1>2, <1>3, <1>4, <1>5, <1>13 DEF Settled, Located
  <2>2. \A u \in Threads :
            u \in Members(n, "threads_sleeping") <=> state'[u] = "sleeping" \/ pc[u] = "nap"
      BY <1>1, <1>2, <1>3, <1>4, <1>13 DEF Settled, Located
  <2>3. \A u \in Threads : u \in Members(n, "threads_terminated") <=> state'[u] = "terminated"
      BY <1>1, <1>3, <1>4, <1>13 DEF Settled, Located
  <2>4. \A u \in Threads : state'[u] # "paused"
      BY <1>3, <1>4 DEF Settled, Located
  <2>5. state'[Kernel] = "running" /\ pc[Kernel] \notin {"until", "nap"}
      BY <1>3, <1>4 DEF Settled, Located
  <2>. QED BY <2>1, <2>2, <2>3, <2>4, <2>5 DEF Located
<1>15. Manned(n, state', t) /\ state'[t] # "none"
  <2>1. t \notin Members(n, "threads_ready")
      BY <1>1, <1>2, <1>5, <1>13
  <2>2. \A u \in Threads : state'[u] = "running" => u = t \/ u \in Members(n, "threads_ready")
      BY <1>2, <1>3, <1>4, <1>13 DEF Settled, Manned
  <2>. QED BY <1>1, <1>4, <2>1, <2>2 DEF Manned
<1>16. Settled(mem', state', pc', current_running_tcb', stack')
  <2>1. PICK st : st = state'
      OBVIOUS
  <2>2. PICK p : p = pc
      OBVIOUS
  <2>3. Unblocked(PushBack(mem, "threads_terminated", t), Kernel) = n
      BY <1>8, <1>11 DEF Unblocked
  <2>4. /\ Sound(n) /\ Located(n, st, p) /\ \A u \in Threads : p[u] # "nap"
        /\ current_running_tcb \in Threads /\ Manned(n, st, current_running_tcb)
        /\ st[current_running_tcb] # "none" /\ stack = current_running_tcb
        /\ Schedule(n, st)
      BY <1>1, <1>2, <1>6, <1>12, <1>14, <1>15, <2>1, <2>2, <2>3
  <2>5. Settled(mem', st, p, current_running_tcb', stack')
      BY <2>4, ScheduleSettles
  <2>. QED BY <1>1, <2>1, <2>2, <2>5
<1>. QED BY <1>1, <1>3, <1>4, <1>16, TypesKept DEF TypeOK

LEMMA ThreadCreateStep ==
    ASSUME IInv, NEW t \in Threads, NEW thread \in Threads, ThreadCreate(t, thread)
    PROVE  IInv'
<1>1. /\ At(t, "run") /\ state[thread] = "none"
      /\ mem' = PushBack(mem, "threads_ready", thread)
      /\ state' = [state EXCEPT ![thread] = "running"]
      /\ paused_until' = [paused_until EXCEPT ![thread] = 0]
      /\ pc' = [pc EXCEPT ![thread] = "run"]
      /\ UNCHANGED <<timer_tick, current_running_tcb, stack, until>>
    BY DEF ThreadCreate, GoTo
<1>2. /\ pc[t] = "run" /\ t = current_running_tcb /\ t = stack /\ state[t] = "running"
      /\ \A u \in Threads : u # t => pc[u] # "nap"
    BY <1>1, AtFacts
<1>3. TypeOK /\ Settled(mem, state, pc, current_running_tcb, stack) /\ Kernel \in Threads
    BY ThreadsAssumption DEF IInv
<1>4. /\ state' \in [Threads -> Statuses] /\ pc' \in [Threads -> Places]
      /\ paused_until' \in [Threads -> Ticks]
      /\ \A u \in Threads : state'[u] = IF u = thread THEN "running" ELSE state[u]
      /\ \A u \in Threads : pc'[u] = IF u = thread THEN "run" ELSE pc[u]
    BY <1>1, <1>3, TickTypes DEF TypeOK, Statuses, Places
<1>5. thread # t /\ thread # Kernel /\ pc[thread] # "nap"
    BY <1>1, <1>2, <1>3 DEF Settled, Located
<1>6. \A l \in ThreadLists : thread \notin Members(mem, l)
  <2>1. thread \notin Members(mem, "threads_ready")
      BY <1>1, <1>3 DEF Settled, Located
  <2>. QED BY <1>1, <1>3, <1>5, <2>1, WhoIsOnNoList DEF Settled
<1>7. PICK n : n = PushBack(mem, "threads_ready", thread)
    OBVIOUS
<1>8. "threads_ready" \in ThreadLists
    BY DEF ThreadLists
<1>9. /\ Sound(n) /\ Members(n, "threads_ready") = Members(mem, "threads_ready") \cup {thread}
      /\ \A k \in ThreadLists \ {"threads_ready"} : Members(n, k) = Members(mem, k)
    BY <1>3, <1>6, <1>7, <1>8, PushSound DEF Settled
<1>10. /\ Members(n, "threads_sleeping") = Members(mem, "threads_sleeping")
       /\ Members(n, "threads_terminated") = Members(mem, "threads_terminated")
    BY <1>9 DEF ThreadLists
<1>11. Located(n, state', pc')
    BY <1>1, <1>3, <1>4, <1>5, <1>9, <1>10 DEF Settled, Located
<1>12. Manned(n, state', current_running_tcb)
    BY <1>2, <1>3, <1>4, <1>5, <1>9 DEF Settled, Manned
<1>13. Stacked(state', current_running_tcb, stack)
    BY <1>2, <1>3, <1>4, <1>5 DEF Settled, Stacked
<1>14. \A u \in Threads : pc'[u] = "nap" => u = current_running_tcb
    BY <1>3, <1>4 DEF Settled
<1>15. Settled(mem', state', pc', current_running_tcb', stack')
    BY <1>1, <1>7, <1>9, <1>11, <1>12, <1>13, <1>14 DEF Settled
<1>. QED BY <1>1, <1>3, <1>4, <1>15, TypesKept DEF TypeOK

LEMMA EnterButlerStep ==
    ASSUME IInv, EnterButler
    PROVE  IInv'
<1>1. /\ At(Kernel, "run") /\ pc' = [pc EXCEPT ![Kernel] = "butler"] /\ Kernel \in Threads
      /\ UNCHANGED <<mem, state, paused_until, timer_tick, current_running_tcb, stack, until>>
    BY ThreadsAssumption DEF EnterButler, GoTo
<1>2. pc[Kernel] = "run"
    BY <1>1, AtFacts
<1>3. TypeOK /\ Settled(mem, state, pc, current_running_tcb, stack)
    BY DEF IInv
<1>4. /\ pc' \in [Threads -> Places]
      /\ \A u \in Threads : pc'[u] = IF u = Kernel THEN "butler" ELSE pc[u]
    BY <1>1, <1>3 DEF TypeOK, Places
<1>5. /\ \A u \in Threads : pc'[u] = "nap" <=> pc[u] = "nap"
      /\ pc'[Kernel] \notin {"until", "nap"}
    BY <1>1, <1>2, <1>4
<1>6. Settled(mem', state', pc', current_running_tcb', stack')
    BY <1>1, <1>3, <1>5 DEF Settled, Located
<1>. QED BY <1>1, <1>3, <1>4, <1>6, TypesKept DEF TypeOK

LEMMA ButlerPausesStep ==
    ASSUME IInv, ButlerPauses
    PROVE  IInv'
<1>1. /\ At(Kernel, "butler") /\ Kernel \in Threads
      /\ mem.list["threads_terminated"].head = NULL
      /\ state' = [state EXCEPT ![Kernel] = "paused"]
      /\ Schedule(mem, state')
      /\ UNCHANGED <<paused_until, timer_tick, until, pc>>
    BY ThreadsAssumption DEF ButlerPauses
<1>2. /\ pc[Kernel] = "butler" /\ Kernel = current_running_tcb /\ Kernel = stack
      /\ Kernel \notin Members(mem, "threads_ready")
      /\ \A u \in Threads : u # Kernel => pc[u] # "nap"
    BY <1>1, AtFacts
<1>3. TypeOK /\ Settled(mem, state, pc, current_running_tcb, stack)
    BY DEF IInv
<1>4. Members(mem, "threads_terminated") = {}
  <2>1. "threads_terminated" \in ThreadLists /\ Sound(mem)
      BY <1>3 DEF ThreadLists, Settled
  <2>. QED BY <1>1, <2>1, HeadFacts
<1>5. /\ state' \in [Threads -> Statuses]
      /\ \A u \in Threads : state'[u] = IF u = Kernel THEN "paused" ELSE state[u]
    BY <1>1, <1>3 DEF TypeOK, Statuses
<1>6. \A u \in Threads : pc[u] # "nap"
    BY <1>2
<1>7. Located(mem, state', pc)
    BY <1>1, <1>2, <1>3, <1>4, <1>5 DEF Settled, Located
<1>8. Manned(mem, state', Kernel) /\ state'[Kernel] # "none"
    BY <1>1, <1>2, <1>3, <1>5 DEF Settled, Manned
<1>9. Settled(mem', state', pc', current_running_tcb', stack')
  <2>1. PICK st : st = state'
      OBVIOUS
  <2>2. PICK p : p = pc
      OBVIOUS
  <2>3. /\ Sound(mem) /\ Located(mem, st, p) /\ \A u \in Threads : p[u] # "nap"
        /\ current_running_tcb \in Threads /\ Manned(mem, st, current_running_tcb)
        /\ st[current_running_tcb] # "none" /\ stack = current_running_tcb
        /\ Schedule(mem, st)
      BY <1>1, <1>2, <1>3, <1>6, <1>7, <1>8, <2>1, <2>2 DEF Settled
  <2>4. Settled(mem', st, p, current_running_tcb', stack')
      BY <2>3, ScheduleSettles
  <2>. QED BY <1>1, <2>1, <2>2, <2>4
<1>. QED BY <1>1, <1>3, <1>5, <1>9, TypesKept DEF TypeOK

LEMMA ButlerCleansStep ==
    ASSUME IInv, ButlerCleans
    PROVE  IInv'
<1>1. /\ At(Kernel, "butler") /\ Kernel \in Threads
      /\ mem.list["threads_terminated"].head # NULL
      /\ mem' = PopFront(mem, "threads_terminated")
      /\ state' = [state EXCEPT ![FrontOf(mem, "threads_terminated")] = "none"]
      /\ UNCHANGED <<paused_until, timer_tick, current_running_tcb, stack, until, pc>>
    BY ThreadsAssumption DEF ButlerCleans
<1>2. Kernel = current_running_tcb /\ Kernel = stack /\ state[Kernel] = "running"
    BY <1>1, AtFacts
<1>3. TypeOK /\ Settled(mem, state, pc, current_running_tcb, stack)
    BY DEF IInv
<1>4. PICK t : t = FrontOf(mem, "threads_terminated")
    OBVIOUS
<1>5. PICK n : n = PopFront(mem, "threads_terminated")
    OBVIOUS
<1>6. "threads_terminated" \in ThreadLists /\ Sound(mem)
    BY <1>3 DEF ThreadLists, Settled
<1>7. /\ Sound(n) /\ Members(n, "threads_terminated") = Members(mem, "threads_terminated") \ {t}
      /\ \A k \in ThreadLists \ {"threads_terminated"} : Members(n, k) = Members(mem, k)
    BY <1>4, <1>5, <1>6, PopSound
<1>8. t \in Members(mem, "threads_terminated") /\ t \in Threads
  <2>1. Members(mem, "threads_terminated") # {}
      BY <1>1, <1>6, HeadFacts
  <2>. QED BY <1>4, <1>5, <1>6, <2>1, PopSound
<1>9. state[t] = "terminated" /\ t # Kernel
    BY <1>2, <1>3, <1>8 DEF Settled, Located
<1>10. /\ state' \in [Threads -> Statuses]
       /\ \A u \in Threads : state'[u] = IF u = t THEN "none" ELSE state[u]
    BY <1>1, <1>3, <1>4, <1>8 DEF TypeOK, Statuses
<1>11. /\ Members(n, "threads_ready") = Members(mem, "threads_ready")
       /\ Members(n, "threads_sleeping") = Members(mem, "threads_sleeping")
    BY <1>7 DEF ThreadLists
<1>12. Located(n, state', pc)
  <2>1. \A u \in Threads : u \in Members(n, "threads_ready") => state'[u] = "running"
      BY <1>3, <1>9, <1>10, <1>11 DEF Settled, Located
  <2>2. pc[t] # "nap"
      BY <1>2, <1>3, <1>8, <1>9 DEF Settled
  <2>3. \A u \in Threads :
            u \in Members(n, "threads_sleeping") <=> state'[u] = "sleeping" \/ pc[u] = "nap"
      BY <1>3, <1>9, <1>10, <1>11, <2>2 DEF Settled, Located
  <2>4. \A u \in Threads : u \in Members(n, "threads_terminated") <=> state'[u] = "terminated"
      BY <1>3, <1>7, <1>10 DEF Settled, Located
  <2>5. \A u \in Threads : state'[u] = "paused" => u = Kernel /\ Members(n, "threads_terminated") = {}
      BY <1>3, <1>7, <1>10 DEF Settled, Located
  <2>6. state'[Kernel] \in {"running", "paused"} /\ pc[Kernel] \notin {"until", "nap"}
      BY <1>1, <1>3, <1>9, <1>10 DEF Settled, Located
  <2>. QED BY <2>1, <2>3, <2>4, <2>5, <2>6 DEF Located
<1>13. Manned(n, state', current_running_tcb) /\ Stacked(state', current_running_tcb, stack)
    BY <1>1, <1>2, <1>3, <1>9, <1>10, <1>11 DEF Settled, Manned, Stacked
<1>14. Settled(mem', state', pc', current_running_tcb', stack')
    BY <1>1, <1>3, <1>5, <1>7, <1>12, <1>13 DEF Settled
<1>. QED BY <1>1, <1>3, <1>10, <1>14, TypesKept DEF TypeOK

LEMMA LeaveIdleStep ==
    ASSUME IInv, LeaveIdle
    PROVE  IInv'
<1>1. /\ current_running_tcb = NULL /\ FrontOf(mem, "threads_ready") # NULL
      /\ mem' = PopFront(mem, "threads_ready")
      /\ current_running_tcb' = FrontOf(mem, "threads_ready")
      /\ stack' = FrontOf(mem, "threads_ready")
      /\ UNCHANGED <<state, paused_until, timer_tick, until, pc>>
    BY DEF LeaveIdle
<1>2. TypeOK /\ Settled(mem, state, pc, current_running_tcb, stack)
    BY DEF IInv
<1>3. PICK t : t = FrontOf(mem, "threads_ready")
    OBVIOUS
<1>4. PICK n : n = PopFront(mem, "threads_ready")
    OBVIOUS
<1>5. "threads_ready" \in ThreadLists /\ Sound(mem)
    BY <1>2 DEF ThreadLists, Settled
<1>6. /\ Sound(n) /\ Members(n, "threads_ready") = Members(mem, "threads_ready") \ {t}
      /\ \A k \in ThreadLists \ {"threads_ready"} : Members(n, k) = Members(mem, k)
    BY <1>3, <1>4, <1>5, PopSound
<1>7. t \in Members(mem, "threads_ready") /\ t \in Threads
    BY <1>1, <1>3, <1>4, <1>5, PopSound
<1>8. /\ Members(n, "threads_terminated") = Members(mem, "threads_terminated")
      /\ Members(n, "threads_sleeping") = Members(mem, "threads_sleeping")
    BY <1>6 DEF ThreadLists
<1>9. state[t] = "running"
    BY <1>2, <1>7 DEF Settled, Located
<1>10. NULL \notin Threads
    BY ThreadsAssumption
<1>11. Located(n, state, pc) /\ Stacked(state, t, t)
    BY <1>2, <1>6, <1>7, <1>8, <1>9 DEF Settled, Located, Stacked
<1>12. Manned(n, state, t)
    BY <1>1, <1>2, <1>6, <1>10 DEF Settled, Manned
<1>13. \A u \in Threads : pc[u] # "nap"
    BY <1>1, <1>2, <1>10 DEF Settled
<1>14. Settled(mem', state', pc', current_running_tcb', stack')
    BY <1>1, <1>3, <1>4, <1>6, <1>11, <1>12, <1>13 DEF Settled
<1>. QED BY <1>1, <1>2, <1>14, TypesKept DEF TypeOK

\* The thread a tick wakes is settled among the ready ones.
LEMMA WokenIsReady ==
    ASSUME NEW m, NEW st \in [Threads -> Statuses], NEW p, Located(m, st, p),
           \A u \in Threads : p[u] # "nap",
           NEW cur, Manned(m, st, cur), NEW stk, Stacked(st, cur, stk),
           NEW n, NEW su, NEW t \in Threads, NEW tick, Woken(m, st, n, su, t, tick)
    PROVE  /\ su \in [Threads -> Statuses] /\ Sound(n) /\ Located(n, su, p)
           /\ Manned(n, su, cur) /\ Stacked(su, cur, stk)
           /\ st[t] = "sleeping"
<1>1. st[t] = "sleeping"
    BY DEF Woken, Located
<1>2. /\ su \in [Threads -> Statuses]
      /\ \A u \in Threads : su[u] = IF u = t THEN "running" ELSE st[u]
    BY DEF Woken, Statuses
<1>3. t # Kernel /\ Kernel \in Threads
    BY <1>1, ThreadsAssumption DEF Located
<1>4. t # cur
  <2>1. NULL \notin Threads
      BY ThreadsAssumption
  <2>. QED BY <1>1, <2>1 DEF Stacked
<1>5. Located(n, su, p)
  <2>1. \A u \in Threads : u \in Members(n, "threads_ready") => su[u] = "running"
      BY <1>2 DEF Woken, Located
  <2>2. \A u \in Threads : u \in Members(n, "threads_sleeping") <=> su[u] = "sleeping" \/ p[u] = "nap"
      BY <1>2 DEF Woken, Located
  <2>3. \A u \in Threads : u \in Members(n, "threads_terminated") <=> su[u] = "terminated"
      BY <1>1, <1>2 DEF Woken, Located
  <2>4. \A u \in Threads : su[u] = "paused" => u = Kernel /\ Members(n, "threads_terminated") = {}
      BY <1>2 DEF Woken, Located
  <2>5. su[Kernel] \in {"running", "paused"} /\ p[Kernel] \notin {"until", "nap"}
      BY <1>2, <1>3 DEF Located
  <2>. QED BY <2>1, <2>2, <2>3, <2>4, <2>5 DEF Located
<1>6. Manned(n, su, cur)
    BY <1>2, <1>4 DEF Woken, Manned
<1>7. Stacked(su, cur, stk)
    BY <1>2 DEF Stacked
<1>. QED BY <1>1, <1>2, <1>5, <1>6, <1>7 DEF Woken

\* What a tick does to the sleeping threads, before it schedules.
LEMMA TickWakes ==
    ASSUME IInv, NoTickInNap, AtMostTwoSleep, PitInterrupt,
           NEW woken, woken = WakeOne(mem, state, timer_tick')
    PROVE  /\ \A u \in Threads : pc[u] # "nap"
           /\ \/ woken.mem = mem /\ woken.state = state
              \/ \E t \in Threads : Woken(mem, state, woken.mem, woken.state, t, timer_tick')
<1>1. Settled(mem, state, pc, current_running_tcb, stack)
    BY DEF IInv
<1>2. \A u \in Threads : pc[u] # "nap"
  <2>1. NULL \notin Threads
      BY ThreadsAssumption
  <2>2. current_running_tcb # NULL => pc[current_running_tcb] # "nap"
      BY DEF PitInterrupt
  <2>. QED BY <1>1, <2>1, <2>2 DEF Settled
<1>3. PICK a, b : \A t \in Threads : state[t] = "sleeping" => t \in {a, b}
    BY DEF AtMostTwoSleep
<1>4. Members(mem, "threads_sleeping") \subseteq {a, b}
  <2>1. "threads_sleeping" \in ThreadLists
      BY DEF ThreadLists
  <2>2. Members(mem, "threads_sleeping") \subseteq Threads
      BY <1>1, <2>1, SoundFacts DEF Settled
  <2>. QED BY <1>1, <1>2, <1>3, <2>2 DEF Settled, Located
<1>5. PICK two : AtMostTwo(two) /\ Members(mem, "threads_sleeping") \subseteq two
    BY <1>4 DEF AtMostTwo
<1>6. PICK tick : tick = timer_tick'
    OBVIOUS
<1>7. \/ woken.mem = mem /\ woken.state = state
      \/ \E t \in Threads : Woken(mem, state, woken.mem, woken.state, t, tick)
  <2>1. Sound(mem) /\ woken = WakeOne(mem, state, tick)
      BY <1>1, <1>6 DEF Settled
  <2>. QED BY <1>5, <2>1, WakeSound
<1>. QED BY <1>2, <1>6, <1>7

LEMMA PitInterruptStep ==
    ASSUME IInv, NoTickInNap, AtMostTwoSleep, PitInterrupt
    PROVE  IInv'
<1>1. PICK tick : tick = timer_tick'
    OBVIOUS
<1>2. PICK woken : woken = WakeOne(mem, state, tick)
    OBVIOUS
<1>3. /\ tick = Wrap(timer_tick + 1) /\ state' = woken.state
      /\ IF current_running_tcb # NULL /\ tick % 3 = 0
         THEN Schedule(woken.mem, woken.state)
         ELSE mem' = woken.mem /\ UNCHANGED <<current_running_tcb, stack>>
      /\ UNCHANGED <<paused_until, until, pc>>
    BY <1>1, <1>2 DEF PitInterrupt
<1>4. TypeOK /\ Settled(mem, state, pc, current_running_tcb, stack)
    BY DEF IInv
<1>5. tick \in Ticks
  <2>1. timer_tick + 1 \in Int
      BY <1>4, TickTypes DEF TypeOK
  <2>. QED BY <1>3, <2>1, WrapType
<1>6. /\ \A u \in Threads : pc[u] # "nap"
      /\ \/ woken.mem = mem /\ woken.state = state
         \/ \E t \in Threads : Woken(mem, state, woken.mem, woken.state, t, tick)
    BY <1>1, <1>2, TickWakes
<1>7. PICK m : m = woken.mem
    OBVIOUS
<1>8. PICK st : st = woken.state
    OBVIOUS
<1>9. PICK p : p = pc
    OBVIOUS
<1>10. /\ st \in [Threads -> Statuses] /\ Sound(m) /\ Located(m, st, p)
       /\ Manned(m, st, current_running_tcb) /\ Stacked(st, current_running_tcb, stack)
  <2>1. CASE woken.mem = mem /\ woken.state = state
      BY <1>4, <1>7, <1>8, <1>9, <2>1 DEF Settled, TypeOK
  <2>2. CASE \E t \in Threads : Woken(mem, state, woken.mem, woken.state, t, tick)
    <3>1. PICK t \in Threads : Woken(mem, state, m, st, t, tick)
        BY <1>7, <1>8, <2>2
    <3>2. state \in [Threads -> Statuses] /\ Located(mem, state, p) /\ \A u \in Threads : p[u] # "nap"
        BY <1>4, <1>6, <1>9 DEF Settled, TypeOK
    <3>3. Manned(mem, state, current_running_tcb) /\ Stacked(state, current_running_tcb, stack)
        BY <1>4 DEF Settled
    <3>. QED BY <3>1, <3>2, <3>3, WokenIsReady
  <2>. QED BY <1>6, <2>1, <2>2
<1>11. Settled(mem', st, p, current_running_tcb', stack')
  <2>1. CASE current_running_tcb # NULL /\ tick % 3 = 0
    <3>1. Schedule(m, st)
        BY <1>3, <1>7, <1>8, <2>1
    <3>2. /\ current_running_tcb \in Threads /\ stack = current_running_tcb
          /\ st[current_running_tcb] # "none"
        BY <1>10, <2>1 DEF Stacked
    <3>3. \A u \in Threads : p[u] # "nap"
        BY <1>6, <1>9
    <3>. QED BY <1>10, <3>1, <3>2, <3>3, ScheduleSettles
  <2>2. CASE ~(current_running_tcb # NULL /\ tick % 3 = 0)
    <3>1. mem' = m /\ UNCHANGED <<current_running_tcb, stack>>
        BY <1>3, <1>7, <2>2
    <3>. QED BY <1>6, <1>9, <1>10, <3>1 DEF Settled
  <2>. QED BY <2>1, <2>2
<1>12. Settled(mem', state', pc', current_running_tcb', stack') /\ state' \in [Threads -> Statuses]
    BY <1>3, <1>8, <1>9, <1>10, <1>11
<1>. QED BY <1>1, <1>3, <1>4, <1>5, <1>12, TypesKept DEF TypeOK

LEMMA StutterStep == IInv /\ UNCHANGED vars => IInv'
<1>. SUFFICES ASSUME IInv, UNCHANGED vars PROVE IInv'
    OBVIOUS
<1>1. UNCHANGED <<mem, state, paused_until, timer_tick, current_running_tcb, stack, until, pc>>
    BY DEF vars
<1>2. Settled(mem', state', pc', current_running_tcb', stack')
    BY <1>1 DEF IInv
<1>. QED BY <1>1, <1>2, TypesKept DEF IInv, TypeOK

LEMMA NextKeepsIInv ==
    ASSUME NoTickInNap, ButlerWaits
    PROVE  IInv /\ AtMostTwoSleep /\ [Next]_vars => IInv'
<1>. SUFFICES ASSUME IInv, AtMostTwoSleep, [Next]_vars PROVE IInv'
    OBVIOUS
<1>1. CASE UNCHANGED vars
    BY <1>1, StutterStep
<1>2. ASSUME NEW t \in Threads, Continue(t) PROVE IInv'
  <2>1. CASE MiliSleepUntil(t)
      BY <2>1, MiliSleepUntilStep
  <2>2. CASE BlockSleeping(t)
      BY <2>2, BlockSleepingStep
  <2>3. CASE EnterButler
      BY <2>3, EnterButlerStep
  <2>4. CASE ButlerPauses
      BY <2>4, ButlerPausesStep
  <2>5. CASE ButlerCleans
      BY <2>5, ButlerCleansStep
  <2>. QED BY <1>2, <2>1, <2>2, <2>3, <2>4, <2>5 DEF Continue
<1>3. ASSUME NEW t \in Threads, Choose(t) PROVE IInv'
  <2>1. ASSUME NEW mili_seconds \in Sleeps, MiliSleep(t, mili_seconds) PROVE IInv'
      BY <2>1, MiliSleepStep
  <2>2. CASE TerminateTask(t)
      BY <2>2, TerminateTaskStep
  <2>3. ASSUME NEW thread \in Threads, ThreadCreate(t, thread) PROVE IInv'
      BY <2>3, ThreadCreateStep
  <2>. QED BY <1>3, <2>1, <2>2, <2>3 DEF Choose
<1>4. CASE LeaveIdle
    BY <1>4, LeaveIdleStep
<1>5. CASE PitInterrupt
    BY <1>5, PitInterruptStep
<1>. QED BY <1>1, <1>2, <1>3, <1>4, <1>5 DEF Next

-----------------------------------------------------------------------------
(* What it implies *)

LEMMA IInvImplies ==
    ASSUME IInv
    PROVE  ListsSound /\ StatesTellPlaces /\ FreedIsUnused /\ SizeMeansSleeping
<1>1. TypeOK /\ Settled(mem, state, pc, current_running_tcb, stack)
    BY DEF IInv
<1>2. NULL \notin Threads
    BY ThreadsAssumption
<1>3. ListsSound
    BY <1>1, SoundFacts DEF ListsSound, On, Settled, Sound
<1>4. /\ "threads_ready" \in ThreadLists /\ "threads_sleeping" \in ThreadLists
      /\ ThreadLists = {"threads_ready", "threads_sleeping", "threads_terminated"}
    BY DEF ThreadLists
<1>5. Members(mem, "threads_ready") \subseteq Threads
    BY <1>1, <1>4, SoundFacts DEF Settled
<1>6. StatesTellPlaces
  <2>1. ReadyAreRunning
      BY <1>1, <1>5 DEF ReadyAreRunning, QueuedAreRunning, On, Settled, Located, Manned
  <2>2. EveryThreadIsFound
      BY <1>1 DEF EveryThreadIsFound, On, Settled, Located, Manned
  <2>. QED BY <2>1, <2>2 DEF StatesTellPlaces
<1>7. FreedIsUnused
  <2>1. ASSUME NEW t \in Threads, state[t] = "none" PROVE t # stack
      BY <1>1, <2>1 DEF Settled, Stacked
  <2>2. ASSUME NEW t \in Threads, state[t] = "none", NEW l \in ThreadLists
        PROVE  t \notin Members(mem, l)
    <3>1. pc[t] # "nap"
        BY <1>1, <1>2, <2>2 DEF Settled, Stacked
    <3>. QED BY <1>1, <1>4, <2>2, <3>1 DEF Settled, Located
  <2>. QED BY <2>1, <2>2 DEF FreedIsUnused, On
<1>8. SizeMeansSleeping
  <2>1. mem.list["threads_sleeping"].size = 0 <=> Members(mem, "threads_sleeping") = {}
      BY <1>1, <1>4, HeadFacts DEF Settled
  <2>2. mem.list["threads_sleeping"].size > 0 => mem.list["threads_sleeping"].size # 0
      BY <1>1, <1>4 DEF TypeOK, MemoryType
  <2>. QED BY <2>1, <2>2 DEF SizeMeansSleeping, On
<1>. QED BY <1>3, <1>6, <1>7, <1>8

LEMMA IInvHolds ==
    ASSUME NoTickInNap, ButlerWaits
    PROVE  Spec /\ []AtMostTwoSleep => []IInv
<1>1. Init => IInv
    BY InitIInv
<1>2. IInv /\ AtMostTwoSleep /\ [Next]_vars => IInv'
    BY NextKeepsIInv
<1>. QED BY <1>1, <1>2, PTL DEF Spec

\* Although the three lists share one next field per thread, they stay well-formed,
\* disjoint and free of NULL dereferences, whatever the number of threads, as long as no
\* more than two sleep at a time (thread_list.c:10-98).
THEOREM ListsStaySound ==
    ASSUME NoTickInNap, ButlerWaits
    PROVE  Spec /\ []AtMostTwoSleep => []ListsSound
<1>1. Spec /\ []AtMostTwoSleep => []IInv
    BY IInvHolds
<1>2. IInv => ListsSound
    BY IInvImplies
<1>. QED BY <1>1, <1>2, PTL

\* A thread's state tells where it is and where it is tells its state: nobody waits where
\* no code looks, and nobody runs who waits (thread_schedule.c:43-58, thread_time.c:19-33,
\* thread_terminate.c:5-32).
THEOREM ThreadsAreWhereTheyBelong ==
    ASSUME NoTickInNap, ButlerWaits
    PROVE  Spec /\ []AtMostTwoSleep => []StatesTellPlaces
<1>1. Spec /\ []AtMostTwoSleep => []IInv
    BY IInvHolds
<1>2. IInv => StatesTellPlaces
    BY IInvImplies
<1>. QED BY <1>1, <1>2, PTL

\* No list, and neither the CPU nor its stack, refers to a thread control block that
\* thread_free gave back (thread_create.c:19-25).
THEOREM NobodyUsesFreedThreads ==
    ASSUME NoTickInNap, ButlerWaits
    PROVE  Spec /\ []AtMostTwoSleep => []FreedIsUnused
<1>1. Spec /\ []AtMostTwoSleep => []IInv
    BY IInvHolds
<1>2. IInv => FreedIsUnused
    BY IInvImplies
<1>. QED BY <1>1, <1>2, PTL

\* "something sleeping": while at most two sleep, a non-zero size does mean that a thread
\* is on threads_sleeping; with three it need not (thread_time.c:19-21).
THEOREM SizeTellsSleepers ==
    ASSUME NoTickInNap, ButlerWaits
    PROVE  Spec /\ []AtMostTwoSleep => []SizeMeansSleeping
<1>1. Spec /\ []AtMostTwoSleep => []IInv
    BY IInvHolds
<1>2. IInv => SizeMeansSleeping
    BY IInvImplies
<1>. QED BY <1>1, <1>2, PTL

-----------------------------------------------------------------------------
(* Waking *)

\* The threads a step wakes.
WokenNow == {t \in Threads : state[t] = "sleeping" /\ state'[t] = "running"}

LEMMA OnlyTicksWake ==
    ASSUME IInv, ButlerWaits, [Next]_vars, ~PitInterrupt
    PROVE  WokenNow = {}
<1>1. TypeOK /\ Settled(mem, state, pc, current_running_tcb, stack) /\ Kernel \in Threads
    BY ThreadsAssumption DEF IInv
<1>2. SUFFICES ASSUME NEW u \in Threads, state[u] = "sleeping" PROVE state'[u] # "running"
    BY DEF WokenNow
<1>3. CASE UNCHANGED state
    BY <1>2, <1>3
<1>4. ASSUME NEW t \in Threads, BlockSleeping(t) PROVE state'[u] # "running"
    BY <1>1, <1>2, <1>4 DEF BlockSleeping, TypeOK
<1>5. ASSUME NEW t \in Threads, TerminateTask(t) PROVE state'[u] # "running"
    BY <1>1, <1>2, <1>5 DEF TerminateTask, TypeOK
<1>6. ASSUME NEW t \in Threads, NEW thread \in Threads, ThreadCreate(t, thread)
      PROVE  state'[u] # "running"
    BY <1>1, <1>2, <1>6 DEF ThreadCreate, TypeOK
<1>7. CASE ButlerPauses
    BY <1>1, <1>2, <1>7 DEF ButlerPauses, TypeOK
<1>8. CASE ButlerCleans
    BY <1>1, <1>2, <1>8 DEF ButlerCleans, TypeOK
<1>9. UNCHANGED vars => UNCHANGED state
    BY DEF vars
<1>10. ASSUME NEW t \in Threads PROVE MiliSleepUntil(t) => UNCHANGED state
    BY DEF MiliSleepUntil
<1>11. ASSUME NEW t \in Threads, NEW mili_seconds \in Sleeps
       PROVE  MiliSleep(t, mili_seconds) => UNCHANGED state
    BY DEF MiliSleep
<1>12. EnterButler \/ LeaveIdle => UNCHANGED state
    BY DEF EnterButler, LeaveIdle
<1>13. CASE \E t \in Threads : Continue(t)
    BY <1>3, <1>4, <1>7, <1>8, <1>10, <1>12, <1>13 DEF Continue
<1>14. CASE \E t \in Threads : Choose(t)
    BY <1>3, <1>5, <1>6, <1>11, <1>14 DEF Choose
<1>. QED BY <1>3, <1>9, <1>12, <1>13, <1>14 DEF Next

LEMMA TicksWakeInTime ==
    ASSUME IInv, NoTickInNap, AtMostTwoSleep, PitInterrupt
    PROVE  /\ \A u \in WokenNow : paused_until[u] <= timer_tick'
           /\ \E t \in Threads : WokenNow \subseteq {t}
<1>1. PICK tick : tick = timer_tick'
    OBVIOUS
<1>2. PICK woken : woken = WakeOne(mem, state, tick)
    OBVIOUS
<1>3. state' = woken.state
    BY <1>1, <1>2 DEF PitInterrupt
<1>4. \/ woken.mem = mem /\ woken.state = state
      \/ \E t \in Threads : Woken(mem, state, woken.mem, woken.state, t, tick)
    BY <1>1, <1>2, TickWakes
<1>5. state \in [Threads -> Statuses] /\ Kernel \in Threads
    BY ThreadsAssumption DEF IInv, TypeOK
<1>6. CASE woken.state = state
    BY <1>3, <1>5, <1>6 DEF WokenNow
<1>7. ASSUME NEW t \in Threads, Woken(mem, state, woken.mem, woken.state, t, tick)
      PROVE  WokenNow \subseteq {t} /\ paused_until[t] <= tick
    BY <1>3, <1>5, <1>7 DEF WokenNow, Woken
<1>. QED BY <1>1, <1>4, <1>6, <1>7

LEMMA StepsWakeInTime ==
    ASSUME NoTickInNap, ButlerWaits, IInv, AtMostTwoSleep, [Next]_vars
    PROVE  (\A t \in WokenNow : paused_until[t] <= timer_tick') /\ Cardinality(WokenNow) <= 1
<1>1. CASE PitInterrupt
  <2>1. PICK t \in Threads : WokenNow \subseteq {t}
      BY <1>1, TicksWakeInTime
  <2>2. WokenNow = {} \/ WokenNow = {t}
      BY <2>1
  <2>3. Cardinality(WokenNow) <= 1
      BY <2>2, FS_EmptySet, FS_Singleton
  <2>. QED BY <1>1, <2>3, TicksWakeInTime
<1>2. CASE ~PitInterrupt
  <2>1. WokenNow = {}
      BY <1>2, OnlyTicksWake
  <2>2. Cardinality(WokenNow) <= 1
      BY <2>1, FS_EmptySet
  <2>. QED BY <2>1, <2>2
<1>. QED BY <1>1, <1>2

\* A thread is woken from threads_sleeping only when its time has come, and at most one
\* thread at each tick (thread_time.c:23-32).
THEOREM SleepersWakeInTime ==
    ASSUME NoTickInNap, ButlerWaits
    PROVE  Spec /\ []AtMostTwoSleep => WakesInTime
<1>1. Spec /\ []AtMostTwoSleep => []IInv
    BY IInvHolds
<1>2. IInv /\ AtMostTwoSleep /\ [Next]_vars =>
          LET woken == {t \in Threads : state[t] = "sleeping" /\ state'[t] = "running"}
          IN  /\ \A t \in woken : paused_until[t] <= timer_tick'
              /\ Cardinality(woken) <= 1
    BY StepsWakeInTime DEF WokenNow
<1>. QED BY <1>1, <1>2, PTL DEF Spec, WakesInTime

-----------------------------------------------------------------------------
(* Systems of Main and at most two other threads *)

LEMMA FewThreadsSleep ==
    ASSUME NEW a, NEW b, Threads \subseteq {Kernel, a, b}, IInv
    PROVE  AtMostTwoSleep
<1>1. Kernel \in Threads /\ \A t \in Threads : t = Kernel \/ t = a \/ t = b
    BY ThreadsAssumption
<1>2. state[Kernel] # "sleeping"
    BY DEF IInv, Settled, Located
<1>3. PICK c \in Threads : a \in Threads => c = a
    BY <1>1
<1>4. PICK d \in Threads : b \in Threads => d = b
    BY <1>1
<1>5. \A t \in Threads : state[t] = "sleeping" => t \in {c, d}
    BY <1>1, <1>2, <1>3, <1>4
<1>. QED BY <1>3, <1>4, <1>5 DEF AtMostTwoSleep

\* Main never sleeps: with two more threads nothing has to be assumed of who sleeps when.
THEOREM ThreeThreadsAreSound ==
    ASSUME NoTickInNap, ButlerWaits, NEW a, NEW b, Threads \subseteq {Kernel, a, b}
    PROVE  Spec => [](ListsSound /\ StatesTellPlaces /\ FreedIsUnused)
<1>1. Init => IInv
    BY InitIInv
<1>2. IInv /\ [Next]_vars => IInv'
    BY NextKeepsIInv, FewThreadsSleep
<1>3. IInv => ListsSound /\ StatesTellPlaces /\ FreedIsUnused
    BY IInvImplies
<1>. QED BY <1>1, <1>2, <1>3, PTL DEF Spec

=============================================================================

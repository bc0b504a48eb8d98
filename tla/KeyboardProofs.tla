--------------------------- MODULE KeyboardProofs ---------------------------
(***************************************************************************)
(* However keys and threads interleave, a thread takes packets from its    *)
(* own queue only and never finds that empty; and up to a key inside       *)
(* key_queue_pop no packet is lost, shared or freed while it is queued.    *)
(***************************************************************************)
EXTENDS Keyboard, Sequences, FiniteSetTheorems, WellFoundedInduction, TLAPS

Types ==
    /\ current_focus_tcb \in Threads
    /\ front \in [Threads -> Packets \cup {NULL}]
    /\ pc \in [Threads -> Places]
    /\ current \in [Threads -> Threads]

\* From its waking until it has looked at its packet a thread has the focus.
KeepsFocus ==
    \A t \in Threads : pc[t] \in Taking \cup {"woken", "handle"} => current_focus_tcb = t

IInv == Types /\ KeepsFocus /\ TakesFromItsOwn /\ WokenFindsPacket

LEMMA InitIInv == Init => IInv
    BY DEF Init, IInv, Types, KeepsFocus, TakesFromItsOwn, WokenFindsPacket, Threads, Places, Taking

LEMMA KeyboardInterruptStep ==
    ASSUME IInv, NEW code \in Codes, KeyboardInterrupt(code) PROVE IInv'
<1> DEFINE q == current_focus_tcb
<1>1. Types /\ KeepsFocus /\ TakesFromItsOwn /\ WokenFindsPacket
    BY DEF IInv
<1>2. /\ q \in Threads /\ q' = q /\ current' = current
      /\ pc' = [pc EXCEPT ![q] = IF @ = "waiting" THEN "woken" ELSE @]
    BY <1>1 DEF KeyboardInterrupt, Posted, locals, Types
<1>3. PICK p \in Packets : Push(q, p)
    BY DEF KeyboardInterrupt
<1>4. /\ front' \in [Threads -> Packets \cup {NULL}]
      /\ front'[q] # NULL
      /\ \A t \in Threads : t # q => front'[t] = front[t]
    BY <1>1, <1>2, <1>3, DistinctAssumption DEF Push, queues, Types
<1> HIDE DEF q
<1>5. /\ pc' \in [Threads -> Places]
      /\ \A t \in Threads : t # q => pc'[t] = pc[t]
      /\ pc'[q] = pc[q] \/ pc'[q] = "woken"
    BY <1>1, <1>2 DEF Types, Places
<1>6. Types'
    BY <1>1, <1>2, <1>4, <1>5 DEF Types, q
<1>7. KeepsFocus'
    BY <1>1, <1>2, <1>5 DEF KeepsFocus, Taking, q
<1>8. TakesFromItsOwn'
    BY <1>1, <1>2, <1>5 DEF TakesFromItsOwn, Taking, q
<1>9. WokenFindsPacket'
    BY <1>1, <1>4, <1>5 DEF WokenFindsPacket
<1>. QED BY <1>6, <1>7, <1>8, <1>9 DEF IInv

\* A step from one place to another that leaves focus and queues alone.
LEMMA LocalStep ==
    ASSUME IInv, NEW t \in Threads, NEW from, NEW to \in Places, Step(t, from, to),
           current_focus_tcb' = current_focus_tcb, current' = current, front' = front,
           to \in Taking => from \in Taking,
           to = "handle" => from \in Taking,
           to \notin {"woken", "check"}
    PROVE  IInv'
<1>1. /\ pc[t] = from /\ pc' \in [Threads -> Places] /\ pc'[t] = to
      /\ \A u \in Threads : u # t => pc'[u] = pc[u]
    BY DEF IInv, Types, Step
<1>2. Types'
    BY <1>1 DEF IInv, Types
<1>3. KeepsFocus'
    BY <1>1 DEF IInv, KeepsFocus
<1>4. TakesFromItsOwn'
    BY <1>1 DEF IInv, TakesFromItsOwn
<1>5. WokenFindsPacket'
    BY <1>1 DEF IInv, WokenFindsPacket
<1>. QED BY <1>2, <1>3, <1>4, <1>5 DEF IInv

LEMMA ReadFocusStep == ASSUME IInv, NEW t \in Threads, ReadFocus(t) PROVE IInv'
<1>1. Types /\ KeepsFocus /\ TakesFromItsOwn /\ WokenFindsPacket
    BY DEF IInv
<1>2. /\ pc[t] = "woken" /\ current_focus_tcb = t
      /\ current_focus_tcb' = current_focus_tcb /\ front' = front
      /\ current' \in [Threads -> Threads] /\ current'[t] = t
      /\ \A u \in Threads : u # t => current'[u] = current[u]
    BY <1>1 DEF ReadFocus, Step, KeepsFocus, Types, queues
<1>3. /\ pc' \in [Threads -> Places] /\ pc'[t] = "check"
      /\ \A u \in Threads : u # t => pc'[u] = pc[u]
    BY <1>1 DEF ReadFocus, Step, Types, Places, Taking
<1>4. Types' /\ KeepsFocus'
    BY <1>1, <1>2, <1>3 DEF Types, KeepsFocus
<1>5. TakesFromItsOwn'
    BY <1>1, <1>2, <1>3 DEF TakesFromItsOwn
<1>6. WokenFindsPacket'
    BY <1>1, <1>2, <1>3 DEF WokenFindsPacket
<1>. QED BY <1>4, <1>5, <1>6 DEF IInv

\* Only its own thread empties a queue.
LEMMA ClearFrontStep == ASSUME IInv, NEW t \in Threads, ClearFront(t) PROVE IInv'
<1>1. Types /\ KeepsFocus /\ TakesFromItsOwn /\ WokenFindsPacket
    BY DEF IInv
<1>2. /\ pc[t] = "clear_front" /\ current[t] = t /\ current_focus_tcb = t
      /\ current_focus_tcb' = current_focus_tcb /\ current' = current
      /\ front' \in [Threads -> Packets \cup {NULL}]
      /\ \A u \in Threads : u # t => front'[u] = front[u]
    BY <1>1 DEF ClearFront, Step, TakesFromItsOwn, Types, Unshared, Taking
<1>3. /\ pc' \in [Threads -> Places] /\ pc'[t] = "handle"
      /\ \A u \in Threads : u # t => pc'[u] = pc[u]
    BY <1>1 DEF ClearFront, Step, Types, Places, Taking
<1>4. Types' /\ KeepsFocus'
    BY <1>1, <1>2, <1>3 DEF Types, KeepsFocus
<1>5. TakesFromItsOwn'
    BY <1>1, <1>2, <1>3 DEF TakesFromItsOwn, Taking
<1>6. WokenFindsPacket'
    BY <1>1, <1>2, <1>3 DEF WokenFindsPacket
<1>. QED BY <1>4, <1>5, <1>6 DEF IInv

\* The focus moves when nobody else can be using it.
LEMMA HandleStep == ASSUME IInv, NEW t \in Threads, Handle(t) PROVE IInv'
<1>1. Types /\ KeepsFocus /\ TakesFromItsOwn /\ WokenFindsPacket
    BY DEF IInv
<1>2. /\ pc[t] = "handle" /\ current_focus_tcb = t /\ current' = current /\ front' = front
      /\ pc' \in [Threads -> Places] /\ pc'[t] = "free"
      /\ \A u \in Threads : u # t => pc'[u] = pc[u]
    BY <1>1 DEF Handle, Step, KeepsFocus, Types, Places, queues, locals
<1>3. current_focus_tcb' \in Threads
  <2>1. \E u \in Threads : u # t
      BY DistinctAssumption DEF Threads
  <2>. QED BY <2>1, <1>1 DEF Handle, Types
<1>4. \A u \in Threads : u # t => pc[u] \notin Taking \cup {"woken", "handle"}
    BY <1>1, <1>2 DEF KeepsFocus
<1>5. Types' /\ KeepsFocus'
    BY <1>1, <1>2, <1>3, <1>4 DEF Types, KeepsFocus, Taking
<1>6. TakesFromItsOwn'
    BY <1>2, <1>4 DEF TakesFromItsOwn, Taking
<1>7. WokenFindsPacket'
    BY <1>2, <1>4 DEF WokenFindsPacket, Taking
<1>. QED BY <1>5, <1>6, <1>7 DEF IInv

LEMMA NextIInv == ASSUME IInv, [Next]_vars PROVE IInv'
<1>1. CASE \E code \in Codes : KeyboardInterrupt(code)
    BY <1>1, KeyboardInterruptStep
<1>2. ASSUME NEW t \in Threads, Thread(t) PROVE IInv'
  <2>1. CASE WaitSemaphore(t)
    <3>1. Step(t, "loop", "waiting")
        BY <2>1 DEF WaitSemaphore
    <3>. QED BY <2>1, <3>1, LocalStep DEF WaitSemaphore, queues, locals, Places, Taking
  <2>2. CASE ReadFocus(t)
      BY <2>2, ReadFocusStep
  <2>3. CASE CheckFront(t)
    <3>1. front[current[t]] # NULL
        BY <2>3, <1>2 DEF CheckFront, Step, IInv, TakesFromItsOwn, WokenFindsPacket, Taking
    <3>2. Step(t, "check", "back")
        BY <2>3, <3>1 DEF CheckFront
    <3>. QED BY <2>3, <3>2, LocalStep DEF CheckFront, Unshared, queues, Places, Taking
  <2>4. CASE ReadBack(t)
    <3>1. Step(t, "back", "compare")
        BY <2>4 DEF ReadBack
    <3>. QED BY <2>4, <3>1, LocalStep DEF ReadBack, Unshared, queues, Places, Taking
  <2>5. CASE Compare(t)
    <3>1. Step(t, "compare", "clear_back") \/ Step(t, "compare", "walk")
        BY <2>5 DEF Compare
    <3>. QED BY <2>5, <3>1, LocalStep DEF Compare, Unshared, queues, Places, Taking
  <2>6. CASE ClearBack(t)
    <3>1. Step(t, "clear_back", "clear_front")
        BY <2>6 DEF ClearBack
    <3>. QED BY <2>6, <3>1, LocalStep DEF ClearBack, Unshared, Places, Taking
  <2>7. CASE ClearFront(t)
      BY <2>7, ClearFrontStep
  <2>8. CASE StartWalk(t)
    <3>1. Step(t, "walk", "seek")
        BY <2>8 DEF StartWalk
    <3>. QED BY <2>8, <3>1, LocalStep DEF StartWalk, Unshared, queues, Places, Taking
  <2>9. CASE Seek(t)
    <3>1. Step(t, "seek", "seek") \/ Step(t, "seek", "trim")
        BY <2>9 DEF Seek
    <3>2. current_focus_tcb' = current_focus_tcb /\ current' = current /\ front' = front
        BY <2>9 DEF Seek, Unshared, queues, locals
    <3>. QED BY <3>1, <3>2, LocalStep DEF Places, Taking
  <2>10. CASE Trim(t)
    <3>1. Step(t, "trim", "handle")
        BY <2>10 DEF Trim
    <3>. QED BY <2>10, <3>1, LocalStep DEF Trim, Unshared, Places, Taking
  <2>11. CASE Handle(t)
      BY <2>11, HandleStep
  <2>12. CASE FreePacket(t)
    <3>1. Step(t, "free", "loop")
        BY <2>12 DEF FreePacket
    <3>. QED BY <2>12, <3>1, LocalStep DEF FreePacket, queues, Places, Taking
  <2>. QED BY <1>2, <2>1, <2>2, <2>3, <2>4, <2>5, <2>6, <2>7, <2>8, <2>9, <2>10, <2>11, <2>12 DEF Thread, Pop
<1>3. CASE UNCHANGED vars
    BY <1>3 DEF vars, queues, locals, IInv, Types, KeepsFocus, TakesFromItsOwn, WokenFindsPacket
<1>. QED BY <1>1, <1>2, <1>3 DEF Next

\* A thread takes packets only from its own queue, although the code reads the queue
\* of the focus: for any number of packets, whenever keys arrive.
THEOREM OwnQueueOnly == Spec => []TakesFromItsOwn
<1>1. IInv => TakesFromItsOwn
    BY DEF IInv
<1>. QED BY <1>1, InitIInv, NextIInv, PTL DEF Spec

\* A thread that was woken finds a packet.
THEOREM PopNeverEmpty == Spec => []WokenFindsPacket
<1>1. IInv => WokenFindsPacket
    BY DEF IInv
<1>. QED BY <1>1, InitIInv, NextIInv, PTL DEF Spec

\* A woken thread always finds a packet, in its own queue.
THEOREM PopsItsOwnPacket == Spec => []TakesItsOwnPacket
<1>1. TakesFromItsOwn /\ WokenFindsPacket => TakesItsOwnPacket
    BY DEF TakesItsOwnPacket
<1>. QED BY <1>1, OwnQueueOnly, PopNeverEmpty, PTL

-----------------------------------------------------------------------------
(* A queue as the sequence of its packets.                                 *)

\* From front to back, through next, the packets are those of s, each once.
Chain(q, s) ==
    /\ s = <<>> <=> front[q] = NULL
    /\ s # <<>> => front[q] = s[1]
    /\ \A i \in 1..(Len(s) - 1) : next[s[i]] = s[i + 1]
    /\ \A i, j \in 1..Len(s) : s[i] = s[j] => i = j

Elements(s) == {s[i] : i \in 1..Len(s)}

LEMMA SmallestExists ==
    ASSUME NEW T, T \subseteq Nat, T # {}
    PROVE  \E x \in T : \A y \in T : x <= y
<1>1. PICK x \in T : \A y \in T : ~(<<y, x>> \in OpToRel(<, Nat))
    BY NatLessThanWellFounded, WFMin, Zenon
<1>2. ASSUME NEW y \in T PROVE x <= y
  <2> DEFINE pair == <<y, x>>
  <2>1. pair \in Nat \X Nat /\ pair[1] = y /\ pair[2] = x /\ x \in Nat /\ y \in Nat
      OBVIOUS
  <2>2. pair \notin {ss \in Nat \X Nat : ss[1] < ss[2]}
      BY <1>1 DEF OpToRel
  <2> HIDE DEF pair
  <2>. QED BY <2>1, <2>2
<1>. QED BY <1>2

\* A queue is not longer than there are packets.
LEMMA ChainLength ==
    ASSUME NEW s \in Seq(Packets), \A i, j \in 1..Len(s) : s[i] = s[j] => i = j
    PROVE  Len(s) <= Cardinality(Packets) /\ Cardinality(Packets) \in Nat
<1>1. Len(s) \in Nat /\ s \in [1..Len(s) -> Packets]
    OBVIOUS
<1>2. Cardinality(Packets) \in Nat
    BY FinitePackets, FS_CardinalityType
<1>3. IsFiniteSet(1..Len(s)) /\ Cardinality(1..Len(s)) = Len(s)
  <2>1. 1 \in Int /\ Len(s) \in Int
      BY <1>1
  <2>2. /\ IsFiniteSet(1..Len(s))
        /\ Cardinality(1..Len(s)) = IF 1 > Len(s) THEN 0 ELSE Len(s) - 1 + 1
      BY <2>1, FS_Interval
  <2>. QED BY <1>1, <2>2
<1>4. ASSUME Cardinality(Packets) < Cardinality(1..Len(s)) PROVE FALSE
  <2>1. \E i, j \in 1..Len(s) : i # j /\ s[i] = s[j]
      BY <1>1, <1>3, <1>4, FinitePackets, FS_PigeonHole
  <2>. QED BY <2>1
<1>. QED BY <1>1, <1>2, <1>3, <1>4

\* Following next from the front until the back visits exactly these packets.
LEMMA QueuedIsChain ==
    ASSUME NEW q \in Threads, NEW s \in Seq(Packets), Chain(q, s),
           s # <<>> => back[q] = s[Len(s)]
    PROVE  Queued(q) = Elements(s)
<1> DEFINE Seen(n) == {s[i] : i \in {j \in 1..Len(s) : j <= n + 1}}
           After(A) == A \cup ({next[p] : p \in A \ {back[q]}} \ {NULL})
           reached[n \in Nat] ==
               IF n = 0 THEN {front[q]} \ {NULL}
               ELSE reached[n - 1] \cup ({next[p] : p \in reached[n - 1] \ {back[q]}} \ {NULL})
<1>1. /\ Len(s) \in Nat /\ \A i \in 1..Len(s) : s[i] \in Packets /\ s[i] # NULL
      /\ s = <<>> <=> Len(s) = 0
    BY DistinctAssumption
<1>2. Seen(0) = {front[q]} \ {NULL}
  <2>1. CASE s = <<>>
      BY <2>1 DEF Chain
  <2>2. CASE s # <<>>
    <3>1. {j \in 1..Len(s) : j <= 0 + 1} = {1}
        BY <1>1, <2>2
    <3>. QED BY <1>1, <2>2, <3>1 DEF Chain
  <2>. QED BY <2>1, <2>2
<1>3. ASSUME NEW n \in Nat PROVE Seen(n + 1) = After(Seen(n))
  <2>1. ASSUME NEW p \in Seen(n + 1) PROVE p \in After(Seen(n))
    <3>1. PICK i \in 1..Len(s) : i <= n + 1 + 1 /\ p = s[i]
        BY <2>1
    <3>2. CASE i <= n + 1
        BY <3>1, <3>2
    <3>3. CASE i > n + 1
      <4>1. i - 1 \in 1..(Len(s) - 1) /\ i - 1 <= n + 1 /\ (i - 1) + 1 = i /\ i - 1 # Len(s)
          BY <1>1, <3>1, <3>3
      <4>2. next[s[i - 1]] = p /\ i - 1 \in 1..Len(s) /\ Len(s) \in 1..Len(s)
          BY <1>1, <3>1, <4>1 DEF Chain
      <4>3. s[i - 1] # back[q] /\ s[i - 1] \in Seen(n) /\ p # NULL
          BY <1>1, <3>1, <4>1, <4>2 DEF Chain
      <4>. QED BY <4>2, <4>3
    <3>. QED BY <1>1, <3>1, <3>2, <3>3
  <2>2. ASSUME NEW p \in After(Seen(n)) PROVE p \in Seen(n + 1)
    <3>1. CASE p \in Seen(n)
      <4>1. PICK i \in 1..Len(s) : i <= n + 1 /\ p = s[i]
          BY <3>1
      <4>2. i <= n + 1 + 1
          BY <4>1
      <4>. QED BY <4>1, <4>2
    <3>2. CASE p \notin Seen(n)
      <4>1. PICK r \in Seen(n) \ {back[q]} : p = next[r]
          BY <2>2, <3>2
      <4>2. PICK i \in 1..Len(s) : i <= n + 1 /\ r = s[i]
          BY <4>1
      <4>3. i # Len(s)
          BY <1>1, <4>1, <4>2
      <4>4. i \in 1..(Len(s) - 1) /\ i + 1 \in 1..Len(s) /\ i + 1 <= n + 1 + 1
          BY <1>1, <4>2, <4>3
      <4>. QED BY <4>1, <4>2, <4>4 DEF Chain
    <3>. QED BY <3>1, <3>2
  <2>. QED BY <2>1, <2>2
<1> HIDE DEF Seen
<1>4. reached = [n \in Nat |-> IF n = 0 THEN {front[q]} \ {NULL} ELSE After(reached[n - 1])]
  <2> DEFINE R == [n \in Nat |-> Seen(n)]
  <2>1. R = [n \in Nat |-> IF n = 0 THEN {front[q]} \ {NULL} ELSE After(R[n - 1])]
    <3>1. ASSUME NEW n \in Nat, n # 0 PROVE Seen(n) = After(R[n - 1])
      <4>1. n - 1 \in Nat /\ (n - 1) + 1 = n
          BY <3>1
      <4>2. Seen((n - 1) + 1) = After(Seen(n - 1))
          BY <4>1, <1>3
      <4>. QED BY <4>1, <4>2
    <3>. QED BY <1>2, <3>1
  <2>. QED BY <2>1 DEF reached
<1> HIDE DEF reached
<1>5. ASSUME NEW n \in Nat PROVE reached[n] = Seen(n)
  <2> DEFINE wrong == {m \in Nat : reached[m] # Seen(m)}
  <2>1. SUFFICES ASSUME wrong # {} PROVE FALSE
      OBVIOUS
  <2>2. PICK m \in wrong : \A k \in wrong : m <= k
      BY <2>1, SmallestExists
  <2>3. m # 0
      BY <1>2, <1>4, <2>2
  <2>4. m - 1 \in Nat /\ (m - 1) + 1 = m /\ ~(m <= m - 1)
      BY <2>2, <2>3
  <2>5. reached[m - 1] = Seen(m - 1)
      BY <2>2, <2>4
  <2>6. reached[m] = After(Seen(m - 1)) /\ Seen((m - 1) + 1) = After(Seen(m - 1))
      BY <1>3, <1>4, <2>3, <2>4, <2>5
  <2>. QED BY <2>2, <2>4, <2>6
<1>6. Seen(Cardinality(Packets)) = Elements(s)
  <2>1. Len(s) <= Cardinality(Packets) /\ Cardinality(Packets) \in Nat
      BY ChainLength DEF Chain
  <2>2. \A i \in 1..Len(s) : i <= Cardinality(Packets) + 1
      BY <1>1, <2>1
  <2>. QED BY <2>2 DEF Seen, Elements
<1>7. Queued(q) = reached[Cardinality(Packets)]
    BY DEF Queued, reached
<1>. QED BY <1>5, <1>6, <1>7, ChainLength DEF Chain

-----------------------------------------------------------------------------
(* Where the packets are, as long as no key comes while one is taken.      *)

Fields ==
    /\ current_focus_tcb \in Threads
    /\ front \in [Threads -> Packets \cup {NULL}]
    /\ back \in [Threads -> Packets \cup {NULL}]
    /\ next \in [Packets -> Packets \cup {NULL}]
    /\ key_code \in [Packets -> Codes]
    /\ allocated \subseteq Packets
    /\ pc \in [Threads -> Places]
    /\ current \in [Threads -> Threads]
    /\ ret \in [Threads -> Packets \cup {NULL}]
    /\ ptr \in [Threads -> Packets \cup {NULL}]
    /\ raced \in BOOLEAN /\ fault \in BOOLEAN

\* The back of a queue is its last packet, but while its only packet is taken.
Linked(s) ==
    \A q \in Threads :
        /\ Chain(q, s[q])
        /\ s[q] # <<>> => back[q] = IF pc[q] = "clear_front" THEN NULL ELSE s[q][Len(s[q])]

\* How far a thread is in taking the last packet of its queue.
At(s, t) ==
    /\ pc[t] \in Taking => s[t] # <<>>
    /\ pc[t] \in {"compare", "clear_back", "clear_front", "walk", "seek", "trim"}
           => ret[t] = s[t][Len(s[t])]
    /\ pc[t] \in {"clear_back", "clear_front"} => Len(s[t]) = 1
    /\ pc[t] \in {"walk", "seek", "trim"} => Len(s[t]) > 1
    /\ pc[t] = "seek" => \E i \in 1..(Len(s[t]) - 1) : ptr[t] = s[t][i]
    /\ pc[t] = "trim" => ptr[t] = s[t][Len(s[t]) - 1]
    /\ pc[t] \in {"handle", "free"} => ret[t] \in Packets

Owned(s) ==
    /\ allocated = UNION {Elements(s[t]) \cup InHand(t) : t \in Threads}
    /\ \A t, u \in Threads : Elements(s[t]) \cap InHand(u) = {}
    /\ \A t, u \in Threads : t # u =>
           Elements(s[t]) \cap Elements(s[u]) = {} /\ InHand(t) \cap InHand(u) = {}

Placed(s) == Linked(s) /\ (\A t \in Threads : At(s, t)) /\ Owned(s)

PacketInv == Fields /\ (~raced => \E s \in [Threads -> Seq(Packets)] : Placed(s))

LEMMA FieldsStep == ASSUME Fields, [Next]_vars PROVE Fields'
<1> USE DEF queues, locals, Unshared, Step
<1>1. ASSUME NEW code \in Codes, KeyboardInterrupt(code) PROVE Fields'
  <2> DEFINE q == current_focus_tcb
  <2>1. q \in Threads /\ UNCHANGED <<current_focus_tcb, locals>>
      BY <1>1 DEF KeyboardInterrupt, Fields
  <2>2. PICK p \in Packets \ allocated :
           /\ allocated' = allocated \cup {p} /\ key_code' = [key_code EXCEPT ![p] = code]
           /\ Push(q, p)
      BY <1>1 DEF KeyboardInterrupt
  <2>3. pc' \in [Threads -> Places]
      BY <1>1, <2>1 DEF KeyboardInterrupt, Posted, Fields, Places
  <2>4. raced' \in BOOLEAN
      BY <1>1 DEF KeyboardInterrupt, Fields
  <2>5. allocated' \subseteq Packets /\ key_code' \in [Packets -> Codes]
      BY <2>2 DEF Fields
  <2>6. /\ front' \in [Threads -> Packets \cup {NULL}]
        /\ back' \in [Threads -> Packets \cup {NULL}]
        /\ next' \in [Packets -> Packets \cup {NULL}]
    <3> HIDE DEF q
    <3>. QED BY <2>1, <2>2 DEF Push, Fields
  <2>7. fault' \in BOOLEAN
      BY <2>2 DEF Push, Fields
  <2>. QED BY <2>1, <2>3, <2>4, <2>5, <2>6, <2>7 DEF Fields
<1>2. ASSUME NEW t \in Threads, Thread(t) PROVE Fields'
  <2>1. current[t] \in Threads
      BY DEF Fields
  <2>2. CASE WaitSemaphore(t)
      BY <2>2 DEF WaitSemaphore, Fields, Places
  <2>3. CASE ReadFocus(t)
      BY <2>3 DEF ReadFocus, Fields, Places, Taking
  <2>4. CASE CheckFront(t)
      BY <2>4 DEF CheckFront, Fields, Places, Taking
  <2>5. CASE ReadBack(t)
      BY <2>1, <2>5 DEF ReadBack, Fields, Places, Taking
  <2>6. CASE Compare(t)
      BY <2>6 DEF Compare, Fields, Places, Taking
  <2>7. CASE ClearBack(t)
      BY <2>1, <2>7 DEF ClearBack, Fields, Places, Taking
  <2>8. CASE ClearFront(t)
      BY <2>1, <2>8 DEF ClearFront, Fields, Places, Taking
  <2>9. CASE StartWalk(t)
      BY <2>1, <2>9 DEF StartWalk, Fields, Places, Taking
  <2>10. CASE Seek(t)
    <3> USE DEF Step, queues, locals, Unshared
    <3>1. pc' \in [Threads -> Places]
        BY <2>10 DEF Seek, Fields, Places, Taking
    <3>2. ptr' \in [Threads -> Packets \cup {NULL}]
      <4>1. CASE ptr[t] # NULL /\ ptr' = [ptr EXCEPT ![t] = next[@]]
        <5>1. ptr[t] \in Packets
            BY <4>1 DEF Fields
        <5>2. next[ptr[t]] \in Packets \cup {NULL}
            BY <5>1 DEF Fields
        <5>. QED BY <4>1, <5>2 DEF Fields
      <4>2. CASE ptr' = ptr
          BY <4>2 DEF Fields
      <4>. QED BY <2>10, <4>1, <4>2 DEF Seek
    <3>3. /\ UNCHANGED <<current_focus_tcb, front, back, next, key_code, allocated, current, ret, raced>>
          /\ fault' \in BOOLEAN
        BY <2>10 DEF Seek, Fields
    <3>. QED BY <3>1, <3>2, <3>3 DEF Fields
  <2>11. CASE Trim(t)
      BY <2>1, <2>11 DEF Trim, Fields, Places, Taking
  <2>12. CASE Handle(t)
    <3>1. current_focus_tcb' \in Threads
      <4>1. \E u \in Threads : u # t
          BY DistinctAssumption DEF Threads
      <4>. QED BY <4>1, <2>12 DEF Handle, Fields
    <3>2. fault' \in BOOLEAN
        BY <2>12 DEF Handle
    <3>. QED BY <3>1, <3>2, <2>12 DEF Handle, Fields, Places
  <2>13. CASE FreePacket(t)
      BY <2>13 DEF FreePacket, Fields, Places, Codes
  <2>. QED BY <1>2, <2>2, <2>3, <2>4, <2>5, <2>6, <2>7, <2>8, <2>9, <2>10, <2>11, <2>12, <2>13
           DEF Thread, Pop
<1>3. CASE UNCHANGED vars
    BY <1>3 DEF vars, Fields
<1>. QED BY <1>1, <1>2, <1>3 DEF Next

\* A chain is made of the pointers of its own queue and of the packets in it.
LEMMA ChainSame ==
    ASSUME NEW q \in Threads, NEW c, Chain(q, c), front'[q] = front[q], next' = next
    PROVE  Chain(q, c)'
    BY DEF Chain

\* The queues stay linked when nobody touches them or begins to clear one.
LEMMA LinkedSame ==
    ASSUME NEW s \in [Threads -> Seq(Packets)], Linked(s), UNCHANGED <<front, back, next>>,
           \A q \in Threads : pc'[q] = "clear_front" <=> pc[q] = "clear_front"
    PROVE  Linked(s)'
<1>1. ASSUME NEW q \in Threads PROVE Chain(q, s[q])'
  <2>1. Chain(q, s[q]) /\ front'[q] = front[q] /\ next' = next
      BY DEF Linked
  <2>. QED BY <2>1, ChainSame
<1>2. ASSUME NEW q \in Threads, s[q] # <<>>
      PROVE  back'[q] = IF pc'[q] = "clear_front" THEN NULL ELSE s[q][Len(s[q])]
  <2>1. back[q] = IF pc[q] = "clear_front" THEN NULL ELSE s[q][Len(s[q])]
      BY <1>2 DEF Linked
  <2>. QED BY <2>1
<1>. QED BY <1>1, <1>2 DEF Linked

\* A step of one thread that leaves the queues, and whose packets are whose, alone.
LEMMA QuietStep ==
    ASSUME NEW s \in [Threads -> Seq(Packets)], Fields, Placed(s), NEW t \in Threads,
           UNCHANGED <<front, back, next, allocated>>,
           \A u \in Threads : u # t => pc'[u] = pc[u] /\ ret'[u] = ret[u] /\ ptr'[u] = ptr[u],
           pc[t] # "clear_front", pc'[t] # "clear_front", InHand(t)' = InHand(t), At(s, t)'
    PROVE  Placed(s)'
<1>1. Linked(s)'
  <2>1. Linked(s) /\ \A u \in Threads : pc'[u] = "clear_front" <=> pc[u] = "clear_front"
      BY DEF Placed
  <2>. QED BY <2>1, LinkedSame
<1>2. ASSUME NEW u \in Threads PROVE At(s, u)'
  <2>1. At(s, u)
      BY DEF Placed
  <2>. QED BY <2>1 DEF At
<1>3. Owned(s)'
  <2>1. \A u \in Threads : InHand(u)' = InHand(u)
      BY DEF InHand
  <2>. QED BY <2>1 DEF Placed, Owned
<1>. QED BY <1>1, <1>2, <1>3 DEF Placed

LEMMA KeyPlaced ==
    ASSUME IInv, PacketInv, NEW code \in Codes, KeyboardInterrupt(code), ~raced'
    PROVE  \E s \in [Threads -> Seq(Packets)] : Placed(s)'
<1> DEFINE q == current_focus_tcb
<1>1. /\ q \in Threads /\ ~raced /\ \A t \in Threads : pc[t] \notin Taking
      /\ UNCHANGED <<current_focus_tcb, current, ret, ptr>>
    BY DEF KeyboardInterrupt, PacketInv, Fields, locals
<1>2. Fields
    BY DEF PacketInv
<1>3. PICK s \in [Threads -> Seq(Packets)] : Placed(s)
    BY <1>1 DEF PacketInv
<1>4. PICK p \in Packets \ allocated : allocated' = allocated \cup {p} /\ Push(q, p)
    BY DEF KeyboardInterrupt
<1>5. /\ \A t \in Threads : t # q => pc'[t] = pc[t]
      /\ pc'[q] = pc[q] \/ (pc[q] = "waiting" /\ pc'[q] = "woken")
    BY <1>1, <1>2 DEF KeyboardInterrupt, Posted, Fields
<1> HIDE DEF q
<1>6. PICK x \in Threads : x = q
    BY <1>1
<1> DEFINE z == [s EXCEPT ![x] = Append(s[x], p)]
           n == Len(s[x])
<1>7. /\ z \in [Threads -> Seq(Packets)] /\ z[x] = Append(s[x], p)
      /\ \A t \in Threads : t # x => z[t] = s[t]
    OBVIOUS
<1>8. /\ n \in Nat /\ s[x] \in Seq(Packets) /\ Len(z[x]) = n + 1 /\ z[x][n + 1] = p /\ z[x] # <<>>
      /\ \A i \in 1..n : z[x][i] = s[x][i] /\ s[x][i] \in Packets
      /\ s[x] = <<>> <=> n = 0
    BY <1>7
<1> HIDE DEF n, z
<1>9. \A t \in Threads : pc[t] # "clear_front" /\ pc'[t] # "clear_front" /\ pc'[t] \notin Taking
    BY <1>1, <1>5 DEF Taking
<1>10. \A t \in Threads : p \notin Elements(s[t]) /\ p \notin InHand(t)
    BY <1>3, <1>4 DEF Placed, Owned
<1>11. \A t \in Threads : /\ Chain(t, s[t])
                          /\ s[t] # <<>> => back[t] = s[t][Len(s[t])]
    BY <1>3, <1>9 DEF Placed, Linked
<1>12. s[x] # <<>> => back[x] = s[x][n] /\ s[x][n] \in Packets /\ n \in 1..n
    BY <1>8, <1>11 DEF n
<1>13. /\ front'[x] = IF s[x] = <<>> THEN p ELSE front[x]
       /\ back'[x] = p
       /\ \A t \in Threads : t # x => front'[t] = front[t] /\ back'[t] = back[t]
       /\ next'[p] = NULL \/ s[x] # <<>>
       /\ s[x] # <<>> => next'[s[x][n]] = p
       /\ \A r \in Packets : r # p /\ (s[x] # <<>> => r # s[x][n]) => next'[r] = next[r]
  <2>1. s[x] = <<>> <=> front[x] = NULL
      BY <1>11 DEF Chain
  <2>2. Push(x, p) /\ NULL \notin Packets
      BY <1>4, <1>6, DistinctAssumption
  <2>3. CASE front[x] = NULL
      BY <1>2, <1>12, <2>1, <2>2, <2>3 DEF Push, Fields
  <2>4. CASE front[x] # NULL
      BY <1>2, <1>12, <2>1, <2>2, <2>4 DEF Push, Fields, queues
  <2>. QED BY <2>3, <2>4
<1>14. Chain(x, z[x])'
  <2>1. front'[x] = z[x][1] /\ front'[x] # NULL
    <3>1. CASE s[x] = <<>>
        BY <1>8, <1>13, <3>1, DistinctAssumption
    <3>2. CASE s[x] # <<>>
        BY <1>8, <1>11, <1>12, <1>13, <3>2, DistinctAssumption DEF Chain
    <3>. QED BY <3>1, <3>2
  <2>2. ASSUME NEW i \in 1..n PROVE next'[z[x][i]] = z[x][i + 1]
    <3>1. s[x] # <<>> /\ s[x][i] # p /\ s[x][i] \in Packets /\ i \in 1..Len(s[x])
        BY <1>8, <1>10 DEF Elements, n
    <3>2. CASE i = n
        BY <1>8, <1>13, <3>1, <3>2
    <3>3. CASE i # n
      <4>1. i \in 1..(Len(s[x]) - 1) /\ i + 1 \in 1..n /\ n \in 1..Len(s[x])
          BY <1>8, <3>3 DEF n
      <4>2. next[s[x][i]] = s[x][i + 1] /\ s[x][i] # s[x][n]
          BY <1>11, <3>1, <3>3, <4>1 DEF Chain
      <4>. QED BY <1>8, <1>13, <3>1, <4>1, <4>2
    <3>. QED BY <3>2, <3>3
  <2>3. ASSUME NEW i \in 1..(n + 1), NEW j \in 1..(n + 1), z[x][i] = z[x][j] PROVE i = j
    <3>1. \A k \in 1..(n + 1) : k = n + 1 \/ (k \in 1..n /\ k \in 1..Len(s[x]))
        BY <1>8 DEF n
    <3>2. \A k \in 1..n : s[x][k] # p
        BY <1>10 DEF Elements, n
    <3>. QED BY <1>8, <1>11, <2>3, <3>1, <3>2 DEF Chain
  <2>4. Len(z[x]) - 1 = n
      BY <1>8
  <2>. QED BY <1>8, <2>1, <2>2, <2>3, <2>4 DEF Chain
<1>15. ASSUME NEW t \in Threads, t # x PROVE Chain(t, s[t])'
  <2>1. \A i \in 1..Len(s[t]) : s[t][i] \in Packets /\ s[t][i] # p
      BY <1>10 DEF Elements
  <2>2. ASSUME NEW i \in 1..Len(s[t]), s[x] # <<>> PROVE s[t][i] # s[x][n]
    <3>1. Elements(s[t]) \cap Elements(s[x]) = {}
        BY <1>3, <1>15 DEF Placed, Owned
    <3>2. s[t][i] \in Elements(s[t])
        BY DEF Elements
    <3>3. n \in 1..Len(s[x]) /\ s[x][n] \in Elements(s[x])
        BY <1>12, <2>2 DEF Elements, n
    <3>. QED BY <3>1, <3>2, <3>3
  <2>3. Len(s[t]) \in Nat
      OBVIOUS
  <2>4. \A i \in 1..(Len(s[t]) - 1) : i \in 1..Len(s[t])
      BY <2>3
  <2>5. \A i \in 1..Len(s[t]) : next'[s[t][i]] = next[s[t][i]]
      BY <1>13, <2>1, <2>2
  <2>. QED BY <1>11, <1>13, <1>15, <2>4, <2>5 DEF Chain
<1>16. Linked(z)'
  <2>1. z[x][Len(z[x])] = p
      BY <1>8
  <2>. QED BY <1>7, <1>9, <1>11, <1>13, <1>14, <1>15, <2>1 DEF Linked
<1>17. \A t \in Threads : At(z, t)'
  <2>1. \A t \in Threads : pc'[t] \in {"handle", "free"} => ret'[t] \in Packets
      BY <1>1, <1>3, <1>5, <1>6 DEF Placed, At
  <2>. QED BY <1>9, <2>1 DEF At, Taking
<1>18. Owned(z)'
  <2>1. \A t \in Threads : InHand(t)' = InHand(t)
      BY <1>1, <1>5, <1>6 DEF InHand
  <2>2. Elements(z[x]) = Elements(s[x]) \cup {p}
    <3>1. \A i \in 1..(n + 1) : i \in 1..n \/ i = n + 1
        BY <1>8
    <3>2. \A i \in 1..n : i \in 1..(n + 1)
        BY <1>8
    <3>3. n + 1 \in 1..(n + 1) /\ Len(s[x]) = n
        BY <1>8 DEF n
    <3>4. /\ Elements(z[x]) = {z[x][i] : i \in 1..(n + 1)}
          /\ Elements(s[x]) = {s[x][i] : i \in 1..n}
        BY <1>8, <3>3 DEF Elements
    <3>5. \A i \in 1..n : z[x][i] = s[x][i]
        BY <1>8
    <3>6. z[x][n + 1] = p
        BY <1>8
    <3>7. ASSUME NEW e \in Elements(z[x]) PROVE e \in Elements(s[x]) \cup {p}
        BY <3>1, <3>4, <3>5, <3>6
    <3>8. ASSUME NEW e \in Elements(s[x]) \cup {p} PROVE e \in Elements(z[x])
        BY <3>2, <3>3, <3>4, <3>5, <3>6
    <3>. QED BY <3>7, <3>8
  <2>3. allocated' = UNION {Elements(z[t]) \cup InHand(t)' : t \in Threads}
    <3>1. allocated = UNION {Elements(s[t]) \cup InHand(t) : t \in Threads}
        BY <1>3 DEF Placed, Owned
    <3>2. \A t \in Threads : t # x => Elements(z[t]) = Elements(s[t])
        BY <1>7
    <3>. QED BY <1>4, <2>1, <2>2, <3>1, <3>2
  <2>4. \A t \in Threads : t # x => Elements(z[t]) = Elements(s[t])
      BY <1>7
  <2>5. \A t, u \in Threads : Elements(z[t]) \cap InHand(u)' = {}
      BY <1>3, <1>10, <2>1, <2>2, <2>4 DEF Placed, Owned
  <2>6. \A t, u \in Threads : t # u =>
           Elements(z[t]) \cap Elements(z[u]) = {} /\ InHand(t)' \cap InHand(u)' = {}
      BY <1>3, <1>10, <2>1, <2>2, <2>4 DEF Placed, Owned
  <2>. QED BY <2>3, <2>5, <2>6 DEF Owned
<1>19. Placed(z)'
    BY <1>16, <1>17, <1>18 DEF Placed
<1>. QED BY <1>7, <1>19

\* The steps of key_queue_pop that only read.
LEMMA ReadingPlaced ==
    ASSUME IInv, Fields, NEW s \in [Threads -> Seq(Packets)], Placed(s), NEW t \in Threads,
           \/ WaitSemaphore(t) \/ ReadFocus(t) \/ CheckFront(t) \/ ReadBack(t) \/ Compare(t)
           \/ StartWalk(t) \/ Seek(t)
    PROVE  Placed(s)'
<1> USE DEF queues, locals, Unshared, Step
<1>1. /\ At(s, t) /\ Linked(s)
      /\ pc[t] \in Taking => current[t] = t
      /\ pc[t] \in {"woken", "check"} => front[t] # NULL
    BY DEF Placed, IInv, TakesFromItsOwn, WokenFindsPacket
<1>2. /\ UNCHANGED <<front, back, next, allocated>>
      /\ \A u \in Threads : u # t => pc'[u] = pc[u] /\ ret'[u] = ret[u] /\ ptr'[u] = ptr[u]
    BY DEF WaitSemaphore, ReadFocus, CheckFront, ReadBack, Compare, StartWalk, Seek, Fields
<1>3. /\ Chain(t, s[t]) /\ s[t] \in Seq(Packets) /\ Len(s[t]) \in Nat
      /\ s[t] # <<>> => Len(s[t]) > 0 /\ Len(s[t]) \in 1..Len(s[t]) /\ 1 \in 1..Len(s[t])
      /\ s[t] # <<>> /\ pc[t] # "clear_front" => back[t] = s[t][Len(s[t])]
      /\ \A i \in 1..Len(s[t]) : s[t][i] \in Packets /\ s[t][i] # NULL
    BY <1>1, DistinctAssumption DEF Linked
<1>4. CASE WaitSemaphore(t)
  <2>1. pc[t] = "loop" /\ pc'[t] = "waiting"
      BY <1>4 DEF WaitSemaphore, Fields
  <2>2. InHand(t)' = InHand(t) /\ At(s, t)'
      BY <2>1 DEF InHand, At, Taking
  <2>. QED BY <1>2, <2>1, <2>2, QuietStep
<1>5. CASE ReadFocus(t)
  <2>1. pc[t] = "woken" /\ pc'[t] = "check"
      BY <1>5 DEF ReadFocus, Fields
  <2>2. InHand(t)' = InHand(t) /\ At(s, t)'
      BY <1>1, <1>3, <2>1 DEF InHand, At, Taking, Chain
  <2>. QED BY <1>2, <2>1, <2>2, QuietStep
<1>6. CASE CheckFront(t)
  <2>1. pc[t] = "check" /\ s[t] # <<>> /\ current[t] = t
      BY <1>1, <1>6 DEF CheckFront, At, Taking
  <2>2. pc'[t] = "back"
      BY <1>1, <1>6, <2>1 DEF CheckFront, Fields
  <2>3. InHand(t)' = InHand(t) /\ At(s, t)'
      BY <2>1, <2>2 DEF InHand, At, Taking
  <2>. QED BY <1>2, <2>1, <2>2, <2>3, QuietStep
<1>7. CASE ReadBack(t)
  <2>1. pc[t] = "back" /\ s[t] # <<>> /\ current[t] = t
      BY <1>1, <1>7 DEF ReadBack, At, Taking
  <2>2. pc'[t] = "compare" /\ ret'[t] = s[t][Len(s[t])]
      BY <1>3, <1>7, <2>1 DEF ReadBack, Fields
  <2>3. InHand(t)' = InHand(t) /\ At(s, t)'
      BY <2>1, <2>2 DEF InHand, At, Taking
  <2>. QED BY <1>2, <2>1, <2>2, <2>3, QuietStep
<1>8. CASE Compare(t)
  <2>1. pc[t] = "compare" /\ s[t] # <<>> /\ current[t] = t /\ ret[t] = s[t][Len(s[t])] /\ ret' = ret
      BY <1>1, <1>8 DEF Compare, At, Taking
  <2>2. \/ pc'[t] = "clear_back" /\ Len(s[t]) = 1
        \/ pc'[t] = "walk" /\ Len(s[t]) > 1
    <3>1. back[t] = s[t][Len(s[t])] /\ front[t] = s[t][1]
        BY <1>3, <2>1 DEF Chain
    <3>2. s[t][1] = s[t][Len(s[t])] <=> Len(s[t]) = 1
        BY <1>3, <2>1 DEF Chain
    <3>. QED BY <1>3, <1>8, <2>1, <3>1, <3>2 DEF Compare, Fields
  <2>3. InHand(t)' = InHand(t) /\ At(s, t)'
      BY <2>1, <2>2 DEF InHand, At, Taking
  <2>. QED BY <1>2, <2>1, <2>2, <2>3, QuietStep
<1>9. CASE StartWalk(t)
  <2>1. /\ pc[t] = "walk" /\ s[t] # <<>> /\ current[t] = t /\ ret[t] = s[t][Len(s[t])]
        /\ Len(s[t]) > 1 /\ ret' = ret
      BY <1>1, <1>9 DEF StartWalk, At, Taking
  <2>2. pc'[t] = "seek" /\ ptr'[t] = s[t][1] /\ 1 \in 1..(Len(s[t]) - 1)
      BY <1>3, <1>9, <2>1 DEF StartWalk, Fields, Chain
  <2>3. InHand(t)' = InHand(t) /\ At(s, t)'
      BY <2>1, <2>2 DEF InHand, At, Taking
  <2>. QED BY <1>2, <2>1, <2>2, <2>3, QuietStep
<1>10. CASE Seek(t)
  <2>1. /\ pc[t] = "seek" /\ s[t] # <<>> /\ current[t] = t /\ ret[t] = s[t][Len(s[t])]
        /\ Len(s[t]) > 1 /\ ret' = ret
      BY <1>1, <1>10 DEF Seek, At, Taking
  <2>2. PICK i \in 1..(Len(s[t]) - 1) : ptr[t] = s[t][i]
      BY <1>1, <2>1 DEF At
  <2>3. /\ i \in 1..Len(s[t]) /\ i + 1 \in 1..Len(s[t]) /\ ptr[t] \in Packets /\ ptr[t] # NULL
        /\ next[ptr[t]] = s[t][i + 1]
    <3>1. i \in 1..Len(s[t]) /\ i + 1 \in 1..Len(s[t])
        BY <1>3
    <3>. QED BY <1>3, <2>2, <3>1 DEF Chain
  <2>4. back[t] = s[t][Len(s[t])]
      BY <1>3, <2>1
  <2>5. CASE next[ptr[t]] = back[t]
    <3>1. i + 1 = Len(s[t])
        BY <1>3, <2>1, <2>3, <2>4, <2>5 DEF Chain
    <3>2. pc'[t] = "trim" /\ ptr'[t] = s[t][Len(s[t]) - 1]
      <4>1. i = Len(s[t]) - 1
          BY <1>3, <3>1
      <4>. QED BY <1>10, <2>1, <2>2, <2>3, <2>5, <4>1 DEF Seek, Fields
    <3>3. InHand(t)' = InHand(t) /\ At(s, t)'
        BY <2>1, <3>2 DEF InHand, At, Taking
    <3>. QED BY <1>2, <2>1, <3>2, <3>3, QuietStep
  <2>6. CASE next[ptr[t]] # back[t]
    <3>1. i + 1 \in 1..(Len(s[t]) - 1)
      <4>1. i + 1 # Len(s[t])
          BY <2>3, <2>4, <2>6
      <4>. QED BY <1>3, <2>3, <4>1
    <3>2. pc'[t] = "seek" /\ ptr'[t] = s[t][i + 1]
        BY <1>10, <2>1, <2>3, <2>6 DEF Seek, Fields
    <3>3. InHand(t)' = InHand(t) /\ At(s, t)'
        BY <2>1, <3>1, <3>2 DEF InHand, At, Taking
    <3>. QED BY <1>2, <2>1, <3>2, <3>3, QuietStep
  <2>. QED BY <2>5, <2>6
<1>. QED BY <1>4, <1>5, <1>6, <1>7, <1>8, <1>9, <1>10

\* The only packet of a queue leaves it: first the back, then the front is cleared.
LEMMA ClearBackPlaced ==
    ASSUME IInv, Fields, NEW s \in [Threads -> Seq(Packets)], Placed(s), NEW t \in Threads, ClearBack(t)
    PROVE  Placed(s)'
<1>1. /\ At(s, t) /\ Linked(s) /\ pc[t] = "clear_back" /\ current[t] = t
    BY DEF Placed, IInv, TakesFromItsOwn, Taking, ClearBack, Step
<1>2. /\ UNCHANGED <<front, next, allocated, ret, ptr>> /\ pc'[t] = "clear_front" /\ back'[t] = NULL
      /\ \A u \in Threads : u # t => pc'[u] = pc[u] /\ back'[u] = back[u]
    BY <1>1 DEF ClearBack, Step, Unshared, Fields
<1>3. Linked(s)'
  <2>1. ASSUME NEW u \in Threads PROVE Chain(u, s[u])'
    <3>1. Chain(u, s[u]) /\ front'[u] = front[u] /\ next' = next
        BY <1>1, <1>2 DEF Linked
    <3>. QED BY <3>1, ChainSame
  <2>2. ASSUME NEW u \in Threads, s[u] # <<>>
        PROVE  back'[u] = IF pc'[u] = "clear_front" THEN NULL ELSE s[u][Len(s[u])]
    <3>1. CASE u = t
        BY <1>2, <3>1
    <3>2. CASE u # t
      <4>1. back[u] = IF pc[u] = "clear_front" THEN NULL ELSE s[u][Len(s[u])]
          BY <1>1, <2>2 DEF Linked
      <4>. QED BY <1>2, <3>2, <4>1
    <3>. QED BY <3>1, <3>2
  <2>. QED BY <2>1, <2>2 DEF Linked
<1>4. \A u \in Threads : At(s, u)'
    BY <1>1, <1>2 DEF Placed, At, Taking
<1>5. Owned(s)'
  <2>1. \A u \in Threads : InHand(u)' = InHand(u)
      BY <1>1, <1>2 DEF InHand
  <2>. QED BY <1>2, <2>1 DEF Placed, Owned
<1>. QED BY <1>3, <1>4, <1>5 DEF Placed

\* A packet passes from the end of t's queue, z[t] being what is left, to t's hands.
LEMMA PassesToHand ==
    ASSUME Fields, NEW s \in [Threads -> Seq(Packets)], Placed(s), NEW t \in Threads,
           NEW z \in [Threads -> Seq(Packets)], \A u \in Threads : u # t => z[u] = s[u],
           s[t] # <<>>, z[t] = SubSeq(s[t], 1, Len(s[t]) - 1),
           pc[t] \notin {"handle", "free"}, pc'[t] = "handle", ret[t] = s[t][Len(s[t])],
           \A u \in Threads : u # t => pc'[u] = pc[u] /\ ptr'[u] = ptr[u],
           ret' = ret, allocated' = allocated
    PROVE  Owned(z)' /\ \A u \in Threads : At(z, u)'
<1> DEFINE n == Len(s[t])
           p == s[t][n]
<1>1. /\ n \in Nat \ {0} /\ n \in 1..n /\ p \in Packets
      /\ \A i, j \in 1..n : s[t][i] = s[t][j] => i = j
  <2>1. s[t] \in Seq(Packets) /\ n \in Nat \ {0} /\ n \in 1..n
      OBVIOUS
  <2>2. Chain(t, s[t])
      BY DEF Placed, Linked
  <2>. QED BY <2>1, <2>2 DEF Chain
<1>2. Len(z[t]) = n - 1 /\ \A i \in 1..(n - 1) : z[t][i] = s[t][i]
  <2>1. s[t] \in Seq(Packets) /\ n \in Nat \ {0}
      OBVIOUS
  <2> DEFINE k == n - 1
  <2>2. k \in Nat /\ z[t] = SubSeq(s[t], 1, k) /\ \A i \in 1..k : i \in 1..Len(s[t])
      BY <2>1
  <2> HIDE DEF k
  <2>3. Len(z[t]) = k /\ \A i \in 1..k : z[t][i] = s[t][i]
      BY <2>1, <2>2
  <2>. QED BY <2>3 DEF k
<1> HIDE DEF n, p
<1>3. Elements(s[t]) = Elements(z[t]) \cup {p} /\ p \notin Elements(z[t])
  <2>1. \A i \in 1..n : i = n \/ i \in 1..(n - 1)
      BY <1>1
  <2>2. \A i \in 1..(n - 1) : i \in 1..n /\ i # n
      BY <1>1
  <2>3. Elements(s[t]) = {s[t][i] : i \in 1..n}
      BY DEF Elements, n
  <2>4. Elements(z[t]) = {z[t][i] : i \in 1..(n - 1)}
      BY <1>2 DEF Elements
  <2>5. Elements(z[t]) = {s[t][i] : i \in 1..(n - 1)}
      BY <1>2, <2>4
  <2>6. ASSUME NEW x \in Elements(s[t]) PROVE x \in Elements(z[t]) \cup {p}
      BY <2>1, <2>3, <2>5, <2>6 DEF p
  <2>7. p \in Elements(s[t]) /\ Elements(z[t]) \subseteq Elements(s[t])
      BY <1>1, <2>2, <2>3, <2>5 DEF p
  <2>8. p \notin Elements(z[t])
      BY <1>1, <2>2, <2>5 DEF p
  <2>. QED BY <2>6, <2>7, <2>8
<1>4. ret[t] = p
    BY DEF p, n
<1>5. InHand(t)' = {p} /\ InHand(t) = {} /\ \A u \in Threads : u # t => InHand(u)' = InHand(u)
    BY <1>4 DEF InHand
<1>6. \A u \in Threads : u # t => Elements(z[u]) = Elements(s[u])
    OBVIOUS
<1>7. Owned(s)
    BY DEF Placed
<1>8. Owned(z)'
  <2>1. allocated' = UNION {Elements(z[u]) \cup InHand(u)' : u \in Threads}
    <3>1. \A u \in Threads : Elements(z[u]) \cup InHand(u)' = Elements(s[u]) \cup InHand(u)
        BY <1>3, <1>5, <1>6
    <3>. QED BY <1>7, <3>1 DEF Owned
  <2>2. \A u \in Threads :
           /\ p \notin InHand(u) /\ (u # t => p \notin Elements(s[u]))
           /\ Elements(z[u]) \subseteq Elements(s[u])
      BY <1>3, <1>6, <1>7 DEF Owned
  <2>3. \A u, v \in Threads : Elements(z[u]) \cap InHand(v)' = {}
    <3> TAKE u, v \in Threads
    <3>1. Elements(s[u]) \cap InHand(v) = {}
        BY <1>7 DEF Owned
    <3>. QED BY <1>3, <1>5, <2>2, <3>1
  <2>4. ASSUME NEW u \in Threads, NEW v \in Threads, u # v
        PROVE  Elements(z[u]) \cap Elements(z[v]) = {} /\ InHand(u)' \cap InHand(v)' = {}
    <3>1. Elements(s[u]) \cap Elements(s[v]) = {} /\ InHand(u) \cap InHand(v) = {}
        BY <1>7, <2>4 DEF Owned
    <3>2. u = t \/ u # t
        OBVIOUS
    <3>. QED BY <1>5, <2>2, <2>4, <3>1, <3>2
  <2>. QED BY <2>1, <2>3, <2>4 DEF Owned
<1>9. \A u \in Threads : At(z, u)'
  <2>1. At(z, t)'
      BY <1>1, <1>4 DEF At, Taking
  <2>2. ASSUME NEW u \in Threads, u # t PROVE At(z, u)'
    <3>1. At(s, u) /\ z[u] = s[u] /\ pc'[u] = pc[u] /\ ptr'[u] = ptr[u] /\ ret'[u] = ret[u]
        BY <2>2 DEF Placed
    <3>. QED BY <3>1 DEF At
  <2>. QED BY <2>1, <2>2
<1>. QED BY <1>8, <1>9

LEMMA ClearFrontPlaced ==
    ASSUME IInv, Fields, NEW s \in [Threads -> Seq(Packets)], Placed(s), NEW t \in Threads, ClearFront(t)
    PROVE  \E z \in [Threads -> Seq(Packets)] : Placed(z)'
<1>1. /\ At(s, t) /\ Linked(s) /\ pc[t] = "clear_front" /\ current[t] = t
    BY DEF Placed, IInv, TakesFromItsOwn, Taking, ClearFront, Step
<1>2. /\ UNCHANGED <<back, next, allocated, ret, ptr>> /\ pc'[t] = "handle" /\ front'[t] = NULL
      /\ \A u \in Threads : u # t => pc'[u] = pc[u] /\ front'[u] = front[u]
    BY <1>1 DEF ClearFront, Step, Unshared, Fields
<1>3. s[t] # <<>> /\ Len(s[t]) = 1 /\ ret[t] = s[t][Len(s[t])]
    BY <1>1 DEF At, Taking
<1> DEFINE z == [s EXCEPT ![t] = <<>>]
<1>4. z \in [Threads -> Seq(Packets)] /\ z[t] = <<>> /\ \A u \in Threads : u # t => z[u] = s[u]
    OBVIOUS
<1>5. z[t] = SubSeq(s[t], 1, Len(s[t]) - 1)
    BY <1>3, <1>4
<1> HIDE DEF z
<1>6. Owned(z)' /\ \A u \in Threads : At(z, u)'
    BY <1>1, <1>2, <1>3, <1>4, <1>5, PassesToHand
<1>7. Linked(z)'
  <2>1. Chain(t, z[t])'
      BY <1>2, <1>4 DEF Chain
  <2>2. ASSUME NEW u \in Threads, u # t PROVE Chain(u, z[u])'
    <3>1. Chain(u, s[u]) /\ z[u] = s[u] /\ front'[u] = front[u] /\ next' = next
        BY <1>1, <1>2, <1>4, <2>2 DEF Linked
    <3>. QED BY <3>1 DEF Chain
  <2>. QED BY <1>1, <1>2, <1>4, <2>1, <2>2 DEF Linked
<1>8. Placed(z)'
    BY <1>6, <1>7 DEF Placed
<1>. QED BY <1>4, <1>8

\* The last of several packets leaves the queue; the one before it becomes the back.
LEMMA TrimPlaced ==
    ASSUME IInv, Fields, NEW s \in [Threads -> Seq(Packets)], Placed(s), NEW t \in Threads, Trim(t)
    PROVE  \E z \in [Threads -> Seq(Packets)] : Placed(z)'
<1>1. /\ At(s, t) /\ Linked(s) /\ pc[t] = "trim" /\ current[t] = t
    BY DEF Placed, IInv, TakesFromItsOwn, Taking, Trim, Step
<1>2. s[t] # <<>> /\ Len(s[t]) > 1 /\ ret[t] = s[t][Len(s[t])] /\ ptr[t] = s[t][Len(s[t]) - 1]
    BY <1>1 DEF At, Taking
<1>3. /\ UNCHANGED <<front, next, allocated, ret>> /\ pc'[t] = "handle"
      /\ back'[t] = s[t][Len(s[t]) - 1]
      /\ \A u \in Threads : u # t => pc'[u] = pc[u] /\ back'[u] = back[u] /\ ptr'[u] = ptr[u]
    BY <1>1, <1>2 DEF Trim, Step, Unshared, Fields
<1> DEFINE k == Len(s[t]) - 1
           z == [s EXCEPT ![t] = SubSeq(s[t], 1, k)]
<1>4. k \in Nat /\ k > 0 /\ s[t] \in Seq(Packets) /\ \A i \in 1..k : i \in 1..Len(s[t])
    BY <1>2
<1> HIDE DEF k
<1>5. /\ SubSeq(s[t], 1, k) \in Seq(Packets) /\ Len(SubSeq(s[t], 1, k)) = k
      /\ \A i \in 1..k : SubSeq(s[t], 1, k)[i] = s[t][i]
    BY <1>4
<1>6. /\ z \in [Threads -> Seq(Packets)] /\ z[t] = SubSeq(s[t], 1, Len(s[t]) - 1)
      /\ \A u \in Threads : u # t => z[u] = s[u]
      /\ Len(z[t]) = k /\ \A i \in 1..k : z[t][i] = s[t][i]
    BY <1>5 DEF k
<1> HIDE DEF z
<1>7. Owned(z)' /\ \A u \in Threads : At(z, u)'
    BY <1>1, <1>2, <1>3, <1>6, PassesToHand
<1>8. Linked(z)'
  <2>1. Chain(t, s[t]) /\ z[t] # <<>> /\ 1 \in 1..k /\ k \in 1..k
    <3>1. z[t] \in Seq(Packets) /\ Len(z[t]) > 0
        BY <1>4, <1>6
    <3>2. 1 \in 1..k /\ k \in 1..k
        BY <1>4
    <3>. QED BY <1>1, <3>1, <3>2 DEF Linked
  <2>2. \A i \in 1..(k - 1) : i \in 1..k /\ i + 1 \in 1..k /\ i \in 1..(Len(s[t]) - 1)
      BY <1>4 DEF k
  <2>3. Chain(t, z[t])'
      BY <1>2, <1>3, <1>4, <1>6, <2>1, <2>2 DEF Chain
  <2>4. ASSUME NEW u \in Threads, u # t PROVE Chain(u, z[u])'
    <3>1. Chain(u, s[u]) /\ z[u] = s[u] /\ front' = front /\ next' = next
        BY <1>1, <1>3, <1>6, <2>4 DEF Linked
    <3>. QED BY <3>1 DEF Chain
  <2>5. back'[t] = z[t][Len(z[t])]
      BY <1>3, <1>6, <2>1 DEF k
  <2>6. \A u \in Threads : Chain(u, z[u])'
      BY <2>3, <2>4
  <2>7. ASSUME NEW u \in Threads, z[u] # <<>>
        PROVE  back'[u] = IF pc'[u] = "clear_front" THEN NULL ELSE z[u][Len(z[u])]
    <3>1. CASE u = t
        BY <1>3, <2>5, <3>1
    <3>2. CASE u # t
      <4>1. z[u] = s[u] /\ pc'[u] = pc[u] /\ back'[u] = back[u]
          BY <1>3, <1>6, <3>2
      <4>2. back[u] = IF pc[u] = "clear_front" THEN NULL ELSE s[u][Len(s[u])]
          BY <1>1, <2>7, <4>1 DEF Linked
      <4>. QED BY <4>1, <4>2
    <3>. QED BY <3>1, <3>2
  <2>. QED BY <2>6, <2>7 DEF Linked
<1>9. Placed(z)'
    BY <1>7, <1>8 DEF Placed
<1>. QED BY <1>6, <1>9

\* The packet stays in hand while it is looked at, and is then freed.
LEMMA HandPlaced ==
    ASSUME Fields, NEW s \in [Threads -> Seq(Packets)], Placed(s), NEW t \in Threads,
           Handle(t) \/ FreePacket(t)
    PROVE  Placed(s)'
<1> USE DEF queues, locals, Step
<1>1. At(s, t) /\ Linked(s) /\ Owned(s) /\ pc[t] \in {"handle", "free"}
    BY DEF Placed, Handle, FreePacket
<1>2. /\ UNCHANGED <<front, back, next, ptr>>
      /\ \A u \in Threads : u # t => pc'[u] = pc[u] /\ ret'[u] = ret[u]
    BY DEF Handle, FreePacket, Fields
<1>3. \/ pc[t] = "handle" /\ pc'[t] = "free" /\ ret' = ret /\ allocated' = allocated
      \/ pc[t] = "free" /\ pc'[t] = "loop" /\ allocated' = allocated \ {ret[t]}
    BY DEF Handle, FreePacket, Fields
<1>4. Linked(s)'
  <2>1. \A u \in Threads : pc'[u] = "clear_front" <=> pc[u] = "clear_front"
      BY <1>1, <1>2, <1>3
  <2>. QED BY <1>1, <1>2, <2>1, LinkedSame
<1>5. \A u \in Threads : At(s, u)'
    BY <1>2, <1>3 DEF Placed, At, Taking
<1>6. Owned(s)'
  <2>1. CASE pc'[t] = "free"
    <3>1. \A u \in Threads : InHand(u)' = InHand(u)
        BY <1>2, <1>3, <2>1 DEF InHand
    <3>. QED BY <1>1, <1>3, <2>1, <3>1 DEF Owned
  <2>2. CASE pc'[t] = "loop"
    <3>1. /\ InHand(t)' = {} /\ InHand(t) = {ret[t]}
          /\ \A u \in Threads : u # t => InHand(u)' = InHand(u)
        BY <1>2, <1>3, <2>2 DEF InHand
    <3>2. /\ \A u \in Threads : ret[t] \notin Elements(s[u])
          /\ \A u \in Threads : u # t => ret[t] \notin InHand(u)
        BY <1>1, <3>1 DEF Owned
    <3>3. allocated' = UNION {Elements(s[u]) \cup InHand(u)' : u \in Threads}
      <4>1. allocated = UNION {Elements(s[u]) \cup InHand(u) : u \in Threads}
          BY <1>1 DEF Owned
      <4>2. allocated' = allocated \ {ret[t]}
          BY <1>1, <1>3, <2>2
      <4>3. ASSUME NEW u \in Threads
            PROVE  Elements(s[u]) \cup InHand(u)' = (Elements(s[u]) \cup InHand(u)) \ {ret[t]}
        <5>1. CASE u = t
            BY <3>1, <3>2, <5>1
        <5>2. CASE u # t
            BY <3>1, <3>2, <5>2
        <5>. QED BY <5>1, <5>2
      <4>. QED BY <4>1, <4>2, <4>3
    <3>. QED BY <1>1, <3>1, <3>3 DEF Owned
  <2>. QED BY <1>3, <2>1, <2>2
<1>. QED BY <1>4, <1>5, <1>6 DEF Placed

LEMMA InitPacketInv == Init => PacketInv
<1> SUFFICES ASSUME Init PROVE PacketInv
    OBVIOUS
<1>1. Fields
    BY DistinctAssumption DEF Init, Fields, Threads, Codes, Places
<1> DEFINE s == [t \in Threads |-> <<>>]
<1>2. s \in [Threads -> Seq(Packets)] /\ \A t \in Threads : s[t] = <<>> /\ Elements(s[t]) = {}
    BY DEF Elements
<1> HIDE DEF s
<1>3. \A t \in Threads : InHand(t) = {} /\ At(s, t)
    BY DEF Init, InHand, At, Taking
<1>4. Linked(s)
    BY <1>2 DEF Init, Linked, Chain
<1>5. Owned(s)
    BY <1>2, <1>3 DEF Init, Owned
<1>. QED BY <1>1, <1>2, <1>3, <1>4, <1>5 DEF PacketInv, Placed

LEMMA NextPacketInv == ASSUME IInv, PacketInv, [Next]_vars PROVE PacketInv'
<1>1. Fields /\ Fields'
    BY FieldsStep DEF PacketInv
<1>2. SUFFICES ASSUME ~raced' PROVE \E s \in [Threads -> Seq(Packets)] : Placed(s)'
    BY <1>1 DEF PacketInv
<1>3. ASSUME NEW code \in Codes, KeyboardInterrupt(code)
      PROVE  \E s \in [Threads -> Seq(Packets)] : Placed(s)'
    BY <1>2, <1>3, KeyPlaced
<1>4. ASSUME NEW t \in Threads, Thread(t) PROVE \E s \in [Threads -> Seq(Packets)] : Placed(s)'
  <2>1. raced' = raced
      BY <1>4 DEF Thread, Pop, WaitSemaphore, ReadFocus, CheckFront, ReadBack, Compare, ClearBack,
                  ClearFront, StartWalk, Seek, Trim, Handle, FreePacket, Step
  <2>2. PICK s \in [Threads -> Seq(Packets)] : Placed(s)
      BY <1>2, <2>1 DEF PacketInv
  <2>. QED BY <1>1, <1>4, <2>2, ReadingPlaced, ClearBackPlaced, ClearFrontPlaced, TrimPlaced, HandPlaced
           DEF Thread, Pop
<1>5. CASE UNCHANGED vars
  <2>1. PICK s \in [Threads -> Seq(Packets)] : Placed(s)
      BY <1>2, <1>5 DEF PacketInv, vars
  <2>2. UNCHANGED <<front, back, next, allocated, pc, ret, ptr>>
      BY <1>5 DEF vars, queues, locals
  <2>3. Linked(s)'
      BY <2>1, <2>2 DEF Placed, Linked, Chain
  <2>4. \A t \in Threads : At(s, t)'
      BY <2>1, <2>2 DEF Placed, At
  <2>5. Owned(s)'
      BY <2>1, <2>2 DEF Placed, Owned, InHand
  <2>6. Placed(s)'
      BY <2>3, <2>4, <2>5 DEF Placed
  <2>. QED BY <2>6
<1>. QED BY <1>3, <1>4, <1>5 DEF Next

\* While nobody takes a packet each one that was not freed is in one queue or in one
\* thread's hands, for any number of packets (key_queue.c:25-69).
THEOREM PacketsInOnePlace == Spec => []EveryPacketInOnePlace
<1>1. ASSUME PacketInv PROVE EveryPacketInOnePlace
  <2>1. Fields
      BY <1>1 DEF PacketInv
  <2>2. CASE raced
      BY <2>1, <2>2 DEF Fields, TypeOK, EveryPacketInOnePlace
  <2>3. ASSUME ~raced PROVE EveryPacketInOnePlace
    <3>1. PICK s \in [Threads -> Seq(Packets)] : Placed(s)
        BY <1>1, <2>3 DEF PacketInv
    <3>2. \A t \in Threads :
             /\ s[t] \in Seq(Packets) /\ Len(s[t]) \in Nat
             /\ s[t] # <<>> => Len(s[t]) \in 1..Len(s[t])
             /\ \A i \in 1..Len(s[t]) : s[t][i] \in Packets /\ s[t][i] # NULL
        BY DistinctAssumption
    <3>3. TypeOK
      <4>1. ASSUME NEW t \in Threads
            PROVE  /\ pc[t] \in {"seek", "trim"} => ptr[t] # NULL
                   /\ pc[t] \in {"compare", "clear_back", "clear_front", "walk", "seek", "trim",
                                 "handle", "free"} => ret[t] # NULL
        <5>1. At(s, t)
            BY <3>1 DEF Placed
        <5>2. pc[t] \in Taking => Len(s[t]) \in 1..Len(s[t])
            BY <3>2, <5>1 DEF At
        <5>3. pc[t] \in {"seek", "trim"} => ptr[t] # NULL
          <6>1. \A i \in 1..(Len(s[t]) - 1) : i \in 1..Len(s[t])
              BY <3>2
          <6>2. pc[t] = "trim" => Len(s[t]) - 1 \in 1..Len(s[t])
              BY <3>2, <5>1 DEF At
          <6>. QED BY <3>2, <5>1, <6>1, <6>2 DEF At
        <5>. QED BY <3>2, <5>1, <5>2, <5>3, DistinctAssumption DEF At, Taking
      <4>. QED BY <2>1, <2>3, <4>1 DEF Fields, TypeOK
    <3>4. SUFFICES ASSUME \A t \in Threads : pc[t] \notin Taking
          PROVE  /\ allocated = UNION {Queued(t) \cup InHand(t) : t \in Threads}
                 /\ \A t, u \in Threads : Queued(t) \cap InHand(u) = {}
                 /\ Queued(t1) \cap Queued(t2) = {} /\ InHand(t1) \cap InHand(t2) = {}
                 /\ \A q \in Threads : front[q] # NULL => back[q] \in Queued(q)
        BY <3>3 DEF EveryPacketInOnePlace
    <3>5. ASSUME NEW q \in Threads
          PROVE  /\ Chain(q, s[q])
                 /\ s[q] # <<>> => back[q] = s[q][Len(s[q])]
                 /\ Queued(q) = Elements(s[q])
      <4>1. Chain(q, s[q]) /\ (s[q] # <<>> => back[q] = s[q][Len(s[q])])
          BY <3>1, <3>4 DEF Placed, Linked, Taking
      <4>2. s[q] \in Seq(Packets)
          BY <3>2
      <4>3. Queued(q) = Elements(s[q])
          BY <4>1, <4>2, QueuedIsChain
      <4>. QED BY <4>1, <4>3
    <3>6. Owned(s)
        BY <3>1 DEF Placed
    <3>7. t1 \in Threads /\ t2 \in Threads /\ t1 # t2
        BY DistinctAssumption DEF Threads
    <3>8. allocated = UNION {Queued(t) \cup InHand(t) : t \in Threads}
      <4>1. \A t \in Threads : Queued(t) \cup InHand(t) = Elements(s[t]) \cup InHand(t)
          BY <3>5
      <4>. QED BY <3>6, <4>1 DEF Owned
    <3>9. ASSUME NEW q \in Threads, front[q] # NULL PROVE back[q] \in Queued(q)
      <4>1. s[q] # <<>>
          BY <3>5, <3>9 DEF Chain
      <4>2. Len(s[q]) \in 1..Len(s[q]) /\ back[q] = s[q][Len(s[q])]
          BY <3>2, <3>5, <4>1
      <4>3. back[q] \in Elements(s[q])
          BY <4>2 DEF Elements
      <4>. QED BY <3>5, <4>3
    <3>. QED BY <3>5, <3>6, <3>7, <3>8, <3>9 DEF Owned
  <2>. QED BY <2>2, <2>3
<1>2. IInv /\ PacketInv /\ [Next]_vars => IInv' /\ PacketInv'
    BY NextIInv, NextPacketInv
<1>. QED BY <1>1, <1>2, InitIInv, InitPacketInv, PTL DEF Spec
=============================================================================

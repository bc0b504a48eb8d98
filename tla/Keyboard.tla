------------------------------ MODULE Keyboard ------------------------------
(***************************************************************************)
(* Keys on their way from the keyboard interrupt to the two threads of     *)
(* Kernel.c that read them: drivers/keyboard/key_queue.c, keyboard.c and   *)
(* test1 and test2.                                                        *)
(*                                                                         *)
(* The interrupt is one step.  A thread has interrupts enabled while it    *)
(* takes a packet off its queue, so each access of the queue is a step; a  *)
(* comparison reads back and front at once, since the interrupt changes    *)
(* only one of them in a queue that is not empty.                          *)
(*                                                                         *)
(* test1 hands the focus to t2 on F2, test2 to t1 on F1: the key that t    *)
(* reacts to is called t.                                                  *)
(***************************************************************************)
EXTENDS Naturals, FiniteSets

CONSTANTS t1, t2,        \* the threads that run test1 and test2
          Packets,       \* what malloc returns for a KBP
          NULL,          \* the null pointer
          plain          \* any key nobody reacts to

Threads == {t1, t2}
Codes == Threads \cup {plain}

ASSUME DistinctAssumption == t1 # t2 /\ plain \notin Threads /\ NULL \notin Packets
ASSUME FinitePackets == IsFiniteSet(Packets)

VARIABLES current_focus_tcb,
          front, back,   \* kbp_queue of each thread
          next,          \* next of each packet
          key_code,      \* of each packet
          allocated,     \* packets that malloc gave out
          pc,            \* where each thread is
          current,       \* key_queue_pop's queue, by its thread
          ret, ptr,      \* its other two local variables
          raced,         \* a key arrived while a thread was in key_queue_pop
          fault          \* NULL was followed; nothing is modelled after that

queues == <<front, back, next>>
locals == <<current, ret, ptr>>
vars == <<current_focus_tcb, queues, key_code, allocated, pc, locals, raced, fault>>

Taking == {"check", "back", "compare", "clear_back", "clear_front", "walk", "seek", "trim"}
Places == {"loop", "waiting", "woken", "handle", "free"} \cup Taking

Init ==
    /\ current_focus_tcb = t1
    /\ front = [t \in Threads |-> NULL]
    /\ back = [t \in Threads |-> NULL]
    /\ next = [p \in Packets |-> NULL]
    /\ key_code = [p \in Packets |-> plain]
    /\ allocated = {}
    /\ pc = [t \in Threads |-> "loop"]
    /\ current = [t \in Threads |-> t]
    /\ ret = [t \in Threads |-> NULL]
    /\ ptr = [t \in Threads |-> NULL]
    /\ raced = FALSE
    /\ fault = FALSE

-----------------------------------------------------------------------------
\* Slip: the packet in front is not linked to the new one.
PushUnlinked(q, p) ==
    /\ front' = [front EXCEPT ![q] = IF @ = NULL THEN p ELSE @]
    /\ back' = [back EXCEPT ![q] = p]
    /\ next' = [next EXCEPT ![p] = NULL]
    /\ UNCHANGED fault

\* key_queue_push's two cases, and what becomes of the second on a half-cleared queue.
Push(q, p) ==
    \/ /\ front[q] = NULL
       /\ front' = [front EXCEPT ![q] = p]
       /\ back' = [back EXCEPT ![q] = p]
       /\ next' = [next EXCEPT ![p] = NULL]
       /\ UNCHANGED fault
    \/ /\ front[q] # NULL
       /\ back[q] # NULL
       /\ back' = [back EXCEPT ![q] = p]
       /\ next' = [next EXCEPT ![p] = NULL, ![back[q]] = p]
       /\ UNCHANGED <<front, fault>>
    \/ /\ front[q] # NULL
       /\ back[q] = NULL
       /\ fault' = TRUE
       /\ UNCHANGED queues

\* post_semaphore: only a thread that waits notices.
Posted(q) == [pc EXCEPT ![q] = IF @ = "waiting" THEN "woken" ELSE @]

\* keyboard_interrupt: a key goes to the thread that has the focus.
KeyboardInterrupt(code) ==
    /\ ~fault
    /\ raced' = (raced \/ \E t \in Threads : pc[t] \in Taking)
    /\ \E p \in Packets \ allocated :
           /\ allocated' = allocated \cup {p}
           /\ key_code' = [key_code EXCEPT ![p] = code]
           /\ Push(current_focus_tcb, p)
    /\ pc' = Posted(current_focus_tcb)
    /\ UNCHANGED <<current_focus_tcb, locals>>

-----------------------------------------------------------------------------
Step(t, from, to) ==
    /\ ~fault
    /\ pc[t] = from
    /\ pc' = [pc EXCEPT ![t] = to]
    /\ UNCHANGED raced

\* Slip: not waiting while there are packets left.
WaitSemaphoreIfEmpty(t) ==
    /\ Step(t, "loop", IF front[t] = NULL THEN "waiting" ELSE "woken")
    /\ UNCHANGED <<current_focus_tcb, queues, key_code, allocated, locals, fault>>

\* wait_semaphore, which blocks whether or not there are packets.
WaitSemaphore(t) ==
    /\ Step(t, "loop", "waiting")
    /\ UNCHANGED <<current_focus_tcb, queues, key_code, allocated, locals, fault>>

\* key_queue_pop begins: the queue is that of the focus, not of the thread.
ReadFocus(t) ==
    /\ Step(t, "woken", "check")
    /\ current' = [current EXCEPT ![t] = current_focus_tcb]
    /\ UNCHANGED <<current_focus_tcb, queues, key_code, allocated, ret, ptr, fault>>

Unshared == <<current_focus_tcb, key_code, allocated, current, fault>>

CheckFront(t) ==
    /\ Step(t, "check", IF front[current[t]] = NULL THEN "handle" ELSE "back")
    /\ ret' = [ret EXCEPT ![t] = NULL]
    /\ UNCHANGED <<Unshared, queues, ptr>>

ReadBack(t) ==
    /\ Step(t, "back", "compare")
    /\ ret' = [ret EXCEPT ![t] = back[current[t]]]
    /\ UNCHANGED <<Unshared, queues, ptr>>

Compare(t) ==
    /\ Step(t, "compare", IF back[current[t]] = front[current[t]] THEN "clear_back" ELSE "walk")
    /\ UNCHANGED <<Unshared, queues, ret, ptr>>

ClearBack(t) ==
    /\ Step(t, "clear_back", "clear_front")
    /\ back' = [back EXCEPT ![current[t]] = NULL]
    /\ UNCHANGED <<Unshared, front, next, ret, ptr>>

ClearFront(t) ==
    /\ Step(t, "clear_front", "handle")
    /\ front' = [front EXCEPT ![current[t]] = NULL]
    /\ UNCHANGED <<Unshared, back, next, ret, ptr>>

StartWalk(t) ==
    /\ Step(t, "walk", "seek")
    /\ ptr' = [ptr EXCEPT ![t] = front[current[t]]]
    /\ UNCHANGED <<Unshared, queues, ret>>

\* Slip: the loop does not move on.
SeekInPlace(t) ==
    /\ Step(t, "seek", IF next[ptr[t]] = back[current[t]] THEN "trim" ELSE "seek")
    /\ UNCHANGED <<Unshared, queues, ret, ptr>>

\* One turn of the loop that looks for the packet before the last one.
Seek(t) ==
    \/ /\ ptr[t] # NULL
       /\ next[ptr[t]] # back[current[t]]
       /\ Step(t, "seek", "seek")
       /\ ptr' = [ptr EXCEPT ![t] = next[@]]
       /\ UNCHANGED <<Unshared, queues, ret>>
    \/ /\ ptr[t] # NULL
       /\ next[ptr[t]] = back[current[t]]
       /\ Step(t, "seek", "trim")
       /\ UNCHANGED <<Unshared, queues, ret, ptr>>
    \/ /\ ptr[t] = NULL
       /\ Step(t, "seek", "seek")
       /\ fault' = TRUE
       /\ UNCHANGED <<current_focus_tcb, key_code, allocated, queues, locals>>

\* The new last packet keeps its next.
Trim(t) ==
    /\ Step(t, "trim", "handle")
    /\ back' = [back EXCEPT ![current[t]] = ptr[t]]
    /\ ptr' = [ptr EXCEPT ![t] = NULL]
    /\ UNCHANGED <<Unshared, front, next, ret>>

\* test1 and test2: the packet is looked at, and the focus may move.
Handle(t) ==
    /\ Step(t, "handle", "free")
    /\ fault' = (ret[t] = NULL)
    /\ current_focus_tcb' = IF ret[t] # NULL /\ key_code[ret[t]] = t
                            THEN CHOOSE u \in Threads : u # t
                            ELSE current_focus_tcb
    /\ UNCHANGED <<queues, key_code, allocated, locals>>

\* What a freed packet holds is not looked at any more; its next may be, if it is
\* still queued.
FreePacket(t) ==
    /\ Step(t, "free", "loop")
    /\ allocated' = allocated \ {ret[t]}
    /\ key_code' = [key_code EXCEPT ![ret[t]] = plain]
    /\ ret' = [ret EXCEPT ![t] = NULL]
    /\ UNCHANGED <<current_focus_tcb, queues, current, ptr, fault>>

Pop(t) ==
    \/ ReadFocus(t) \/ CheckFront(t) \/ ReadBack(t) \/ Compare(t)
    \/ ClearBack(t) \/ ClearFront(t) \/ StartWalk(t) \/ Seek(t) \/ Trim(t)

Thread(t) == WaitSemaphore(t) \/ Pop(t) \/ Handle(t) \/ FreePacket(t)

Next ==
    \/ \E code \in Codes : KeyboardInterrupt(code)
    \/ \E t \in Threads : Thread(t)

Spec == Init /\ [][Next]_vars

\* Threads get the CPU again and again.
FairSpec == Spec /\ \A t \in Threads : WF_vars(Thread(t))

-----------------------------------------------------------------------------
\* Unless a key came in between, the pointers of key_queue_pop are not NULL where they are followed.
TypeOK ==
    /\ current_focus_tcb \in Threads
    /\ front \in [Threads -> Packets \cup {NULL}]
    /\ back \in [Threads -> Packets \cup {NULL}]
    /\ next \in [Packets -> Packets \cup {NULL}]
    /\ key_code \in [Packets -> Codes]
    /\ allocated \subseteq Packets
    /\ pc \in [Threads -> Places]
    /\ current \in [Threads -> Threads]
    /\ ret \in [Threads -> Packets \cup {NULL}]
    /\ ptr \in [Threads -> Packets \cup {NULL}]
    /\ raced \in BOOLEAN /\ fault \in BOOLEAN
    /\ ~raced => \A t \in Threads :
           /\ pc[t] \in {"seek", "trim"} => ptr[t] # NULL
           /\ pc[t] \in {"compare", "clear_back", "clear_front", "walk", "seek", "trim", "handle", "free"}
                  => ret[t] # NULL

\* Although a thread takes packets from whatever queue has the focus, that is always
\* its own, so that two threads never work on one queue: the focus moves only when
\* the thread that has it is done taking (Kernel.c:26-36, 50-60; key_queue.c:48).
TakesFromItsOwn ==
    \A t \in Threads : pc[t] \in Taking => current[t] = t /\ current_focus_tcb = t

\* A thread is woken only with a packet in its queue and finds it there: key_queue_pop
\* never returns the NULL that test1 and test2 would follow (key_queue.c:50-51).
WokenFindsPacket ==
    \A t \in Threads : pc[t] \in {"woken", "check"} => front[t] # NULL

\* A thread that was woken finds a packet, and in its own queue, although the code looks
\* into that of the focus (Kernel.c:26-36, 50-60; key_queue.c:48-51).
TakesItsOwnPacket == TakesFromItsOwn /\ WokenFindsPacket

\* The packets of a queue, from front to back.
Queued(q) ==
    LET reached[n \in Nat] ==
            IF n = 0 THEN {front[q]} \ {NULL}
            ELSE reached[n - 1] \cup ({next[p] : p \in reached[n - 1] \ {back[q]}} \ {NULL})
    IN  reached[Cardinality(Packets)]

InHand(t) == IF pc[t] \in {"handle", "free"} THEN {ret[t]} ELSE {}

\* While nobody is taking a packet, each packet that was not freed is in one queue or
\* in the hands of one thread: none is lost, handled twice, or freed while it is
\* queued.  No key came while one was being taken.  Up to then no NULL is followed
\* (key_queue.c:25-69).
EveryPacketInOnePlace ==
    TypeOK /\ (~raced /\ (\A t \in Threads : pc[t] \notin Taking) =>
        /\ allocated = UNION {Queued(t) \cup InHand(t) : t \in Threads}
        /\ \A t, u \in Threads : Queued(t) \cap InHand(u) = {}
        /\ Queued(t1) \cap Queued(t2) = {} /\ InHand(t1) \cap InHand(t2) = {}
        /\ \A q \in Threads : front[q] # NULL => back[q] \in Queued(q))

\* Whoever is woken takes a packet, looks at it and comes back to wait for the next
\* (Kernel.c:23-42, 47-65; the loop of key_queue.c:64).
WokenComesBack == \A t \in Threads : pc[t] = "woken" ~> pc[t] = "waiting" \/ raced

=============================================================================

------------------------------ MODULE Semaphore -----------------------------
(***************************************************************************)
(* multitask/semaphore/thread_semaphore.c: lock_semaphore and              *)
(* unlock_semaphore on semaphores that guard something, wait_semaphore and *)
(* post_semaphore on semaphores created with a count of 0, which signal.   *)
(*                                                                         *)
(* The queue of a semaphore is linked by the same next field of the thread *)
(* control block as threads_ready, so both are pointers here.  One step is *)
(* one section between lock_postpone and unlock_postpone_and_schedule with *)
(* the switch that ends it; Scheduler justifies that.                      *)
(***************************************************************************)
EXTENDS Integers, Sequences, FiniteSets

CONSTANTS Threads,    \* thread control blocks
          Kernel,     \* the thread that boots
          NULL,       \* the null pointer
          Locks,      \* semaphores used with lock and unlock
          Signals,    \* semaphores used with wait and post
          MaxCount    \* the max_count each was created with

ASSUME ThreadsAssumption ==
    IsFiniteSet(Threads) /\ Kernel \in Threads /\ NULL \notin Threads \cup Locks
ASSUME SemaphoresAssumption ==
    /\ Locks \cap Signals = {}
    /\ MaxCount \in [Locks \cup Signals -> Nat]
    /\ \A s \in Locks : MaxCount[s] > 0
    /\ \A s \in Signals : MaxCount[s] = 0

VARIABLES
    mem,                   \* threads_ready and every thread's next field
    state,                 \* the state field, "none" where no thread exists
    current_running_tcb,
    semaphore,             \* the fields of each semaphore
    asked                  \* asked[t]: the lock t has asked for and not yet unlocked

vars == <<mem, state, current_running_tcb, semaphore, asked>>

Semaphores == Locks \cup Signals

INSTANCE RunQueue WITH Lists <- {"threads_ready"}

\* create_semaphore.
Created == [current_count |-> 0, first_waiting_task |-> NULL, last_waiting_task |-> NULL]

Init ==
    /\ mem = FreshMemory
    /\ state = [t \in Threads |-> IF t = Kernel THEN "running" ELSE "none"]
    /\ current_running_tcb = Kernel
    /\ semaphore = [s \in Semaphores |-> Created]
    /\ asked = [t \in Threads |-> NULL]

-----------------------------------------------------------------------------
\* schedule, for the lists and states the section leaves behind.
Schedule(m, st) ==
    LET d == Dispatch(m, st, current_running_tcb)
    IN  /\ mem' = d.mem
        /\ current_running_tcb' = d.current

\* Slip: last_waiting_task, which is never cleared, says whether anybody waits.
EnqueueByLast(t, s, count) ==
    LET last  == semaphore[s].last_waiting_task
        alone == [mem EXCEPT !.next[t] = NULL]
    IN  /\ semaphore' = [semaphore EXCEPT ![s] =
               [current_count |-> count,
                first_waiting_task |-> IF last = NULL THEN t ELSE @.first_waiting_task,
                last_waiting_task |-> t]]
        /\ state' = [state EXCEPT ![t] = "paused"]
        /\ Schedule(IF last = NULL THEN alone ELSE [alone EXCEPT !.next[last] = t], state')

\* The current thread t goes to the end of the queue of s, and blocks.
Enqueue(t, s, count) ==
    LET first == semaphore[s].first_waiting_task
        last  == semaphore[s].last_waiting_task
        alone == [mem EXCEPT !.next[t] = NULL]
    IN  /\ semaphore' = [semaphore EXCEPT ![s] =
               [current_count |-> count,
                first_waiting_task |-> IF first = NULL THEN t ELSE first,
                last_waiting_task |-> t]]
        /\ state' = [state EXCEPT ![t] = "paused"]
        /\ Schedule(IF first = NULL THEN alone ELSE [alone EXCEPT !.next[last] = t], state')

\* Slip: the thread leaves the queue but is not unblocked.
DequeueForgets(s, count) ==
    LET task == semaphore[s].first_waiting_task
    IN  /\ semaphore' = [semaphore EXCEPT ![s].first_waiting_task = mem.next[task],
                                          ![s].current_count = count]
        /\ UNCHANGED <<mem, state, current_running_tcb>>

\* The thread at the front of the queue of s is made ready.
Dequeue(s, count) ==
    LET task == semaphore[s].first_waiting_task
    IN  /\ semaphore' = [semaphore EXCEPT ![s].first_waiting_task = mem.next[task],
                                          ![s].current_count = count]
        /\ state' = [state EXCEPT ![task] = "running"]
        /\ mem' = Unblocked(mem, task)
        /\ UNCHANGED current_running_tcb

-----------------------------------------------------------------------------
\* Slip: one thread too many gets in.
LockSemaphoreOneMore(t, s) ==
    /\ current_running_tcb = t
    /\ asked[t] = NULL
    /\ asked' = [asked EXCEPT ![t] = s]
    /\ IF semaphore[s].current_count > MaxCount[s]
       THEN Enqueue(t, s, semaphore[s].current_count)
       ELSE /\ semaphore' = [semaphore EXCEPT ![s].current_count = @ + 1]
            /\ UNCHANGED <<mem, state, current_running_tcb>>

\* A thread locks one semaphore at a time.
LockSemaphore(t, s) ==
    /\ current_running_tcb = t
    /\ asked[t] = NULL
    /\ asked' = [asked EXCEPT ![t] = s]
    /\ IF semaphore[s].current_count >= MaxCount[s]
       THEN Enqueue(t, s, semaphore[s].current_count)
       ELSE /\ semaphore' = [semaphore EXCEPT ![s].current_count = @ + 1]
            /\ UNCHANGED <<mem, state, current_running_tcb>>

UnlockSemaphore(t, s) ==
    /\ current_running_tcb = t
    /\ asked[t] = s
    /\ asked' = [asked EXCEPT ![t] = NULL]
    /\ IF semaphore[s].first_waiting_task # NULL
       THEN Dequeue(s, semaphore[s].current_count)
       ELSE /\ semaphore' = [semaphore EXCEPT ![s].current_count = @ - 1]
            /\ UNCHANGED <<mem, state, current_running_tcb>>

\* A thread does not wait for a signal while others may wait for it to unlock.
WaitSemaphore(t, s) ==
    /\ current_running_tcb = t
    /\ asked[t] = NULL
    /\ LET count == semaphore[s].current_count - 1
       IN  IF count < MaxCount[s]
           THEN Enqueue(t, s, count)
           ELSE /\ semaphore' = [semaphore EXCEPT ![s].current_count = count]
                /\ UNCHANGED <<mem, state, current_running_tcb>>
    /\ UNCHANGED asked

\* From an interrupt handler or a thread.  Without a waiting thread it leaves no trace.
PostSemaphore(s) ==
    /\ semaphore[s].first_waiting_task # NULL
    /\ Dequeue(s, semaphore[s].current_count + 1)
    /\ UNCHANGED asked

-----------------------------------------------------------------------------
\* The section of pit_interrupt, at a tick that calls schedule.
Preempt ==
    /\ current_running_tcb # NULL
    /\ Schedule(mem, state)
    /\ UNCHANGED <<state, semaphore, asked>>

\* schedule's loop on hlt finds a ready thread.
LeaveIdle ==
    /\ current_running_tcb = NULL
    /\ FrontOf(mem, "threads_ready") # NULL
    /\ mem' = PopFront(mem, "threads_ready")
    /\ current_running_tcb' = FrontOf(mem, "threads_ready")
    /\ UNCHANGED <<state, semaphore, asked>>

\* The section of thread_create.
ThreadCreate(thread) ==
    /\ current_running_tcb # NULL
    /\ state[thread] = "none"
    /\ mem' = PushBack(mem, "threads_ready", thread)
    /\ state' = [state EXCEPT ![thread] = "running"]
    /\ UNCHANGED <<current_running_tcb, semaphore, asked>>

Next ==
    \/ \E t \in Threads :
           \/ ThreadCreate(t)
           \/ \E s \in Locks : LockSemaphore(t, s) \/ UnlockSemaphore(t, s)
           \/ \E s \in Signals : WaitSemaphore(t, s)
    \/ \E s \in Signals : PostSemaphore(s)
    \/ Preempt
    \/ LeaveIdle

\* The timer ticks for ever, the halted CPU wakes up, and a thread inside a lock
\* that gets the CPU again and again unlocks it.
Fairness ==
    /\ WF_vars(Preempt)
    /\ WF_vars(LeaveIdle)
    /\ \A t \in Threads : \A s \in Locks : SF_vars(UnlockSemaphore(t, s))

Spec == Init /\ [][Next]_vars /\ Fairness

-----------------------------------------------------------------------------
TypeOK ==
    /\ mem \in MemoryType
    /\ state \in [Threads -> {"running", "paused", "none"}]
    /\ current_running_tcb \in Threads \cup {NULL}
    /\ semaphore \in [Semaphores -> [current_count : Int,
                                     first_waiting_task : Threads \cup {NULL},
                                     last_waiting_task : Threads \cup {NULL}]]
    /\ asked \in [Threads -> Locks \cup {NULL}]

Waiting(s) == ChainFrom(mem, semaphore[s].first_waiting_task)
WaitsOn(t, s) == \E i \in DOMAIN Waiting(s) : Waiting(s)[i] = t

\* The threads that lock_semaphore has let through.
Inside(s) == {t \in Threads : asked[t] = s /\ ~WaitsOn(t, s)}

\* The ready list and the queues of all semaphores, linked by one next field, never
\* run into each other: a thread is PAUSED exactly when it waits on one semaphore,
\* and RUNNING exactly when it has the CPU or is ready; every field keeps its type
\* (thread_list.h:16-26).
QueuesSound ==
    /\ TypeOK /\ ~mem.fault
    /\ WellFormed(mem, "threads_ready")
    /\ \A s \in Semaphores : Waiting(s) # <<>> =>
           /\ semaphore[s].last_waiting_task = Waiting(s)[Len(Waiting(s))]
           /\ mem.next[semaphore[s].last_waiting_task] = NULL
    /\ \A t \in Threads :
           /\ Cardinality({s \in Semaphores : WaitsOn(t, s)}) = IF state[t] = "paused" THEN 1 ELSE 0
           /\ state[t] = "running" <=>
                  t = current_running_tcb \/ t \in Members(mem, "threads_ready")
           /\ ~(t = current_running_tcb /\ t \in Members(mem, "threads_ready"))

\* What a semaphore counts: the threads inside a lock, also after its place was
\* handed on; and, below zero, the threads that wait for a signal, never a signal
\* nobody waited for (thread_semaphore.c:34-100).
CountsAreExact ==
    /\ \A s \in Locks : semaphore[s].current_count = Cardinality(Inside(s))
    /\ \A s \in Signals : semaphore[s].current_count = -Len(Waiting(s))

\* What a semaphore counts agrees with who is queued, inside or blocked
\* (thread_semaphore.c:34-104).
SemaphoresSound == QueuesSound /\ CountsAreExact

\* The pointers and the counter of one lock, read as a set and a sequence.
Gate(s) == INSTANCE SemaphoreQueue WITH
               MaxCount <- MaxCount[s], inside <- Inside(s), waiting <- Waiting(s)

\* Every lock admits at most max_count threads and hands its places on in the order
\* the threads came, whatever the scheduler and the other semaphores do meanwhile
\* (thread_semaphore.c:53-69, 90-100).  This is Gate(s)!Spec for every s in Locks.
ImplementsGates ==
    /\ \A s \in Locks : Gate(s)!Init
    /\ [][\A s \in Locks : [Gate(s)!Next]_(Gate(s)!qvars)]_vars

\* A thread that waits for a lock gets inside and goes on there (thread_semaphore.c:90-100).
WaitersEnter ==
    \A t \in Threads : \A s \in Locks :
        WaitsOn(t, s) ~> (t \in Inside(s) /\ current_running_tcb = t)

=============================================================================

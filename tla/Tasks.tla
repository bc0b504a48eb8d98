-------------------------------- MODULE Tasks -------------------------------
(***************************************************************************)
(* Threads that sleep, end and are cleaned up: multitask/thread_time.c,    *)
(* thread_terminate.c, thread_create.c and the schedule of                 *)
(* thread_schedule.c over the linked lists of thread_list.c.               *)
(*                                                                         *)
(* One step is one section between lock_postpone and the matching          *)
(* unlock_postpone_and_schedule, with the switch that the unlock performs; *)
(* SectionsAreAtomic of Scheduler justifies it.  The timer interrupt may   *)
(* come between any two steps.                                             *)
(***************************************************************************)
EXTENDS Integers, FiniteSets

CONSTANTS Threads,      \* thread control blocks
          Kernel,       \* the thread that runs Main and then the butler
          NULL,         \* the null pointer
          Sleeps,       \* the durations, in ticks, threads sleep for
          TickBits,     \* bound: the width of the signed timer_tick, 32 in the code
          NoTickInNap,  \* TRUE: no tick comes between the two sections of mili_sleep_until
          ButlerWaits   \* TRUE: a thread ends only while the butler is PAUSED

ASSUME ThreadsAssumption == IsFiniteSet(Threads) /\ Kernel \in Threads /\ NULL \notin Threads
ASSUME TimingAssumption == NoTickInNap \in BOOLEAN /\ ButlerWaits \in BOOLEAN
ASSUME TickAssumption == TickBits \in Nat \ {0} /\ Sleeps \subseteq Nat

VARIABLES
    mem,                    \* the three lists and every thread's next field
    state,                  \* the state field, "none" where no thread exists
    paused_until,
    timer_tick,
    current_running_tcb,
    stack,                  \* the thread whose stack is in use, also in the idle loop
    until,                  \* the argument of a mili_sleep_until under way
    pc                      \* where each thread is in its own code, see Places

vars == <<mem, state, paused_until, timer_tick, current_running_tcb, stack, until, pc>>

ThreadLists == {"threads_ready", "threads_sleeping", "threads_terminated"}

INSTANCE RunQueue WITH Lists <- ThreadLists

Statuses == {"running", "paused", "sleeping", "terminated", "none"}
Places == {"run",      \* in the thread's own code, outside sections
           "until",    \* mili_sleep has read the tick, mili_sleep_until not yet locked
           "nap",      \* in mili_sleep_until, on threads_sleeping but not yet blocked
           "butler"}   \* at the head of butler_mr_cleaner's loop

\* i32 arithmetic, TickBits wide.
HalfRange == 2 ^ (TickBits - 1)
Ticks == (-HalfRange)..(HalfRange - 1)
Wrap(n) == ((n + HalfRange) % (2 * HalfRange)) - HalfRange

Init ==
    /\ mem = FreshMemory
    /\ state = [t \in Threads |-> IF t = Kernel THEN "running" ELSE "none"]
    /\ paused_until = [t \in Threads |-> 0]
    /\ timer_tick = 0
    /\ current_running_tcb = Kernel
    /\ stack = Kernel
    /\ until = [t \in Threads |-> 0]
    /\ pc = [t \in Threads |-> "run"]

-----------------------------------------------------------------------------
(* schedule, at the end of the section in which it was asked for *)

\* m and st: the lists and states the section leaves behind.
Schedule(m, st) ==
    LET d == Dispatch(m, st, current_running_tcb)
    IN  /\ mem' = d.mem
        /\ current_running_tcb' = d.current
        /\ stack' = IF d.current = NULL THEN stack ELSE d.current

\* The idle loop finds a ready thread.
LeaveIdle ==
    /\ ~mem.fault
    /\ current_running_tcb = NULL
    /\ FrontOf(mem, "threads_ready") # NULL
    /\ mem' = PopFront(mem, "threads_ready")
    /\ current_running_tcb' = FrontOf(mem, "threads_ready")
    /\ stack' = FrontOf(mem, "threads_ready")
    /\ UNCHANGED <<state, paused_until, timer_tick, until, pc>>

-----------------------------------------------------------------------------
(* What the current thread t does *)

At(t, place) ==
    /\ ~mem.fault
    /\ current_running_tcb = t
    /\ pc[t] = place

GoTo(t, place) == pc' = [pc EXCEPT ![t] = place]

\* mili_sleep reads the tick outside any section.  Main does not sleep.
MiliSleep(t, mili_seconds) ==
    /\ At(t, "run")
    /\ t # Kernel
    /\ until' = [until EXCEPT ![t] = Wrap(timer_tick + mili_seconds)]
    /\ GoTo(t, "until")
    /\ UNCHANGED <<mem, state, paused_until, timer_tick, current_running_tcb, stack>>

\* mili_sleep_until's first section: nothing to wait for, or on threads_sleeping.
MiliSleepUntil(t) ==
    /\ At(t, "until")
    /\ until' = [until EXCEPT ![t] = 0]
    /\ IF until[t] < timer_tick
       THEN GoTo(t, "run") /\ UNCHANGED <<mem, paused_until>>
       ELSE /\ paused_until' = [paused_until EXCEPT ![t] = until[t]]
            /\ mem' = PushBack(mem, "threads_sleeping", t)
            /\ GoTo(t, "nap")
    /\ UNCHANGED <<state, timer_tick, current_running_tcb, stack>>

\* Its block_task(THREAD_SLEEPING); the thread returns from it when it runs again.
BlockSleeping(t) ==
    /\ At(t, "nap")
    /\ state' = [state EXCEPT ![t] = "sleeping"]
    /\ Schedule(mem, state')
    /\ GoTo(t, "run")
    /\ UNCHANGED <<paused_until, timer_tick, until>>

\* Slip: the butler is not told.
TerminateTaskSilently(t) ==
    /\ At(t, "run")
    /\ t # Kernel
    /\ ButlerWaits => state[Kernel] = "paused"
    /\ state' = [state EXCEPT ![t] = "terminated"]
    /\ Schedule(PushBack(mem, "threads_terminated", t), state')
    /\ UNCHANGED <<paused_until, timer_tick, until, pc>>

\* terminate_task: the butler is unblocked whatever it is doing.
TerminateTask(t) ==
    /\ At(t, "run")
    /\ t # Kernel
    /\ ButlerWaits => state[Kernel] = "paused"
    /\ state' = [state EXCEPT ![t] = "terminated", ![Kernel] = "running"]
    /\ Schedule(Unblocked(PushBack(mem, "threads_terminated", t), Kernel), state')
    /\ UNCHANGED <<paused_until, timer_tick, until, pc>>

\* thread_create: a zeroed thread_control_block, ready to run.
ThreadCreate(t, thread) ==
    /\ At(t, "run")
    /\ state[thread] = "none"
    /\ mem' = PushBack(mem, "threads_ready", thread)
    /\ state' = [state EXCEPT ![thread] = "running"]
    /\ paused_until' = [paused_until EXCEPT ![thread] = 0]
    /\ GoTo(thread, "run")
    /\ UNCHANGED <<timer_tick, current_running_tcb, stack, until>>

\* Main ends in butler_mr_cleaner.
EnterButler ==
    /\ At(Kernel, "run")
    /\ GoTo(Kernel, "butler")
    /\ UNCHANGED <<mem, state, paused_until, timer_tick, current_running_tcb, stack, until>>

\* Slip: the butler does not look before it pauses.
ButlerPausesAnyway ==
    /\ At(Kernel, "butler")
    /\ state' = [state EXCEPT ![Kernel] = "paused"]
    /\ Schedule(mem, state')
    /\ UNCHANGED <<paused_until, timer_tick, until, pc>>

\* butler_mr_cleaner finds nothing to clean.
ButlerPauses ==
    /\ At(Kernel, "butler")
    /\ mem.list["threads_terminated"].head = NULL
    /\ state' = [state EXCEPT ![Kernel] = "paused"]
    /\ Schedule(mem, state')
    /\ UNCHANGED <<paused_until, timer_tick, until, pc>>

\* Slip: the freed thread stays on the list.
ButlerCleansHead ==
    /\ At(Kernel, "butler")
    /\ mem.list["threads_terminated"].head # NULL
    /\ state' = [state EXCEPT ![mem.list["threads_terminated"].head] = "none"]
    /\ UNCHANGED <<mem, paused_until, timer_tick, current_running_tcb, stack, until, pc>>

\* butler_mr_cleaner frees one thread.
ButlerCleans ==
    /\ At(Kernel, "butler")
    /\ mem.list["threads_terminated"].head # NULL
    /\ mem' = PopFront(mem, "threads_terminated")
    /\ state' = [state EXCEPT ![FrontOf(mem, "threads_terminated")] = "none"]
    /\ UNCHANGED <<paused_until, timer_tick, current_running_tcb, stack, until, pc>>

-----------------------------------------------------------------------------
(* The timer *)

\* Slips: the thread stays on threads_sleeping; the first thread is woken whatever
\* its time; a thread is woken only after its time.
WakeOneListed(m, st, tick) ==
    LET Expired(t) == paused_until[t] <= tick
        t == FirstStop(Walk(m, "threads_sleeping"), Expired)
    IN  IF m.list["threads_sleeping"].size = 0 \/ t = NULL
        THEN [mem |-> m, state |-> st]
        ELSE [mem |-> Unblocked(m, t), state |-> [st EXCEPT ![t] = "running"]]

WakeOneEarly(m, st, tick) ==
    LET t == m.list["threads_sleeping"].head
    IN  IF t = NULL
        THEN [mem |-> m, state |-> st]
        ELSE [mem |-> Unblocked(Remove(m, "threads_sleeping", t), t),
              state |-> [st EXCEPT ![t] = "running"]]

WakeOneLate(m, st, tick) ==
    LET Expired(t) == paused_until[t] < tick
        t == FirstStop(Walk(m, "threads_sleeping"), Expired)
    IN  IF m.list["threads_sleeping"].size = 0 \/ t = NULL
        THEN [mem |-> m, state |-> st]
        ELSE [mem |-> Unblocked(Remove(m, "threads_sleeping", t), t),
              state |-> [st EXCEPT ![t] = "running"]]

\* pit_interrupt's loop over threads_sleeping: unblock_task makes the next field of
\* the first expired thread NULL, and the loop ends there.
WakeOne(m, st, tick) ==
    LET walk == Walk(m, "threads_sleeping")
        Expired(t) == paused_until[t] <= tick
        t == FirstStop(walk, Expired)
    IN  IF m.list["threads_sleeping"].size = 0 THEN [mem |-> m, state |-> st]
        ELSE IF t # NULL THEN [mem |-> Unblocked(Remove(m, "threads_sleeping", t), t),
                               state |-> [st EXCEPT ![t] = "running"]]
        ELSE [mem |-> IF walk[Cardinality(Threads)] = NULL THEN m ELSE Fault(m), state |-> st]

\* Slip: no tick ever calls schedule.
PitInterruptOnlyWakes ==
    /\ ~mem.fault
    /\ NoTickInNap /\ current_running_tcb # NULL => pc[current_running_tcb] # "nap"
    /\ timer_tick' = Wrap(timer_tick + 1)
    /\ LET woken == WakeOne(mem, state, timer_tick')
       IN  state' = woken.state /\ mem' = woken.mem
    /\ UNCHANGED <<current_running_tcb, stack, paused_until, until, pc>>

PitInterrupt ==
    /\ ~mem.fault
    /\ NoTickInNap /\ current_running_tcb # NULL => pc[current_running_tcb] # "nap"
    /\ timer_tick' = Wrap(timer_tick + 1)
    /\ LET woken == WakeOne(mem, state, timer_tick')
       IN  /\ state' = woken.state
           /\ IF current_running_tcb # NULL /\ timer_tick' % 3 = 0
              THEN Schedule(woken.mem, woken.state)
              ELSE mem' = woken.mem /\ UNCHANGED <<current_running_tcb, stack>>
    /\ UNCHANGED <<paused_until, until, pc>>

-----------------------------------------------------------------------------
\* The steps a thread does not choose: once begun it takes them when it has the CPU.
Continue(t) ==
    \/ MiliSleepUntil(t)
    \/ BlockSleeping(t)
    \/ t = Kernel /\ (EnterButler \/ ButlerPauses \/ ButlerCleans)

Choose(t) ==
    \/ \E mili_seconds \in Sleeps : MiliSleep(t, mili_seconds)
    \/ TerminateTask(t)
    \/ \E thread \in Threads : ThreadCreate(t, thread)

Next ==
    \/ \E t \in Threads : Continue(t) \/ Choose(t)
    \/ LeaveIdle
    \/ PitInterrupt

\* The timer ticks for ever, the halted CPU wakes up, and a thread that gets the
\* CPU again and again gets on with the code it is in.
Fairness ==
    /\ WF_vars(PitInterrupt)
    /\ WF_vars(LeaveIdle)
    /\ \A t \in Threads : SF_vars(Continue(t))

Spec == Init /\ [][Next]_vars /\ Fairness

-----------------------------------------------------------------------------
TypeOK ==
    /\ mem \in MemoryType
    /\ state \in [Threads -> Statuses]
    /\ paused_until \in [Threads -> Ticks]
    /\ timer_tick \in Ticks
    /\ current_running_tcb \in Threads \cup {NULL}
    /\ stack \in Threads
    /\ until \in [Threads -> Ticks]
    /\ pc \in [Threads -> Places]

On(l) == Members(mem, l)

\* Although the lists share one next field per thread, the three of them stay
\* well-formed, no thread is on two of them and every field keeps its type
\* (thread_list.h:13-29).
ListsSound ==
    /\ TypeOK /\ ~mem.fault
    /\ \A l \in ThreadLists : WellFormed(mem, l)
    /\ \A k, l \in ThreadLists : k # l => On(k) \cap On(l) = {}

\* threads_ready holds RUNNING threads only: "if thread has other status than RUNNING
\* dont push back it to queue of running task" (thread_schedule.c:54).
QueuedAreRunning == \A t \in On("threads_ready") : state[t] = "running"

\* threads_ready is the queue of the RUNNING threads that wait for the CPU; the
\* thread that has it is not queued for it (thread_schedule.c:43-58, 104-111).
ReadyAreRunning == QueuedAreRunning /\ current_running_tcb \notin On("threads_ready")

\* Whatever a thread waits for, it is where the code that ends the wait looks for it.
EveryThreadIsFound ==
    \A t \in Threads :
        /\ state[t] = "running" => t = current_running_tcb \/ t \in On("threads_ready")
        /\ state[t] = "sleeping" => t \in On("threads_sleeping")
        /\ state[t] = "terminated" => t \in On("threads_terminated")
        /\ state[t] = "paused" => t = Kernel /\ On("threads_terminated") = {}

\* A thread's state tells where it is, and where it is tells its state: nobody waits
\* where no code looks, and nobody runs who waits (thread_schedule.c:43-58, 104-111;
\* thread_time.c:19-33; thread_terminate.c:5-32).
StatesTellPlaces == ReadyAreRunning /\ EveryThreadIsFound

\* No list, and neither the CPU nor its stack, refers to memory that thread_free
\* gave back (thread_create.c:19-25).
FreedIsUnused ==
    \A t \in Threads : state[t] = "none" => t # stack /\ \A l \in ThreadLists : t \notin On(l)

\* "something sleeping": a non-zero size means that the loop of pit_interrupt finds
\* a thread (thread_time.c:19-21).
SizeMeansSleeping == mem.list["threads_sleeping"].size > 0 => On("threads_sleeping") # {}

\* A thread is woken from threads_sleeping only when its time has come, and at most
\* one thread at each tick (thread_time.c:23-32).
WakesInTime ==
    [][LET woken == {t \in Threads : state[t] = "sleeping" /\ state'[t] = "running"}
       IN  /\ \A t \in woken : paused_until[t] <= timer_tick'
           /\ Cardinality(woken) <= 1]_vars

\* A sleeping thread is woken again (thread_time.c:14-39).
SleepersWake == \A t \in Threads \ {Kernel} : state[t] = "sleeping" ~> state[t] = "running"

\* A RUNNING thread gets the CPU, however the others behave (thread_time.c:34-36).
RunnersRun == \A t \in Threads : state[t] = "running" ~> current_running_tcb = t

\* The memory of a thread that has ended is given back (thread_terminate.c:5-39).
TerminatedAreFreed == \A t \in Threads \ {Kernel} : state[t] = "terminated" ~> state[t] = "none"

=============================================================================

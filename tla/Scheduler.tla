------------------------------ MODULE Scheduler -----------------------------
(***************************************************************************)
(* How BartOS switches threads on its one CPU: the interrupt flag, the two *)
(* global counters of multitask/thread_schedule.c that every section, in   *)
(* whichever thread or interrupt handler, increments and decrements, the   *)
(* postponed switch, the idle loop, and the stacks that stay half way      *)
(* through unlock_postpone_and_schedule while another thread runs.         *)
(*                                                                         *)
(* One step is what the CPU does without an interrupt being able to come   *)
(* between; an interrupt may come at every step with interrupts enabled.   *)
(* What threads and handlers do between two calls of the scheduler is      *)
(* left open: they may open sections, nested too, block themselves, make   *)
(* others ready and create threads in any order the code's callers could.  *)
(* The lists of threads are sequences here; ThreadListOps justifies that.  *)
(***************************************************************************)
EXTENDS Integers, Sequences

CONSTANTS Threads,   \* thread control blocks
          Kernel,    \* the thread that boots, runs Main and then the butler
          NULL,      \* the null pointer
          MaxOpen,   \* bound: sections open at once on one stack
          MaxNest    \* bound: interrupt handlers at once on one stack

ASSUME ThreadsAssumption == Kernel \in Threads /\ NULL \notin Threads
ASSUME BoundsAssumption == MaxOpen \in Nat /\ MaxNest \in Nat

VARIABLES
    interrupts,                       \* the CPU's interrupt flag
    IRQ_disable_counter,
    postpone_task_switches_counter,
    task_switches_postponed_flag,
    current_running_tcb,
    threads_ready,                    \* sequence of threads, front first
    state,    \* the state field of each thread, "none" where no thread exists
    stack,    \* the thread whose stack the CPU uses, also in the idle loop
    open,     \* open[t]: sections on t's stack not yet closed
    nest,     \* nest[t]: interrupt handlers on t's stack not yet returned
    pc        \* pc[t]: where t's stack is, see Places

vars == <<interrupts, IRQ_disable_counter, postpone_task_switches_counter,
          task_switches_postponed_flag, current_running_tcb, threads_ready,
          state, stack, open, nest, pc>>

counters == <<IRQ_disable_counter, postpone_task_switches_counter>>
cpu == <<current_running_tcb, stack>>
queues == <<threads_ready, state>>

Blocked == {"paused", "sleeping", "terminated"}
Statuses == {"running", "none"} \cup Blocked

Places == {"code",      \* in a thread's or a handler's own code
           "cli",       \* in sleep(), after its cli
           "locked",    \* between lock_scheduler and unlock_scheduler; where a new thread starts
           "schedule",  \* in unlock_postpone_and_schedule, about to call schedule
           "unlock",    \* in unlock_postpone_and_schedule, after that
           "idle"}      \* in schedule's loop on hlt

At(place) == pc[stack] = place
GoTo(place) == pc' = [pc EXCEPT ![stack] = place]

\* Code of the thread itself, not of an interrupt handler above it.
InThread == At("code") /\ nest[stack] = 0

Init ==
    /\ interrupts = TRUE
    /\ IRQ_disable_counter = 0
    /\ postpone_task_switches_counter = 0
    /\ task_switches_postponed_flag = 0
    /\ current_running_tcb = Kernel
    /\ threads_ready = <<>>
    /\ state = [t \in Threads |-> IF t = Kernel THEN "running" ELSE "none"]
    /\ stack = Kernel
    /\ open = [t \in Threads |-> 0]
    /\ nest = [t \in Threads |-> 0]
    /\ pc = [t \in Threads |-> IF t = Kernel THEN "code" ELSE "locked"]

-----------------------------------------------------------------------------
(* Sections that postpone task switches *)

LockPostpone ==
    /\ At("code") \/ At("cli")
    /\ open[stack] < MaxOpen
    /\ interrupts' = FALSE
    /\ IRQ_disable_counter' = IRQ_disable_counter + 1
    /\ postpone_task_switches_counter' = postpone_task_switches_counter + 1
    /\ open' = [open EXCEPT ![stack] = @ + 1]
    /\ GoTo("code")
    /\ UNCHANGED <<task_switches_postponed_flag, cpu, queues, nest>>

\* The section that the code running now has opened; a handler above the idle loop
\* does not close the one in which the blocked thread waits for the loop to end.
InSection == open[stack] > IF current_running_tcb = NULL THEN 1 ELSE 0

\* Slip: a postponed switch does not wait for the outermost section.
UnlockPostponeEarly ==
    /\ At("code")
    /\ InSection
    /\ postpone_task_switches_counter' = postpone_task_switches_counter - 1
    /\ task_switches_postponed_flag' = 0
    /\ GoTo(IF task_switches_postponed_flag # 0 THEN "schedule" ELSE "unlock")
    /\ UNCHANGED <<interrupts, IRQ_disable_counter, cpu, queues, open, nest>>

\* First half of unlock_postpone_and_schedule, up to a call of schedule.
UnlockPostpone ==
    /\ At("code")
    /\ InSection
    /\ postpone_task_switches_counter' = postpone_task_switches_counter - 1
    /\ LET due == postpone_task_switches_counter' = 0 /\ task_switches_postponed_flag # 0
       IN  /\ task_switches_postponed_flag' = IF due THEN 0 ELSE task_switches_postponed_flag
           /\ GoTo(IF due THEN "schedule" ELSE "unlock")
    /\ UNCHANGED <<interrupts, IRQ_disable_counter, cpu, queues, open, nest>>

EnableAtZero(counter) == interrupts' = IF counter = 0 THEN TRUE ELSE interrupts

\* Second half, which a switched-out thread runs when it is switched in again.
UnlockIRQ ==
    /\ At("unlock")
    /\ IRQ_disable_counter' = IRQ_disable_counter - 1
    /\ EnableAtZero(IRQ_disable_counter')
    /\ open' = [open EXCEPT ![stack] = @ - 1]
    /\ GoTo("code")
    /\ UNCHANGED <<postpone_task_switches_counter, task_switches_postponed_flag, cpu, queues, nest>>

-----------------------------------------------------------------------------
(* Sections that only disable interrupts *)

LockScheduler ==
    /\ InThread
    /\ open[stack] = 0
    /\ interrupts' = FALSE
    /\ IRQ_disable_counter' = IRQ_disable_counter + 1
    /\ GoTo("locked")
    /\ UNCHANGED <<postpone_task_switches_counter, task_switches_postponed_flag, cpu, queues, open, nest>>

\* unlock_scheduler, also as the thread_entry of a thread that runs for the first time.
UnlockScheduler ==
    /\ At("locked")
    /\ IRQ_disable_counter' = IRQ_disable_counter - 1
    /\ EnableAtZero(IRQ_disable_counter')
    /\ GoTo("code")
    /\ UNCHANGED <<postpone_task_switches_counter, task_switches_postponed_flag, cpu, queues, open, nest>>

\* sleep() disables interrupts itself before mili_sleep_until opens its section.
SleepCli ==
    /\ InThread
    /\ open[stack] = 0
    /\ interrupts' = FALSE
    /\ GoTo("cli")
    /\ UNCHANGED <<counters, task_switches_postponed_flag, cpu, queues, open, nest>>

-----------------------------------------------------------------------------
(* schedule *)

\* Slip: the test of current_running_tcb is missing.
PitScheduleInIdle ==
    /\ At("code")
    /\ nest[stack] > 0
    /\ InSection
    /\ task_switches_postponed_flag' = 1
    /\ UNCHANGED <<interrupts, counters, cpu, queues, open, nest, pc>>

\* With switches postponed it only sets the flag: the call in pit_interrupt, made
\* only where a thread is running, and the one in block_task.
PitSchedule ==
    /\ At("code")
    /\ nest[stack] > 0
    /\ InSection
    /\ current_running_tcb # NULL
    /\ task_switches_postponed_flag' = 1
    /\ UNCHANGED <<interrupts, counters, cpu, queues, open, nest, pc>>

\* Slip: the state changes but schedule is not called.
BlockTaskGoesOn(reason) ==
    /\ InThread
    /\ InSection
    /\ state[current_running_tcb] = "running"
    /\ current_running_tcb = Kernel => reason # "terminated"
    /\ state' = [state EXCEPT ![current_running_tcb] = reason]
    /\ UNCHANGED <<interrupts, counters, task_switches_postponed_flag, cpu, threads_ready, open, nest, pc>>

\* block_task between its lock and its unlock, whose flag stays set for the
\* section around it.  Only the kernel thread is never terminated.
BlockTask(reason) ==
    /\ InThread
    /\ InSection
    /\ state[current_running_tcb] = "running"
    /\ current_running_tcb = Kernel => reason # "terminated"
    /\ state' = [state EXCEPT ![current_running_tcb] = reason]
    /\ task_switches_postponed_flag' = 1
    /\ UNCHANGED <<interrupts, counters, cpu, threads_ready, open, nest, pc>>

\* unblock_task inside a section.  Its callers pass a thread that was blocked and
\* switched out.
UnblockTask(task) ==
    /\ At("code")
    /\ InSection
    /\ state[task] \in Blocked \ {"terminated"}
    /\ task # current_running_tcb
    /\ threads_ready' = Append(threads_ready, task)
    /\ state' = [state EXCEPT ![task] = "running"]
    /\ UNCHANGED <<interrupts, counters, task_switches_postponed_flag, cpu, open, nest, pc>>

\* Slip: the thread that is switched out is pushed back whatever its state.
SwitchPushesAll ==
    /\ At("schedule")
    /\ threads_ready # <<>>
    /\ threads_ready' = Append(Tail(threads_ready), current_running_tcb)
    /\ current_running_tcb' = Head(threads_ready)
    /\ stack' = Head(threads_ready)
    /\ GoTo("unlock")
    /\ UNCHANGED <<interrupts, counters, task_switches_postponed_flag, state, open, nest>>

\* The outermost section has ended and a switch is due.
Switch ==
    /\ At("schedule")
    /\ threads_ready # <<>>
    /\ threads_ready' = IF state[current_running_tcb] = "running"
                        THEN Append(Tail(threads_ready), current_running_tcb)
                        ELSE Tail(threads_ready)
    /\ current_running_tcb' = Head(threads_ready)
    /\ stack' = Head(threads_ready)
    /\ GoTo("unlock")
    /\ UNCHANGED <<interrupts, counters, task_switches_postponed_flag, state, open, nest>>

\* Slip: unlock_postpone_and_schedule returns from here as well.
NoSwitchReturns ==
    /\ At("schedule")
    /\ threads_ready = <<>>
    /\ state[current_running_tcb] = "running"
    /\ GoTo("code")
    /\ UNCHANGED <<interrupts, counters, task_switches_postponed_flag, cpu, queues, open, nest>>

NoSwitch ==
    /\ At("schedule")
    /\ threads_ready = <<>>
    /\ state[current_running_tcb] = "running"
    /\ GoTo("unlock")
    /\ UNCHANGED <<interrupts, counters, task_switches_postponed_flag, cpu, queues, open, nest>>

\* Nothing to run: the blocked thread's stack executes sti; hlt.
GoIdle ==
    /\ At("schedule")
    /\ threads_ready = <<>>
    /\ state[current_running_tcb] # "running"
    /\ current_running_tcb' = NULL
    /\ interrupts' = TRUE
    /\ GoTo("idle")
    /\ UNCHANGED <<counters, task_switches_postponed_flag, queues, stack, open, nest>>

\* Slip: the cli after hlt is missing.
LeaveIdleWithoutCli ==
    /\ At("idle")
    /\ threads_ready # <<>>
    /\ threads_ready' = Tail(threads_ready)
    /\ current_running_tcb' = Head(threads_ready)
    /\ stack' = Head(threads_ready)
    /\ GoTo("unlock")
    /\ UNCHANGED <<interrupts, counters, task_switches_postponed_flag, state, open, nest>>

\* The loop's cli finds a ready thread, possibly the very one that waits in it.
LeaveIdle ==
    /\ At("idle")
    /\ threads_ready # <<>>
    /\ interrupts' = FALSE
    /\ threads_ready' = Tail(threads_ready)
    /\ current_running_tcb' = Head(threads_ready)
    /\ stack' = Head(threads_ready)
    /\ GoTo("unlock")
    /\ UNCHANGED <<counters, task_switches_postponed_flag, state, open, nest>>

-----------------------------------------------------------------------------
(* Threads come and go *)

\* Slip: the new stack returns into the thread's function, not into thread_entry.
ThreadCreateWithoutEntry(thread) ==
    /\ InThread
    /\ InSection
    /\ state[thread] = "none"
    /\ state' = [state EXCEPT ![thread] = "running"]
    /\ threads_ready' = Append(threads_ready, thread)
    /\ pc' = [pc EXCEPT ![thread] = "code"]
    /\ open' = [open EXCEPT ![thread] = 0]
    /\ nest' = [nest EXCEPT ![thread] = 0]
    /\ UNCHANGED <<interrupts, counters, task_switches_postponed_flag, cpu>>

\* thread_create's section: the new thread's stack returns into thread_entry.
ThreadCreate(thread) ==
    /\ InThread
    /\ InSection
    /\ state[thread] = "none"
    /\ state' = [state EXCEPT ![thread] = "running"]
    /\ threads_ready' = Append(threads_ready, thread)
    /\ pc' = [pc EXCEPT ![thread] = "locked"]
    /\ open' = [open EXCEPT ![thread] = 0]
    /\ nest' = [nest EXCEPT ![thread] = 0]
    /\ UNCHANGED <<interrupts, counters, task_switches_postponed_flag, cpu>>

\* thread_free, which the butler calls for a terminated thread.
ThreadFree(tcb) ==
    /\ InThread
    /\ InSection
    /\ stack = Kernel
    /\ state[tcb] = "terminated"
    /\ state' = [state EXCEPT ![tcb] = "none"]
    /\ UNCHANGED <<interrupts, counters, task_switches_postponed_flag, cpu, threads_ready, open, nest, pc>>

-----------------------------------------------------------------------------
(* The CPU *)

\* An interrupt gate clears the flag; the handler runs on the stack in use.
Irq ==
    /\ interrupts
    /\ nest[stack] < MaxNest
    /\ interrupts' = FALSE
    /\ nest' = [nest EXCEPT ![stack] = @ + 1]
    /\ GoTo("code")
    /\ UNCHANGED <<counters, task_switches_postponed_flag, cpu, queues, open>>

\* iret restores the flag of the code that was interrupted.
Iret ==
    /\ At("code")
    /\ nest[stack] > 0
    /\ ~InSection
    /\ interrupts' = TRUE
    /\ nest' = [nest EXCEPT ![stack] = @ - 1]
    /\ GoTo(IF current_running_tcb = NULL THEN "idle" ELSE "code")
    /\ UNCHANGED <<counters, task_switches_postponed_flag, cpu, queues, open>>

Next ==
    \/ LockPostpone
    \/ UnlockPostpone
    \/ UnlockIRQ
    \/ LockScheduler
    \/ UnlockScheduler
    \/ SleepCli
    \/ PitSchedule
    \/ \E reason \in Blocked : BlockTask(reason)
    \/ \E t \in Threads : UnblockTask(t) \/ ThreadCreate(t) \/ ThreadFree(t)
    \/ Switch
    \/ NoSwitch
    \/ GoIdle
    \/ LeaveIdle
    \/ Irq
    \/ Iret

Spec == Init /\ [][Next]_vars

-----------------------------------------------------------------------------
(* What keeps the kernel's sections and its queue of threads sound *)

TypeOK ==
    /\ interrupts \in BOOLEAN
    /\ IRQ_disable_counter \in Nat
    /\ postpone_task_switches_counter \in Nat
    /\ task_switches_postponed_flag \in {0, 1}
    /\ current_running_tcb \in Threads \cup {NULL}
    /\ threads_ready \in Seq(Threads)
    /\ state \in [Threads -> Statuses]
    /\ stack \in Threads
    /\ open \in [Threads -> Nat]
    /\ nest \in [Threads -> Nat]
    /\ pc \in [Threads -> Places]

One(condition) == IF condition THEN 1 ELSE 0

\* Although every thread counts its sections in the same two globals, they always
\* hold the sections of the stack in use and nothing of the threads that were
\* switched out inside unlock_postpone_and_schedule (thread_schedule.c:78-94).
SectionsCounted ==
    /\ IRQ_disable_counter = open[stack] + One(At("locked"))
    /\ postpone_task_switches_counter =
           open[stack] - One(At("schedule") \/ At("unlock")) - One(current_running_tcb = NULL)

\* Interrupts are disabled in every section but the one a blocked thread waits in,
\* halted; and no switch, however it nested with handlers, leaves a thread's own
\* code outside sections with interrupts disabled.  No counter goes below zero
\* (thread_schedule.c:9-19, 83-94).
InterruptsFollowSections ==
    /\ TypeOK
    /\ interrupts => At("idle") \/ IRQ_disable_counter = 0
    /\ InThread /\ IRQ_disable_counter = 0 => interrupts

\* Counters and interrupt flag belong together, and both to the stack in use: whoever
\* runs has exactly its own sections open, and interrupts off in them
\* (thread_schedule.c:9-19, 43-94).
SectionsHold == SectionsCounted /\ InterruptsFollowSections

\* A thread is RUNNING exactly when it is the current one or on threads_ready, never
\* both and never queued twice: none is lost and none runs while it is blocked
\* (thread_schedule.c:43-77, 96-111).
RunnableOnce ==
    /\ \A i, j \in 1..Len(threads_ready) : threads_ready[i] = threads_ready[j] => i = j
    /\ \A i \in 1..Len(threads_ready) :
           /\ threads_ready[i] # current_running_tcb
           /\ state[threads_ready[i]] = "running"
    /\ \A t \in Threads :
           state[t] = "running" =>
               t = current_running_tcb \/ \E i \in 1..Len(threads_ready) : threads_ready[i] = t

\* A thread that has blocked itself leaves the section it did so in by a switch
\* only: its own code never gets past it (block_task, thread_schedule.c:96-103).
BlockedThreadStops ==
    InThread /\ state[stack] # "running" => InSection /\ task_switches_postponed_flag = 1

\* A postponed switch belongs to a section that is still open, so it is neither
\* forgotten nor carried over; and schedule never runs in the idle loop, where it
\* would read the state of no thread (thread_schedule.c:83-90, thread_time.c:34).
PostponedSwitchIsPending ==
    /\ task_switches_postponed_flag = 1 => postpone_task_switches_counter > 0
    /\ At("schedule") => current_running_tcb = stack

\* A thread that does not run is stopped where it will close exactly one section:
\* in the second half of unlock_postpone_and_schedule, or, if it is new, in
\* thread_entry (thread_schedule.c:21-40, thread_gates.c:3-6).
SwitchedOutParked ==
    \A t \in Threads \ {stack} :
        state[t] # "none" => \/ pc[t] = "unlock" /\ open[t] = 1
                             \/ pc[t] = "locked" /\ open[t] = 0

\* While a section is open nothing but its own code happens: no handler starts on
\* its stack and the current thread stays (lock_postpone, thread_schedule.c:78-82).
SectionsAreAtomic ==
    [][postpone_task_switches_counter > 0 =>
           /\ current_running_tcb' = current_running_tcb
           /\ stack' = stack
           /\ nest'[stack] <= nest[stack]]_vars

\* "Caller is expected to disable IRQs before calling": the stack changes only with
\* interrupts disabled, outside postponed sections and with one section left for
\* the incoming thread to close (thread_switch.asm:19-24).
SwitchIsSafe ==
    [][stack' # stack =>
           /\ ~interrupts'
           /\ postpone_task_switches_counter = 0
           /\ IRQ_disable_counter = 1]_vars

=============================================================================

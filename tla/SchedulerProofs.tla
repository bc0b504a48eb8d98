--------------------------- MODULE SchedulerProofs --------------------------
(***************************************************************************)
(* Theorems about Scheduler for any number of threads, any depth of        *)
(* nested sections and any depth of nested interrupt handlers.             *)
(***************************************************************************)
EXTENDS Scheduler, TLAPS

\* Where the CPU can be when no thread is the current one: in the idle loop or in a
\* handler above it, which leaves the loop's own section open.
CurrentOrIdle ==
    /\ current_running_tcb \in {stack, NULL}
    /\ At("idle") => current_running_tcb = NULL
    /\ current_running_tcb = NULL =>
           \/ At("idle")
           \/ At("code") /\ nest[stack] > 0
           \/ At("unlock") /\ nest[stack] > 0 /\ open[stack] > 1

SectionsPerPlace ==
    /\ At("locked") \/ At("cli") => open[stack] = 0
    /\ At("schedule") \/ At("idle") => open[stack] = 1
    /\ At("unlock") => open[stack] > 0
    /\ current_running_tcb = NULL => open[stack] > 0

InterruptFlag ==
    /\ interrupts => At("idle") \/ (At("code") /\ open[stack] = 0)
    /\ At("idle") => interrupts
    /\ InThread /\ open[stack] = 0 => interrupts

\* A blocked thread is still on the CPU only inside the section it blocked in, with
\* the switch pending, or in that switch.
BlockedHere ==
    state[stack] # "running" =>
        \/ current_running_tcb = NULL
        \/ At("schedule")
        \/ /\ At("code") \/ (At("unlock") /\ open[stack] > 1)
           /\ nest[stack] = 0
           /\ open[stack] > 0
           /\ task_switches_postponed_flag = 1

PendingSwitch ==
    task_switches_postponed_flag = 1 =>
        postpone_task_switches_counter > 0 /\ current_running_tcb # NULL

Alive ==
    /\ state[stack] # "none"
    /\ state[Kernel] \notin {"none", "terminated"}

\* How the flag, the counters and the place of the stack in use go together.
Control ==
    /\ SectionsCounted
    /\ CurrentOrIdle
    /\ SectionsPerPlace
    /\ InterruptFlag
    /\ BlockedHere
    /\ PendingSwitch

\* The inductive invariant.
IInv ==
    /\ TypeOK
    /\ Control
    /\ Alive
    /\ RunnableOnce
    /\ SwitchedOutParked

USE ThreadsAssumption, BoundsAssumption
USE DEF At, InThread, InSection, One, counters, cpu, queues

-----------------------------------------------------------------------------
\* What TypeOK says of the stack in use.
LEMMA Locals ==
  ASSUME TypeOK
  PROVE  /\ stack \in Threads /\ stack # NULL
         /\ open[stack] \in Nat /\ nest[stack] \in Nat
         /\ IRQ_disable_counter \in Nat /\ postpone_task_switches_counter \in Nat
         /\ interrupts \in BOOLEAN /\ task_switches_postponed_flag \in {0, 1}
  BY DEF TypeOK

LEMMA InitIInv == Init => IInv
<1> SUFFICES ASSUME Init PROVE IInv
  OBVIOUS
<1>1. TypeOK  BY DEF Init, TypeOK, Statuses, Places
<1>2. /\ pc[stack] = "code" /\ open[stack] = 0 /\ nest[stack] = 0 /\ state[stack] = "running"
      /\ interrupts = TRUE /\ IRQ_disable_counter = 0 /\ postpone_task_switches_counter = 0
      /\ task_switches_postponed_flag = 0 /\ current_running_tcb = stack /\ stack # NULL
  BY DEF Init
<1>3. Control
  <2>1. SectionsCounted
    <3>1. IRQ_disable_counter = open[stack] + One(At("locked"))  BY <1>2
    <3>2. postpone_task_switches_counter =
              open[stack] - One(At("schedule") \/ At("unlock")) - One(current_running_tcb = NULL)
      <4>1. One(At("schedule") \/ At("unlock")) = 0 /\ One(current_running_tcb = NULL) = 0  BY <1>2
      <4> HIDE DEF One
      <4>. QED  BY <1>2, <4>1
    <3>. QED  BY <3>1, <3>2 DEF SectionsCounted
  <2>2. CurrentOrIdle /\ SectionsPerPlace  BY <1>2 DEF CurrentOrIdle, SectionsPerPlace
  <2>3. InterruptFlag /\ BlockedHere /\ PendingSwitch
    BY <1>2 DEF InterruptFlag, BlockedHere, PendingSwitch
  <2>. QED  BY <2>1, <2>2, <2>3 DEF Control
<1>4. Alive /\ RunnableOnce /\ SwitchedOutParked
  BY <1>2 DEF Init, Alive, RunnableOnce, SwitchedOutParked
<1>. QED  BY <1>1, <1>3, <1>4 DEF IInv

-----------------------------------------------------------------------------
LEMMA LockPostponeStep == ASSUME IInv, LockPostpone PROVE IInv'
<1>1. /\ pc[stack] \in {"code", "cli"}
      /\ stack' = stack
      /\ state'[stack'] = state[stack]
      /\ interrupts' = FALSE
      /\ IRQ_disable_counter' = IRQ_disable_counter + 1
      /\ postpone_task_switches_counter' = postpone_task_switches_counter + 1
      /\ task_switches_postponed_flag' = task_switches_postponed_flag
      /\ current_running_tcb' = current_running_tcb
      /\ pc'[stack'] = "code"
      /\ open'[stack'] = open[stack] + 1
      /\ nest'[stack'] = nest[stack]
  BY DEF LockPostpone, GoTo, IInv, TypeOK
<1>2. IRQ_disable_counter' \in Nat /\ postpone_task_switches_counter' \in Nat
  BY <1>1, Locals DEF IInv
<1>3. TypeOK'
  <2>1. pc' \in [Threads -> Places]  BY DEF LockPostpone, GoTo, IInv, TypeOK, Places
  <2>2. open' \in [Threads -> Nat]  BY DEF LockPostpone, GoTo, IInv, TypeOK
  <2>. QED  BY <1>1, <1>2, <2>1, <2>2, Locals DEF LockPostpone, IInv, TypeOK
<1>4. Control'
  <2>1. SectionsCounted'  BY <1>1, <1>2, Locals DEF IInv, Control, SectionsCounted, CurrentOrIdle
  <2>2. CurrentOrIdle'
    BY <1>1, <1>2, Locals DEF IInv, Control, CurrentOrIdle, SectionsCounted, SectionsPerPlace, PendingSwitch
  <2>3. SectionsPerPlace'
    BY <1>1, <1>2, Locals DEF IInv, Control, SectionsPerPlace, SectionsCounted, CurrentOrIdle
  <2>4. InterruptFlag'
    BY <1>1, <1>2, Locals DEF IInv, Control, InterruptFlag, SectionsCounted, SectionsPerPlace
  <2>5. BlockedHere'
    BY <1>1, <1>2, Locals DEF IInv, Control, BlockedHere, SectionsCounted, CurrentOrIdle
  <2>6. PendingSwitch'  BY <1>1, <1>2, Locals DEF IInv, Control, PendingSwitch, SectionsCounted
  <2>. QED  BY <2>1, <2>2, <2>3, <2>4, <2>5, <2>6 DEF Control
<1>5. Alive' /\ RunnableOnce'  BY <1>1 DEF LockPostpone, IInv, Alive, RunnableOnce
<1>6. SwitchedOutParked'  BY <1>1 DEF LockPostpone, GoTo, IInv, TypeOK, SwitchedOutParked
<1>. QED  BY <1>3, <1>4, <1>5, <1>6 DEF IInv

LEMMA UnlockPostponeStep == ASSUME IInv, UnlockPostpone PROVE IInv'
<1>1. /\ pc[stack] = "code"
      /\ open[stack] > IF current_running_tcb = NULL THEN 1 ELSE 0
      /\ stack' = stack
      /\ state'[stack'] = state[stack]
      /\ interrupts' = interrupts
      /\ IRQ_disable_counter' = IRQ_disable_counter
      /\ postpone_task_switches_counter' = postpone_task_switches_counter - 1
      /\ task_switches_postponed_flag' = IF postpone_task_switches_counter = 1 THEN 0 ELSE task_switches_postponed_flag
      /\ current_running_tcb' = current_running_tcb
      /\ pc'[stack'] = IF postpone_task_switches_counter = 1 /\ task_switches_postponed_flag = 1
                        THEN "schedule" ELSE "unlock"
      /\ open'[stack'] = open[stack]
      /\ nest'[stack'] = nest[stack]
  BY DEF UnlockPostpone, GoTo, IInv, TypeOK
<1>2. IRQ_disable_counter' \in Nat /\ postpone_task_switches_counter' \in Nat
  BY <1>1, Locals DEF IInv, Control, SectionsCounted, CurrentOrIdle
<1>3. TypeOK'
  <2>1. pc' \in [Threads -> Places]  BY DEF UnlockPostpone, GoTo, IInv, TypeOK, Places
  <2>. QED  BY <1>1, <1>2, <2>1, Locals DEF UnlockPostpone, IInv, TypeOK
<1>4. Control'
  <2>1. SectionsCounted'  BY <1>1, <1>2, Locals DEF IInv, Control, SectionsCounted, CurrentOrIdle
  <2>2. CurrentOrIdle'
    BY <1>1, <1>2, Locals DEF IInv, Control, CurrentOrIdle, SectionsCounted, SectionsPerPlace, PendingSwitch
  <2>3. SectionsPerPlace'
    BY <1>1, <1>2, Locals DEF IInv, Control, SectionsPerPlace, SectionsCounted, PendingSwitch
  <2>4. InterruptFlag'  BY <1>1, <1>2, Locals DEF IInv, Control, InterruptFlag
  <2>5. BlockedHere'
    BY <1>1, <1>2, Locals DEF IInv, Control, BlockedHere, SectionsCounted, CurrentOrIdle
  <2>6. PendingSwitch'  BY <1>1, <1>2, Locals DEF IInv, Control, PendingSwitch
  <2>. QED  BY <2>1, <2>2, <2>3, <2>4, <2>5, <2>6 DEF Control
<1>5. Alive' /\ RunnableOnce'  BY <1>1 DEF UnlockPostpone, IInv, Alive, RunnableOnce
<1>6. SwitchedOutParked'  BY <1>1 DEF UnlockPostpone, GoTo, IInv, TypeOK, SwitchedOutParked
<1>. QED  BY <1>3, <1>4, <1>5, <1>6 DEF IInv

LEMMA UnlockIRQStep == ASSUME IInv, UnlockIRQ PROVE IInv'
<1>1. /\ pc[stack] = "unlock"
      /\ stack' = stack
      /\ state'[stack'] = state[stack]
      /\ interrupts' = (IF IRQ_disable_counter = 1 THEN TRUE ELSE interrupts)
      /\ IRQ_disable_counter' = IRQ_disable_counter - 1
      /\ postpone_task_switches_counter' = postpone_task_switches_counter
      /\ task_switches_postponed_flag' = task_switches_postponed_flag
      /\ current_running_tcb' = current_running_tcb
      /\ pc'[stack'] = "code"
      /\ open'[stack'] = open[stack] - 1
      /\ nest'[stack'] = nest[stack]
  BY DEF UnlockIRQ, GoTo, EnableAtZero, IInv, TypeOK
<1>2. IRQ_disable_counter' \in Nat /\ postpone_task_switches_counter' \in Nat
  BY <1>1, Locals DEF IInv, Control, SectionsCounted, SectionsPerPlace
<1>3. TypeOK'
  <2>1. pc' \in [Threads -> Places]  BY DEF UnlockIRQ, GoTo, EnableAtZero, IInv, TypeOK, Places
  <2>2. open' \in [Threads -> Nat]
    BY DEF UnlockIRQ, GoTo, EnableAtZero, IInv, TypeOK, Control, SectionsPerPlace
  <2>. QED  BY <1>1, <1>2, <2>1, <2>2, Locals DEF UnlockIRQ, IInv, TypeOK
<1>4. Control'
  <2>1. SectionsCounted'  BY <1>1, <1>2, Locals DEF IInv, Control, SectionsCounted, CurrentOrIdle
  <2>2. CurrentOrIdle'
    BY <1>1, <1>2, Locals DEF IInv, Control, CurrentOrIdle, SectionsCounted, SectionsPerPlace, PendingSwitch
  <2>3. SectionsPerPlace'
    BY <1>1, <1>2, Locals DEF IInv, Control, SectionsPerPlace, SectionsCounted, CurrentOrIdle
  <2>4. InterruptFlag'
    BY <1>1, <1>2, Locals DEF IInv, Control, InterruptFlag, SectionsCounted, SectionsPerPlace
  <2>5. BlockedHere'
    BY <1>1, <1>2, Locals DEF IInv, Control, BlockedHere, SectionsCounted, CurrentOrIdle
  <2>6. PendingSwitch'  BY <1>1, <1>2, Locals DEF IInv, Control, PendingSwitch, SectionsCounted
  <2>. QED  BY <2>1, <2>2, <2>3, <2>4, <2>5, <2>6 DEF Control
<1>5. Alive' /\ RunnableOnce'  BY <1>1 DEF UnlockIRQ, IInv, Alive, RunnableOnce
<1>6. SwitchedOutParked'  BY <1>1 DEF UnlockIRQ, GoTo, EnableAtZero, IInv, TypeOK, SwitchedOutParked
<1>. QED  BY <1>3, <1>4, <1>5, <1>6 DEF IInv

LEMMA LockSchedulerStep == ASSUME IInv, LockScheduler PROVE IInv'
<1>1. /\ pc[stack] = "code"
      /\ nest[stack] = 0
      /\ open[stack] = 0
      /\ stack' = stack
      /\ state'[stack'] = state[stack]
      /\ interrupts' = FALSE
      /\ IRQ_disable_counter' = IRQ_disable_counter + 1
      /\ postpone_task_switches_counter' = postpone_task_switches_counter
      /\ task_switches_postponed_flag' = task_switches_postponed_flag
      /\ current_running_tcb' = current_running_tcb
      /\ pc'[stack'] = "locked"
      /\ open'[stack'] = open[stack]
      /\ nest'[stack'] = nest[stack]
  BY DEF LockScheduler, GoTo, IInv, TypeOK
<1>2. IRQ_disable_counter' \in Nat /\ postpone_task_switches_counter' \in Nat
  BY <1>1, Locals DEF IInv
<1>3. TypeOK'
  <2>1. pc' \in [Threads -> Places]  BY DEF LockScheduler, GoTo, IInv, TypeOK, Places
  <2>. QED  BY <1>1, <1>2, <2>1, Locals DEF LockScheduler, IInv, TypeOK
<1>4. Control'
  <2>1. SectionsCounted'  BY <1>1, <1>2, Locals DEF IInv, Control, SectionsCounted, CurrentOrIdle
  <2>2. CurrentOrIdle'
    BY <1>1, <1>2, Locals DEF IInv, Control, CurrentOrIdle, SectionsCounted, SectionsPerPlace, PendingSwitch
  <2>3. SectionsPerPlace'
    BY <1>1, <1>2, Locals DEF IInv, Control, SectionsPerPlace, SectionsCounted, CurrentOrIdle
  <2>4. InterruptFlag'
    BY <1>1, <1>2, Locals DEF IInv, Control, InterruptFlag, SectionsCounted, SectionsPerPlace
  <2>5. BlockedHere'
    BY <1>1, <1>2, Locals DEF IInv, Control, BlockedHere, SectionsCounted, CurrentOrIdle
  <2>6. PendingSwitch'  BY <1>1, <1>2, Locals DEF IInv, Control, PendingSwitch, SectionsCounted
  <2>. QED  BY <2>1, <2>2, <2>3, <2>4, <2>5, <2>6 DEF Control
<1>5. Alive' /\ RunnableOnce'  BY <1>1 DEF LockScheduler, IInv, Alive, RunnableOnce
<1>6. SwitchedOutParked'  BY <1>1 DEF LockScheduler, GoTo, IInv, TypeOK, SwitchedOutParked
<1>. QED  BY <1>3, <1>4, <1>5, <1>6 DEF IInv

LEMMA UnlockSchedulerStep == ASSUME IInv, UnlockScheduler PROVE IInv'
<1>1. /\ pc[stack] = "locked"
      /\ stack' = stack
      /\ state'[stack'] = state[stack]
      /\ interrupts' = (IF IRQ_disable_counter = 1 THEN TRUE ELSE interrupts)
      /\ IRQ_disable_counter' = IRQ_disable_counter - 1
      /\ postpone_task_switches_counter' = postpone_task_switches_counter
      /\ task_switches_postponed_flag' = task_switches_postponed_flag
      /\ current_running_tcb' = current_running_tcb
      /\ pc'[stack'] = "code"
      /\ open'[stack'] = open[stack]
      /\ nest'[stack'] = nest[stack]
  BY DEF UnlockScheduler, GoTo, EnableAtZero, IInv, TypeOK
<1>2. IRQ_disable_counter' \in Nat /\ postpone_task_switches_counter' \in Nat
  BY <1>1, Locals DEF IInv, Control, SectionsCounted
<1>3. TypeOK'
  <2>1. pc' \in [Threads -> Places]
    BY DEF UnlockScheduler, GoTo, EnableAtZero, IInv, TypeOK, Places
  <2>. QED  BY <1>1, <1>2, <2>1, Locals DEF UnlockScheduler, IInv, TypeOK
<1>4. Control'
  <2>1. SectionsCounted'  BY <1>1, <1>2, Locals DEF IInv, Control, SectionsCounted, CurrentOrIdle
  <2>2. CurrentOrIdle'
    BY <1>1, <1>2, Locals DEF IInv, Control, CurrentOrIdle, SectionsCounted, SectionsPerPlace, PendingSwitch
  <2>3. SectionsPerPlace'
    BY <1>1, <1>2, Locals DEF IInv, Control, SectionsPerPlace, SectionsCounted, CurrentOrIdle
  <2>4. InterruptFlag'
    BY <1>1, <1>2, Locals DEF IInv, Control, InterruptFlag, SectionsCounted, SectionsPerPlace
  <2>5. BlockedHere'
    BY <1>1, <1>2, Locals DEF IInv, Control, BlockedHere, SectionsCounted, CurrentOrIdle
  <2>6. PendingSwitch'  BY <1>1, <1>2, Locals DEF IInv, Control, PendingSwitch, SectionsCounted
  <2>. QED  BY <2>1, <2>2, <2>3, <2>4, <2>5, <2>6 DEF Control
<1>5. Alive' /\ RunnableOnce'  BY <1>1 DEF UnlockScheduler, IInv, Alive, RunnableOnce
<1>6. SwitchedOutParked'
  BY <1>1 DEF UnlockScheduler, GoTo, EnableAtZero, IInv, TypeOK, SwitchedOutParked
<1>. QED  BY <1>3, <1>4, <1>5, <1>6 DEF IInv

LEMMA SleepCliStep == ASSUME IInv, SleepCli PROVE IInv'
<1>1. /\ pc[stack] = "code"
      /\ nest[stack] = 0
      /\ open[stack] = 0
      /\ stack' = stack
      /\ state'[stack'] = state[stack]
      /\ interrupts' = FALSE
      /\ IRQ_disable_counter' = IRQ_disable_counter
      /\ postpone_task_switches_counter' = postpone_task_switches_counter
      /\ task_switches_postponed_flag' = task_switches_postponed_flag
      /\ current_running_tcb' = current_running_tcb
      /\ pc'[stack'] = "cli"
      /\ open'[stack'] = open[stack]
      /\ nest'[stack'] = nest[stack]
  BY DEF SleepCli, GoTo, IInv, TypeOK
<1>2. IRQ_disable_counter' \in Nat /\ postpone_task_switches_counter' \in Nat
  BY <1>1, Locals DEF IInv
<1>3. TypeOK'
  <2>1. pc' \in [Threads -> Places]  BY DEF SleepCli, GoTo, IInv, TypeOK, Places
  <2>. QED  BY <1>1, <1>2, <2>1, Locals DEF SleepCli, IInv, TypeOK
<1>4. Control'
  <2>1. SectionsCounted'  BY <1>1, <1>2, Locals DEF IInv, Control, SectionsCounted, CurrentOrIdle
  <2>2. CurrentOrIdle'
    BY <1>1, <1>2, Locals DEF IInv, Control, CurrentOrIdle, SectionsCounted, SectionsPerPlace, PendingSwitch
  <2>3. SectionsPerPlace'
    BY <1>1, <1>2, Locals DEF IInv, Control, SectionsPerPlace, SectionsCounted, CurrentOrIdle
  <2>4. InterruptFlag'
    BY <1>1, <1>2, Locals DEF IInv, Control, InterruptFlag, SectionsCounted, SectionsPerPlace
  <2>5. BlockedHere'
    BY <1>1, <1>2, Locals DEF IInv, Control, BlockedHere, SectionsCounted, CurrentOrIdle
  <2>6. PendingSwitch'  BY <1>1, <1>2, Locals DEF IInv, Control, PendingSwitch, SectionsCounted
  <2>. QED  BY <2>1, <2>2, <2>3, <2>4, <2>5, <2>6 DEF Control
<1>5. Alive' /\ RunnableOnce'  BY <1>1 DEF SleepCli, IInv, Alive, RunnableOnce
<1>6. SwitchedOutParked'  BY <1>1 DEF SleepCli, GoTo, IInv, TypeOK, SwitchedOutParked
<1>. QED  BY <1>3, <1>4, <1>5, <1>6 DEF IInv

LEMMA PitScheduleStep == ASSUME IInv, PitSchedule PROVE IInv'
<1>1. /\ pc[stack] = "code"
      /\ nest[stack] > 0
      /\ open[stack] > IF current_running_tcb = NULL THEN 1 ELSE 0
      /\ current_running_tcb # NULL
      /\ stack' = stack
      /\ state'[stack'] = state[stack]
      /\ interrupts' = interrupts
      /\ IRQ_disable_counter' = IRQ_disable_counter
      /\ postpone_task_switches_counter' = postpone_task_switches_counter
      /\ task_switches_postponed_flag' = 1
      /\ current_running_tcb' = current_running_tcb
      /\ pc'[stack'] = pc[stack]
      /\ open'[stack'] = open[stack]
      /\ nest'[stack'] = nest[stack]
  BY DEF PitSchedule, IInv, TypeOK
<1>2. IRQ_disable_counter' \in Nat /\ postpone_task_switches_counter' \in Nat
  BY <1>1, Locals DEF IInv
<1>3. TypeOK'
  <2>. QED  BY <1>1, <1>2, Locals DEF PitSchedule, IInv, TypeOK
<1>4. Control'
  <2>1. SectionsCounted'  BY <1>1, <1>2, Locals DEF IInv, Control, SectionsCounted, CurrentOrIdle
  <2>2. CurrentOrIdle'
    BY <1>1, <1>2, Locals DEF IInv, Control, CurrentOrIdle, SectionsCounted, SectionsPerPlace, PendingSwitch
  <2>3. SectionsPerPlace'
    BY <1>1, <1>2, Locals DEF IInv, Control, SectionsPerPlace, SectionsCounted, CurrentOrIdle
  <2>4. InterruptFlag'
    BY <1>1, <1>2, Locals DEF IInv, Control, InterruptFlag, SectionsCounted, SectionsPerPlace
  <2>5. BlockedHere'
    BY <1>1, <1>2, Locals DEF IInv, Control, BlockedHere, SectionsCounted, CurrentOrIdle
  <2>6. PendingSwitch'  BY <1>1, <1>2, Locals DEF IInv, Control, PendingSwitch, SectionsCounted
  <2>. QED  BY <2>1, <2>2, <2>3, <2>4, <2>5, <2>6 DEF Control
<1>5. Alive' /\ RunnableOnce'  BY <1>1 DEF PitSchedule, IInv, Alive, RunnableOnce
<1>6. SwitchedOutParked'  BY <1>1 DEF PitSchedule, IInv, TypeOK, SwitchedOutParked
<1>. QED  BY <1>3, <1>4, <1>5, <1>6 DEF IInv

LEMMA NoSwitchStep == ASSUME IInv, NoSwitch PROVE IInv'
<1>1. /\ pc[stack] = "schedule"
      /\ state[current_running_tcb] = "running"
      /\ stack' = stack
      /\ state'[stack'] = state[stack]
      /\ interrupts' = interrupts
      /\ IRQ_disable_counter' = IRQ_disable_counter
      /\ postpone_task_switches_counter' = postpone_task_switches_counter
      /\ task_switches_postponed_flag' = task_switches_postponed_flag
      /\ current_running_tcb' = current_running_tcb
      /\ pc'[stack'] = "unlock"
      /\ open'[stack'] = open[stack]
      /\ nest'[stack'] = nest[stack]
  BY DEF NoSwitch, GoTo, IInv, TypeOK
<1>2. IRQ_disable_counter' \in Nat /\ postpone_task_switches_counter' \in Nat
  BY <1>1, Locals DEF IInv
<1>3. TypeOK'
  <2>1. pc' \in [Threads -> Places]  BY DEF NoSwitch, GoTo, IInv, TypeOK, Places
  <2>. QED  BY <1>1, <1>2, <2>1, Locals DEF NoSwitch, IInv, TypeOK
<1>4. Control'
  <2>1. SectionsCounted'  BY <1>1, <1>2, Locals DEF IInv, Control, SectionsCounted, CurrentOrIdle
  <2>2. CurrentOrIdle'
    BY <1>1, <1>2, Locals DEF IInv, Control, CurrentOrIdle, SectionsCounted, SectionsPerPlace, PendingSwitch
  <2>3. SectionsPerPlace'
    BY <1>1, <1>2, Locals DEF IInv, Control, SectionsPerPlace, SectionsCounted, CurrentOrIdle
  <2>4. InterruptFlag'
    BY <1>1, <1>2, Locals DEF IInv, Control, InterruptFlag, SectionsCounted, SectionsPerPlace
  <2>5. BlockedHere'
    BY <1>1, <1>2, Locals DEF IInv, Control, BlockedHere, SectionsCounted, CurrentOrIdle
  <2>6. PendingSwitch'  BY <1>1, <1>2, Locals DEF IInv, Control, PendingSwitch, SectionsCounted
  <2>. QED  BY <2>1, <2>2, <2>3, <2>4, <2>5, <2>6 DEF Control
<1>5. Alive' /\ RunnableOnce'  BY <1>1 DEF NoSwitch, IInv, Alive, RunnableOnce
<1>6. SwitchedOutParked'  BY <1>1 DEF NoSwitch, GoTo, IInv, TypeOK, SwitchedOutParked
<1>. QED  BY <1>3, <1>4, <1>5, <1>6 DEF IInv

LEMMA GoIdleStep == ASSUME IInv, GoIdle PROVE IInv'
<1>1. /\ pc[stack] = "schedule"
      /\ stack' = stack
      /\ state'[stack'] = state[stack]
      /\ interrupts' = TRUE
      /\ IRQ_disable_counter' = IRQ_disable_counter
      /\ postpone_task_switches_counter' = postpone_task_switches_counter
      /\ task_switches_postponed_flag' = task_switches_postponed_flag
      /\ current_running_tcb' = NULL
      /\ pc'[stack'] = "idle"
      /\ open'[stack'] = open[stack]
      /\ nest'[stack'] = nest[stack]
  BY DEF GoIdle, GoTo, IInv, TypeOK
<1>2. IRQ_disable_counter' \in Nat /\ postpone_task_switches_counter' \in Nat
  BY <1>1, Locals DEF IInv
<1>3. TypeOK'
  <2>1. pc' \in [Threads -> Places]  BY DEF GoIdle, GoTo, IInv, TypeOK, Places
  <2>. QED  BY <1>1, <1>2, <2>1, Locals DEF GoIdle, IInv, TypeOK
<1>4. Control'
  <2>1. SectionsCounted'  BY <1>1, <1>2, Locals DEF IInv, Control, SectionsCounted, CurrentOrIdle
  <2>2. CurrentOrIdle'
    BY <1>1, <1>2, Locals DEF IInv, Control, CurrentOrIdle, SectionsCounted, SectionsPerPlace, PendingSwitch
  <2>3. SectionsPerPlace'
    BY <1>1, <1>2, Locals DEF IInv, Control, SectionsPerPlace, SectionsCounted, CurrentOrIdle
  <2>4. InterruptFlag'
    BY <1>1, <1>2, Locals DEF IInv, Control, InterruptFlag, SectionsCounted, SectionsPerPlace
  <2>5. BlockedHere'
    BY <1>1, <1>2, Locals DEF IInv, Control, BlockedHere, SectionsCounted, CurrentOrIdle
  <2>6. PendingSwitch'
    BY <1>1, <1>2, Locals DEF IInv, Control, PendingSwitch, SectionsCounted, SectionsPerPlace
  <2>. QED  BY <2>1, <2>2, <2>3, <2>4, <2>5, <2>6 DEF Control
<1>5. Alive' /\ RunnableOnce'
  BY <1>1 DEF GoIdle, IInv, Alive, RunnableOnce, TypeOK, Control, CurrentOrIdle
<1>6. SwitchedOutParked'  BY <1>1 DEF GoIdle, GoTo, IInv, TypeOK, SwitchedOutParked
<1>. QED  BY <1>3, <1>4, <1>5, <1>6 DEF IInv

LEMMA IrqStep == ASSUME IInv, Irq PROVE IInv'
<1>1. /\ interrupts
      /\ stack' = stack
      /\ state'[stack'] = state[stack]
      /\ interrupts' = FALSE
      /\ IRQ_disable_counter' = IRQ_disable_counter
      /\ postpone_task_switches_counter' = postpone_task_switches_counter
      /\ task_switches_postponed_flag' = task_switches_postponed_flag
      /\ current_running_tcb' = current_running_tcb
      /\ pc'[stack'] = "code"
      /\ open'[stack'] = open[stack]
      /\ nest'[stack'] = nest[stack] + 1
  BY DEF Irq, GoTo, IInv, TypeOK
<1>2. IRQ_disable_counter' \in Nat /\ postpone_task_switches_counter' \in Nat
  BY <1>1, Locals DEF IInv
<1>3. TypeOK'
  <2>1. pc' \in [Threads -> Places]  BY DEF Irq, GoTo, IInv, TypeOK, Places
  <2>2. nest' \in [Threads -> Nat]  BY DEF Irq, GoTo, IInv, TypeOK
  <2>. QED  BY <1>1, <1>2, <2>1, <2>2, Locals DEF Irq, IInv, TypeOK
<1>4. Control'
  <2>1. SectionsCounted'  BY <1>1, <1>2, Locals DEF IInv, Control, SectionsCounted, InterruptFlag
  <2>2. CurrentOrIdle'
    BY <1>1, <1>2, Locals DEF IInv, Control, CurrentOrIdle, SectionsCounted, SectionsPerPlace, PendingSwitch
  <2>3. SectionsPerPlace'
    BY <1>1, <1>2, Locals DEF IInv, Control, SectionsPerPlace, SectionsCounted, CurrentOrIdle
  <2>4. InterruptFlag'
    BY <1>1, <1>2, Locals DEF IInv, Control, InterruptFlag, SectionsCounted, SectionsPerPlace
  <2>5. BlockedHere'  BY <1>1, <1>2, Locals DEF IInv, Control, BlockedHere, InterruptFlag
  <2>6. PendingSwitch'  BY <1>1, <1>2, Locals DEF IInv, Control, PendingSwitch, SectionsCounted
  <2>. QED  BY <2>1, <2>2, <2>3, <2>4, <2>5, <2>6 DEF Control
<1>5. Alive' /\ RunnableOnce'  BY <1>1 DEF Irq, IInv, Alive, RunnableOnce
<1>6. SwitchedOutParked'  BY <1>1 DEF Irq, GoTo, IInv, TypeOK, SwitchedOutParked
<1>. QED  BY <1>3, <1>4, <1>5, <1>6 DEF IInv

LEMMA IretStep == ASSUME IInv, Iret PROVE IInv'
<1>1. /\ pc[stack] = "code"
      /\ nest[stack] > 0
      /\ ~(open[stack] > IF current_running_tcb = NULL THEN 1 ELSE 0)
      /\ stack' = stack
      /\ state'[stack'] = state[stack]
      /\ interrupts' = TRUE
      /\ IRQ_disable_counter' = IRQ_disable_counter
      /\ postpone_task_switches_counter' = postpone_task_switches_counter
      /\ task_switches_postponed_flag' = task_switches_postponed_flag
      /\ current_running_tcb' = current_running_tcb
      /\ pc'[stack'] = IF current_running_tcb = NULL THEN "idle" ELSE "code"
      /\ open'[stack'] = open[stack]
      /\ nest'[stack'] = nest[stack] - 1
  BY DEF Iret, GoTo, IInv, TypeOK
<1>2. IRQ_disable_counter' \in Nat /\ postpone_task_switches_counter' \in Nat
  BY <1>1, Locals DEF IInv
<1>3. TypeOK'
  <2>1. pc' \in [Threads -> Places]  BY DEF Iret, GoTo, IInv, TypeOK, Places
  <2>2. nest' \in [Threads -> Nat]  BY DEF Iret, GoTo, IInv, TypeOK
  <2>. QED  BY <1>1, <1>2, <2>1, <2>2, Locals DEF Iret, IInv, TypeOK
<1>4. Control'
  <2>1. SectionsCounted'  BY <1>1, <1>2, Locals DEF IInv, Control, SectionsCounted, CurrentOrIdle
  <2>2. CurrentOrIdle'
    BY <1>1, <1>2, Locals DEF IInv, Control, CurrentOrIdle, SectionsCounted, SectionsPerPlace, PendingSwitch
  <2>3. SectionsPerPlace'
    BY <1>1, <1>2, Locals DEF IInv, Control, SectionsPerPlace, SectionsCounted, CurrentOrIdle
  <2>4. InterruptFlag'
    BY <1>1, <1>2, Locals DEF IInv, Control, InterruptFlag, SectionsCounted, SectionsPerPlace
  <2>5. BlockedHere'
    BY <1>1, <1>2, Locals DEF IInv, Control, BlockedHere, SectionsCounted, CurrentOrIdle
  <2>6. PendingSwitch'  BY <1>1, <1>2, Locals DEF IInv, Control, PendingSwitch, SectionsCounted
  <2>. QED  BY <2>1, <2>2, <2>3, <2>4, <2>5, <2>6 DEF Control
<1>5. Alive' /\ RunnableOnce'  BY <1>1 DEF Iret, IInv, Alive, RunnableOnce
<1>6. SwitchedOutParked'  BY <1>1 DEF Iret, GoTo, IInv, TypeOK, SwitchedOutParked
<1>. QED  BY <1>3, <1>4, <1>5, <1>6 DEF IInv

-----------------------------------------------------------------------------
(* The steps that change the threads *)

\* The front of the ready threads becomes the current one, in place of a thread
\* that is not RUNNING or of no thread.
LEMMA TailKeepsRunnable ==
  ASSUME TypeOK, RunnableOnce, threads_ready # <<>>,
         \A t \in Threads : t = current_running_tcb => state[t] # "running",
         threads_ready' = Tail(threads_ready),
         current_running_tcb' = Head(threads_ready),
         state' = state
  PROVE  RunnableOnce'
<1> DEFINE n == Len(threads_ready)
<1>1. /\ n \in Nat \ {0} /\ Len(threads_ready') = n - 1
      /\ \A i \in 1..(n - 1) : threads_ready'[i] = threads_ready[i + 1]
      /\ current_running_tcb' = threads_ready[1]
  BY DEF TypeOK
<1>2. \A i, j \in 1..Len(threads_ready') : threads_ready'[i] = threads_ready'[j] => i = j
  BY <1>1 DEF RunnableOnce
<1>3. \A i \in 1..Len(threads_ready') :
         threads_ready'[i] # current_running_tcb' /\ state'[threads_ready'[i]] = "running"
  BY <1>1 DEF RunnableOnce
<1>4. ASSUME NEW t \in Threads, state'[t] = "running", t # current_running_tcb'
      PROVE  \E i \in 1..Len(threads_ready') : threads_ready'[i] = t
  <2>1. PICK i \in 1..n : threads_ready[i] = t  BY <1>4 DEF RunnableOnce
  <2>2. i # 1 /\ i - 1 \in 1..(n - 1) /\ threads_ready'[i - 1] = t  BY <1>1, <1>4, <2>1
  <2>. QED  BY <1>1, <2>2
<1>. QED  BY <1>2, <1>3, <1>4 DEF RunnableOnce

LEMMA SwitchStep == ASSUME IInv, Switch PROVE IInv'
<1> DEFINE next == Head(threads_ready)
<1>1. /\ next \in Threads /\ next = threads_ready[1] /\ Len(threads_ready) \in Nat \ {0}
      /\ state[next] = "running" /\ next # current_running_tcb
  BY DEF Switch, IInv, TypeOK, RunnableOnce
<1>2. /\ pc[stack] = "schedule" /\ current_running_tcb = stack
      /\ postpone_task_switches_counter = 0 /\ IRQ_disable_counter = 1
      /\ task_switches_postponed_flag = 0 /\ ~interrupts
  BY Locals DEF Switch, IInv, Control, SectionsCounted, CurrentOrIdle, SectionsPerPlace, PendingSwitch, InterruptFlag
<1>3. \/ pc[next] = "unlock" /\ open[next] = 1
      \/ pc[next] = "locked" /\ open[next] = 0
  BY <1>1, <1>2 DEF IInv, SwitchedOutParked
<1>4. /\ stack' = next /\ current_running_tcb' = next /\ pc'[stack'] = pc[next]
      /\ open'[stack'] = open[next] /\ nest'[stack'] = nest[next] /\ state'[stack'] = "running"
      /\ UNCHANGED <<interrupts, IRQ_disable_counter, postpone_task_switches_counter,
                     task_switches_postponed_flag>>
  BY <1>1, <1>2 DEF Switch, GoTo, IInv, TypeOK
<1>5. TypeOK'
  <2>1. threads_ready' \in Seq(Threads)
    <3>1. Tail(threads_ready) \in Seq(Threads) /\ current_running_tcb \in Threads
      BY <1>2 DEF Switch, IInv, TypeOK
    <3>2. Append(Tail(threads_ready), current_running_tcb) \in Seq(Threads)  BY <3>1
    <3>. QED  BY <3>1, <3>2 DEF Switch
  <2>2. pc' \in [Threads -> Places]  BY DEF Switch, GoTo, IInv, TypeOK, Places
  <2>. QED  BY <1>1, <1>4, <2>1, <2>2 DEF Switch, IInv, TypeOK
<1>6. Control'
  <2>1. SectionsCounted' /\ CurrentOrIdle'
    BY <1>1, <1>2, <1>3, <1>4 DEF SectionsCounted, CurrentOrIdle
  <2>2. SectionsPerPlace' /\ InterruptFlag'
    BY <1>1, <1>2, <1>3, <1>4 DEF SectionsPerPlace, InterruptFlag
  <2>3. BlockedHere' /\ PendingSwitch'  BY <1>1, <1>2, <1>3, <1>4 DEF BlockedHere, PendingSwitch
  <2>. QED  BY <2>1, <2>2, <2>3 DEF Control
<1>7. Alive'  BY <1>4 DEF Switch, IInv, Alive
<1>8. RunnableOnce'
  <2> DEFINE n == Len(threads_ready)
  <2>1. CASE state[current_running_tcb] = "running"
    <3>1. /\ Len(threads_ready') = n
          /\ \A i \in 1..n : threads_ready'[i] = IF i = n THEN current_running_tcb ELSE threads_ready[i + 1]
      BY <1>1, <1>2, <2>1 DEF Switch, IInv, TypeOK
    <3>2. \A i, j \in 1..Len(threads_ready') : threads_ready'[i] = threads_ready'[j] => i = j
      BY <1>1, <3>1 DEF IInv, RunnableOnce
    <3>3. \A i \in 1..Len(threads_ready') :
             threads_ready'[i] # current_running_tcb' /\ state'[threads_ready'[i]] = "running"
      <4>1. \A i \in 1..n : threads_ready[i] # current_running_tcb /\ state[threads_ready[i]] = "running"
        BY DEF IInv, RunnableOnce
      <4>2. \A i \in 2..n : threads_ready[i] # next  BY <1>1 DEF IInv, RunnableOnce
      <4>3. state' = state  BY DEF Switch
      <4>4. ASSUME NEW i \in 1..n
            PROVE  threads_ready'[i] # next /\ state[threads_ready'[i]] = "running"
        <5>1. CASE i = n  BY <1>1, <2>1, <3>1, <5>1
        <5>2. CASE i # n
          <6>1. i + 1 \in 2..n /\ i + 1 \in 1..n /\ threads_ready'[i] = threads_ready[i + 1]
            BY <1>1, <3>1, <4>4, <5>2
          <6>. QED  BY <4>1, <4>2, <6>1
        <5>. QED  BY <5>1, <5>2
      <4>. QED  BY <1>4, <3>1, <4>3, <4>4
    <3>4. ASSUME NEW t \in Threads, state'[t] = "running", t # current_running_tcb'
          PROVE  \E i \in 1..Len(threads_ready') : threads_ready'[i] = t
      <4>1. CASE t = current_running_tcb  BY <1>1, <3>1, <4>1
      <4>2. CASE t # current_running_tcb
        <5>1. PICK i \in 1..n : threads_ready[i] = t  BY <3>4, <4>2 DEF Switch, IInv, RunnableOnce
        <5>2. i # 1 /\ threads_ready'[i - 1] = t /\ i - 1 \in 1..n  BY <1>1, <1>4, <3>1, <3>4, <5>1
        <5>. QED  BY <3>1, <5>2
      <4>. QED  BY <4>1, <4>2
    <3>. QED  BY <3>2, <3>3, <3>4 DEF RunnableOnce
  <2>2. CASE state[current_running_tcb] # "running"
    <3>. QED  BY <1>1, <1>4, <2>2, TailKeepsRunnable DEF Switch, IInv, TypeOK
  <2>. QED  BY <2>1, <2>2
<1>9. SwitchedOutParked'
  BY <1>1, <1>2 DEF Switch, GoTo, IInv, TypeOK, Control, SectionsPerPlace, SwitchedOutParked
<1>. QED  BY <1>5, <1>6, <1>7, <1>8, <1>9 DEF IInv

LEMMA LeaveIdleStep == ASSUME IInv, LeaveIdle PROVE IInv'
<1> DEFINE next == Head(threads_ready)
<1>1. /\ next \in Threads /\ next = threads_ready[1] /\ Len(threads_ready) \in Nat \ {0}
      /\ state[next] = "running"
  BY DEF LeaveIdle, IInv, TypeOK, RunnableOnce
<1>2. /\ pc[stack] = "idle" /\ current_running_tcb = NULL /\ open[stack] = 1
      /\ postpone_task_switches_counter = 0 /\ IRQ_disable_counter = 1
      /\ task_switches_postponed_flag = 0
  BY Locals DEF LeaveIdle, IInv, Control, SectionsCounted, CurrentOrIdle, SectionsPerPlace, PendingSwitch
<1>3. \/ next = stack
      \/ pc[next] = "unlock" /\ open[next] = 1
      \/ pc[next] = "locked" /\ open[next] = 0
  BY <1>1 DEF IInv, SwitchedOutParked
<1>4. /\ stack' = next /\ current_running_tcb' = next
      /\ pc'[stack'] = IF next = stack THEN "unlock" ELSE pc[next]
      /\ open'[stack'] = open[next] /\ nest'[stack'] = nest[next] /\ state'[stack'] = "running"
      /\ ~interrupts'
      /\ UNCHANGED <<IRQ_disable_counter, postpone_task_switches_counter,
                     task_switches_postponed_flag>>
  BY <1>1, <1>2 DEF LeaveIdle, GoTo, IInv, TypeOK
<1>5. TypeOK'
  <2>1. threads_ready' \in Seq(Threads)  BY DEF LeaveIdle, IInv, TypeOK
  <2>2. pc' \in [Threads -> Places]  BY DEF LeaveIdle, GoTo, IInv, TypeOK, Places
  <2>. QED  BY <1>1, <1>4, <2>1, <2>2 DEF LeaveIdle, IInv, TypeOK
<1>6. Control'
  <2>1. SectionsCounted' /\ CurrentOrIdle'
    BY <1>1, <1>2, <1>3, <1>4 DEF SectionsCounted, CurrentOrIdle
  <2>2. SectionsPerPlace' /\ InterruptFlag'
    BY <1>1, <1>2, <1>3, <1>4 DEF SectionsPerPlace, InterruptFlag
  <2>3. BlockedHere' /\ PendingSwitch'  BY <1>1, <1>2, <1>3, <1>4 DEF BlockedHere, PendingSwitch
  <2>. QED  BY <2>1, <2>2, <2>3 DEF Control
<1>7. Alive'  BY <1>4 DEF LeaveIdle, IInv, Alive
<1>8. RunnableOnce'  BY <1>1, <1>2, <1>4, TailKeepsRunnable DEF LeaveIdle, IInv, TypeOK
<1>9. SwitchedOutParked'  BY <1>1, <1>2 DEF LeaveIdle, GoTo, IInv, TypeOK, SwitchedOutParked
<1>. QED  BY <1>5, <1>6, <1>7, <1>8, <1>9 DEF IInv

LEMMA BlockTaskStep == ASSUME NEW reason \in Blocked, IInv, BlockTask(reason) PROVE IInv'
<1>1. /\ pc[stack] = "code" /\ nest[stack] = 0 /\ current_running_tcb = stack /\ open[stack] > 0
      /\ ~interrupts /\ postpone_task_switches_counter > 0
  BY Locals DEF BlockTask, IInv, Control, SectionsCounted, CurrentOrIdle, InterruptFlag
<1>2. /\ stack' = stack /\ pc'[stack'] = "code" /\ nest'[stack'] = 0 /\ open'[stack'] = open[stack]
      /\ task_switches_postponed_flag' = 1 /\ current_running_tcb' = stack
      /\ UNCHANGED <<interrupts, IRQ_disable_counter, postpone_task_switches_counter>>
  BY <1>1 DEF BlockTask
<1>3. /\ stack \in Threads
      /\ \A t \in Threads : state'[t] = IF t = stack THEN reason ELSE state[t]
      /\ reason \notin {"running", "none"}
  BY <1>1 DEF BlockTask, IInv, TypeOK, Blocked
<1>4. TypeOK'
  <2>1. state' \in [Threads -> Statuses]  BY <1>1 DEF BlockTask, IInv, TypeOK, Statuses
  <2>. QED  BY <1>2, <2>1 DEF BlockTask, IInv, TypeOK
<1>5. Control'
  <2>1. SectionsCounted' /\ CurrentOrIdle'
    BY <1>1, <1>2 DEF IInv, Control, SectionsCounted, CurrentOrIdle
  <2>2. SectionsPerPlace' /\ InterruptFlag'
    BY <1>1, <1>2, Locals DEF IInv, SectionsPerPlace, InterruptFlag
  <2>3. BlockedHere' /\ PendingSwitch'  BY <1>1, <1>2, Locals DEF IInv, BlockedHere, PendingSwitch
  <2>. QED  BY <2>1, <2>2, <2>3 DEF Control
<1>6. Alive'  BY <1>1, <1>2, <1>3 DEF BlockTask, IInv, Alive, Blocked
<1>7. RunnableOnce'  BY <1>1, <1>2, <1>3 DEF BlockTask, IInv, TypeOK, RunnableOnce
<1>8. SwitchedOutParked'  BY <1>2, <1>3 DEF BlockTask, IInv, SwitchedOutParked
<1>. QED  BY <1>4, <1>5, <1>6, <1>7, <1>8 DEF IInv

\* A thread that is neither current nor RUNNING is put at the end of the ready threads.
LEMMA AppendKeepsRunnable ==
  ASSUME NEW task \in Threads,
         TypeOK, RunnableOnce, state[task] # "running", task # current_running_tcb,
         threads_ready' = Append(threads_ready, task),
         current_running_tcb' = current_running_tcb,
         state' = [state EXCEPT ![task] = "running"]
  PROVE  RunnableOnce'
<1> DEFINE n == Len(threads_ready)
<1>1. /\ n \in Nat /\ Len(threads_ready') = n + 1
      /\ \A i \in 1..(n + 1) : threads_ready'[i] = IF i = n + 1 THEN task ELSE threads_ready[i]
      /\ \A i \in 1..n : threads_ready[i] \in Threads
  BY DEF TypeOK
<1>2. \A t \in Threads : state'[t] = IF t = task THEN "running" ELSE state[t]  BY DEF TypeOK
<1>3. \A i \in 1..n : threads_ready[i] # task  BY DEF RunnableOnce
<1>4. \A i, j \in 1..Len(threads_ready') : threads_ready'[i] = threads_ready'[j] => i = j
  BY <1>1, <1>3 DEF RunnableOnce
<1>5. \A i \in 1..Len(threads_ready') :
         threads_ready'[i] # current_running_tcb' /\ state'[threads_ready'[i]] = "running"
  BY <1>1, <1>2 DEF RunnableOnce
<1>6. ASSUME NEW t \in Threads, state'[t] = "running", t # current_running_tcb'
      PROVE  \E i \in 1..Len(threads_ready') : threads_ready'[i] = t
  <2>1. CASE t = task  BY <1>1, <2>1
  <2>2. CASE t # task
    <3>1. PICK i \in 1..n : threads_ready[i] = t  BY <1>2, <1>6, <2>2 DEF RunnableOnce
    <3>. QED  BY <1>1, <3>1
  <2>. QED  BY <2>1, <2>2
<1>. QED  BY <1>4, <1>5, <1>6 DEF RunnableOnce

LEMMA UnblockTaskStep == ASSUME NEW task \in Threads, IInv, UnblockTask(task) PROVE IInv'
<1>1. /\ pc[stack] = "code" /\ stack' = stack /\ pc' = pc /\ nest' = nest /\ open' = open
      /\ UNCHANGED <<interrupts, IRQ_disable_counter, postpone_task_switches_counter,
                     task_switches_postponed_flag, current_running_tcb>>
  BY DEF UnblockTask
<1>2. /\ \A t \in Threads : state'[t] = IF t = task THEN "running" ELSE state[t]
      /\ state[task] \in {"paused", "sleeping"} /\ task # current_running_tcb
  BY DEF UnblockTask, IInv, TypeOK, Blocked
<1>3. TypeOK'
  <2>1. state' \in [Threads -> Statuses]  BY DEF UnblockTask, IInv, TypeOK, Statuses
  <2>2. threads_ready' \in Seq(Threads)  BY DEF UnblockTask, IInv, TypeOK
  <2>. QED  BY <1>1, <2>1, <2>2 DEF IInv, TypeOK
<1>4. Control'
  <2>1. SectionsCounted' /\ CurrentOrIdle' /\ SectionsPerPlace' /\ InterruptFlag' /\ PendingSwitch'
    BY <1>1 DEF IInv, Control, SectionsCounted, CurrentOrIdle, SectionsPerPlace, InterruptFlag, PendingSwitch
  <2>2. BlockedHere'  BY <1>1, <1>2, Locals DEF IInv, Control, BlockedHere
  <2>. QED  BY <2>1, <2>2 DEF Control
<1>5. Alive'  BY <1>1, <1>2, Locals DEF IInv, Alive
<1>6. RunnableOnce'  BY <1>2, AppendKeepsRunnable DEF UnblockTask, IInv
<1>7. SwitchedOutParked'  BY <1>1, <1>2 DEF IInv, SwitchedOutParked
<1>. QED  BY <1>3, <1>4, <1>5, <1>6, <1>7 DEF IInv

LEMMA ThreadCreateStep == ASSUME NEW thread \in Threads, IInv, ThreadCreate(thread) PROVE IInv'
<1>1. /\ pc[stack] = "code" /\ nest[stack] = 0 /\ current_running_tcb = stack
      /\ thread # stack /\ stack \in Threads /\ state[thread] = "none"
  BY Locals DEF ThreadCreate, IInv, Control, CurrentOrIdle, Alive
<1>2. /\ stack' = stack /\ pc'[stack] = pc[stack] /\ nest'[stack] = nest[stack]
      /\ open'[stack] = open[stack] /\ state'[stack] = state[stack]
      /\ UNCHANGED <<interrupts, IRQ_disable_counter, postpone_task_switches_counter,
                     task_switches_postponed_flag, current_running_tcb>>
  BY <1>1 DEF ThreadCreate, IInv, TypeOK
<1>3. \A t \in Threads : /\ state'[t] = IF t = thread THEN "running" ELSE state[t]
                         /\ pc'[t] = IF t = thread THEN "locked" ELSE pc[t]
                         /\ open'[t] = IF t = thread THEN 0 ELSE open[t]
  BY DEF ThreadCreate, IInv, TypeOK
<1>4. TypeOK'
  <2>1. state' \in [Threads -> Statuses] /\ pc' \in [Threads -> Places]
    BY DEF ThreadCreate, IInv, TypeOK, Statuses, Places
  <2>2. threads_ready' \in Seq(Threads)  BY DEF ThreadCreate, IInv, TypeOK
  <2>3. open' \in [Threads -> Nat] /\ nest' \in [Threads -> Nat]  BY DEF ThreadCreate, IInv, TypeOK
  <2>. QED  BY <1>2, <2>1, <2>2, <2>3 DEF IInv, TypeOK
<1>5. Control'
  <2>1. SectionsCounted' /\ CurrentOrIdle' /\ SectionsPerPlace'
    BY <1>2 DEF IInv, Control, SectionsCounted, CurrentOrIdle, SectionsPerPlace
  <2>2. InterruptFlag' /\ BlockedHere' /\ PendingSwitch'
    BY <1>2 DEF IInv, Control, InterruptFlag, BlockedHere, PendingSwitch
  <2>. QED  BY <2>1, <2>2 DEF Control
<1>6. Alive'  BY <1>1, <1>2, <1>3 DEF IInv, Alive
<1>7. RunnableOnce'  BY <1>1, <1>2, AppendKeepsRunnable DEF ThreadCreate, IInv
<1>8. SwitchedOutParked'  BY <1>2, <1>3 DEF IInv, SwitchedOutParked
<1>. QED  BY <1>4, <1>5, <1>6, <1>7, <1>8 DEF IInv

LEMMA ThreadFreeStep == ASSUME NEW tcb \in Threads, IInv, ThreadFree(tcb) PROVE IInv'
<1>1. /\ tcb # stack /\ tcb # Kernel /\ state[tcb] = "terminated" /\ current_running_tcb = stack
  BY Locals DEF ThreadFree, IInv, Control, CurrentOrIdle, Alive
<1>2. /\ stack' = stack /\ pc' = pc /\ nest' = nest /\ open' = open /\ threads_ready' = threads_ready
      /\ UNCHANGED <<interrupts, IRQ_disable_counter, postpone_task_switches_counter,
                     task_switches_postponed_flag, current_running_tcb>>
  BY DEF ThreadFree
<1>3. \A t \in Threads : state'[t] = IF t = tcb THEN "none" ELSE state[t]
  BY DEF ThreadFree, IInv, TypeOK
<1>4. TypeOK'
  <2>1. state' \in [Threads -> Statuses]  BY DEF ThreadFree, IInv, TypeOK, Statuses
  <2>. QED  BY <1>2, <2>1 DEF IInv, TypeOK
<1>5. Control'
  <2>1. SectionsCounted' /\ CurrentOrIdle' /\ SectionsPerPlace' /\ InterruptFlag' /\ PendingSwitch'
    BY <1>2 DEF IInv, Control, SectionsCounted, CurrentOrIdle, SectionsPerPlace, InterruptFlag, PendingSwitch
  <2>2. BlockedHere'  BY <1>1, <1>2, <1>3, Locals DEF IInv, Control, BlockedHere
  <2>. QED  BY <2>1, <2>2 DEF Control
<1>6. Alive'  BY <1>1, <1>2, <1>3, Locals DEF IInv, Alive
<1>7. RunnableOnce'
  <2>1. \A i \in 1..Len(threads_ready) : threads_ready[i] \in Threads /\ threads_ready[i] # tcb
    BY <1>1 DEF IInv, TypeOK, RunnableOnce
  <2>. QED  BY <1>1, <1>2, <1>3, <2>1 DEF IInv, RunnableOnce
<1>8. SwitchedOutParked'  BY <1>2, <1>3 DEF IInv, SwitchedOutParked
<1>. QED  BY <1>4, <1>5, <1>6, <1>7, <1>8 DEF IInv

-----------------------------------------------------------------------------
(* The theorems *)

LEMMA NextIInv == IInv /\ [Next]_vars => IInv'
<1> SUFFICES ASSUME IInv, [Next]_vars PROVE IInv'
  OBVIOUS
<1>1. CASE LockPostpone  BY <1>1, LockPostponeStep
<1>2. CASE UnlockPostpone  BY <1>2, UnlockPostponeStep
<1>3. CASE UnlockIRQ  BY <1>3, UnlockIRQStep
<1>4. CASE LockScheduler  BY <1>4, LockSchedulerStep
<1>5. CASE UnlockScheduler  BY <1>5, UnlockSchedulerStep
<1>6. CASE SleepCli  BY <1>6, SleepCliStep
<1>7. CASE PitSchedule  BY <1>7, PitScheduleStep
<1>8. CASE \E reason \in Blocked : BlockTask(reason)  BY <1>8, BlockTaskStep
<1>9. ASSUME NEW t \in Threads, UnblockTask(t) \/ ThreadCreate(t) \/ ThreadFree(t)
      PROVE  IInv'
  BY <1>9, UnblockTaskStep, ThreadCreateStep, ThreadFreeStep
<1>10. CASE Switch  BY <1>10, SwitchStep
<1>11. CASE NoSwitch  BY <1>11, NoSwitchStep
<1>12. CASE GoIdle  BY <1>12, GoIdleStep
<1>13. CASE LeaveIdle  BY <1>13, LeaveIdleStep
<1>14. CASE Irq  BY <1>14, IrqStep
<1>15. CASE Iret  BY <1>15, IretStep
<1>16. CASE UNCHANGED vars
  BY <1>16 DEF vars, IInv, TypeOK, Control, SectionsCounted, CurrentOrIdle, SectionsPerPlace,
               InterruptFlag, BlockedHere, PendingSwitch, Alive, RunnableOnce, SwitchedOutParked
<1>. QED  BY <1>1, <1>2, <1>3, <1>4, <1>5, <1>6, <1>7, <1>8, <1>9, <1>10, <1>11, <1>12,
             <1>13, <1>14, <1>15, <1>16 DEF Next

LEMMA SpecIInv == Spec => []IInv
  BY InitIInv, NextIInv, PTL DEF Spec

\* Every variable keeps its type; neither counter ever falls below zero
\* (thread_schedule.c:5-7).
THEOREM TypeCorrect == Spec => []TypeOK
<1>1. IInv => TypeOK  BY DEF IInv
<1>. QED  BY <1>1, SpecIInv, PTL

\* The counters are those of the stack in use (thread_schedule.c:78-94).
THEOREM CountersCorrect == Spec => []SectionsCounted
<1>1. IInv => SectionsCounted  BY DEF IInv, Control
<1>. QED  BY <1>1, SpecIInv, PTL

\* Interrupts are off in sections and come back on after them
\* (thread_schedule.c:9-19, 83-94).
THEOREM InterruptsCorrect == Spec => []InterruptsFollowSections
<1>1. IInv => InterruptsFollowSections
  BY Locals DEF IInv, Control, SectionsCounted, SectionsPerPlace, InterruptFlag, InterruptsFollowSections
<1>. QED  BY <1>1, SpecIInv, PTL

\* Counters, interrupt flag and the stack in use stay in step.
THEOREM SectionsAlwaysHold == Spec => []SectionsHold
<1>1. SectionsCounted /\ InterruptsFollowSections => SectionsHold  BY DEF SectionsHold
<1>. QED  BY <1>1, CountersCorrect, InterruptsCorrect, PTL

\* No thread is lost by a switch, queued twice, or run while blocked
\* (thread_schedule.c:43-111).
THEOREM NoThreadLost == Spec => []RunnableOnce
<1>1. IInv => RunnableOnce  BY DEF IInv
<1>. QED  BY <1>1, SpecIInv, PTL

\* A blocked thread does not run on (thread_schedule.c:96-103).
THEOREM BlockedStops == Spec => []BlockedThreadStops
<1>1. IInv => BlockedThreadStops
  BY Locals DEF IInv, Control, CurrentOrIdle, BlockedHere, BlockedThreadStops
<1>. QED  BY <1>1, SpecIInv, PTL

\* A postponed switch is neither forgotten nor carried over, and schedule never
\* reads the state of no thread (thread_schedule.c:83-90).
THEOREM PostponedSwitchKept == Spec => []PostponedSwitchIsPending
<1>1. IInv => PostponedSwitchIsPending
  BY DEF IInv, Control, CurrentOrIdle, PendingSwitch, PostponedSwitchIsPending
<1>. QED  BY <1>1, SpecIInv, PTL

\* Every stopped thread will close exactly one section (thread_schedule.c:21-40).
THEOREM ParkedThreads == Spec => []SwitchedOutParked
<1>1. IInv => SwitchedOutParked  BY DEF IInv
<1>. QED  BY <1>1, SpecIInv, PTL

\* The stack in use changes in two places only.
LEMMA StackChanges == Next /\ stack' # stack => Switch \/ LeaveIdle
  BY DEF Next, LockPostpone, UnlockPostpone, UnlockIRQ, LockScheduler, UnlockScheduler, SleepCli,
         PitSchedule, BlockTask, UnblockTask, ThreadCreate, ThreadFree, NoSwitch, GoIdle, Irq, Iret

\* The stack changes with interrupts disabled, outside postponed sections and with
\* one section left to close (thread_switch.asm:19-24).
THEOREM SwitchesAreSafe == Spec => SwitchIsSafe
<1> DEFINE Safe == stack' # stack =>
                       /\ ~interrupts'
                       /\ postpone_task_switches_counter = 0
                       /\ IRQ_disable_counter = 1
<1>1. IInv /\ [Next]_vars => [Safe]_vars
  <2> SUFFICES ASSUME IInv, Next, stack' # stack PROVE Safe
    BY DEF vars
  <2>1. CASE Switch
    BY <2>1, Locals DEF Switch, IInv, Control, SectionsCounted, CurrentOrIdle, SectionsPerPlace, InterruptFlag
  <2>2. CASE LeaveIdle
    BY <2>2, Locals DEF LeaveIdle, IInv, Control, SectionsCounted, CurrentOrIdle, SectionsPerPlace
  <2>. QED  BY <2>1, <2>2, StackChanges
<1>. QED  BY <1>1, SpecIInv, PTL DEF Spec, SwitchIsSafe

\* While switches are postponed no handler starts and the current thread stays
\* (thread_schedule.c:78-82).
THEOREM SectionsStayAtomic == Spec => SectionsAreAtomic
<1> DEFINE Atomic == postpone_task_switches_counter > 0 =>
                         /\ current_running_tcb' = current_running_tcb
                         /\ stack' = stack
                         /\ nest'[stack] <= nest[stack]
<1>1. IInv /\ [Next]_vars => [Atomic]_vars
  <2> SUFFICES ASSUME IInv, Next, postpone_task_switches_counter > 0 PROVE Atomic
    BY DEF vars
  <2>1. ~At("schedule") /\ ~At("idle") /\ ~interrupts
    BY Locals DEF IInv, Control, SectionsCounted, CurrentOrIdle, SectionsPerPlace, InterruptFlag
  <2>2. ~Switch /\ ~LeaveIdle /\ ~GoIdle /\ ~NoSwitch /\ ~Irq
    BY <2>1 DEF Switch, LeaveIdle, GoIdle, NoSwitch, Irq
  <2>3. CASE Iret  BY <2>3, Locals DEF Iret, IInv, TypeOK
  <2>4. ASSUME NEW t \in Threads, ThreadCreate(t)
        PROVE  Atomic
    <3>1. t # stack  BY <2>4 DEF ThreadCreate, IInv, Alive
    <3>. QED  BY <2>4, <3>1, Locals DEF ThreadCreate, IInv, TypeOK
  <2>5. CASE ~Iret /\ \A t \in Threads : ~ThreadCreate(t)
    <3>1. nest' = nest /\ stack' = stack /\ current_running_tcb' = current_running_tcb
      BY <2>2, <2>5 DEF Next, LockPostpone, UnlockPostpone, UnlockIRQ, LockScheduler, UnlockScheduler,
                        SleepCli, PitSchedule, BlockTask, UnblockTask, ThreadFree
    <3>. QED  BY <3>1, Locals DEF IInv
  <2>. QED  BY <2>3, <2>4, <2>5
<1>. QED  BY <1>1, SpecIInv, PTL DEF Spec, SectionsAreAtomic

=============================================================================

----------------------------- MODULE Interrupts -----------------------------
(***************************************************************************)
(* The two interrupt controllers, the table of handlers and the order in   *)
(* which Main brings the machine up: interrupts/interrupts_handlers.c,     *)
(* interrupt_descriptor.c, drivers/pit.c, init_keyboard and Main.          *)
(*                                                                         *)
(* A call of irq_new_call or irq_remove_call takes three steps, since it   *)
(* is its cli that keeps others out.  The code calls the first only from   *)
(* Main and the second nowhere; threads that do so stand for drivers to    *)
(* come.  Exceptions are not modelled, nor what keyboard_interrupt does to *)
(* other parts of the kernel when a key comes before a thread has the      *)
(* focus and a queue.                                                      *)
(***************************************************************************)
EXTENDS Naturals, Sequences, FiniteSets

CONSTANTS Lines,         \* the interrupt lines that are wired
          DriverLines,   \* those that threads register and remove
          Threads,
          Kernel,        \* the thread that runs Main
          MaxNest        \* bounds the handlers a thread is in

Timer == 0
Keyboard == 1
Cascade == 2             \* where the second controller is wired to the first
Unmasked == {2, 8, 9}    \* by init_idt: 0xFB and 0xFC

ASSUME LinesAssumption ==
    /\ Lines \subseteq 0..15 /\ {Timer, Keyboard, Cascade} \subseteq Lines
    /\ DriverLines \subseteq Lines \ {Timer, Keyboard, Cascade}
ASSUME KernelAssumption == Kernel \in Threads /\ IsFiniteSet(Threads)
ASSUME NestAssumption == MaxNest \in Nat \ {0}

Calls == {"none", "pit_interrupt", "keyboard_interrupt", "driver"}

VARIABLES at,            \* how far Main is
          created,       \* threads that exist
          current,       \* the thread that has the CPU
          interrupts,    \* the processor takes interrupts
          IrqCalls,      \* handler of each line
          mask,          \* lines the controllers ignore
          requested,     \* lines that wait to be taken
          inService,     \* lines taken whose end has not been told
          nest,          \* handlers each thread is in, the innermost last
          pc, op, value  \* each thread's place in irq_new_call, its arguments, its local

controllers == <<mask, requested, inService>>
calling == <<pc, op, value>>
vars == <<at, created, current, interrupts, IrqCalls, controllers, nest, calling>>

Init ==
    /\ at = 1
    /\ created = {Kernel} /\ current = Kernel
    /\ interrupts = FALSE
    /\ IrqCalls = [l \in Lines |-> "none"]
    /\ mask = Lines /\ requested = {} /\ inService = {}
    /\ nest = [t \in Threads |-> <<>>]
    /\ pc = [t \in Threads |-> "own"]
    /\ op = [t \in Threads |-> [line |-> Timer, call |-> "none"]]
    /\ value = [t \in Threads |-> {}]

-----------------------------------------------------------------------------
\* Slip: the timer is started before there are threads to switch between.
OrderPitFirst == <<"init_idt", "init_heap", "init_keyboard", "init_pit", "init_task", "thread_create", "focus">>

\* What Main does, in this order.
Order == <<"init_idt", "init_heap", "init_keyboard", "init_task", "init_pit", "thread_create", "focus">>

Doing(s) == at <= Len(Order) /\ Order[at] = s
Done(s) == \E i \in 1..Len(Order) : Order[i] = s /\ i < at

\* A thread executes code of its own, not a handler's.
Runs(t) == current = t /\ nest[t] = <<>>

InitIdt ==
    /\ Runs(Kernel) /\ Doing("init_idt")
    /\ mask' = Lines \ Unmasked
    /\ at' = at + 1
    /\ UNCHANGED <<created, current, interrupts, IrqCalls, requested, inService, nest, calling>>

\* init_heap, init_task and the assignment of current_focus_tcb.
Initialise ==
    /\ Runs(Kernel)
    /\ \E s \in {"init_heap", "init_task", "focus"} : Doing(s)
    /\ at' = at + 1
    /\ UNCHANGED <<created, current, interrupts, IrqCalls, controllers, nest, calling>>

ThreadCreate(t) ==
    /\ Runs(Kernel) /\ Doing("thread_create")
    /\ t \notin created
    /\ created' = created \cup {t}
    /\ at' = IF created' = Threads THEN at + 1 ELSE at
    /\ UNCHANGED <<current, interrupts, IrqCalls, controllers, nest, calling>>

-----------------------------------------------------------------------------
Controller(l) == {m \in Lines : m < 8 <=> l < 8}

\* Slip: no cli.
StoreCallWithInterrupts(t, l, call) ==
    /\ Runs(t) /\ pc[t] = "own"
    /\ IrqCalls' = [IrqCalls EXCEPT ![l] = call]
    /\ op' = [op EXCEPT ![t] = [line |-> l, call |-> call]]
    /\ pc' = [pc EXCEPT ![t] = "in"]
    /\ UNCHANGED <<at, created, current, interrupts, controllers, nest, value>>

\* cli, and the handler, or none to remove it, enters the table.
StoreCall(t, l, call) ==
    /\ Runs(t) /\ pc[t] = "own"
    /\ interrupts' = FALSE
    /\ IrqCalls' = [IrqCalls EXCEPT ![l] = call]
    /\ op' = [op EXCEPT ![t] = [line |-> l, call |-> call]]
    /\ pc' = [pc EXCEPT ![t] = "in"]
    /\ UNCHANGED <<at, created, current, controllers, nest, value>>

ReadMask(t) ==
    /\ Runs(t) /\ pc[t] = "in"
    /\ LET old == mask \cap Controller(op[t].line)
       IN  value' = [value EXCEPT ![t] = IF op[t].call = "none"
                                         THEN old \cup {op[t].line}
                                         ELSE old \ {op[t].line}]
    /\ pc' = [pc EXCEPT ![t] = "out"]
    /\ UNCHANGED <<at, created, current, interrupts, IrqCalls, controllers, nest, op>>

\* The new mask and sti; init_keyboard and init_pit end here.
WriteMask(t) ==
    /\ Runs(t) /\ pc[t] = "out"
    /\ mask' = (mask \ Controller(op[t].line)) \cup value[t]
    /\ interrupts' = TRUE
    /\ pc' = [pc EXCEPT ![t] = "own"]
    /\ at' = IF t = Kernel THEN at + 1 ELSE at
    /\ UNCHANGED <<created, current, IrqCalls, requested, inService, nest, op, value>>

InitKeyboard == Doing("init_keyboard") /\ StoreCall(Kernel, Keyboard, "keyboard_interrupt")
InitPit == Doing("init_pit") /\ StoreCall(Kernel, Timer, "pit_interrupt")

\* A thread's irq_new_call and irq_remove_call.
DriverNewCall(t) == t # Kernel /\ \E l \in DriverLines : StoreCall(t, l, "driver")
DriverRemoveCall(t) == t # Kernel /\ \E l \in DriverLines : StoreCall(t, l, "none")

-----------------------------------------------------------------------------
\* A device asks for attention; a masked line remembers it.
Raise(l) ==
    /\ l # Cascade
    /\ requested' = requested \cup {l}
    /\ UNCHANGED <<at, created, current, interrupts, IrqCalls, mask, inService, nest, calling>>

\* Lines of the second controller rank as the line it is wired to.
Rank(l) == IF l < 8 THEN 16 * l ELSE 16 * Cascade + l

\* What the controllers would pass on to the processor, if nothing ranks higher.
Pending(l) ==
    /\ l \in requested \ mask
    /\ l >= 8 => Cascade \notin mask
    /\ \A m \in inService : Rank(m) > Rank(l)

Frame(t) == nest[t][Len(nest[t])]
Moved(t, stage) == [nest EXCEPT ![t][Len(nest[t])].stage = stage]

\* The processor takes an interrupt; the gate disables further ones.
Deliver(l) ==
    /\ interrupts
    /\ Pending(l) /\ \A m \in Lines : Pending(m) => Rank(m) >= Rank(l)
    /\ Len(nest[current]) < MaxNest
    /\ interrupts' = FALSE
    /\ requested' = requested \ {l}
    /\ inService' = inService \cup {l} \cup (IF l >= 8 THEN {Cascade} ELSE {})
    /\ nest' = [nest EXCEPT ![current] = Append(@, [line |-> l, stage |-> "eoi"])]
    /\ UNCHANGED <<at, created, current, IrqCalls, mask, calling>>

\* A controller that is told the end of an interrupt takes it to be the highest ranking one.
Ended(c) == {m \in inService \cap c : \A n \in inService \cap c : Rank(m) <= Rank(n)}

\* Slip: only the second controller is told.
SendEoiToSecond ==
    /\ nest[current] # <<>> /\ Frame(current).stage = "eoi"
    /\ inService' = inService \ Ended(Controller(Frame(current).line))
    /\ nest' = Moved(current, "call")
    /\ UNCHANGED <<at, created, current, interrupts, IrqCalls, mask, requested, calling>>

\* irq_handler tells the controllers first of all.
SendEoi ==
    /\ nest[current] # <<>> /\ Frame(current).stage = "eoi"
    /\ LET l == Frame(current).line
       IN  inService' = (inService \ Ended(Controller(Timer)))
                            \ (IF l >= 8 THEN Ended(Controller(l)) ELSE {})
    /\ nest' = Moved(current, "call")
    /\ UNCHANGED <<at, created, current, interrupts, IrqCalls, mask, requested, calling>>

\* The handler's call.  pit_interrupt and keyboard_interrupt end a section of their
\* own, which enables interrupts unless the idle loop they interrupted has one open;
\* pit_interrupt may switch threads there.
CallHandler ==
    /\ nest[current] # <<>> /\ Frame(current).stage = "call"
    /\ nest' = Moved(current, "iret")
    /\ LET call == IrqCalls[Frame(current).line]
       IN  \/ UNCHANGED <<interrupts, current>>
           \/ /\ call \in {"pit_interrupt", "keyboard_interrupt"}
              /\ interrupts' = TRUE
              /\ \/ UNCHANGED current
                 \/ call = "pit_interrupt" /\ current' \in created
    /\ UNCHANGED <<at, created, IrqCalls, controllers, calling>>

Iret ==
    /\ nest[current] # <<>> /\ Frame(current).stage = "iret"
    /\ nest' = [nest EXCEPT ![current] = SubSeq(@, 1, Len(@) - 1)]
    /\ interrupts' = TRUE
    /\ UNCHANGED <<at, created, current, IrqCalls, controllers, calling>>

\* A thread sleeps, waits or ends; once Main is done its thread does so as well.
BlockTask ==
    /\ Runs(current) /\ pc[current] = "own" /\ interrupts
    /\ current = Kernel => Done("focus")
    /\ current' \in created \ {current}
    /\ UNCHANGED <<at, created, interrupts, IrqCalls, controllers, nest, calling>>

Next ==
    \/ InitIdt \/ Initialise \/ InitKeyboard \/ InitPit
    \/ \E t \in Threads :
           \/ ThreadCreate(t) \/ DriverNewCall(t) \/ DriverRemoveCall(t)
           \/ ReadMask(t) \/ WriteMask(t)
    \/ \E l \in Lines : Raise(l) \/ Deliver(l)
    \/ SendEoi \/ CallHandler \/ Iret \/ BlockTask

Spec == Init /\ [][Next]_vars

-----------------------------------------------------------------------------
TypeOK ==
    /\ at \in 1..(Len(Order) + 1)
    /\ created \subseteq Threads /\ current \in created
    /\ interrupts \in BOOLEAN
    /\ IrqCalls \in [Lines -> Calls]
    /\ mask \subseteq Lines /\ requested \subseteq Lines /\ inService \subseteq Lines
    /\ \A t \in Threads : \A i \in 1..Len(nest[t]) :
           nest[t][i] \in [line : Lines, stage : {"eoi", "call", "iret"}]
    /\ pc \in [Threads -> {"own", "in", "out"}]
    /\ op \in [Threads -> [line : Lines, call : Calls]]
    /\ value \in [Threads -> SUBSET Lines]

\* Nobody is between storing a handler of this line and writing the mask.
Settled(l) == \A t \in Threads : pc[t] = "own" \/ op[t].line # l

\* Although both calls read, change and write back the mask of a whole controller,
\* no other line's bit is lost: every line with a handler is heard, and every line
\* without is silent, apart from those init_idt leaves open
\* (interrupts_handlers.c:103-119, 135-151; interrupt_descriptor.c:110-111).
MasksFollowCalls ==
    Done("init_idt") => \A l \in Lines : Settled(l) =>
        /\ IrqCalls[l] # "none" => l \notin mask
        /\ IrqCalls[l] = "none" /\ l \notin Unmasked => l \in mask

\* A controller keeps a line in service only until the handler's first action, so
\* the end it is told of is always that of the line being handled, also with nested
\* handlers and across switches, and no line is blocked for good
\* (interrupts_handlers.c:88-90).
EveryEoiIsOwn ==
    /\ TypeOK
    /\ inService =
           IF nest[current] # <<>> /\ Frame(current).stage = "eoi"
           THEN LET l == Frame(current).line IN {l} \cup (IF l >= 8 THEN {Cascade} ELSE {})
           ELSE {}

\* Although irq_new_call enables interrupts while Main is still at work, and lines
\* remember what came while they were masked, no handler runs before what it uses is
\* there: the lists and a current thread for pit_interrupt, the heap for
\* keyboard_interrupt (Kernel.c:95-120; interrupts_handlers.c:92-95, 119).
HandlersFindTheirData ==
    \A t \in Threads : \A i \in 1..Len(nest[t]) :
        LET call == IrqCalls[nest[t][i].line] IN
        nest[t][i].stage = "call" =>
            /\ call = "pit_interrupt" => Done("init_task")
            /\ call = "keyboard_interrupt" => Done("init_heap")

=============================================================================

-------------------------- MODULE InterruptsProofs --------------------------
(***************************************************************************)
(* For every set of lines and threads and every depth of nesting: the      *)
(* masks follow the handlers, the controllers are told of the right line's *)
(* end, and no handler runs before what it uses is there.                  *)
(***************************************************************************)
EXTENDS Interrupts, TLAPS

Frames == [line : Lines, stage : {"eoi", "call", "iret"}]

Types ==
    /\ at \in 1..8
    /\ created \subseteq Threads /\ current \in created
    /\ interrupts \in BOOLEAN
    /\ IrqCalls \in [Lines -> Calls]
    /\ mask \subseteq Lines /\ requested \subseteq Lines /\ inService \subseteq Lines
    /\ nest \in [Threads -> Seq(Frames)]
    /\ pc \in [Threads -> {"own", "in", "out"}]
    /\ op \in [Threads -> [line : Lines, call : Calls]]
    /\ value \in [Threads -> SUBSET Lines]

\* What Main has not come to has not happened.
MainFirst ==
    /\ at < 6 => created = {Kernel}
    /\ pc[Kernel] # "own" => at \in {3, 5}
    /\ \A l \in Lines :
           /\ at = 1 => IrqCalls[l] = "none"
           /\ IrqCalls[l] = "pit_interrupt" => at > 4
           /\ IrqCalls[l] = "keyboard_interrupt" => at > 2

\* Who is inside irq_new_call or irq_remove_call has the processor to itself.
CallsAlone ==
    \A t \in Threads : pc[t] # "own" =>
        t = current /\ nest[t] = <<>> /\ ~interrupts /\ at > 1

\* A frame that has not come to its iret is the newest of the current thread.
FramesAlone ==
    \A t \in Threads : \A i \in 1..Len(nest[t]) : nest[t][i].stage # "iret" =>
        t = current /\ i = Len(nest[t]) /\ ~interrupts

\* What a thread has read of the mask is still so when it writes the mask.
ReadIsFresh ==
    \A t \in Threads :
        /\ pc[t] # "own" => IrqCalls[op[t].line] = op[t].call
        /\ pc[t] = "out" => \A l \in Lines :
               l \in value[t] <=>
                   /\ l \in Controller(op[t].line)
                   /\ IF l = op[t].line THEN op[t].call = "none" ELSE l \in mask

ServedIsOwn ==
    inService =
        IF nest[current] # <<>> /\ Frame(current).stage = "eoi"
        THEN LET l == Frame(current).line IN {l} \cup (IF l >= 8 THEN {Cascade} ELSE {})
        ELSE {}

IInv ==
    /\ Types /\ MainFirst /\ CallsAlone /\ FramesAlone /\ ReadIsFresh /\ ServedIsOwn
    /\ MasksFollowCalls

-----------------------------------------------------------------------------
LEMMA OrderIs ==
    /\ Len(Order) = 7
    /\ Order[1] = "init_idt" /\ Order[2] = "init_heap" /\ Order[3] = "init_keyboard"
    /\ Order[4] = "init_task" /\ Order[5] = "init_pit" /\ Order[6] = "thread_create"
    /\ Order[7] = "focus"
    BY DEF Order

LEMMA PlacesInOrder ==
    ASSUME Types
    PROVE  /\ Done("init_idt") <=> at > 1
           /\ Done("init_heap") <=> at > 2
           /\ Done("init_task") <=> at > 4
           /\ Doing("init_idt") <=> at = 1
           /\ Doing("init_keyboard") <=> at = 3
           /\ Doing("init_pit") <=> at = 5
           /\ Doing("thread_create") <=> at = 6
           /\ (\E s \in {"init_heap", "init_task", "focus"} : Doing(s)) <=> at \in {2, 4, 7}
<1>1. 1..7 = {1, 2, 3, 4, 5, 6, 7}
    OBVIOUS
<1>2. at \in {1, 2, 3, 4, 5, 6, 7, 8}
    BY DEF Types
<1>3. Done("init_idt") <=> at > 1
    BY <1>1, <1>2, OrderIs DEF Done
<1>4. Done("init_heap") <=> at > 2
    BY <1>1, <1>2, OrderIs DEF Done
<1>5. Done("init_task") <=> at > 4
    BY <1>1, <1>2, OrderIs DEF Done
<1>6. \A s : Doing(s) <=> at # 8 /\ Order[at] = s
    BY <1>2, OrderIs DEF Doing
<1>. QED BY <1>2, <1>3, <1>4, <1>5, <1>6, OrderIs

\* What a step keeps that touches neither the masks, the calls nor the handlers.
LEMMA MainStep ==
    ASSUME IInv, UNCHANGED <<current, interrupts, IrqCalls, inService, requested, nest, calling>>,
           Runs(Kernel), at' \in 1..8, at' >= at, pc[Kernel] = "own" \/ at' = at,
           created \subseteq created', created' \subseteq Threads,
           created' = created \/ at = 6, at' # at => at' = at + 1,
           IF at = 1 THEN mask' = Lines \ Unmasked ELSE mask' = mask
    PROVE  IInv'
<1>1. /\ Types /\ MainFirst /\ CallsAlone /\ FramesAlone /\ ReadIsFresh /\ ServedIsOwn
      /\ MasksFollowCalls
    BY DEF IInv
<1>2. Types'
    BY <1>1 DEF Types, calling
<1>3. MainFirst'
    BY <1>1 DEF MainFirst, Types, calling
<1>4. CallsAlone'
    BY <1>1 DEF CallsAlone, Types, calling
<1>5. FramesAlone'
    BY <1>1 DEF FramesAlone
<1>6. ReadIsFresh'
  <2>1. CASE at # 1
      BY <1>1, <2>1 DEF ReadIsFresh, calling
  <2>2. CASE at = 1
    <3>1. \A t \in Threads : pc[t] = "own"
        BY <2>2, <1>1 DEF CallsAlone, Types
    <3>. QED BY <3>1 DEF ReadIsFresh, calling
  <2>. QED BY <2>1, <2>2
<1>7. ServedIsOwn'
    BY <1>1 DEF ServedIsOwn, Frame
<1>8. MasksFollowCalls'
  <2>1. Types /\ Types'
      BY <1>1, <1>2
  <2>2. CASE at = 1
    <3>1. \A l \in Lines : IrqCalls'[l] = "none"
        BY <2>2, <1>1 DEF MainFirst
    <3>. QED BY <3>1, <2>2 DEF MasksFollowCalls
  <2>3. CASE at # 1
    <3>1. Done("init_idt")
        BY <2>1, <2>3, PlacesInOrder DEF Types
    <3>. QED BY <3>1, <2>3, <1>1 DEF MasksFollowCalls, Settled, calling
  <2>. QED BY <2>2, <2>3
<1>. QED BY <1>2, <1>3, <1>4, <1>5, <1>6, <1>7, <1>8 DEF IInv

LEMMA OneReplaced ==
    ASSUME NEW S, NEW s \in Seq(S), NEW k \in 1..Len(s), NEW e \in S
    PROVE  /\ [s EXCEPT ![k] = e] \in Seq(S) /\ Len([s EXCEPT ![k] = e]) = Len(s)
           /\ [s EXCEPT ![k] = e][k] = e
           /\ \A i \in 1..Len(s) : i # k => [s EXCEPT ![k] = e][i] = s[i]
    OBVIOUS

\* The frames after the innermost of the current thread has moved to another stage.
LEMMA MovedFrames ==
    ASSUME Types, nest[current] # <<>>, NEW stage \in {"eoi", "call", "iret"},
           nest' = Moved(current, stage)
    PROVE  /\ Len(nest[current]) \in Nat \ {0}
           /\ nest' \in [Threads -> Seq(Frames)]
           /\ \A t \in Threads : t # current => nest'[t] = nest[t]
           /\ Len(nest'[current]) = Len(nest[current]) /\ nest'[current] # <<>>
           /\ nest'[current][Len(nest[current])].stage = stage
           /\ nest'[current][Len(nest[current])].line = nest[current][Len(nest[current])].line
           /\ \A i \in 1..Len(nest[current]) :
                  i # Len(nest[current]) => nest'[current][i] = nest[current][i]
<1> DEFINE n == nest[current]
           k == Len(n)
           m == [n EXCEPT ![k].stage = stage]
<1>1. current \in Threads /\ n \in Seq(Frames) /\ nest \in [Threads -> Seq(Frames)]
    BY DEF Types
<1>2. k \in Nat \ {0} /\ n[k] \in Frames
    BY <1>1
<1>3. nest' = [nest EXCEPT ![current] = m]
    BY <1>1 DEF Moved
<1>4. /\ m \in Seq(Frames) /\ Len(m) = k
      /\ m[k] = [n[k] EXCEPT !.stage = stage]
      /\ \A i \in 1..k : i # k => m[i] = n[i]
  <2>1. [n[k] EXCEPT !.stage = stage] \in Frames
      BY <1>2 DEF Frames
  <2>. HIDE DEF k, n
  <2>2. m = [n EXCEPT ![k] = [n[k] EXCEPT !.stage = stage]]
      OBVIOUS
  <2>3. n \in Seq(Frames) /\ k \in 1..Len(n) /\ Len(n) = k
      BY <1>1, <1>2 DEF k
  <2>. HIDE DEF m
  <2>. QED BY <2>1, <2>2, <2>3, OneReplaced
<1>5. nest'[current] = m /\ nest' \in [Threads -> Seq(Frames)]
    BY <1>1, <1>3, <1>4
<1>6. \A t \in Threads : t # current => nest'[t] = nest[t]
    BY <1>1, <1>3
<1>7. m[k].stage = stage /\ m[k].line = n[k].line
    BY <1>2, <1>4 DEF Frames
<1>8. m # <<>>
    BY <1>2, <1>4
<1>. QED BY <1>1, <1>2, <1>4, <1>5, <1>6, <1>7, <1>8

\* A handler's step, and one that gives the processor to another thread, leave
\* what Main and the calls keep; here no thread is inside a call.
LEMMA HandlerStep ==
    ASSUME IInv, UNCHANGED <<at, created, IrqCalls, mask, calling>>,
           \A t \in Threads : pc[t] = "own",
           current' \in created, interrupts' \in BOOLEAN,
           requested' \subseteq Lines, inService' \subseteq Lines,
           nest' \in [Threads -> Seq(Frames)], FramesAlone', ServedIsOwn'
    PROVE  IInv'
<1>1. /\ Types /\ MainFirst /\ CallsAlone /\ ReadIsFresh /\ MasksFollowCalls
    BY DEF IInv
<1>2. Types'
    BY <1>1 DEF Types, calling
<1>3. MainFirst'
    BY <1>1 DEF MainFirst, calling
<1>4. CallsAlone'
    BY DEF CallsAlone, calling
<1>5. ReadIsFresh'
    BY DEF ReadIsFresh, calling
<1>6. MasksFollowCalls'
  <2>1. Done("init_idt")' = Done("init_idt")
      BY DEF Done
  <2>. QED BY <1>1, <2>1 DEF MasksFollowCalls, Settled, calling
<1>. QED BY <1>2, <1>3, <1>4, <1>5, <1>6 DEF IInv

\* While a handler runs nobody is inside a call.
LEMMA HandlerAlone ==
    ASSUME IInv, nest[current] # <<>> \/ interrupts \/ pc[current] = "own"
    PROVE  \A t \in Threads : pc[t] = "own"
    BY DEF IInv, CallsAlone, Types

LEMMA DeliverStep == ASSUME IInv, NEW l \in Lines, Deliver(l) PROVE IInv'
<1> DEFINE f == [line |-> l, stage |-> "eoi"]
<1>1. Types /\ FramesAlone /\ ServedIsOwn /\ \A t \in Threads : pc[t] = "own"
    BY HandlerAlone DEF IInv, Deliver
<1>2. /\ interrupts /\ interrupts' = FALSE /\ current' = current /\ current \in created
      /\ UNCHANGED <<at, created, current, IrqCalls, mask, calling>>
    BY <1>1 DEF Deliver, Types
<1>3. current \in Threads /\ nest[current] \in Seq(Frames) /\ f \in Frames
    BY <1>1 DEF Types, Frames
<1>4. /\ nest' \in [Threads -> Seq(Frames)]
      /\ nest'[current] = Append(nest[current], f)
      /\ \A t \in Threads : t # current => nest'[t] = nest[t]
    BY <1>1, <1>3 DEF Deliver, Types
<1>5. /\ Len(nest'[current]) = Len(nest[current]) + 1 /\ Len(nest[current]) \in Nat
      /\ nest'[current][Len(nest[current]) + 1] = f
      /\ \A i \in 1..Len(nest[current]) : nest'[current][i] = nest[current][i]
      /\ nest'[current] # <<>>
    BY <1>3, <1>4
<1>6. \A t \in Threads : \A i \in 1..Len(nest[t]) : nest[t][i].stage = "iret"
    BY <1>1, <1>2 DEF FramesAlone
<1>7. FramesAlone'
    BY <1>2, <1>4, <1>5, <1>6 DEF FramesAlone
<1>8. nest[current] = <<>> \/ Frame(current).stage # "eoi"
    BY <1>3, <1>6 DEF Frame
<1>9. inService = {}
    BY <1>1, <1>8 DEF ServedIsOwn
<1>10. inService' = {l} \cup (IF l >= 8 THEN {Cascade} ELSE {})
    BY <1>9 DEF Deliver
<1>11. ServedIsOwn'
  <2>1. Frame(current)' = f
      BY <1>2, <1>5 DEF Frame
  <2>. QED BY <1>2, <1>5, <1>10, <2>1 DEF ServedIsOwn
<1>12. inService' \subseteq Lines /\ requested' \subseteq Lines
    BY <1>1, <1>10, LinesAssumption DEF Deliver, Types
<1>. QED BY <1>1, <1>2, <1>4, <1>7, <1>11, <1>12, HandlerStep

LEMMA SendEoiStep == ASSUME IInv, SendEoi PROVE IInv'
<1> DEFINE k == Len(nest[current])
           l == Frame(current).line
<1>1. Types /\ FramesAlone /\ ServedIsOwn /\ \A t \in Threads : pc[t] = "own"
    BY HandlerAlone DEF IInv, SendEoi
<1>2. /\ UNCHANGED <<at, created, current, interrupts, IrqCalls, mask, requested, calling>>
      /\ nest[current] # <<>> /\ Frame(current).stage = "eoi"
      /\ nest' = Moved(current, "call")
      /\ current \in Threads
    BY <1>1 DEF SendEoi, Types
<1>3. /\ nest' \in [Threads -> Seq(Frames)] /\ nest'[current] # <<>>
      /\ \A t \in Threads : t # current => nest'[t] = nest[t]
      /\ Len(nest'[current]) = k /\ k \in Nat \ {0}
      /\ nest'[current][k].stage = "call"
      /\ \A i \in 1..k : i # k => nest'[current][i] = nest[current][i]
    BY <1>1, <1>2, MovedFrames
<1>4. FramesAlone'
  <2>1. k \in 1..k /\ nest[current][k].stage # "iret"
      BY <1>2, <1>3 DEF Frame
  <2>. QED BY <2>1, <1>1, <1>2, <1>3 DEF FramesAlone
<1>5. l \in Lines
  <2>1. nest[current] \in Seq(Frames) /\ k \in 1..Len(nest[current])
      BY <1>1, <1>2, <1>3 DEF Types
  <2>2. nest[current][k] \in Frames
      BY <2>1
  <2>. QED BY <2>2 DEF Frame, Frames
<1>6. inService = {l} \cup (IF l >= 8 THEN {Cascade} ELSE {})
    BY <1>1, <1>2 DEF ServedIsOwn
<1>7. inService' = (inService \ Ended(Controller(Timer)))
                       \ (IF l >= 8 THEN Ended(Controller(l)) ELSE {})
    BY DEF SendEoi
<1>8. inService' = {}
  <2>1. l \in 0..15 /\ Cascade \in Lines /\ Cascade = 2 /\ Timer = 0
      BY <1>5, LinesAssumption DEF Cascade, Timer
  <2>2. Rank(l) <= Rank(l) /\ Rank(Cascade) <= Rank(Cascade)
      BY <2>1 DEF Rank
  <2>. HIDE DEF l
  <2>3. CASE l < 8
    <3>1. inService \cap Controller(Timer) = {l} /\ inService = {l}
        BY <1>5, <1>6, <2>1, <2>3 DEF Controller
    <3>2. Ended(Controller(Timer)) = {l}
        BY <3>1, <2>2 DEF Ended
    <3>. QED BY <3>1, <3>2, <1>7, <2>1, <2>3
  <2>4. CASE l >= 8
    <3>1. /\ inService = {l, Cascade}
          /\ inService \cap Controller(Timer) = {Cascade}
          /\ inService \cap Controller(l) = {l}
        BY <1>5, <1>6, <2>1, <2>4 DEF Controller
    <3>2. Ended(Controller(Timer)) = {Cascade} /\ Ended(Controller(l)) = {l}
        BY <3>1, <2>2 DEF Ended
    <3>. QED BY <3>1, <3>2, <1>7, <2>4
  <2>. QED BY <2>1, <2>3, <2>4
<1>9. ServedIsOwn'
  <2>1. Frame(current)'.stage = "call"
      BY <1>2, <1>3 DEF Frame
  <2>. QED BY <2>1, <1>8 DEF ServedIsOwn
<1>10. current' \in created /\ interrupts' \in BOOLEAN
      /\ requested' \subseteq Lines /\ inService' \subseteq Lines
    BY <1>1, <1>2, <1>8 DEF Types
<1>. QED BY <1>1, <1>2, <1>3, <1>4, <1>9, <1>10, HandlerStep

\* When every frame has come to its iret no line is in service.
LEMMA AtIretStep ==
    ASSUME IInv, UNCHANGED <<at, created, IrqCalls, mask, requested, inService, calling>>,
           \A t \in Threads : pc[t] = "own",
           current' \in created, interrupts' \in BOOLEAN,
           nest[current] = <<>> \/ Frame(current).stage # "eoi",
           nest' \in [Threads -> Seq(Frames)],
           \A t \in Threads : \A i \in 1..Len(nest'[t]) : nest'[t][i].stage = "iret"
    PROVE  IInv'
<1>1. Types /\ ServedIsOwn
    BY DEF IInv
<1>2. inService' = {}
    BY <1>1 DEF ServedIsOwn
<1>3. nest'[current'] # <<>> => Frame(current)'.stage = "iret"
  <2>1. nest'[current'] \in Seq(Frames)
      BY <1>1 DEF Types
  <2>2. nest'[current'] # <<>> => Len(nest'[current']) \in 1..Len(nest'[current'])
      BY <2>1
  <2>. QED BY <1>1, <2>2 DEF Frame, Types
<1>4. ServedIsOwn'
    BY <1>2, <1>3 DEF ServedIsOwn
<1>5. FramesAlone'
    BY DEF FramesAlone
<1>6. requested' \subseteq Lines /\ inService' \subseteq Lines
    BY <1>1 DEF Types
<1>. QED BY <1>4, <1>5, <1>6, HandlerStep

LEMMA CallHandlerStep == ASSUME IInv, CallHandler PROVE IInv'
<1>1. Types /\ FramesAlone /\ \A t \in Threads : pc[t] = "own"
    BY HandlerAlone DEF IInv, CallHandler
<1>2. /\ UNCHANGED <<at, created, IrqCalls, mask, requested, inService, calling>>
      /\ nest[current] # <<>> /\ Frame(current).stage = "call"
      /\ nest' = Moved(current, "iret")
      /\ current \in Threads
    BY <1>1 DEF CallHandler, Types, controllers
<1>3. current' \in created /\ interrupts' \in BOOLEAN
    BY <1>1 DEF CallHandler, Types
<1>4. \A t \in Threads : \A i \in 1..Len(nest'[t]) : nest'[t][i].stage = "iret"
    BY <1>1, <1>2, MovedFrames DEF FramesAlone
<1>. QED BY <1>1, <1>2, <1>3, <1>4, AtIretStep, MovedFrames

LEMMA IretStep == ASSUME IInv, Iret PROVE IInv'
<1> DEFINE n == nest[current]
<1>1. Types /\ FramesAlone /\ \A t \in Threads : pc[t] = "own"
    BY HandlerAlone DEF IInv, Iret
<1>2. /\ UNCHANGED <<at, created, current, IrqCalls, mask, requested, inService, calling>>
      /\ n # <<>> /\ Frame(current).stage = "iret" /\ interrupts'
      /\ current \in created /\ current \in Threads /\ n \in Seq(Frames)
    BY <1>1 DEF Iret, Types, controllers
<1>3. /\ nest' \in [Threads -> Seq(Frames)]
      /\ nest'[current] = SubSeq(n, 1, Len(n) - 1)
      /\ \A t \in Threads : t # current => nest'[t] = nest[t]
    BY <1>1, <1>2 DEF Iret, Types
<1>4. /\ Len(nest'[current]) = Len(n) - 1 /\ Len(n) \in Nat \ {0}
      /\ \A i \in 1..(Len(n) - 1) : nest'[current][i] = n[i]
    BY <1>2, <1>3
<1>5. \A t \in Threads : \A i \in 1..Len(nest'[t]) : nest'[t][i].stage = "iret"
    BY <1>1, <1>3, <1>4 DEF FramesAlone
<1>. QED BY <1>1, <1>2, <1>3, <1>5, AtIretStep

LEMMA BlockTaskStep == ASSUME IInv, BlockTask PROVE IInv'
<1>1. Types /\ FramesAlone /\ \A t \in Threads : pc[t] = "own"
    BY HandlerAlone DEF IInv, BlockTask
<1>2. /\ UNCHANGED <<at, created, interrupts, IrqCalls, mask, requested, inService, calling, nest>>
      /\ nest[current] = <<>> /\ interrupts /\ current' \in created
    BY DEF BlockTask, controllers, Runs
<1>3. \A t \in Threads : \A i \in 1..Len(nest[t]) : nest[t][i].stage = "iret"
    BY <1>1, <1>2 DEF FramesAlone
<1>. QED BY <1>1, <1>2, <1>3, AtIretStep DEF Types

LEMMA RaiseStep == ASSUME IInv, NEW l \in Lines, Raise(l) PROVE IInv'
<1>1. /\ UNCHANGED <<at, created, current, interrupts, IrqCalls, mask, inService, nest, calling>>
      /\ requested' \subseteq Lines
    BY DEF Raise, IInv, Types
<1>2. Types'
    BY <1>1 DEF IInv, Types, calling
<1>3. MainFirst' /\ CallsAlone' /\ FramesAlone' /\ ReadIsFresh'
    BY <1>1 DEF IInv, MainFirst, CallsAlone, FramesAlone, ReadIsFresh, calling
<1>4. ServedIsOwn'
    BY <1>1 DEF IInv, ServedIsOwn, Frame
<1>5. MasksFollowCalls'
    BY <1>1 DEF IInv, MasksFollowCalls, Settled, Done, calling
<1>. QED BY <1>2, <1>3, <1>4, <1>5 DEF IInv

\* Outside handlers and calls: one thread stores a handler, with interrupts off.
LEMMA StoreCallStep ==
    ASSUME IInv, NEW t \in Threads, NEW l \in Lines, NEW call \in Calls, StoreCall(t, l, call),
           IF t = Kernel THEN at \in {3, 5} ELSE call \in {"none", "driver"},
           call = "pit_interrupt" => at > 4, call = "keyboard_interrupt" => at > 2
    PROVE  IInv'
<1>1. /\ Types /\ MainFirst /\ CallsAlone /\ FramesAlone /\ ReadIsFresh /\ ServedIsOwn
      /\ MasksFollowCalls
    BY DEF IInv
<1>2. /\ UNCHANGED <<at, created, current, mask, requested, inService, nest, value>>
      /\ interrupts' = FALSE /\ current = t /\ nest[t] = <<>> /\ pc[t] = "own"
    BY DEF StoreCall, Runs, controllers
<1>3. /\ IrqCalls' \in [Lines -> Calls] /\ IrqCalls'[l] = call
      /\ \A m \in Lines : m # l => IrqCalls'[m] = IrqCalls[m]
    BY <1>1 DEF StoreCall, Types
<1>4. /\ op' \in [Threads -> [line : Lines, call : Calls]]
      /\ op'[t].line = l /\ op'[t].call = call
    BY <1>1 DEF StoreCall, Types
<1>5. /\ pc' \in [Threads -> {"own", "in", "out"}] /\ pc'[t] = "in"
      /\ \A u \in Threads : u # t => pc'[u] = pc[u]
    BY <1>1 DEF StoreCall, Types
<1>6. \A u \in Threads : u # t => pc'[u] = "own"
    BY <1>1, <1>2, <1>5 DEF CallsAlone
<1>7. at > 1
    BY <1>1, <1>2 DEF MainFirst, Types
<1>8. Types'
    BY <1>1, <1>2, <1>3, <1>4, <1>5 DEF Types
<1>9. MainFirst'
  <2>1. pc'[Kernel] # "own" => at \in {3, 5}
      BY <1>6, KernelAssumption
  <2>2. \A m \in Lines :
            /\ at = 1 => IrqCalls'[m] = "none"
            /\ IrqCalls'[m] = "pit_interrupt" => at > 4
            /\ IrqCalls'[m] = "keyboard_interrupt" => at > 2
      BY <1>1, <1>3, <1>7 DEF MainFirst, Types
  <2>. QED BY <1>1, <1>2, <2>1, <2>2 DEF MainFirst
<1>10. CallsAlone' /\ FramesAlone'
    BY <1>1, <1>2, <1>5, <1>6, <1>7 DEF CallsAlone, FramesAlone
<1>11. ReadIsFresh'
    BY <1>3, <1>4, <1>5, <1>6 DEF ReadIsFresh
<1>12. ServedIsOwn'
    BY <1>1, <1>2 DEF ServedIsOwn, Frame
<1>13. MasksFollowCalls'
  <2>1. \A m \in Lines : Settled(m)' => m # l
      BY <1>4, <1>5 DEF Settled
  <2>2. \A u \in Threads : pc[u] = "own"
      BY <1>2, <1>5, <1>6
  <2>3. Done("init_idt")' = Done("init_idt")
      BY <1>2 DEF Done
  <2>. QED BY <1>1, <1>2, <1>3, <2>1, <2>2, <2>3 DEF MasksFollowCalls, Settled
<1>. QED BY <1>8, <1>9, <1>10, <1>11, <1>12, <1>13 DEF IInv

LEMMA ReadMaskStep == ASSUME IInv, NEW t \in Threads, ReadMask(t) PROVE IInv'
<1> DEFINE old == mask \cap Controller(op[t].line)
           new == IF op[t].call = "none" THEN old \cup {op[t].line} ELSE old \ {op[t].line}
<1>1. /\ Types /\ MainFirst /\ CallsAlone /\ FramesAlone /\ ReadIsFresh /\ ServedIsOwn
      /\ MasksFollowCalls
    BY DEF IInv
<1>2. /\ UNCHANGED <<at, created, current, interrupts, IrqCalls, mask, requested, inService, nest, op>>
      /\ current = t /\ nest[t] = <<>> /\ pc[t] = "in" /\ ~interrupts /\ at > 1
    BY <1>1 DEF ReadMask, Runs, controllers, CallsAlone
<1>3. op[t].line \in Lines /\ op[t].line \in Controller(op[t].line)
    BY <1>1 DEF Types, Controller
<1>4. /\ value' \in [Threads -> SUBSET Lines] /\ value'[t] = new
    BY <1>1, <1>3 DEF ReadMask, Types
<1>5. /\ pc' \in [Threads -> {"own", "in", "out"}] /\ pc'[t] = "out"
      /\ \A u \in Threads : u # t => pc'[u] = pc[u]
    BY <1>1 DEF ReadMask, Types
<1>6. \A u \in Threads : u # t => pc'[u] = "own"
    BY <1>1, <1>2, <1>5 DEF CallsAlone
<1>7. Types'
    BY <1>1, <1>2, <1>4, <1>5 DEF Types
<1>8. MainFirst'
    BY <1>1, <1>2, <1>5, KernelAssumption DEF MainFirst
<1>9. CallsAlone' /\ FramesAlone'
    BY <1>1, <1>2, <1>5, <1>6 DEF CallsAlone, FramesAlone
<1>10. ReadIsFresh'
  <2>1. IrqCalls[op[t].line] = op[t].call
      BY <1>1, <1>2 DEF ReadIsFresh
  <2>2. \A l \in Lines : l \in new <=>
            /\ l \in Controller(op[t].line)
            /\ IF l = op[t].line THEN op[t].call = "none" ELSE l \in mask
      BY <1>3
  <2>. QED BY <1>2, <1>4, <1>6, <2>1, <2>2 DEF ReadIsFresh, Controller
<1>11. ServedIsOwn'
    BY <1>1, <1>2 DEF ServedIsOwn, Frame
<1>12. MasksFollowCalls'
  <2>1. \A l \in Lines : Settled(l)' => Settled(l)
      BY <1>2, <1>5 DEF Settled
  <2>2. Done("init_idt")' = Done("init_idt")
      BY <1>2 DEF Done
  <2>. QED BY <1>1, <1>2, <2>1, <2>2 DEF MasksFollowCalls
<1>. QED BY <1>7, <1>8, <1>9, <1>10, <1>11, <1>12 DEF IInv

\* Nobody else has been inside a call since the mask was read.
LEMMA WriteMaskStep == ASSUME IInv, NEW t \in Threads, WriteMask(t) PROVE IInv'
<1> DEFINE l == op[t].line
<1>1. /\ Types /\ MainFirst /\ CallsAlone /\ FramesAlone /\ ReadIsFresh /\ ServedIsOwn
      /\ MasksFollowCalls
    BY DEF IInv
<1>2. /\ UNCHANGED <<created, current, IrqCalls, requested, inService, nest, op, value>>
      /\ current = t /\ nest[t] = <<>> /\ pc[t] = "out" /\ at > 1
      /\ interrupts' = TRUE
      /\ at' = IF t = Kernel THEN at + 1 ELSE at
      /\ mask' = (mask \ Controller(l)) \cup value[t]
    BY <1>1 DEF WriteMask, Runs, controllers, CallsAlone
<1>3. l \in Lines /\ value[t] \subseteq Lines /\ mask' \subseteq Lines
    BY <1>1, <1>2 DEF Types
<1>4. /\ pc' \in [Threads -> {"own", "in", "out"}] /\ pc'[t] = "own"
      /\ \A u \in Threads : u # t => pc'[u] = pc[u]
    BY <1>1 DEF WriteMask, Types
<1>5. \A u \in Threads : pc'[u] = "own"
    BY <1>1, <1>2, <1>4 DEF CallsAlone
<1>6. at' \in 1..8 /\ at' >= at /\ (at' < 6 => at < 6) /\ at' > 1
    BY <1>1, <1>2 DEF MainFirst, Types
<1>7. Types'
    BY <1>1, <1>2, <1>3, <1>4, <1>6 DEF Types
<1>8. MainFirst'
    BY <1>1, <1>2, <1>5, <1>6, KernelAssumption DEF MainFirst, Types
<1>9. CallsAlone' /\ ReadIsFresh'
    BY <1>5 DEF CallsAlone, ReadIsFresh
<1>10. FramesAlone'
    BY <1>1, <1>2 DEF FramesAlone
<1>11. ServedIsOwn'
    BY <1>1, <1>2 DEF ServedIsOwn, Frame
<1>12. MasksFollowCalls'
  <2>1. \A u \in Threads : u # t => pc[u] = "own"
      BY <1>4, <1>5
  <2>2. Done("init_idt")
      BY <1>1, <1>2, PlacesInOrder
  <2>3. l \in Controller(l)
      BY <1>3 DEF Controller
  <2>4. IrqCalls[l] = op[t].call /\ (l \in mask' <=> op[t].call = "none")
      BY <1>1, <1>2, <1>3, <2>3 DEF ReadIsFresh
  <2>5. \A m \in Lines : m # l => Settled(m)
      BY <2>1 DEF Settled
  <2>6. \A m \in Lines : m # l => (m \in mask' <=> m \in mask)
      BY <1>1, <1>2, <1>3 DEF ReadIsFresh
  <2>. HIDE DEF l
  <2>7. ASSUME NEW m \in Lines
        PROVE  /\ IrqCalls[m] # "none" => m \notin mask'
               /\ IrqCalls[m] = "none" /\ m \notin Unmasked => m \in mask'
      BY <1>1, <2>2, <2>4, <2>5, <2>6 DEF MasksFollowCalls
  <2>. QED BY <1>2, <2>7 DEF MasksFollowCalls
<1>. QED BY <1>7, <1>8, <1>9, <1>10, <1>11, <1>12 DEF IInv

LEMMA InitIInv == Init => IInv
<1> SUFFICES ASSUME Init PROVE IInv
    OBVIOUS
<1>1. \A t \in Threads : nest[t] = <<>> /\ pc[t] = "own"
    BY DEF Init
<1>2. Types
  <2>1. nest \in [Threads -> Seq(Frames)]
      BY DEF Init
  <2>2. op \in [Threads -> [line : Lines, call : Calls]] /\ IrqCalls \in [Lines -> Calls]
      BY LinesAssumption DEF Init, Calls
  <2>3. value \in [Threads -> SUBSET Lines] /\ pc \in [Threads -> {"own", "in", "out"}]
      BY DEF Init
  <2>4. created \subseteq Threads /\ current \in created
      BY KernelAssumption, Zenon DEF Init
  <2>6. at = 1 /\ interrupts = FALSE
      BY DEF Init
  <2>5. mask \subseteq Lines /\ requested \subseteq Lines /\ inService \subseteq Lines
      BY DEF Init
  <2>7. interrupts \in BOOLEAN
      BY <2>6, Zenon
  <2>. QED BY <2>1, <2>2, <2>3, <2>4, <2>5, <2>6, <2>7 DEF Types
<1>3. MainFirst
    BY KernelAssumption DEF Init, MainFirst
<1>4. CallsAlone /\ FramesAlone /\ ReadIsFresh
    BY <1>1 DEF CallsAlone, FramesAlone, ReadIsFresh
<1>5. ServedIsOwn
    BY <1>1, KernelAssumption DEF Init, ServedIsOwn
<1>6. MasksFollowCalls
    BY <1>2, PlacesInOrder DEF Init, MasksFollowCalls
<1>. QED BY <1>2, <1>3, <1>4, <1>5, <1>6 DEF IInv

LEMMA NextIInv == ASSUME IInv, [Next]_vars PROVE IInv'
<1>1. Types /\ MainFirst /\ CallsAlone /\ ServedIsOwn
    BY DEF IInv
<1>2. CASE InitIdt
  <2>1. at = 1 /\ pc[Kernel] = "own"
      BY <1>1, <1>2, PlacesInOrder DEF InitIdt, MainFirst, Types
  <2>. QED BY <1>1, <1>2, <2>1, MainStep DEF InitIdt, Types
<1>3. CASE Initialise
  <2>1. at \in {2, 4, 7} /\ pc[Kernel] = "own"
      BY <1>1, <1>3, PlacesInOrder DEF Initialise, MainFirst, Types
  <2>. QED BY <1>1, <1>3, <2>1, MainStep DEF Initialise, Types, controllers
<1>4. CASE InitKeyboard
  <2>1. at = 3
      BY <1>1, <1>4, PlacesInOrder DEF InitKeyboard
  <2>2. StoreCall(Kernel, Keyboard, "keyboard_interrupt") /\ Kernel \in Threads /\ Keyboard \in Lines
      BY <1>4, KernelAssumption, LinesAssumption DEF InitKeyboard
  <2>3. "keyboard_interrupt" \in Calls
      BY DEF Calls
  <2>. QED BY <2>1, <2>2, <2>3, StoreCallStep
<1>5. CASE InitPit
  <2>1. at = 5
      BY <1>1, <1>5, PlacesInOrder DEF InitPit
  <2>2. StoreCall(Kernel, Timer, "pit_interrupt") /\ Kernel \in Threads /\ Timer \in Lines
      BY <1>5, KernelAssumption, LinesAssumption DEF InitPit
  <2>3. "pit_interrupt" \in Calls
      BY DEF Calls
  <2>. QED BY <2>1, <2>2, <2>3, StoreCallStep
<1>6. ASSUME NEW t \in Threads, ThreadCreate(t) PROVE IInv'
  <2>1. at = 6 /\ pc[Kernel] = "own"
      BY <1>1, <1>6, PlacesInOrder DEF ThreadCreate, MainFirst, Types
  <2>. QED BY <1>1, <1>6, <2>1, MainStep DEF ThreadCreate, Types, controllers
<1>7. ASSUME NEW t \in Threads, DriverNewCall(t) \/ DriverRemoveCall(t) PROVE IInv'
  <2>1. t # Kernel
      BY <1>7 DEF DriverNewCall, DriverRemoveCall
  <2>2. PICK l \in DriverLines : StoreCall(t, l, "driver") \/ StoreCall(t, l, "none")
      BY <1>7 DEF DriverNewCall, DriverRemoveCall
  <2>. QED BY <2>1, <2>2, StoreCallStep, LinesAssumption DEF Calls
<1>8. ASSUME NEW t \in Threads, ReadMask(t) \/ WriteMask(t) PROVE IInv'
    BY <1>8, ReadMaskStep, WriteMaskStep
<1>9. ASSUME NEW l \in Lines, Raise(l) \/ Deliver(l) PROVE IInv'
    BY <1>9, RaiseStep, DeliverStep
<1>10. CASE SendEoi \/ CallHandler \/ Iret \/ BlockTask
    BY <1>10, SendEoiStep, CallHandlerStep, IretStep, BlockTaskStep
<1>11. CASE UNCHANGED vars
  <2>1. Types'
      BY <1>11 DEF IInv, Types, vars, calling, controllers
  <2>2. MainFirst' /\ CallsAlone' /\ FramesAlone' /\ ReadIsFresh'
      BY <1>11 DEF IInv, MainFirst, CallsAlone, FramesAlone, ReadIsFresh, vars, calling, controllers
  <2>3. ServedIsOwn' /\ MasksFollowCalls'
      BY <1>11 DEF IInv, ServedIsOwn, MasksFollowCalls, Settled, Frame, Done, vars, calling,
                   controllers
  <2>. QED BY <2>1, <2>2, <2>3 DEF IInv
<1>. QED BY <1>2, <1>3, <1>4, <1>5, <1>6, <1>7, <1>8, <1>9, <1>10, <1>11 DEF Next

\* The strengthened invariant holds of the controllers, of Main and of all callers.
THEOREM Invariant == Spec => []IInv
<1>1. IInv /\ [Next]_vars => IInv'
    BY NextIInv
<1>. QED BY InitIInv, <1>1, PTL DEF Spec

\* No bit of another line is lost: masks follow handlers (interrupts_handlers.c:103-151).
THEOREM MasksFollow == Spec => []MasksFollowCalls
<1>1. IInv => MasksFollowCalls
    BY DEF IInv
<1>. QED BY Invariant, <1>1, PTL

\* Every end of interrupt is told of the line being handled (interrupts_handlers.c:88-90).
THEOREM EoiIsOwn == Spec => []EveryEoiIsOwn
<1>1. ASSUME IInv PROVE EveryEoiIsOwn
  <2>1. Types /\ ServedIsOwn
      BY <1>1 DEF IInv
  <2>2. \A t \in Threads : \A i \in 1..Len(nest[t]) : nest[t][i] \in Frames
      BY <2>1 DEF Types
  <2>3. TypeOK
      BY <2>1, <2>2, OrderIs DEF Types, TypeOK, Frames
  <2>. QED BY <2>1, <2>3 DEF EveryEoiIsOwn, ServedIsOwn
<1>. QED BY Invariant, <1>1, PTL

\* No handler runs before what it uses is there (Kernel.c:95-120).
THEOREM HandlersHaveData == Spec => []HandlersFindTheirData
<1>1. ASSUME IInv PROVE HandlersFindTheirData
  <2>1. Types /\ MainFirst
      BY <1>1 DEF IInv
  <2>2. ASSUME NEW t \in Threads, NEW i \in 1..Len(nest[t]) PROVE nest[t][i].line \in Lines
    <3>1. nest[t] \in Seq(Frames)
        BY <2>1 DEF Types
    <3>2. nest[t][i] \in Frames
        BY <3>1
    <3>. QED BY <3>2 DEF Frames
  <2>. QED BY <2>1, <2>2, PlacesInOrder DEF HandlersFindTheirData, MainFirst
<1>. QED BY Invariant, <1>1, PTL
=============================================================================

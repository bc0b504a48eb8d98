------------------------------ MODULE RunQueue ------------------------------
(***************************************************************************)
(* schedule of multitask/thread_schedule.c, where it does switch, over the *)
(* linked list threads_ready.                                              *)
(***************************************************************************)
EXTENDS ThreadList

\* m and st: the memory and the states at the end of the section that asked for the
\* switch; cur: the thread that was running.  current is NULL when it goes idle.
Dispatch(m, st, cur) ==
    LET next    == FrontOf(m, "threads_ready")
        popped  == PopFront(m, "threads_ready")
        running == st[cur] = "running"
    IN  [mem     |-> IF next # NULL /\ running THEN PushBack(popped, "threads_ready", cur) ELSE popped,
         current |-> IF next # NULL THEN next ELSE IF running THEN cur ELSE NULL]

\* unblock_task: the list and the status it leaves.
Unblocked(m, task) == PushBack(m, "threads_ready", task)

=============================================================================

----------------------------- MODULE MCSemaphore ----------------------------
(* Semaphore with two locks of different counts and a signal. *)
EXTENDS Semaphore

MCMaxCount == [s \in Locks \cup Signals |->
                  CASE s \in Signals -> 0
                    [] s = "mutex"   -> 1
                    [] OTHER         -> 2]

=============================================================================

------------------------------ MODULE Dispatch ------------------------------
(***************************************************************************)
(* What the scheduler of CS330 project 1 promises, whatever the order of   *)
(* its run queue: exactly one thread is on the CPU, a thread leaves it     *)
(* only by its own call or by preemption, a blocked thread runs again only *)
(* after it was made ready, and whenever the CPU is given up it goes to a  *)
(* ready thread, or to the idle thread if no other is ready.               *)
(***************************************************************************)
CONSTANTS Threads, Main, Idle

VARIABLE place      \* where each thread is

Init == place = [t \in Threads \cup {Idle} |->
                   IF t = Main THEN "RUNNING" ELSE IF t = Idle THEN "READY" ELSE "NONE"]

\* A thread is created, or a blocked one is woken.
MakeReady(t) ==
    /\ place[t] \in {"NONE", "BLOCKED"}
    /\ place' = [place EXCEPT ![t] = "READY"]

\* With the threads at p, the CPU goes to next.
GiveCPU(p, next) ==
    /\ place' = [p EXCEPT ![next] = "RUNNING"]
    /\ IF next = Idle THEN \A t \in Threads : p[t] # "READY" ELSE p[next] = "READY"

\* The running thread is preempted or yields, blocks, or exits.
Leave(t) ==
    /\ place[t] = "RUNNING"
    /\ \E where \in {"READY", "BLOCKED", "DEAD"}, next \in Threads \cup {Idle} :
         GiveCPU([place EXCEPT ![t] = where], next)

Next ==
    \/ \E t \in Threads : MakeReady(t)
    \/ \E t \in Threads \cup {Idle} : Leave(t)

Spec == Init /\ [][Next]_place
=============================================================================

---------------------------- MODULE PintosSched ----------------------------
(***************************************************************************)
(* The scheduler of CS330 project 1: threads/thread.c with the part of     *)
(* threads/interrupt.c it relies on.  There is one CPU.  A region of code  *)
(* that runs with interrupts off is one step; a thread may be interrupted  *)
(* between any two steps, except at a label in IntrOff, where it resumes   *)
(* inside such a region.                                                   *)
(*                                                                         *)
(* This module declares the state of thread.c and the operations of        *)
(* thread.c; PintosTimer and PintosSync add devices/timer.c and            *)
(* threads/synch.c, and PintosKernel is the specification of the whole.    *)
(***************************************************************************)
EXTENDS KernelList

CONSTANTS
    Threads,        \* the struct threads (pages) other than the idle thread
    Main,           \* initial_thread
    Idle,           \* idle_thread
    None,           \* NULL
    Locks,          \* the struct locks, numbered in the order callers nest them
    InitPriority,   \* the priority each thread is created with
    NewPriorities,  \* the arguments of thread_set_priority
    TIME_SLICE,     \* ticks a thread runs before it is preempted
    MaxCalls,       \* bound: the number of kernel calls each thread makes
    Ops             \* bound: the kinds of kernel calls the threads make

\* PRI_MIN to PRI_MAX.
Priorities == 0..63

ASSUME SchedAssumption ==
    /\ Main \in Threads
    /\ Idle \notin Threads
    /\ None \notin Threads \cup Locks
    /\ Locks \subseteq Nat
    /\ Locks \cap Threads = {}
    /\ InitPriority \in [Threads -> Priorities]
    /\ NewPriorities \subseteq Priorities
    /\ TIME_SLICE \in Nat \ {0}
    /\ MaxCalls \in [Threads -> Nat]

VARIABLES
    cur,              \* running_thread ()
    status,           \* thread->status; "NONE" before creation, "DEAD" once freed
    ready_list,
    priority,         \* thread->priority, the effective one
    orig_priority,    \* thread->orig_priority, the base one
    sema_list,        \* thread->sema_list, the set of locks acquired
    thread_ticks,     \* ticks since the last switch
    in_external_intr, \* an external interrupt is being handled
    pc,               \* where each thread is in the kernel; "run": in no call
    ret,              \* where yield_if_nonmax returns to
    panic,            \* the assertion or NULL dereference that stopped the kernel
    calls             \* bound: calls made so far

cpuVars == <<cur, status, ready_list, thread_ticks>>
structVars == <<priority, orig_priority, sema_list>>
modeVars == <<in_external_intr, panic>>
schedVars == <<cpuVars, structVars, modeVars, pc, ret, calls>>

SchedInit ==
    /\ cur = Main
    /\ status = [t \in Threads \cup {Idle} |->
                   IF t = Main THEN "RUNNING" ELSE IF t = Idle THEN "READY" ELSE "NONE"]
    /\ ready_list = <<>>
    /\ priority = InitPriority
    /\ orig_priority = InitPriority
    /\ sema_list = [t \in Threads |-> {}]
    /\ thread_ticks = 0
    /\ in_external_intr = FALSE
    /\ pc = [t \in Threads |-> "run"]
    /\ ret = [t \in Threads |-> "run"]
    /\ panic = "no"
    /\ calls = [t \in Threads |-> 0]

-----------------------------------------------------------------------------
(* The building blocks of the handlers.                                    *)

\* Where a thread that is switched to still has interrupts off: it returns
\* from thread_block inside timer_sleep or inside the loop of sema_down.
IntrOff == {"asleep", "wake"}

\* t is the running thread, at label l, and no interrupt is being handled.
At(t, l) == cur = t /\ pc[t] = l /\ ~in_external_intr /\ panic = "no"

\* t is about to make a kernel call of kind op.
Calls(t, op) ==
    /\ At(t, "run")
    /\ op \in Ops
    /\ calls[t] < MaxCalls[t]
    /\ calls' = [calls EXCEPT ![t] = @ + 1]

Goto(t, l) == pc' = [pc EXCEPT ![t] = l]

Panic(what) == panic' = what

\* cmp_prr (t, e): the threads that t goes before.
Outranked(t) == {e \in Threads : priority[t] > priority[e]}

\* list_insert_ordered (&ready_list, &t->elem, cmp_prr, NULL)
Enqueued(t) == InsertOrdered(ready_list, t, Outranked(t))

\* schedule and schedule_tail, with the statuses st and the run queue rl the
\* caller leaves: the front of the queue runs, or the idle thread.
Schedule(st, rl) ==
    LET next == IF rl = <<>> THEN Idle ELSE Head(rl)
    IN  /\ cur' = next
        /\ status' = [st EXCEPT ![next] = "RUNNING"]
        /\ ready_list' = IF rl = <<>> THEN rl ELSE Tail(rl)
        /\ thread_ticks' = 0

\* thread_block: called with interrupts off.
ThreadBlock == Schedule([status EXCEPT ![cur] = "BLOCKED"], ready_list)

\* Near miss: a thread that is alone is not put on the run queue either.
ThreadYieldAlone ==
    Schedule([status EXCEPT ![cur] = "READY"],
             IF cur = Idle \/ ready_list = <<>> THEN ready_list ELSE Enqueued(cur))

\* thread_yield: the idle thread is not put on the run queue.
ThreadYield ==
    Schedule([status EXCEPT ![cur] = "READY"],
             IF cur = Idle THEN ready_list ELSE Enqueued(cur))

\* Near miss: the status is left to schedule.
ThreadUnblockLazily(t) ==
    /\ ready_list' = Enqueued(t)
    /\ UNCHANGED status

\* thread_unblock: no switch takes place.
ThreadUnblock(t) ==
    /\ ready_list' = Enqueued(t)
    /\ status' = [status EXCEPT ![t] = "READY"]

-----------------------------------------------------------------------------
(* The operations of thread.c.                                             *)

\* thread_create up to its call of yield_if_nonmax.
ThreadCreate(t, new) ==
    /\ At(t, "run")
    /\ "create" \in Ops
    /\ status[new] = "NONE"
    /\ ThreadUnblock(new)
    /\ ret' = [ret EXCEPT ![t] = "run"]
    /\ Goto(t, "check")
    /\ UNCHANGED <<cur, thread_ticks, structVars, modeVars, calls>>

\* yield_if_nonmax, its first test, with interrupts on.
YieldCheck(t) ==
    /\ At(t, "check")
    /\ Goto(t, IF ready_list = <<>> THEN ret[t] ELSE "front")
    /\ UNCHANGED <<cpuVars, structVars, modeVars, ret, calls>>

\* The rest of yield_if_nonmax, with interrupts off.  list_front asserts that
\* the list is not empty, and is called before the list is tested again.
YieldFront(t) ==
    /\ At(t, "front")
    /\ \/ /\ ready_list = <<>>
          /\ Panic("list_front")
          /\ UNCHANGED <<cpuVars, pc>>
       \/ /\ ready_list # <<>>
          /\ IF priority[t] < priority[Head(ready_list)]
               THEN ThreadYield
               ELSE UNCHANGED cpuVars
          /\ Goto(t, ret[t])
          /\ UNCHANGED panic
    /\ UNCHANGED <<structVars, in_external_intr, ret, calls>>

\* thread_set_priority up to its call of yield_if_nonmax.
ThreadSetPriority(t, new) ==
    /\ Calls(t, "set_priority")
    /\ orig_priority' = [orig_priority EXCEPT ![t] = new]
    /\ priority' = IF sema_list[t] = {} THEN [priority EXCEPT ![t] = new] ELSE priority
    /\ ret' = [ret EXCEPT ![t] = "run"]
    /\ Goto(t, "check")
    /\ UNCHANGED <<cpuVars, sema_list, modeVars>>

\* A call of thread_yield.
Yield(t) ==
    /\ Calls(t, "yield")
    /\ ThreadYield
    /\ UNCHANGED <<structVars, modeVars, pc, ret>>

\* thread_exit, by a thread that holds no lock; schedule_tail frees its page.
ThreadExit(t) ==
    /\ At(t, "run")
    /\ sema_list[t] = {}
    /\ Schedule([status EXCEPT ![t] = "DEAD"], ready_list)
    /\ UNCHANGED <<structVars, modeVars, pc, ret, calls>>

\* One turn of the loop of idle: interrupts off and thread_block.
IdleLoop ==
    /\ cur = Idle
    /\ ~in_external_intr
    /\ panic = "no"
    /\ ThreadBlock
    /\ UNCHANGED <<structVars, modeVars, pc, ret, calls>>

=============================================================================

---------------------------- MODULE PintosKernel ----------------------------
(***************************************************************************)
(* The kernel of CS330 project 1: the scheduler, the timer and the         *)
(* synchronization primitives together, on one CPU, with the properties    *)
(* that make them correct.                                                 *)
(***************************************************************************)
EXTENDS PintosTimer, PintosSync

vars == <<schedVars, timerVars, syncVars>>

Init == SchedInit /\ TimerInit /\ SyncInit

\* The components a step of the others leaves alone.
NotTimer == UNCHANGED timerVars
NotSync == UNCHANGED syncVars

Next ==
    \/ IdleLoop /\ NotTimer /\ NotSync
    \/ TimerInterrupt /\ NotSync
    \/ WakeSleeper /\ NotSync
    \/ InterruptReturn /\ NotSync
    \/ \E t \in Threads :
         \/ \E new \in Threads : ThreadCreate(t, new) /\ NotTimer /\ NotSync
         \/ \E new \in NewPriorities : ThreadSetPriority(t, new) /\ NotTimer /\ NotSync
         \/ YieldCheck(t) /\ NotTimer /\ NotSync
         \/ YieldFront(t) /\ NotTimer /\ NotSync
         \/ Yield(t) /\ NotTimer /\ NotSync
         \/ ThreadExit(t) /\ NotTimer /\ NotSync
         \/ \E n \in SleepTicks : SleepStart(t, n) /\ NotSync
         \/ SleepBlock(t) /\ NotSync
         \/ SleepReturn(t) /\ NotSync
         \/ SemaDown(t) /\ NotTimer
         \/ SemaUp(t) /\ NotTimer
         \/ \E s \in Semas : SemaTryDown(t, s) /\ NotTimer
         \/ \E s \in Semas, l \in {"down", "up"} : SemaCall(t, s, l) /\ NotTimer
         \/ \E l \in Locks : LockAcquire(t, l) /\ NotTimer
         \/ \E l \in Locks : LockRelease(t, l) /\ NotTimer
         \/ Compare(t) /\ NotTimer
         \/ Donate(t) /\ NotTimer
         \/ Chain(t) /\ NotTimer
         \/ ChainDonate(t) /\ NotTimer
         \/ Take(t) /\ NotTimer
         \/ Own(t) /\ NotTimer
         \/ Unhold(t) /\ NotTimer
         \/ CondWait(t) /\ NotTimer
         \/ CondDown(t) /\ NotTimer
         \/ CondReacquire(t) /\ NotTimer
         \/ CondSignal(t) /\ NotTimer
         \/ CondBroadcast(t) /\ NotTimer
         \/ Broadcast(t) /\ NotTimer

Spec == Init /\ [][Next]_vars

\* The processor goes on as long as some step is possible.
FairSpec == Spec /\ WF_vars(Next)

-----------------------------------------------------------------------------
Labels ==
    IntrOff \cup
    {"run", "check", "front", "sleep", "down", "up", "compare", "donate", "chain",
     "nested", "take", "own", "unhold", "cond_wait", "reacquire", "broadcast"}

\* Every variable keeps the type of the field it stands for.
TypeOK ==
    /\ cur \in Threads \cup {Idle}
    /\ status \in [Threads \cup {Idle} -> {"NONE", "READY", "RUNNING", "BLOCKED", "DEAD"}]
    /\ ready_list \in Seq(Threads)
    /\ priority \in [Threads -> Priorities]
    /\ orig_priority \in [Threads -> Priorities]
    /\ sema_list \in [Threads -> SUBSET Locks]
    /\ thread_ticks \in Nat
    /\ in_external_intr \in BOOLEAN
    /\ pc \in [Threads -> Labels]
    /\ ret \in [Threads -> {"run", "cond_wait", "broadcast"}]
    /\ panic \in {"no", "list_front", "null holder"}
    /\ calls \in [Threads -> Nat]
    /\ ticks \in Nat
    /\ wait_list \in Seq(Threads)
    /\ wakeup_time \in [Threads -> Nat]
    /\ value \in [Semaphores -> Nat]
    /\ waiters \in [Semaphores -> Seq(Threads)]
    /\ holder \in [Locks -> Threads \cup {None}]
    /\ waiting \in [Threads -> Locks \cup {None}]
    /\ lk \in [Threads -> Locks \cup {None}]
    /\ sem \in [Threads -> Semaphores \cup {None}]
    /\ lp \in [Threads -> Locks \cup {None}]
    /\ cond_waiters \in Seq([thread : Threads, priority : Priorities])

\* threads/thread.h: a thread has one list element for the run queue, the wait
\* list of the timer and the waiters of every semaphore.  It is never on two of
\* these lists, nor twice on one, and it is on a list exactly as its status says.
ElemExclusive ==
    /\ NoDuplicates(ready_list) /\ NoDuplicates(wait_list)
    /\ \A s \in Semaphores : NoDuplicates(waiters[s])
    /\ \A t \in Threads :
         /\ t \in Range(ready_list) <=> status[t] = "READY"
         /\ t \in Range(wait_list) =>
              status[t] = "BLOCKED" /\ \A s \in Semaphores : t \notin Range(waiters[s])
         /\ \A s \in Semaphores : t \in Range(waiters[s]) =>
              /\ status[t] = "BLOCKED"
              /\ \A r \in Semaphores \ {s} : t \notin Range(waiters[r])
         /\ status[t] = "BLOCKED" =>
              t \in Range(wait_list) \/ \E s \in Semaphores : t \in Range(waiters[s])

\* t is between its sema_down on lock l and the sema_up that gives l back.
Owns(t, l) ==
    \/ l \in sema_list[t]
    \/ pc[t] = "take" /\ lk[t] = l
    \/ pc[t] \in {"unhold", "up"} /\ sem[t] = l

Owners(l) == {t \in Threads : Owns(t, l)}

\* lock_acquire, lock_release: a lock is free and its semaphore 1, or has one
\* owner and its semaphore is 0, across every preemption between the sema_down
\* and the bookkeeping; the holder field names only the owner, and names it
\* from the end of lock_acquire to the lock_release that asserts it.
LockOwnership ==
    \A l \in Locks :
      /\ value[l] + Cardinality(Owners(l)) = 1
      /\ holder[l] # None => Owns(holder[l], l)
      /\ \A t \in Threads : l \in sema_list[t] => holder[l] = t \/ (pc[t] = "own" /\ lk[t] = l)

\* Threads that sema_up has taken off the waiters of s and that have not yet
\* tested its value again.
Woken(s) == {t \in Threads : pc[t] = "wake" /\ sem[t] = s /\ status[t] # "BLOCKED"}

\* sema_down, sema_up: while threads wait on a semaphore, each unit of its value
\* has a thread on its way to take it, even when others down it first.
NoLostWakeup ==
    \A s \in Semaphores : waiters[s] # <<>> => Cardinality(Woken(s)) >= value[s]

\* t is in cond_wait and has not come back from its sema_down.
InCondWait(t) ==
    \/ pc[t] \in {"unhold", "up", "check", "front"} /\ ret[t] = "cond_wait"
    \/ pc[t] = "cond_wait"
    \/ pc[t] \in {"down", "wake"} /\ sem[t] = t

SignalsFor(t) ==
    Cardinality({i \in 1..Len(cond_waiters) : cond_waiters[i].thread = t})
    + value[t]
    + Cardinality({u \in Threads : pc[u] = "up" /\ sem[u] = t})

\* cond_wait, cond_signal, cond_broadcast: a thread in cond_wait is queued, or
\* is being signalled, or has been; no signal is lost, doubled or left over.
SignalsAccounted ==
    \A t \in Threads : SignalsFor(t) = IF InCondWait(t) THEN 1 ELSE 0

\* timer_interrupt stops at the first sleeper that is not due, so wait_list has
\* to be in the order of the wake-up times.
WaitListSorted ==
    \A i, j \in 1..Len(wait_list) :
      i < j => wakeup_time[wait_list[i]] <= wakeup_time[wait_list[j]]

\* When timer_interrupt returns, no sleeper whose time has come is left asleep.
NoneLeftDue ==
    [][in_external_intr /\ ~in_external_intr' =>
         \A t \in Range(wait_list) : wakeup_time[t] > ticks]_vars

\* tests/threads/priority-sema.c: the waiter a sema_up wakes has the highest
\* priority at that moment, including what it was donated while it waited.
WakesHighest ==
    [][\A s \in Semaphores : \A w \in Range(waiters[s]) \ Range(waiters'[s]) :
         \A x \in Range(waiters[s]) : priority[x] <= priority[w]]_vars

\* The scheduler keeps its promise, whatever the order of the run queue.
Dispatcher == INSTANCE Dispatch WITH place <- status
DispatchSpec == Dispatcher!Spec

\* No thread is ever lost: on every path through sleeping, locking, donation
\* and preemption all threads created run to their exit, unless the kernel
\* panics.
AllExit == <>(panic # "no" \/ \A t \in Threads : status[t] \in {"NONE", "DEAD"})

-----------------------------------------------------------------------------
(* What the repository says of the program and the code does not do.       *)

\* lib/kernel/list.c: list_front asserts that the list is not empty.
FrontOfNonEmpty == panic # "list_front"

\* tests/threads/priority-donate-multiple.c: a thread that has released its
\* locks has relinquished its donated priorities.
DonationsRelinquished ==
    \A t \in Threads : pc[t] = "run" /\ sema_list[t] = {} => priority[t] = orig_priority[t]
=============================================================================

----------------------------- MODULE PintosSync -----------------------------
(***************************************************************************)
(* threads/synch.c of CS330 project 1: semaphores, locks with priority     *)
(* donation, and a condition variable.  sema_down and sema_up run with     *)
(* interrupts off; the statements of lock_acquire, lock_release and        *)
(* cond_wait around them run with interrupts on and are steps of their     *)
(* own wherever another thread can tell them apart.                        *)
(*                                                                         *)
(* The semaphores are those inside the locks, the free-standing ones, and  *)
(* the one each caller of cond_wait has on its stack, which is named by    *)
(* the thread.                                                             *)
(***************************************************************************)
EXTENDS PintosSched

CONSTANTS
    Semas,          \* free-standing semaphores
    SemaInit,       \* the values they are initialized to
    CondLock        \* the lock the condition variable goes with, or None

Semaphores == Locks \cup Semas \cup Threads

ASSUME SyncAssumption ==
    /\ Semas \cap (Locks \cup Threads) = {}
    /\ None \notin Semas
    /\ SemaInit \in [Semas -> Nat]
    /\ CondLock \in Locks \cup {None}

VARIABLES
    value,          \* semaphore->value
    waiters,        \* semaphore->waiters
    holder,         \* lock->holder
    waiting,        \* thread->waiting, the lock lock_acquire is after
    lk,             \* the argument of lock_acquire or lock_release
    sem,            \* the argument of sema_down or sema_up
    lp,             \* the lock the donation loop of lock_acquire is at
    cond_waiters    \* cond->waiters: the thread and its priority at the call

semaVars == <<value, waiters>>
lockVars == <<holder, waiting>>
syncVars == <<semaVars, lockVars, lk, sem, lp, cond_waiters>>

SyncInit ==
    /\ value = [s \in Semaphores |->
                  IF s \in Locks THEN 1 ELSE IF s \in Semas THEN SemaInit[s] ELSE 0]
    /\ waiters = [s \in Semaphores |-> <<>>]
    /\ holder = [l \in Locks |-> None]
    /\ waiting = [t \in Threads |-> None]
    /\ lk = [t \in Threads |-> None]
    /\ sem = [t \in Threads |-> None]
    /\ lp = [t \in Threads |-> None]
    /\ cond_waiters = <<>>

-----------------------------------------------------------------------------
\* get_max_priority (t), the waiters of the semaphores being w.
MaxPriority(t, w) ==
    Max({orig_priority[t]} \cup
        {priority[x] : x \in UNION {Range(w[l]) : l \in sema_list[t]}})

\* The priority lock_acquire gives h, the holder it found, in the name of t.
Donation(t, h) == Max({priority[t], MaxPriority(h, waiters)})

\* cmp_prr2 (t, e): waiters of equal or higher priority, that t is put before.
NotOutranked(t) == {e \in Threads : priority[t] <= priority[e]}

-----------------------------------------------------------------------------
(* Semaphores.                                                             *)

\* Where sema_down returns to: lock_acquire, cond_wait or the caller.
AfterDown(t) ==
    IF sem[t] \in Locks THEN "take" ELSE IF sem[t] = t THEN "reacquire" ELSE "run"

\* Near miss: the value is tested once, with an "if".
MustWaitOnce(t) == value[sem[t]] = 0 /\ pc[t] = "down"

\* The condition of the loop of sema_down, tested again after every wake-up.
MustWait(t) == value[sem[t]] = 0

\* sema_down, entered ("down") or resumed after thread_block ("wake").
SemaDown(t) ==
    /\ At(t, "down") \/ At(t, "wake")
    /\ IF MustWait(t)
         THEN /\ waiters' = [waiters EXCEPT ![sem[t]] = InsertOrdered(@, t, NotOutranked(t))]
              /\ Goto(t, "wake")
              /\ ThreadBlock
              /\ UNCHANGED value
         ELSE /\ value' = [value EXCEPT ![sem[t]] = @ - 1]
              /\ Goto(t, AfterDown(t))
              /\ UNCHANGED <<waiters, cpuVars>>
    /\ UNCHANGED <<structVars, modeVars, ret, calls, lockVars, lk, sem, lp, cond_waiters>>

\* Near miss: the waiter is found and not removed.
WaitersKept(s, i) == waiters

\* The waiters once sema_up has removed the i-th one of s.
WaitersWithout(s, i) == [waiters EXCEPT ![s] = RemoveAt(@, i)]

\* Near miss: a unit is handed to the waiter and not counted.
HandedOver(s) == IF waiters[s] = <<>> THEN [value EXCEPT ![s] = @ + 1] ELSE value

\* sema->value++, whether or not a waiter was made ready.
Incremented(s) == [value EXCEPT ![s] = @ + 1]

\* Near miss: only the first unit wakes a waiter.
HasWaiterAtZero(s) == waiters[s] # <<>> /\ value[s] = 0

\* sema_up makes a waiter ready whatever the value is.
HasWaiter(s) == waiters[s] # <<>>

\* sema_up up to its call of yield_if_nonmax.  The last of the waiters of the
\* highest priority is made ready, and the caller's own priority recomputed.
SemaUp(t) ==
    LET s == sem[t]
        i == LastMax(waiters[s], priority)
    IN  /\ At(t, "up")
        /\ IF HasWaiter(s)
             THEN /\ waiters' = WaitersWithout(s, i)
                  /\ priority' = [priority EXCEPT ![t] = MaxPriority(t, waiters')]
                  /\ ThreadUnblock(waiters[s][i])
             ELSE UNCHANGED <<waiters, priority, ready_list, status>>
        /\ value' = Incremented(s)
        /\ Goto(t, "check")
        /\ UNCHANGED <<cur, thread_ticks, orig_priority, sema_list, modeVars, ret, calls,
                       lockVars, lk, sem, lp, cond_waiters>>

\* Near miss: sema_try_down off by one.
CanDownAtZero(s) == value[s] >= 0

\* The test of sema_try_down.
CanDown(s) == value[s] > 0

\* A call of sema_try_down that succeeds; one that fails changes nothing.
SemaTryDown(t, s) ==
    /\ Calls(t, "sema")
    /\ CanDown(s)
    /\ value' = [value EXCEPT ![s] = @ - 1]
    /\ UNCHANGED <<cpuVars, structVars, modeVars, pc, ret, waiters, lockVars, lk, sem, lp,
                   cond_waiters>>

\* A call of sema_down (l = "down") or sema_up (l = "up") on a semaphore that
\* is not inside a lock.
SemaCall(t, s, l) ==
    /\ Calls(t, "sema")
    /\ sem' = [sem EXCEPT ![t] = s]
    /\ ret' = [ret EXCEPT ![t] = "run"]
    /\ Goto(t, l)
    /\ UNCHANGED <<cpuVars, structVars, modeVars, semaVars, lockVars, lk, lp, cond_waiters>>

-----------------------------------------------------------------------------
(* Locks and priority donation.                                            *)

\* lock_acquire up to the first read of the holder.
StartAcquire(t, l) ==
    /\ waiting' = [waiting EXCEPT ![t] = l]
    /\ lk' = [lk EXCEPT ![t] = l]
    /\ sem' = [sem EXCEPT ![t] = l]
    /\ Goto(t, IF holder[l] = None THEN "down" ELSE "compare")
    /\ UNCHANGED <<cpuVars, structVars, modeVars, ret, semaVars, holder, lp, cond_waiters>>

\* A call of lock_acquire; callers nest locks in the order of their numbers.
LockAcquire(t, l) ==
    /\ Calls(t, "lock")
    /\ \A k \in sema_list[t] : k < l
    /\ StartAcquire(t, l)

\* A read of a field of the holder of lock l: a NULL holder is a page fault in
\* the kernel, which panics; otherwise the step goes on as Step.
ReadHolder(l, Step) ==
    IF holder[l] = None
      THEN Panic("null holder") /\ UNCHANGED <<pc, priority, lp>>
      ELSE UNCHANGED panic /\ Step

DonationUnchanged ==
    UNCHANGED <<cpuVars, orig_priority, sema_list, in_external_intr, ret, calls, semaVars,
                lockVars, lk, sem, cond_waiters>>

\* lock->holder->priority < thread_current ()->priority ?
Compare(t) ==
    /\ At(t, "compare")
    /\ ReadHolder(lk[t],
         /\ Goto(t, IF priority[holder[lk[t]]] < priority[t] THEN "donate" ELSE "down")
         /\ UNCHANGED <<priority, lp>>)
    /\ DonationUnchanged

\* The donation to the holder of the lock.
Donate(t) ==
    /\ At(t, "donate")
    /\ ReadHolder(lk[t],
         /\ priority' = [priority EXCEPT ![holder[lk[t]]] = Donation(t, holder[lk[t]])]
         /\ lp' = [lp EXCEPT ![t] = lk[t]]
         /\ Goto(t, "chain"))
    /\ DonationUnchanged

\* The head of the nested donation loop: lp = lp->holder->waiting.
Chain(t) ==
    /\ At(t, "chain")
    /\ ReadHolder(lp[t],
         /\ UNCHANGED priority
         /\ LET next == waiting[holder[lp[t]]]
            IN  /\ lp' = [lp EXCEPT ![t] = next]
                /\ Goto(t, IF next = None THEN "down" ELSE "nested"))
    /\ DonationUnchanged

\* The body of the loop: the donation to the holder of that lock.
ChainDonate(t) ==
    /\ At(t, "nested")
    /\ ReadHolder(lp[t],
         /\ priority' = [priority EXCEPT ![holder[lp[t]]] = Donation(t, holder[lp[t]])]
         /\ UNCHANGED lp
         /\ Goto(t, "chain"))
    /\ DonationUnchanged

\* After sema_down: waiting is cleared and the lock joins sema_list ...
Take(t) ==
    /\ At(t, "take")
    /\ waiting' = [waiting EXCEPT ![t] = None]
    /\ sema_list' = [sema_list EXCEPT ![t] = @ \cup {lk[t]}]
    /\ Goto(t, "own")
    /\ UNCHANGED <<cpuVars, priority, orig_priority, modeVars, ret, calls, semaVars,
                   holder, lk, sem, lp, cond_waiters>>

\* ... and then the holder is set.
Own(t) ==
    /\ At(t, "own")
    /\ holder' = [holder EXCEPT ![lk[t]] = t]
    /\ Goto(t, "run")
    /\ UNCHANGED <<cpuVars, structVars, modeVars, ret, calls, semaVars, waiting, lk, sem,
                   lp, cond_waiters>>

\* lock_release takes the lock off sema_list; yield_if_nonmax returns to r.
StartRelease(t, l, r) ==
    /\ sema_list' = [sema_list EXCEPT ![t] = @ \ {l}]
    /\ lk' = [lk EXCEPT ![t] = l]
    /\ sem' = [sem EXCEPT ![t] = l]
    /\ ret' = [ret EXCEPT ![t] = r]
    /\ Goto(t, "unhold")
    /\ UNCHANGED <<cpuVars, priority, orig_priority, modeVars, semaVars, lockVars, lp>>

\* A call of lock_release.
LockRelease(t, l) ==
    /\ At(t, "run")
    /\ l \in sema_list[t]
    /\ StartRelease(t, l, "run")
    /\ UNCHANGED <<calls, cond_waiters>>

\* lock_release clears the holder, then calls sema_up.
Unhold(t) ==
    /\ At(t, "unhold")
    /\ holder' = [holder EXCEPT ![lk[t]] = None]
    /\ Goto(t, "up")
    /\ UNCHANGED <<cpuVars, structVars, modeVars, ret, calls, semaVars, waiting, lk, sem,
                   lp, cond_waiters>>

-----------------------------------------------------------------------------
(* The condition variable.                                                 *)

\* cond_wait up to and into its lock_release.  cmp_prr_condvar puts the caller
\* before the waiters whose priority, when they called, was lower.
CondWait(t) ==
    /\ Calls(t, "cond")
    /\ CondLock \in sema_list[t]
    /\ cond_waiters' =
         InsertOrdered(cond_waiters, [thread |-> t, priority |-> priority[t]],
                       {e \in Range(cond_waiters) : priority[t] > e.priority})
    /\ StartRelease(t, CondLock, "cond_wait")

\* cond_wait calls sema_down on the caller's own semaphore.
CondDown(t) ==
    /\ At(t, "cond_wait")
    /\ sem' = [sem EXCEPT ![t] = t]
    /\ Goto(t, "down")
    /\ UNCHANGED <<cpuVars, structVars, modeVars, ret, calls, semaVars, lockVars, lk, lp,
                   cond_waiters>>

\* cond_wait calls lock_acquire.
CondReacquire(t) ==
    /\ At(t, "reacquire")
    /\ StartAcquire(t, CondLock)
    /\ UNCHANGED calls

\* Near miss: the front is used and stays on the list.
CondFrontKept == cond_waiters

\* list_pop_front (&cond->waiters)
CondPopped == Tail(cond_waiters)

\* The front of cond_waiters is popped, and sema_up called on its semaphore.
PopAndUp(t, r) ==
    /\ sem' = [sem EXCEPT ![t] = Head(cond_waiters).thread]
    /\ cond_waiters' = CondPopped
    /\ ret' = [ret EXCEPT ![t] = r]
    /\ Goto(t, "up")
    /\ UNCHANGED <<cpuVars, structVars, modeVars, semaVars, lockVars, lk, lp>>

\* A call of cond_signal; with no waiter it does nothing.
CondSignal(t) ==
    /\ Calls(t, "cond")
    /\ CondLock \in sema_list[t]
    /\ cond_waiters # <<>>
    /\ PopAndUp(t, "run")

\* A call of cond_broadcast, and a turn of its loop.
CondBroadcast(t) ==
    /\ Calls(t, "cond")
    /\ CondLock \in sema_list[t]
    /\ Goto(t, "broadcast")
    /\ UNCHANGED <<cpuVars, structVars, modeVars, ret, syncVars>>

Broadcast(t) ==
    /\ At(t, "broadcast")
    /\ UNCHANGED calls
    /\ IF cond_waiters = <<>>
         THEN /\ Goto(t, "run")
              /\ UNCHANGED <<cpuVars, structVars, modeVars, ret, syncVars>>
         ELSE PopAndUp(t, "broadcast")

=============================================================================

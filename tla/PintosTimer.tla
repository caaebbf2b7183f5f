---------------------------- MODULE PintosTimer ----------------------------
(***************************************************************************)
(* devices/timer.c of CS330 project 1: timer_sleep, which parks the caller *)
(* on wait_list in the order of wake-up times, and the timer interrupt,    *)
(* which wakes the threads that are due and ends the time slice.  The      *)
(* interrupt is taken turn by turn of its loop; in_external_intr keeps     *)
(* every other step out until it returns.                                  *)
(***************************************************************************)
EXTENDS PintosSched

CONSTANTS
    SleepTicks,     \* the arguments of timer_sleep that are positive
    MaxTicks        \* bound: ticks after which the clock goes on only for sleepers

ASSUME TimerAssumption == SleepTicks \subseteq Nat \ {0} /\ MaxTicks \in Nat

VARIABLES
    ticks,          \* timer ticks since boot
    wait_list,      \* the sleeping threads, the first to wake in front
    wakeup_time     \* thread->wakeup_time

timerVars == <<ticks, wait_list, wakeup_time>>

TimerInit ==
    /\ ticks = 0
    /\ wait_list = <<>>
    /\ wakeup_time = [t \in Threads |-> 0]

\* cmp_wtime (t, e): the threads that t wakes before.
WakesBefore(t) ==
    {e \in Threads : \/ wakeup_time[t] < wakeup_time[e]
                     \/ /\ wakeup_time[t] = wakeup_time[e]
                        /\ priority[t] > priority[e]}

\* Near miss: a thread is due only once its wake-up time has passed.
HeadIsOverdue == wait_list # <<>> /\ wakeup_time[Head(wait_list)] < ticks

\* The first thread on wait_list is due.
HeadIsDue == wait_list # <<>> /\ wakeup_time[Head(wait_list)] <= ticks

-----------------------------------------------------------------------------
\* timer_sleep computes the wake-up time with interrupts on ...
SleepStart(t, n) ==
    /\ Calls(t, "sleep")
    /\ ticks + n <= MaxTicks
    /\ wakeup_time' = [wakeup_time EXCEPT ![t] = ticks + n]
    /\ Goto(t, "sleep")
    /\ UNCHANGED <<cpuVars, structVars, modeVars, ret, ticks, wait_list>>

\* ... then turns them off, queues the caller and blocks.
SleepBlock(t) ==
    /\ At(t, "sleep")
    /\ wait_list' = InsertOrdered(wait_list, t, WakesBefore(t))
    /\ Goto(t, "asleep")
    /\ ThreadBlock
    /\ UNCHANGED <<structVars, modeVars, ret, calls, ticks, wakeup_time>>

\* The woken thread returns from thread_block and turns interrupts on.
SleepReturn(t) ==
    /\ At(t, "asleep")
    /\ Goto(t, "run")
    /\ UNCHANGED <<cpuVars, structVars, modeVars, ret, calls, timerVars>>

\* intr_handler enters timer_interrupt.
TimerInterrupt ==
    /\ ~in_external_intr
    /\ panic = "no"
    /\ cur \in Threads => pc[cur] \notin IntrOff
    /\ ticks < MaxTicks \/ wait_list # <<>>
    /\ in_external_intr' = TRUE
    /\ ticks' = ticks + 1
    /\ UNCHANGED <<cpuVars, structVars, panic, pc, ret, calls, wait_list, wakeup_time>>

\* One turn of the loop of timer_interrupt.
WakeSleeper ==
    /\ in_external_intr
    /\ HeadIsDue
    /\ wait_list' = Tail(wait_list)
    /\ ThreadUnblock(Head(wait_list))
    /\ UNCHANGED <<cur, thread_ticks, structVars, modeVars, pc, ret, calls, ticks,
                   wakeup_time>>

\* thread_tick, and the return from intr_handler, which yields if asked to.
InterruptReturn ==
    /\ in_external_intr
    /\ ~HeadIsDue
    /\ in_external_intr' = FALSE
    /\ IF thread_ticks + 1 >= TIME_SLICE
         THEN ThreadYield
         ELSE thread_ticks' = thread_ticks + 1 /\ UNCHANGED <<cur, status, ready_list>>
    /\ UNCHANGED <<structVars, panic, pc, ret, calls, timerVars>>

=============================================================================

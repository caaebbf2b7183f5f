# Verification of CS_courses

TLA+ models of the stateful programs of this repository, the TLC runs that
check them on small instances, and TLAPS proofs of their main invariants for
every value of the constants. `PROJECT.json` ties every definition to the lines
it stands for, and lists the runs, the hazards and the theorems.

    tlc -workers 2 -config KernelDonation.cfg PintosMC     # a run
    tlapm PintosKernelProofs.tla                           # a proof

## 1. The system

The repository holds course projects that do not call one another.

| Part | State | Operations | What is hard |
|---|---|---|---|
| Pintos scheduler, `CS330_projects/proj1/threads/thread.c` | run queue, thread structs, the CPU | create, block, unblock, yield, set_priority, exit, idle, preemption | a switch between any two instructions outside the regions with interrupts off |
| Pintos timer, `devices/timer.c`, `threads/interrupt.c` | clock, wait list | timer_sleep, timer_interrupt | the interrupt and the sleepers share the wait list and the list element of the thread |
| Pintos synchronization, `threads/synch.c` | semaphore values and waiters, holders, donated priorities | sema_down/up/try_down, lock_acquire/release, cond_wait/signal/broadcast | donation runs with interrupts on; barging between a wake-up and the retest |
| Pintos lists, `lib/kernel/list.c` | - | list_insert_ordered, list_max, ... | sorted insertion into a list whose keys change |
| Pintos user programs, `CS330_projects/proj2/userprog/` | children, zombies, descriptors, file system lock | exec, wait, exit, file calls, page faults | a parent and its child race on each other's struct thread |
| Pintos virtual memory, `proj2/vm/` | frame table, supplementary page table, swap slots | page fault, frame allocation | unfinished |
| tsh, `CS230_projects/shelllab/tsh.c` | job list, next job ID | command lines, fg, bg, SIGINT/SIGTSTP/SIGCHLD handlers | handlers interrupt the main loop and one another; signals merge |
| malloc, `CS230_projects/malloclab/mm.c` | heap, seven free lists | malloc, free, realloc | splitting, joining and growing at the ends of the heap; blocks too small for a list |
| proxy, `CS230_projects/proxylab/proxy.c` | - | one child process per connection | nothing shared |
| list and data labs | - | pure functions | nothing beyond unit tests |
| KENS TCP, `CS341_projects/KENSv3/app/TestTCP/` | socket table, backlog list, accept queue, ring buffers | eight socket calls, arrival of SYN, SYN ACK, ACK and FIN | packets against calls, handshake and close in either order |
| KENS simulator, `KENSv3/src/` | event queue | framework | given code |
| Innocart, `ME340B/Innocart/` | - | web form, simulation | none |

Inside Pintos the timer interrupt calls `thread_unblock` for sleepers and asks
for a yield; `sema_up` calls `thread_unblock` and `yield_if_nonmax`;
`lock_acquire` writes the `priority` of other threads, which orders the run
queue and the waiters. All these lists share one `list_elem` per thread. In tsh
the handlers and the main loop share the job list; the kernel connects the
children to the handlers by signals that are pending or not and never counted.
In malloclab the driver calls the allocator and keeps its own list of the
payloads in use; the allocator and its lists live in the heap they manage. In
KENS the system calls of a host's processes and the segments that arrive are
events of a sequential simulator; they meet in the socket table, the backlog
list and the queue of blocked accepts, and a call that cannot be answered yet is
answered by a later segment.

What makes each part correct: of the scheduler, that exactly one thread runs,
the run queue is what the statuses say and no thread is lost; of the timer, that
nobody oversleeps; of the primitives, mutual exclusion, no lost and no double
wake-up, waking by priority, donations that end; of tsh, that the job list and
the children agree and keys reach only the foreground job; of malloc, that the
blocks tile the heap and the free lists hold the free blocks; of exec/wait/exit,
that wait returns the status of that child once; of TCP, that
an accept gets a connection of its own, that the two ends agree on how far they
have opened and closed, that what is read is what was sent, and that blocked
calls return.

## 2. The modules

    KernelList  <-  PintosSched  <-  PintosTimer, PintosSync  <-  PintosKernel  <-  PintosMC
                                                  Dispatch (abstract) <- PintosKernel
    PintosProcess
    Tsh  <-  TshMC
    KensTcp  <-  KensMC
    Ranges (abstract)  <-  Malloc  <-  MallocMC

`KernelList` has list_insert_ordered and list_max as operators on sequences.
`PintosSched` declares the state of thread.c and has its operations;
`PintosTimer` and `PintosSync` add theirs to the same scheduler state;
`PintosKernel` composes the three, one disjunct of `Next` per operation, and
states the properties. `Dispatch` is the abstract scheduler: where each thread
is (not created, ready, running, blocked, dead), and that the CPU only goes to a
ready thread, or to the idle one if none is. `PintosProcess` is project 2: the
system calls and faults by which processes start, wait for and end one another.
It shares no state with the kernel modules: project 2 is built on its own copy
of Pintos, with neither priorities nor donation. `Tsh` is the shell with its
handlers and as much of Unix as it uses. `KensTcp` is the TCP of one KENS host
with the processes that call it and the remote TCPs it talks to. `Ranges` is
what the driver of malloclab asks of an allocator, from its range list;
`Malloc` is mm.c, which is shown to implement it.

**Steps.** In Pintos there is one CPU. A region with interrupts off is one step;
everywhere else a step is as long as no other thread or handler can tell, and
`pc[t]` says where thread t is. `IntrOff` are the two labels at which a thread
resumes inside such a region, having been switched out by `thread_block`: no
interrupt is taken there. The timer interrupt is three kinds of steps (entry,
one turn of its loop, return), and `in_external_intr` keeps everything else out
in between. `ret[t]` is where `yield_if_nonmax` returns to. A failed assertion
or a NULL dereference in the kernel sets `panic`, after which nothing moves.

In project 2 `pc[p]` names the next access of process p to what processes
share, and any process that is not blocked may move: all have one priority and
the timer preempts them. `thread[p]` holds the fields of struct thread that
exec, wait and exit use, `call[p]` the locals of the system call p is in. A child
walks `remove`, `test`, then `zombie` or `signal` and `store`, each of which
reads or writes the struct thread of its parent; SYS_EXIT and `abort_userprog`
take the last two in opposite orders. A parent walks `wait_zombies`,
`wait_children`, `wait_mark`, `wait_down`. `collected` is a history variable:
the children whose death some wait has returned. When code touches the page of a
thread that has exited, which `palloc_free_page` has filled with 0xcc, `machine`
becomes "broken" and nothing moves; "off" is a power-off or a kernel panic.

In tsh a region with all signals blocked is one step. A handler is a frame on
`stack`; the one on top moves, and `Deliver` pushes another unless it is running
already. `pending` is a set: a second SIGCHLD before the first is delivered is
lost, as POSIX has it for standard signals. `do_bgfg` is steps for the lookup,
the SIGCONT, the new state and the read of `proc->pid`, and `waitfg` looks the
job up in separate steps, because a handler may run between any of them. The
uninitialized variable at tsh.c:360 takes any value of the constant `Garbage`.
Other processes stop, continue and kill children whenever they like (`ChildStop`,
`ChildContinue`, `ChildExit`). The shell hears of a child that was continued by a
SIGCHLD, but its waitpid does not report it, since tsh.c:425 has no WCONTINUED.
Two history variables say what the shell cannot know: `refused` are the children
for which addjob found no room, `continued` those that another process has
continued since the shell was told that they had stopped.

A KENS host is sequential: `systemCallback` and `packetArrived` run to their end,
so each system call and each arrival is one action. `socklist`, `backlog_list`
and `accept_queue` are the lists of TCPAssignment.cpp in their order, since every
search takes the first hit. A process makes the calls of its program; a call that
is not answered leaves it blocked in `calls[p]`, and `Reply` is what
`returnSystemCall` does to it. Each connection has a FIFO channel in each
direction. Sequence numbers are relative to the initial ones, bytes are numbered
in the order they are written, and a ring buffer is a function on `Index`, so that
`Store`, `Load` and `Wrap` are the memcpy's in two halves and the tests
`>= BUFSIZE` of the code. `send_segments` is written without its loop: no
iteration changes the length of the next segment. The remotes (`PeerOpen` to
`PeerReceive`) are not in this repository. They are a conformant TCP that keeps to
the window it was told, acknowledges every segment and sends a SYN again when it
got no answer. Two things are asked of them besides, since the code depends on
them: no segment has more than `MSS` bytes (a longer one is copied over the end of
`actual_data`, 693-695), and a FIN has no other flag (839 takes no other, and a
FIN with an ACK is ignored).

What the code leaves uninitialized is partly open, partly fixed. Of a new node
(TCPAssignment.cpp:154) the status is open, any of `FreshStatus`, and 0 is
LISTENING. Its address, port, remote and uuid are not written either and are
taken for 0: the uuid is written before it is used, and 0 is the address and port
that the searches take for any. A remote that garbage happens to name, whose ACKs
and FINs the new socket would then take, is not modelled. A SYN that meets no
listener reads the end of the list as a node (611-616). Its backlog is open: the
SYN is dropped or answered (`Syn`). Its descriptor is fixed to a number that no
lookup asks for, so no ACK completes that connection. In the code it is whatever
stands there: with the list of libstdc++ on a 64-bit machine, the upper half of
the list's size, 0. That is the descriptor of the process's first socket (the
model counts descriptors from 1), and if that socket listens at the same port
before the ACK comes, 629 takes the entry for one of its own. Neither this nor a
fault of the copy itself, which is longer than the end of the list, is in the
model, and no theorem speaks of it.

`Malloc` counts in units of 8 bytes. A block is named by its first unit, `head`
and `foot` are its two tags, and only the tags of the present blocks are
represented, as what lies between them is payload. `flist` is the seven lists,
newest first. A request is two or three steps: the call, at most one growth
(`Grow`, up to `goto alloc`) and `Take`, in which mm_realloc also frees the old
block. A block of one unit has no room for links and is on no list. The code
deletes a block from a list through the links it finds in the block; if the block
is on no list these are old payload. With two zero words the list is emptied
(`LinksNull`), and otherwise the code writes through a word that is no pointer:
`heap.state` becomes "lost" and nothing moves. Three places reach that. mm_free of
the first or the last block calls dellist on a neighbour of 8 bytes, while list 0
is not empty (585, 598); after the only block was freed its payload is taken for
links when the heap grows (410); and mem_sbrk answers -1 at the end of the heap,
which the code tests for NULL (415) or not at all (450). Freeing the only block
passes putlist the header's address, so the size of the heap's tag becomes 0
(`FreeWhole`) until the next growth makes one block of all again. The list putlist
then chooses depends on the first word of the heap, which mm.c never writes; the
model has it 0, as memory fresh from malloc (memlib.c:28) is, and the header on
the list of the largest blocks.

**Abstractions.** The read of the holder, the walk of `get_max_priority` over the
lists and the write of the priority (synch.c:214-218) are one step of `Donate`,
and `waiting = NULL` and the insertion into the holder's list (225, 226) one of
`Take`, although interrupts are on; no property here tells the halves apart.
tid_lock, names, stacks, the FPU and console output are left out; so are the
functions of the 4.4BSD scheduler in thread.c, which nothing calls.
`lock_try_acquire` has no caller. A thread does not exit while holding a lock,
and takes locks in the order of their numbers: otherwise any program
deadlocks. In project 2 a scan of a list, an
insertion and the emptying of the zombies at exit are one step each;
the order of a list and who is woken first by a semaphore are left open, and the
word that process_wait reads through the end of the list (process.c:133) when it
has found nothing is not looked at. The
descriptors, the arguments and the memory of a process are left out: what the
calls on files share is `filesys_lock`, and an access to a page that is not there
is one disjunct, `FileFault`. A write to a read-only page above the bound of
exception.c:178 faults again for ever and changes no state. The idle thread has
no tid here. The machine powers off after the task (option -q), as the tests run
it; otherwise the initial thread would exit and leave its children without a
parent. In tsh, a fork that fails lists nothing and waits for nothing, so it
changes no state; a process id is not used again while the shell runs; a child
may ignore SIGINT or SIGTSTP, which is the second disjunct of `Forward`.
In KENS, `getsockname` and `getpeername` change no state,
and `timerCallback` is never called since no timer is set (the calls are comments
at 809 and 873); the congestion window is kept (`cwnd`), the count of duplicate
ACKs, which nothing reads, is not. Headers, checksums and host byte order
are left out. In malloclab a request for 0 bytes, mm_realloc to 0 too, returns
NULL and changes nothing. What a payload holds is left out but for the two words
that `LinksNull` reads; that mm_realloc copies the old payload, which the driver
checks too (mdriver.c:625), is therefore no part of `Ranges` and `Implements`.
The near misses in the modules (`MustWaitOnce`, `FgPidOfRunning`, ...) are the
plausible mistakes the mutants put in the place of the definition after them.

## 3. The runs

Every property is also run against a mutant of the model and found violated.

| Run | Module, configuration | Checks |
|---|---|---|
| kernel_sleep | PintosMC, KernelSleep.cfg | `NoneLeftDue`, `AllExit` |
| kernel_cond | PintosMC, KernelCond.cfg | `TypeOK`, `NoLostWakeup`, `SignalsAccounted` |
| kernel_donation | PintosMC, KernelDonation.cfg | `ElemExclusive`, `LockOwnership`, `WakesHighest`, `DispatchSpec`, `AllExit` |
| kernel_panic | PintosMC, KernelPanic.cfg | `FrontOfNonEmpty` is violated |
| kernel_leak | PintosMC, KernelLeak.cfg | `DonationsRelinquished` is violated |
| process_tree | PintosProcess, ProcessAll.cfg | `ProcessTypeOK`, `ChildAccounted`, `WaitOnce`, `FileSystemExclusive`, `ExecReportsLoad` |
| process_lost | PintosProcess, ProcessLost.cfg | `WaitAnswered` is violated |
| process_status | PintosProcess, ProcessStatus.cfg | `StatusReturned` is violated |
| tsh_jobs | TshMC, TshJobs.cfg | `TypeOK`, `NoGhostJob`, `NoChildForgotten`, `BackgroundUntouched`, `StoppedUnlessContinued` |
| tsh_reap | TshMC, TshReap.cfg | `AllReaped` is violated |
| tcp_host | KensMC, TcpHost.cfg | `TypeOK`, `AcceptDistinct`, `NoAcceptMissed`, `BacklogBound`, `HandshakeAgreed`, `CloseAgreed`, `InSequence`, `ReceivedInOrder`, `NoOverrun`, `ReaderHeld`, `Contract`, `ConnectReturns`, `CloseReturns`, `ReadReturns` |
| malloc_heap | MallocMC, MallocHeap.cfg | `TypeOK`, `HeapTiled`, `FreeListed`, `Coalesced`, `GrownOnce`, `Implements` |

**Bounds.** `Threads`, `MaxCalls` and `Ops` bound the kernel calls; `MaxTicks`
bounds the clock while nobody sleeps, and with sleepers the clock goes on, so
that they wake. `TIME_SLICE` is 1 or 2 instead of 4, which makes preemption
possible at the first tick.

- *kernel_sleep*: three threads, two of one priority, sleep for 1 or 2 ticks,
  yield and change their priority. Three sleepers are enough for every order on
  the wait list, equal wake-up times included, and for a wake-up time that has
  passed before its thread is on the list.
- *kernel_cond*: a waiter, a signaller and a third that barges in; one lock, one
  semaphore of value 1, one condition variable. It takes two waiters and a
  signaller to lose or double a signal, and a woken thread, a barging one and a
  waiter to lose a wake-up.
- *kernel_donation*: four threads of four priorities on two nested locks, the
  smallest instance with a donation chain (low holds 1, middle holds 2 and waits
  on 1, high waits on 2) and a thread to preempt the donor. Two ticks can fall
  between any two steps.
- *process_tree*: four processes, the initial thread included, so a process can
  have two children, one that is waited for and one that interferes, or a child
  and a grandchild that outlives its parent; all three ways to end. One exit
  code is enough there, since no property of the run depends on the status.
- *process_lost*, *process_status*: the initial thread and one child that calls
  exit suffice; two codes tell a status from a stale one.
- *tsh_jobs*: three children and a list of two entries, so that the list gets
  full and an entry is used again while a command still points at it. Only
  SIGTSTP is typed there, which keeps the run short: the two handlers differ in
  nothing but the signal they forward, and the theorems below hold for both keys.
  The children are symmetric: `Garbage` contains all of them. `NoChildForgotten`
  excuses the children that a full list refused, and no property says which job
  `fg pid` continues: what goes wrong there (187, 360) is in the model, and the
  invariants hold in spite of it.

- *tcp_host*: nine scenarios of two processes (`Servings`, `Transfers` in
  KensMC). Two clients against a backlog of one and two accepts make the SYN that
  finds the backlog full, its retry, and the connection that comes before or after
  the accept; a third server accepts next to a client of its own and one of
  another process, and a fourth reads from a client that sends three bytes, which
  may come before the accept. Buffers of four bytes with segments of one or two, and reads of
  1 to 4 bytes, make every index wrap, fill the buffer and block reads; the remote
  sends six bytes, and may close at any time. Three descriptors run out in the
  last scenario. The initial values 51200 and 512 of BUFSIZE and MSS only
  scale this. All nine programs keep to `Contract`, under which the theorems of
  section 4 hold, and the run checks that they do.
- *malloc_heap*: a chunk of 8 units and a limit of 24 leave room for the first
  chunk and two more, and a growth behind them fails. The four sizes need blocks
  of 2, 3, 7 and 11 units: an exact fit of the first chunk, remainders of 1, 2
  and more units, and one that takes two chunks. Three payloads make a block
  with allocated or free neighbours on either side, at both ends of the heap and
  in the middle. The seven size classes are all in use with `LimitDef`, in the
  order of the code's.

**Deadlock** is not checked: the kernel stops after a panic and once every
thread has exited, the machine of project 2 after a power-off, the shell once
it has exited or crashed, the allocator after a wild write; the processes of a
host may all be done, or blocked in calls that nothing answers.

**Fairness.** `FairSpec` is weak fairness of the whole next-state relation of
the kernel: the processor executes on as long as it can. Which thread runs is
decided by the code alone. When only the idle thread is left, the `hlt` it
executes is a stuttering step. `FairSpec` of `KensTcp` is what the simulator
does: it runs each process that is not blocked and delivers every segment. A
remote takes what arrives, sends a dropped SYN again and closes in the end; it
need not send data. Project 2, the shell and the allocator have no liveness
property: `WaitAnswered` says as a state predicate that a wait is lost, and
`GrownOnce` is why the loop of mm_malloc ends.

**The findings**, two of the kernel, two of project 2 and one of the shell, are
runs that TLC must find violated.

- `yield_if_nonmax` (thread.c:371-375) tests the run queue with interrupts on,
  and takes its front, with an assertion that there is one, before it tests
  again. A tick in between empties the queue and the kernel panics.
- A donor that is preempted after `synch.c:214` and before its `sema_down` is on
  no waiter list when the holder releases: the donation is never taken back.
- `process_wait` looks for the child and then says that it waits for it; a child
  that asks in between becomes a zombie and wakes nobody. The parent is blocked
  for ever.
- SYS_EXIT wakes the parent before it stores the status; the parent may return
  an older one.
- `sigchld_handler` calls `waitpid` once although its comment says that it reaps
  all zombies; a SIGCHLD that merged with another leaves one behind, and if that
  is the foreground job `waitfg` does not return.

`AllExit` allows for the panics of the first kind and for the NULL holder of
synch.c:213-218, which the model reaches too: it is about lost wake-ups, and no
property says that these panics do not happen.

More defects are in the models and no run expects them, since they contradict no
statement of the repository or one too weak for a run of its own:

- kernel: a donation to a thread on the run queue (synch.c:214) leaves it at its
  place, so the list is not sorted as list.c:450 asks; a nested donation (218)
  assigns without comparing; thread_set_priority (thread.c:474) is ignored while
  a lock is held.
- project 2: an exec whose `thread_create` fails blocks for ever (`CreateFails`),
  a process aborted inside a file call keeps `filesys_lock` (`FileFault`,
  `ThreadExit`), and a child that outlives its parent writes into a freed page
  (`TouchFreed`).
- shell: a stopped job that another process continues stays listed as stopped
  (425), a child that finds the list full runs unlisted (187) and crashes the
  shell when it stops (436), `fg pid` continues whichever job has the
  uninitialized job ID (360), waitfg looks a job up twice and may find it gone (tsh.c:384), do_bgfg
  may set the state of a cleared entry (351), job IDs may repeat (535), and a key
  typed before the child's setpgid (181) is lost.
- TCP: a SYN without a listener and a new node read what was never written, as
  section 2 tells; accept looks its socket up by descriptor whoever owns it
  (TCPAssignment.cpp:410) and may take a connection of another listener on the
  same port, or a socket of its process that has no port yet (418); bind answers
  -1 to an overlapping address and binds (480, 490); ACKs and FINs are taken by
  the first socket with that remote whatever its own port (679, 843); the ACK
  that ends a handshake is lost when a newer listener of the port, or a new
  socket whose uninitialized status reads as LISTENING, stands before the
  listener in the table (596-602, 628), and later data may then open the
  connection without what was lost; a read after the FIN returns -1 with bytes
  left to read (259); a write that empties `send_len` or is larger than the
  window sends old bytes again or stops (79-119), also a write of 0 bytes
  (`Silent`); a writer blocked when the FIN comes stays blocked; a zero window
  is never opened again; close of a socket that is not connected never returns
  (214); close after the remote's returns -1 (212). Nothing is retransmitted, so
  with loss a connection stops.
- malloc: the three wild writes above, and mm_realloc to 0 does not free (622
  returns before 625).

## 4. The proofs

Each theorem holds for every value of the constants under the named assumptions
of the modules (`SchedAssumption`, `TimerAssumption`, `SyncAssumption`,
`ProcessAssumption`, `TshAssumption`, `MallocAssumption`, and of `KensTcp`
`PidsAssumption`, `SizesAssumption`, `MaxFdAssumption`, `EndpointsAssumption`,
`ProgramsAssumption`), which the runs evaluate on their instances.

| Theorem | Module | States |
|---|---|---|
| `KernelInvariant` | PintosKernelProofs | the inductive invariant `IInv` |
| `KernelTypeCorrect` | PintosKernelProofs | `Spec => []TypeOK` |
| `KernelElemExclusive` | PintosKernelProofs | `Spec => []ElemExclusive` |
| `KernelImplementsDispatch` | PintosKernelProofs | `Spec => DispatchSpec` |
| `KernelWaitListSorted`, `KernelNoneLeftDue` | PintosKernelProofs | `Spec => []WaitListSorted`, `Spec => NoneLeftDue` |
| `KernelLockOwnership` | PintosKernelProofs | `Spec => []LockOwnership` |
| `KernelWakesHighest` | PintosKernelProofs | `Spec => WakesHighest` |
| `KernelNoLostWakeup`, `KernelSignalsAccounted` | PintosKernelProofs | `Spec => []NoLostWakeup`, `Spec => []SignalsAccounted` |
| `ProcessInvariant` | PintosProcessProofs | the inductive invariant `IInv` of the processes |
| `ProcessTypeCorrect` | PintosProcessProofs | `Spec => []ProcessTypeOK` |
| `ProcessFileSystemExclusive` | PintosProcessProofs | `Spec => []FileSystemExclusive` |
| `ProcessExecReportsLoad` | PintosProcessProofs | `Spec => ExecReportsLoad` |
| `ReportInvariant` | PintosProcessProofs | the inductive invariant `IInv2` of exit and wait |
| `ProcessWaitOnce` | PintosProcessProofs | `Spec => []WaitOnce` |
| `ProcessChildAccounted` | PintosProcessProofs | `Spec => []ChildAccounted` |
| `TshInvariant` | TshProofs | the inductive invariant `IInv` of the shell |
| `TshTypeCorrect` | TshProofs | `Spec => []TypeOK` |
| `TshNoGhostJob`, `TshNoChildForgotten`, `TshBackgroundUntouched`, `TshStoppedUnlessContinued` | TshProofs | `Spec => []` each property |
| `Invariance` | MallocProofs | the inductive invariant `IInv` of the allocator |
| `TypeCorrect`, `Tiling`, `Listing`, `Coalescing`, `GrowsOnce` | MallocProofs | `Spec => []` of `TypeOK`, `HeapTiled`, `FreeListed`, `Coalesced`, `GrownOnce` |
| `Refinement` | MallocProofs | `Spec => Implements` |
| `TcpTypes`, `TcpTypeCorrect` | KensTcpProofs | `Spec => []Typed`, `Spec => []TypeOK` |
| `TcpReaderHeld` | KensTcpProofs | `Spec => []ReaderHeld` |
| `TcpNoAcceptMissed`, `TcpBacklogBound`, `TcpAcceptDistinct` | KensTcpProofs | `Spec /\ []Orderly => []` of `NoAcceptMissed`, `BacklogBound`, `AcceptDistinct` |
| `TcpHandshakeAgreed`, `TcpInSequence` | KensConnProofs | `Spec /\ []Orderly => []` of `HandshakeAgreed`, `InSequence` |
| `TcpNoOverrun` | KensRoomProofs | `Spec /\ []Orderly => []NoOverrun` |
| `TcpCloseAgreed` | KensStreamProofs | `Spec /\ []Orderly => []CloseAgreed` |
| `TcpReceivedInOrder` | KensStreamProofs | `Spec /\ []Contract => []ReceivedInOrder` |

The lemmas on lists, first in `PintosKernelProofs`, have what list_insert_ordered,
list_max and the removal of an element do to the set of elements and to
duplicates, and that a sorted insertion keeps the order; the library's facts about
sequences are enough for these.

*The kernel.* `ElemExclusive` is not inductive: whether a thread may be put on a
list depends on what it is doing. `IInv` adds to the types that the arguments of
a call are there while it needs them (`ArgsOK`), that exactly `cur` has status
RUNNING and the run queue is exactly the READY threads, each once (`CpuOK`), and
that a blocked thread is at the one label, `asleep` or `wake`, that names the
list it is on (`QueuesOK`). The proof has a lemma for the building blocks
(`Schedule`, `ThreadUnblock`), then one per action. `LockOwnership` needs, above
that, that the semaphore of a lock is 0 or 1 and is 1 exactly when no thread is
between its `sema_down` and its `sema_up` (`OneOwner`), and what the holder and
`sema_list` may say at each place of lock_acquire and lock_release
(`FieldsAgree`). The refinement of `Dispatch` maps `place` to `status`: a step
that calls `Schedule` is `Leave`, one that calls `ThreadUnblock` is `MakeReady`,
the rest stutter; `CpuOK` is what makes the front of the run queue a ready thread.

`WaitListSorted` holds because timer_sleep inserts by wake-up time and no one
changes the wake-up time of a queued thread; `NoneLeftDue` follows, as the
interrupt returns only when the front is not due. `WakesHighest` does not need
an order: sema_up looks for the highest priority of the moment. `NoLostWakeup` is
inductive once the woken threads are known to be finitely many (`WakeupsOK`): a
thread joins them exactly as sema_up adds a unit, and one that goes to sleep saw
a value of 0. `SignalsAccounted` needs with it (`SignalsOK`) that the threads in a
sema_up of a given semaphore are finitely many and that no thread downs the
semaphore another brought to cond_wait; most steps leave a thread's account alone
(`Alone`), the rest move one unit from one of the three places to the next.

*The processes.* `load` runs in the child with no lock, so `FileSystemExclusive`
needs to know that its parent stands in process_execute all the while. In `IInv`,
`AnswerOK` says that the parent of a process at `load`, `report` or `started` is
at `reap` with that tid in `call`, and that its `reap_sema` is up only for the
answer, with `success` telling whether that child was loaded. `LockOK` says that
whoever is between acquire and release holds `filesys_lock`, except Main, which
starts the first process without it, alone. `TreeOK` has that tids are given out
in order and a parent is older than its child, and that the initial thread never
comes back to process_execute; `ArgOK` that the tid a wait holds is a process.
One lemma per action, over frame lemmas for the steps that stay away from exec.

`ChildAccounted` and `WaitOnce` rest on `ReportOK`, which says of each child and
its parent (`FamilyOK`) what the one may rely on while the other moves: the child
is on the list until its first step of dying; a child that is about to signal is
the one its parent waits for, and no signal is pending; a pending signal, a record
among the zombies and a collected child exclude one another, and each needs the
child to have left word; while the parent lives, a child that has left word is in
one of the three. `ParentOK` has that lists, marks and waits are about children of
that parent only. `EndFrame` and `WaitFrame` reduce a step to the child and the
parent it is about. The race of *process_lost* does not contradict this: there the
child is accounted for, among the zombies that its parent will never look at.

*The shell.* The four properties are proved together, since each needs the
others: that a listed job is found at one entry (`NoGhostJob`) is what makes the
job `fgpid` found the one whose state `BackgroundUntouched` speaks of. `IInv`
adds what the handlers hold (`HandlersOK`: a handler that is not off is on the
stack, so while the main loop moves there is none; the child `sigchld_handler`
is at work on was reaped, or was reported stopped: `HeardOf` has that the shell
was told of a stop or an end and has not continued the child since, the same that
`StoppedUnlessContinued` says of a listed job), what the command in progress holds
(`MainOK`: between fork and addjob the signals are blocked and the child is
neither listed nor reaped), and that the job IDs are bounded, which `maxjid`
needs to have a value.

*The allocator.* The properties speak of the heap between requests; in the middle
of mm_free a block is tagged and not listed, or listed and about to be joined.
`Good` has the three that every operation restores: `Sound` (the tags tile the
heap and the allocated blocks are the driver's), `ListsHold` (the lists are
exactly the free blocks that have a payload) and `JoinedBut` (no two free blocks
touch). `Mid` is the same with one free block that is not listed yet and may
touch others, `TilesBut` with a gap in the tiling, which is how the lemmas follow
one PUT after the other: `MarkTiles` fills the front of a gap, `GapTiles` opens
one, `ClosedTiles` closes it. Each operation has a lemma from `Good` to `Good`
(`AllocGood`, `FreeGood`, `ExtendGood`) under the condition that it has not
written through a bad link. `WipedHeap` is the heap after its only block was
freed; `ExtendWiped` brings it back. `HeapInv` is `Good`, `WipedHeap` or "lost".
`GrownOnce` is part of `IInv`, as the request in progress lives across two steps:
it needs of the constants that a chunk is larger than the fourth class, or the
new block would be on no list. The refinement maps each payload to its extent in
bytes: `TakenClear` has that a block just taken from the free ones is clear of
every payload in use, which with mm_realloc includes the one about to be freed.

*KENS.* `TypeOK` and `ReaderHeld` hold whatever the programs call. The others do
not: the code trusts its callers, as section 3 tells, so these theorems have the
hypothesis `[]Orderly`. It says of each call, when it is made, that the socket is
fit for it (a fresh one is bound or connected, a bound one listens, a listener of
the caller accepts), and of the remotes that the code can tell them apart. It
constrains the calls that the programs make and never what a handler does.
`ReceivedInOrder` needs one thing more, and its theorem the hypothesis
`[]Contract`, which is `Orderly` and `Listened`: the ACK that ends a handshake
finds the listener that began it. Without it the ACK is lost on the half-open
connection (section 3), the bytes that follow too, and a later segment may
complete the connection with a gap before its data. `Listened` is about remotes
that send data only; in the third scenario the socket of a client hides the
listener, and nothing is lost but the ACK. The run *tcp_host* checks that the
nine programs keep to both. `Typed` gives each field
of each node, entry, queued accept, segment and remote its set. On it are built:

- `CallsOK`: a blocked process is in the call before those it has still to make,
  and its number is unique; with it every answer is for the call it was kept for
  and `ReaderHeld` is inductive.
- `UsesOK` and `AcceptsQueued`: a listener has no remote, the sockets of a
  process in accept are listeners or connected, and each blocked accept is queued
  once, with the number of the call; so the ACK that completes a handshake finds
  a queued accept or leaves a node that a later accept finds.
- `FdsOK`: the descriptors of a process are at most `fds[p]`, and no two of its
  nodes have the same one, so a new one is on no node and on no entry.
- `BacklogOK`: the count of a listener's entries. An arrival adds one when there
  is room, takes out the one that it completes, and no other call moves entries;
  that a new listener starts with none needs `FdsOK`.
- `HeldOK`: what was returned is at most `fds[p]` and distinct, and a connection
  that is not yet `used` has a descriptor that nobody was given. It needs to know
  the connections from the sockets that connect made: `NodePlain` has that only
  these have a port of `Ephemeral`.
- `ConnOK` (KensConnProofs): what a node, an entry and the two channels of a
  connection know of one another. The handlers find a node by its remote and an
  entry by the remote's port, so the invariant has that no two nodes, no two
  entries and no node and entry share a remote (`Apart`); a SYN or SYN+ACK under
  way is alone on its connection (`WireOK`), so a SYN never reaches a host that
  has the connection already and a SYN+ACK finds the one socket that dialled it;
  ACKs and FINs come only from a remote past the handshake, and an entry is
  answered or its remote is (`HalfOK`). That the entry an ACK completes is the
  ACK's own (`EntryConn`) is where the matching by ports is shown to be enough.
- `SeqOK` (KensConnProofs): `InSequence` speaks of the segments under way only; to
  be kept it needs the number the next one will have. `NodeSeq` has that the run
  under way ends at that number, `NextSeq` of the node, which counts a FIN that
  `seq` does not count yet (the code adds 1 when the remote's FIN comes), and that
  a node that may still send data has sent no FIN. Each handler then has one
  obligation, `Sends`: what it posts runs from the node's number before to its
  number after. `HalfSeq` has that every segment that may complete a handshake
  acknowledges number 1, `OutSeq` and `InSeq` what each state of the remote takes
  and tells (nothing with a length follows a FIN), and `OneConn` that the socket an
  ACK or a FIN finds by its remote alone is of the connection it came on.
- `RoomOK` (KensRoomProofs): the code stores what arrives without a check, so that
  `NoOverrun` holds is up to the remote, which sends no byte behind `una + win`,
  and so up to all that it was ever told. `Told` has that neither what the remote
  knows, nor any ACK under way to it, nor data under way from it reaches behind a
  number; for a connected socket that number is `ack + BUFSIZE - recv_len`, the
  end of its room (`Edge`), which no handler moves back (`Widens`: a read that
  takes bytes tells nobody, a segment that arrives takes as much room as it moves
  `ack`). It needs `Run` once more, of the segments to the host: data is stored
  where the room is only if it starts at `ack`. The ack of a new socket is not
  that number for certain before the first segment has come, so a half-open
  connection (`HalfRoom`) has only that there is such a number; and a remote in its
  handshake knows of one buffer from number 0 on (`WireRoom`).
- `CloseOK` (KensStreamProofs): a socket in FIN_WAIT_1 takes the next ACK for that
  of its FIN without reading its number, so `CloseAgreed` is about what ACKs can be
  under way. `Calm` has, of a connection on which neither end has sent data, that
  no data is under way to the remote, and that the remote has seen the FIN once an
  ACK is under way to the host, or the socket believes it. An ACK under way is one
  the remote answered to a FIN, then, and not to data (`Heard`), nor the one that
  ends the handshake, which is the only one a half-open connection has (`HalfClose`)
  and is taken out when the connection opens. That a socket whose process has
  written nothing sends none is `NodeSends`: its send buffer is all room (`Ample`)
  and what `Acked` and `send_segments` then do is nothing; `Goes` has what each call
  may do to it. `WireClose` has that a FIN under way was sent (`Said`).

- `ReadsOK` (KensStreamProofs): a `read_uuid` above 0 is the number of the read
  that the node's owner is blocked in, and no two nodes have the same (0, the
  host's first call, was answered long ago, and asks for no bytes); so an answer
  that carries bytes reaches the owner of the node they were taken from, and
  `readBytes` of the two moves as the buffer does (`Gives`).
- `StreamOK` (KensStreamProofs): `Ordered` has that what was read, followed by what
  the ring holds from `start_r` on, is the bytes from 1 to `ack - 1`, and that
  `end_r` is where the next byte goes. `Store` at `end_r` appends to what `Load`
  sees as long as there is room, which is `NoOverrun`, and taking bytes at
  `start_r` moves them from the one sequence to the other (`OrderedStored`,
  `OrderedConsumed`), at any point of the ring. That the segment stored is the next
  one is `RoomOK`'s; that it holds the bytes its number says is `Carries`, for the
  remote numbers its bytes as it counts them (`Counted`). A socket that is not
  connected holds nothing, and a half-open connection becomes a socket with the
  first segment of the stream (`HalfFirst`): here `Listened` is used, to show that
  the entry an ACK passes by is of a remote without data (`HalfLost`).

*Only model-checked.* The liveness properties `AllExit`, `ConnectReturns`,
`CloseReturns` and `ReadReturns`, which the proof system does not do; and
`Contract`, which is about the programs of the checked instance. Every other
property of a passing run is the subject of a theorem.

## 5. What is not modelled

The reasons are in `PROJECT.json`, component by component: given code (boot,
drivers, file system, simulator), pure input and output (proxy, Innocart), pure
functions that a test covers (list lab, data lab). The bomb and attack labs hold
answers, not programs.

## 6. Plan

1. Kernel of project 1, with lists, timer, synchronization and the abstract
   scheduler: done; proofs of its safety properties and of the refinement: done.
2. tsh: done; proofs of its invariant and of its five properties: done.
3. `PintosProcess`, project 2: done; proofs of its five properties: done.
4. `KensTcp`: done; a conformant sender would be needed to state the stream the
   remote receives, which the code does not keep. Proofs of its types and of all
   its invariants: done.
5. `Malloc` and `Ranges`: done; proofs of all its properties and of the
   refinement: done.
6. No safety property is left without a theorem. What could follow is a contract
   for remotes with the same port, which the code does not tell apart.

---------------------------- MODULE PintosProcess ----------------------------
(***************************************************************************)
(* The user programs of CS330 project 2: exec, wait, exit, the descriptor  *)
(* calls and the faults of userprog/process.c, syscall.c and exception.c,  *)
(* over threads/thread.c.                                                  *)
(*                                                                         *)
(* All processes have PRI_DEFAULT and the timer preempts them, so a step   *)
(* of any process that is not blocked may come next.  One step is one      *)
(* access to what processes share: a list operation, a semaphore           *)
(* operation, or one assignment to a field of the parent.  The descriptors *)
(* are left out: the calls on them differ only in what they do under       *)
(* filesys_lock.                                                           *)
(*                                                                         *)
(* The page of a thread that has exited is freed at once and filled with   *)
(* 0xcc.  Code that goes on to use it ends the run: machine is "broken".   *)
(***************************************************************************)
EXTENDS Integers, FiniteSets

CONSTANTS
    NProcs,         \* bound on the processes there ever are
    Codes,          \* the arguments user programs give to exit
    Deaths          \* the ways they end, out of "exit", "abort" and "kill"

ASSUME ProcessAssumption ==
    /\ NProcs \in Nat \ {0}
    /\ Codes \subseteq Nat
    /\ Codes # {}
    /\ Deaths \subseteq {"exit", "abort", "kill"}

Procs == 1 .. NProcs        \* by tid
Main == 1                   \* the initial thread
Error == -1                 \* TID_ERROR, and the status of an abort

VARIABLES
    pc,             \* where each process is
    thread,         \* its struct thread, as far as processes use it
    call,           \* the local variables of the system call it is in
    next_tid,       \* of allocate_tid
    filesys_lock,   \* the holder, or 0
    machine,        \* "on", "off" or "broken"
    loaded,         \* the local success of each start_process
    collected       \* history: the children whose death a wait has returned

vars == <<pc, thread, call, next_tid, filesys_lock, machine, loaded, collected>>

\* init_thread: the status is inherited from the thread that runs it.
NewThread(par, status) ==
    [parent |-> par, children |-> {}, zombies |-> {}, waiting |-> 0,
     reaped |-> 0, child_sema |-> 0, reap_sema |-> 0, success |-> TRUE,
     exit_status |-> status]

NoCall == [tid |-> 0, status |-> 0, abort |-> FALSE, eax |-> 0]

\* run_task is about to call process_execute.
Init ==
    /\ pc = [p \in Procs |-> IF p = Main THEN "create" ELSE "unborn"]
    /\ thread = [p \in Procs |-> NewThread(0, 0)]
    /\ call = [p \in Procs |-> NoCall]
    /\ next_tid = 2
    /\ filesys_lock = 0
    /\ machine = "on"
    /\ loaded = {}
    /\ collected = {}

-----------------------------------------------------------------------------
At(p, l) == machine = "on" /\ pc[p] = l
Go(p, l) == pc' = [pc EXCEPT ![p] = l]
Set(p, c) == call' = [call EXCEPT ![p] = c]

Parent(p) == thread[p].parent

\* The struct thread of p is no more.
Freed(p) == pc[p] \in {"dead", "killed"}

\* children of p still links a thread that was freed: its owner was killed
\* and did not take itself off.
DeadLinks(p) == {c \in thread[p].children : Freed(c)} # {}

-----------------------------------------------------------------------------
(* What a user program may do next. *)

CallExec(p) ==
    /\ At(p, "user")
    /\ Go(p, "exec_lock")
    /\ Set(p, NoCall)
    /\ UNCHANGED <<thread, next_tid, filesys_lock, machine, loaded, collected>>

CallFile(p) ==
    /\ At(p, "user")
    /\ Go(p, "file_lock")
    /\ Set(p, NoCall)
    /\ UNCHANGED <<thread, next_tid, filesys_lock, machine, loaded, collected>>

CallWait(p) ==
    /\ At(p, "user")
    /\ \E t \in Procs \cup {Error} : Set(p, [NoCall EXCEPT !.tid = t])
    /\ Go(p, "wait_zombies")
    /\ UNCHANGED <<thread, next_tid, filesys_lock, machine, loaded, collected>>

CallExit(p) ==
    /\ "exit" \in Deaths
    /\ At(p, "user")
    /\ \E s \in Codes : Set(p, [NoCall EXCEPT !.status = s])
    /\ Go(p, "remove")
    /\ UNCHANGED <<thread, next_tid, filesys_lock, machine, loaded, collected>>

Abort(p) ==
    /\ Set(p, [NoCall EXCEPT !.status = Error, !.abort = TRUE])
    /\ Go(p, "remove")

\* A page fault, or a system call with a pointer that is not valid.
Fault(p) ==
    /\ "abort" \in Deaths
    /\ At(p, "user")
    /\ Abort(p)
    /\ UNCHANGED <<thread, next_tid, filesys_lock, machine, loaded, collected>>

\* Any other exception: kill only calls thread_exit.
Kill(p) ==
    /\ "kill" \in Deaths
    /\ At(p, "user")
    /\ Go(p, "killed")
    /\ UNCHANGED <<thread, call, next_tid, filesys_lock, machine, loaded, collected>>

Halt(p) ==
    /\ At(p, "user")
    /\ machine' = "off"
    /\ UNCHANGED <<pc, thread, call, next_tid, filesys_lock, loaded, collected>>

User(p) ==
    \/ CallExec(p) \/ CallFile(p) \/ CallWait(p) \/ CallExit(p)
    \/ Fault(p) \/ Kill(p) \/ Halt(p)

-----------------------------------------------------------------------------
(* The calls on files, and exec. *)

\* The system call returns r, and p goes to l; the local variables are gone.
Back(p, r, l) ==
    /\ Set(p, [NoCall EXCEPT !.eax = r])
    /\ Go(p, l)

\* lock_acquire (&filesys_lock) at l, on to m.
Acquire(p, l, m) ==
    /\ At(p, l)
    /\ filesys_lock = 0
    /\ filesys_lock' = p
    /\ Go(p, m)
    /\ UNCHANGED <<thread, call, next_tid, machine, loaded, collected>>

\* lock_release (&filesys_lock) at l, back to the program with r.
Release(p, l, r) ==
    /\ At(p, l)
    /\ filesys_lock' = 0
    /\ Back(p, r, "user")
    /\ UNCHANGED <<thread, next_tid, machine, loaded, collected>>

FileLock(p) == Acquire(p, "file_lock", "file")
FileDone(p) == Release(p, "file", 0)

\* The user's buffer leads to a page that is not there: page_fault aborts the
\* process where it is, under the lock.
FileFault(p) ==
    /\ "abort" \in Deaths
    /\ At(p, "file")
    /\ Abort(p)
    /\ UNCHANGED <<thread, next_tid, filesys_lock, machine, loaded, collected>>

ExecLock(p) == Acquire(p, "exec_lock", "exec_open")
ExecReturn(p) == Release(p, "exec_return", call[p].eax)

\* Near miss: the lock is given back before process_execute.
ExecOpenUnlocked(p) ==
    /\ At(p, "exec_open")
    /\ Go(p, "create")
    /\ filesys_lock' = 0
    /\ UNCHANGED <<thread, call, next_tid, machine, loaded, collected>>

ExecOpen(p) ==
    /\ At(p, "exec_open")
    /\ \/ Go(p, "create") /\ UNCHANGED call
       \/ Go(p, "exec_return") /\ Set(p, [call[p] EXCEPT !.eax = Error])
    /\ UNCHANGED <<thread, next_tid, filesys_lock, machine, loaded, collected>>

\* process_execute returns r to SYS_EXEC, or to run_task, which waits for it.
Executed(p, r) ==
    /\ Set(p, [call[p] EXCEPT !.eax = r, !.tid = r])
    /\ Go(p, IF p = Main THEN "wait_zombies" ELSE "exec_return")

NoPage(p) ==
    /\ At(p, "create")
    /\ Executed(p, Error)
    /\ UNCHANGED <<thread, next_tid, filesys_lock, machine, loaded, collected>>

Create(p) ==
    /\ At(p, "create")
    /\ next_tid \in Procs
    /\ next_tid' = next_tid + 1
    /\ thread' = [thread EXCEPT ![next_tid] = NewThread(p, thread[p].exit_status),
                                ![p].children = @ \cup {next_tid}]
    /\ pc' = [pc EXCEPT ![p] = "reap", ![next_tid] = "load"]
    /\ Set(p, [call[p] EXCEPT !.tid = next_tid])
    /\ UNCHANGED <<filesys_lock, machine, loaded, collected>>

\* thread_create returns TID_ERROR, and the sema_down comes all the same.
CreateFails(p) ==
    /\ At(p, "create")
    /\ Go(p, "reap")
    /\ Set(p, [call[p] EXCEPT !.tid = Error])
    /\ UNCHANGED <<thread, next_tid, filesys_lock, machine, loaded, collected>>

Reap(p) ==
    /\ At(p, "reap")
    /\ thread[p].reap_sema > 0
    /\ thread' = [thread EXCEPT ![p].reap_sema = @ - 1]
    /\ Executed(p, IF thread[p].success THEN call[p].tid ELSE Error)
    /\ UNCHANGED <<next_tid, filesys_lock, machine, loaded, collected>>

Exec(p) ==
    \/ FileLock(p) \/ FileDone(p) \/ FileFault(p)
    \/ ExecLock(p) \/ ExecReturn(p) \/ ExecOpen(p)
    \/ NoPage(p) \/ Create(p) \/ CreateFails(p) \/ Reap(p)

-----------------------------------------------------------------------------
(* start_process *)

Load(p) ==
    /\ At(p, "load")
    /\ loaded' \in {loaded, loaded \cup {p}}
    /\ Go(p, "report")
    /\ UNCHANGED <<thread, call, next_tid, filesys_lock, machine, collected>>

\* The file cannot be opened: file_deny_write asserts that it was.
LoadPanic(p) ==
    /\ At(p, "load")
    /\ machine' = "off"
    /\ UNCHANGED <<pc, thread, call, next_tid, filesys_lock, loaded, collected>>

\* Near miss: only a failure is reported.
ReportFailure(p) ==
    /\ At(p, "report")
    /\ thread' = [thread EXCEPT ![Parent(p)].success = @ /\ p \in loaded]
    /\ Go(p, "started")
    /\ UNCHANGED <<call, next_tid, filesys_lock, machine, loaded, collected>>

Report(p) ==
    /\ At(p, "report")
    /\ thread' = [thread EXCEPT ![Parent(p)].success = p \in loaded]
    /\ Go(p, "started")
    /\ UNCHANGED <<call, next_tid, filesys_lock, machine, loaded, collected>>

Started(p) ==
    /\ At(p, "started")
    /\ thread' = [thread EXCEPT ![Parent(p)].reap_sema = @ + 1]
    /\ IF p \in loaded THEN Go(p, "user") /\ UNCHANGED call ELSE Abort(p)
    /\ UNCHANGED <<next_tid, filesys_lock, machine, loaded, collected>>

Start(p) == Load(p) \/ LoadPanic(p) \/ Report(p) \/ Started(p)

-----------------------------------------------------------------------------
(* process_wait *)

\* process_wait returns r; after that of run_task the machine is powered off.
Return(p, r) == Back(p, r, IF p = Main THEN "done" ELSE "user")

ZombiesOf(p, t) == {z \in thread[p].zombies : z.tid = t}

\* Near miss: the record stays on the list.
WaitZombieKept(p) ==
    /\ At(p, "wait_zombies")
    /\ \E z \in ZombiesOf(p, call[p].tid) : Return(p, z.exit_status)
    /\ collected' = collected \cup {call[p].tid}
    /\ UNCHANGED <<thread, next_tid, filesys_lock, machine, loaded>>

\* The child was dead already.
WaitZombie(p) ==
    /\ At(p, "wait_zombies")
    /\ \E z \in ZombiesOf(p, call[p].tid) :
          /\ thread' = [thread EXCEPT ![p].zombies = @ \ {z}]
          /\ Return(p, z.exit_status)
    /\ collected' = collected \cup {call[p].tid}
    /\ UNCHANGED <<next_tid, filesys_lock, machine, loaded>>

\* Near miss: whoever is no zombie is waited for.
WaitUnchecked(p) ==
    /\ At(p, "wait_zombies")
    /\ ZombiesOf(p, call[p].tid) = {}
    /\ Go(p, "wait_mark")
    /\ UNCHANGED <<thread, call, next_tid, filesys_lock, machine, loaded, collected>>

WaitZombies(p) ==
    /\ At(p, "wait_zombies")
    /\ ZombiesOf(p, call[p].tid) = {}
    /\ Go(p, "wait_children")
    /\ UNCHANGED <<thread, call, next_tid, filesys_lock, machine, loaded, collected>>

\* The scan of the children finds the tid before it meets a freed thread ...
WaitFound(p) ==
    /\ At(p, "wait_children")
    /\ call[p].tid # thread[p].reaped
    /\ call[p].tid \in thread[p].children
    /\ ~Freed(call[p].tid)
    /\ Go(p, "wait_mark")
    /\ UNCHANGED <<thread, call, next_tid, filesys_lock, machine, loaded, collected>>

\* ... or comes to the end without either.
WaitDenied(p) ==
    /\ At(p, "wait_children")
    /\ \/ call[p].tid = thread[p].reaped
       \/ call[p].tid \notin thread[p].children /\ ~DeadLinks(p)
    /\ Return(p, Error)
    /\ UNCHANGED <<thread, next_tid, filesys_lock, machine, loaded, collected>>

WaitMark(p) ==
    /\ At(p, "wait_mark")
    /\ thread' = [thread EXCEPT ![p].waiting = call[p].tid]
    /\ Go(p, "wait_down")
    /\ UNCHANGED <<call, next_tid, filesys_lock, machine, loaded, collected>>

WaitDown(p) ==
    /\ At(p, "wait_down")
    /\ thread[p].child_sema > 0
    /\ thread' = [thread EXCEPT ![p].child_sema = @ - 1]
    /\ collected' = collected \cup {call[p].tid}
    /\ Go(p, "wait_return")
    /\ UNCHANGED <<call, next_tid, filesys_lock, machine, loaded>>

WaitReturn(p) ==
    /\ At(p, "wait_return")
    /\ thread' = [thread EXCEPT ![p].reaped = call[p].tid]
    /\ Return(p, thread[p].exit_status)
    /\ UNCHANGED <<next_tid, filesys_lock, machine, loaded, collected>>

Wait(p) ==
    \/ WaitZombie(p) \/ WaitZombies(p) \/ WaitFound(p) \/ WaitDenied(p)
    \/ WaitMark(p) \/ WaitDown(p) \/ WaitReturn(p)

-----------------------------------------------------------------------------
(* SYS_EXIT and abort_userprog, which store the status and wake the parent *)
(* in opposite orders.                                                     *)

Remove(p) ==
    /\ At(p, "remove")
    /\ ~Freed(Parent(p))
    /\ thread' = [thread EXCEPT ![Parent(p)].children = @ \ {p}]
    /\ Go(p, "test")
    /\ UNCHANGED <<call, next_tid, filesys_lock, machine, loaded, collected>>

\* Near miss: the parent is signalled when it waits for any child.
TestAnyWait(p) ==
    /\ At(p, "test")
    /\ ~Freed(Parent(p))
    /\ Go(p, IF pc[Parent(p)] # "wait_down" THEN "zombie"
             ELSE IF call[p].abort THEN "store" ELSE "signal")
    /\ UNCHANGED <<thread, call, next_tid, filesys_lock, machine, loaded, collected>>

Test(p) ==
    /\ At(p, "test")
    /\ ~Freed(Parent(p))
    /\ Go(p, IF thread[Parent(p)].waiting # p THEN "zombie"
             ELSE IF call[p].abort THEN "store" ELSE "signal")
    /\ UNCHANGED <<thread, call, next_tid, filesys_lock, machine, loaded, collected>>

Signal(p) ==
    /\ At(p, "signal")
    /\ ~Freed(Parent(p))
    /\ thread' = [thread EXCEPT ![Parent(p)].child_sema = @ + 1]
    /\ Go(p, IF call[p].abort THEN "close" ELSE "store")
    /\ UNCHANGED <<call, next_tid, filesys_lock, machine, loaded, collected>>

Store(p) ==
    /\ At(p, "store")
    /\ ~Freed(Parent(p))
    /\ thread' = [thread EXCEPT ![Parent(p)].exit_status = call[p].status]
    /\ Go(p, IF call[p].abort THEN "signal" ELSE "close")
    /\ UNCHANGED <<call, next_tid, filesys_lock, machine, loaded, collected>>

Zombie(p) ==
    /\ At(p, "zombie")
    /\ ~Freed(Parent(p))
    /\ thread' = [thread EXCEPT ![Parent(p)].zombies =
                     @ \cup {[tid |-> p, exit_status |-> call[p].status]}]
    /\ Go(p, "close")
    /\ UNCHANGED <<call, next_tid, filesys_lock, machine, loaded, collected>>

\* Closes the files, with no lock, and empties the list of zombies; each of
\* its records is removed by the process_wait on it.
Close(p) ==
    /\ At(p, "close")
    /\ thread' = [thread EXCEPT ![p].zombies = {}]
    /\ Go(p, "exit")
    /\ UNCHANGED <<call, next_tid, filesys_lock, machine, loaded, collected>>

\* thread_exit.  Only SYS_EXIT releases the lock first.
ThreadExit(p) ==
    /\ At(p, "exit")
    /\ filesys_lock' = IF filesys_lock = p /\ ~call[p].abort THEN 0 ELSE filesys_lock
    /\ Go(p, "dead")
    /\ UNCHANGED <<thread, call, next_tid, machine, loaded, collected>>

End(p) ==
    \/ Remove(p) \/ Test(p) \/ Signal(p) \/ Store(p) \/ Zombie(p)
    \/ Close(p) \/ ThreadExit(p)

-----------------------------------------------------------------------------
\* A step of p that goes through the page of a thread that was freed: its
\* parent, a sibling it is linked to, or a child on its own list.
TouchFreed(p) ==
    /\ \/ /\ \E l \in {"remove", "test", "signal", "store", "zombie"} : At(p, l)
          /\ Freed(Parent(p))
       \/ At(p, "remove") /\ DeadLinks(Parent(p))
       \/ \E l \in {"create", "wait_children"} : At(p, l) /\ DeadLinks(p)
    /\ machine' = "broken"
    /\ UNCHANGED <<pc, thread, call, next_tid, filesys_lock, loaded, collected>>

PowerOff ==
    /\ At(Main, "done")
    /\ machine' = "off"
    /\ UNCHANGED <<pc, thread, call, next_tid, filesys_lock, loaded, collected>>

Next ==
    \/ \E p \in Procs :
          User(p) \/ Exec(p) \/ Start(p) \/ Wait(p) \/ End(p) \/ TouchFreed(p)
    \/ PowerOff

Spec == Init /\ [][Next]_vars
-----------------------------------------------------------------------------
Labels ==
    {"unborn", "user", "file_lock", "file", "exec_lock", "exec_open", "create",
     "reap", "exec_return", "load", "report", "started", "wait_zombies",
     "wait_children", "wait_mark", "wait_down", "wait_return", "done",
     "remove", "test", "signal", "store", "zombie", "close", "exit", "dead",
     "killed"}

Statuses == Codes \cup {Error, 0}

Thread ==
    [parent : Procs \cup {0}, children : SUBSET Procs,
     zombies : SUBSET [tid : Procs, exit_status : Statuses],
     waiting : Procs \cup {0}, reaped : Procs \cup {0},
     child_sema : Nat, reap_sema : Nat, success : BOOLEAN,
     exit_status : Statuses]

Call == [tid : Procs \cup {0, Error}, status : Statuses, abort : BOOLEAN,
         eax : Procs \cup Statuses]

\* The variables hold values of their types: a tid is that of a process or
\* one of the marks 0 and TID_ERROR, an exit status is one some program gave.
ProcessTypeOK ==
    /\ pc \in [Procs -> Labels]
    /\ thread \in [Procs -> Thread]
    /\ call \in [Procs -> Call]
    /\ next_tid \in 2 .. NProcs + 1
    /\ filesys_lock \in Procs \cup {0}
    /\ machine \in {"on", "off", "broken"}
    /\ loaded \subseteq Procs
    /\ collected \subseteq Procs

Created == 2 .. next_tid - 1

\* c has left the list of its parent and not yet left word of its death.
Leaving(c) ==
    \/ pc[c] \in {"test", "signal", "zombie"}
    \/ pc[c] = "store" /\ call[c].abort

\* c has signalled its parent, which has not come out of sema_down yet.
Signalled(c) ==
    /\ thread[Parent(c)].child_sema > 0
    /\ thread[Parent(c)].waiting = c
    /\ ZombiesOf(Parent(c), c) = {}

\* The death of a child is handed over once: while its parent can still wait,
\* a child is on the list of children, on its way from there, among the
\* zombies, announced by child_sema, or collected, and only one of these.
\* It is about the two protocols by which SYS_EXIT and abort_userprog report
\* to process_wait, and their list_removes and list_push_backs.
ChildAccounted ==
    \A c \in Created :
        pc[Parent(c)] \notin {"exit", "dead", "killed"} =>
            Cardinality({i \in 1 .. 5 :
                CASE i = 1 -> c \in thread[Parent(c)].children
                  [] i = 2 -> Leaving(c)
                  [] i = 3 -> ZombiesOf(Parent(c), c) # {}
                  [] i = 4 -> Signalled(c)
                  [] i = 5 -> c \in collected}) = 1

\* Nobody waits for a child that was collected before, and a semaphore up
\* that ends a wait was meant for that wait: process_wait returns at once the
\* second time, and never with the answer to another call.
WaitOnce ==
    \A p \in Procs :
        /\ pc[p] \in {"wait_mark", "wait_down"} => call[p].tid \notin collected
        /\ thread[p].child_sema > 0 =>
              /\ pc[p] = "wait_down"
              /\ thread[p].waiting = call[p].tid
              /\ pc[call[p].tid] \in {"store", "close", "exit", "dead"}

\* exec answers with the tid of a process only when that process was loaded,
\* and with an error otherwise, whatever other programs are started and fail
\* meanwhile: success and reap_sema of the parent carry one answer at a time.
ExecReportsLoad ==
    [][\A p \in Procs :
          pc[p] = "reap" /\ pc'[p] # "reap" =>
              call'[p].eax = IF call[p].tid \in loaded THEN call[p].tid ELSE Error]_vars

InFileSystem(p) == pc[p] \in {"exec_open", "load", "file"}

\* The file system is entered by one process at a time, outside of exit.  A
\* program is loaded by the child without the lock: its parent holds it, or is
\* Main before any other process exists.
FileSystemExclusive ==
    \A p, q \in Procs : InFileSystem(p) /\ InFileSystem(q) => p = q

\* process.c:103, "Waits for thread TID to die and returns its exit status":
\* a process that waits for a child is not left waiting once that child can
\* no longer tell it.
WaitAnswered ==
    \A p \in Procs :
        machine = "on" /\ pc[p] = "wait_down" /\ thread[p].child_sema = 0 =>
            pc[call[p].tid] \notin {"zombie", "close", "exit", "dead", "killed"}

\* process.c:103 again: what wait returns is the status the child gave.
StatusReturned ==
    [][\A p \in Procs :
          pc[p] = "wait_return" /\ pc'[p] # "wait_return" =>
              call'[p].eax = call[call[p].tid].status]_vars
=============================================================================

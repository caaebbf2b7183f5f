-------------------------------- MODULE Tsh --------------------------------
(***************************************************************************)
(* The shell of CS230 shelllab, tsh.c: the read/eval loop, the job list    *)
(* and the three signal handlers.  Everything between two system calls     *)
(* that block or unblock signals is one step when signals are blocked;     *)
(* elsewhere a handler may run between any two accesses to the job list.   *)
(* A handler runs on top of what it interrupted, which goes on when it     *)
(* returns.  Standard signals are pending or not: they do not queue.       *)
(*                                                                         *)
(* The children and the delivery of signals are the operating system's;    *)
(* they are modelled as tsh.c uses them.  A process id is never reused.    *)
(***************************************************************************)
EXTENDS Naturals, Sequences, FiniteSetsExt

CONSTANTS
    Pids,       \* the process ids fork returns
    None,       \* the process id 0 of a free entry of the job list
    MAXJOBS,
    Garbage,    \* the values the uninitialized jid of do_bgfg may have
    Keys        \* bound: the signals the user types, of SIGINT and SIGTSTP

ASSUME TshAssumption ==
    /\ None \notin Pids
    /\ MAXJOBS \in Nat \ {0}
    /\ Garbage \subseteq Pids \cup {None}
    /\ Keys \subseteq {"INT", "TSTP"}

VARIABLES
    jobs,       \* the job list
    nextjid,
    pc,         \* where the read/eval loop is
    cmdpid,     \* its variable pid: the child forked, or the argument of waitfg
    cmdslot,    \* its variable proc: the entry do_bgfg found
    cmdstate,   \* the state it is about to give to a job
    blocked,    \* all signals are blocked by sigprocmask
    pending,    \* the signals pending for the shell
    stack,      \* the handlers that are running, the innermost first
    hpc,        \* where each handler is
    hpid,       \* the variable pid (wpid) of each handler
    child,      \* the state of each child process
    refused,    \* history: the children addjob found no room for
    continued   \* history: those another process has continued since the shell
                \* was told that they had stopped, and that it has not continued

mainVars == <<pc, cmdpid, cmdslot, cmdstate, blocked>>
listVars == <<jobs, nextjid, refused>>
handlerVars == <<stack, hpc, hpid>>
childVars == <<child, continued>>
vars == <<mainVars, listVars, handlerVars, pending, childVars>>

Signals == {"INT", "TSTP", "CHLD"}
Slots == 1..MAXJOBS

\* An entry that clearjob has cleared.
NoJob == [pid |-> None, jid |-> 0, state |-> "UNDEF"]

Init ==
    /\ jobs = [i \in Slots |-> NoJob]
    /\ nextjid = 1
    /\ pc = "prompt"
    /\ cmdpid = None
    /\ cmdslot = 0
    /\ cmdstate = "UNDEF"
    /\ blocked = FALSE
    /\ pending = {}
    /\ stack = <<>>
    /\ hpc = [s \in Signals |-> "off"]
    /\ hpid = [s \in Signals |-> None]
    /\ child = [p \in Pids |-> "none"]
    /\ refused = {}
    /\ continued = {}

-----------------------------------------------------------------------------
(* The job list.                                                           *)

\* The first entry of a set of entries, 0 if there is none.
First(S) == IF S = {} THEN 0 ELSE Min(S)

\* getjobpid, getjobjid: NULL is 0.
SlotOfPid(p) == IF p = None THEN 0 ELSE First({i \in Slots : jobs[i].pid = p})
SlotOfJid(j) == First({i \in Slots : jobs[i].jid = j})

\* Near miss: the first job that is not stopped.
FgPidOfRunning ==
    LET i == First({k \in Slots : jobs[k].state \in {"FG", "BG"}})
    IN  IF i = 0 THEN None ELSE jobs[i].pid

\* fgpid: the process id of the first entry in state FG.
FgPid ==
    LET i == First({k \in Slots : jobs[k].state = "FG"})
    IN  IF i = 0 THEN None ELSE jobs[i].pid

\* Near miss: the job IDs wrap to 0.
NextJidFromZero(n) == IF n + 1 > MAXJOBS THEN 0 ELSE n + 1

\* The job IDs are allocated round robin by addjob, which wraps them at MAXJOBS,
\* and from the largest one in use by deletejob.
NextJid(n) == IF n + 1 > MAXJOBS THEN 1 ELSE n + 1
MaxJid(js) == Max({0} \cup {js[i].jid : i \in Slots})

\* addjob: with no free entry the job is not listed.  A message is printed, and
\* eval does not look at what addjob returns.
AddJob(p, st) ==
    LET i == First({k \in Slots : jobs[k].pid = None})
    IN  IF i = 0
          THEN refused' = refused \cup {p} /\ UNCHANGED <<jobs, nextjid>>
          ELSE /\ jobs' = [jobs EXCEPT ![i] = [pid |-> p, jid |-> nextjid, state |-> st]]
               /\ nextjid' = NextJid(nextjid)
               /\ UNCHANGED refused

\* deletejob
DeleteJob(p) ==
    /\ UNCHANGED refused
    /\ IF SlotOfPid(p) = 0
         THEN UNCHANGED <<jobs, nextjid>>
         ELSE /\ jobs' = [jobs EXCEPT ![SlotOfPid(p)] = NoJob]
              /\ nextjid' = MaxJid(jobs') + 1

\* Near miss: do_bgfg leaves the state as it was.
StateKept(i, st) == jobs

\* do_bgfg: proc->state = st
Marked(i, st) == [jobs EXCEPT ![i].state = st]

-----------------------------------------------------------------------------
(* The read/eval loop.  It runs while no handler does.                     *)

Main(l) == pc = l /\ stack = <<>>

Alive == pc \notin {"exited", "crashed"}

Goto(l) == pc' = l /\ UNCHANGED <<cmdpid, cmdslot, cmdstate>>

\* The command is done, and its variables are gone ...
Done == pc' = "prompt" /\ cmdpid' = None /\ cmdslot' = 0 /\ cmdstate' = "UNDEF"

\* ... or all that is left of it is waitfg (p).
WaitFg(p) == pc' = "wait" /\ cmdpid' = p /\ cmdslot' = 0 /\ cmdstate' = "UNDEF"

\* Near miss: eval forks with the signals let through.
SignalsLetThrough == FALSE

\* eval blocks all signals before it forks.
SignalsBlocked == TRUE

\* eval: a command line that is not a builtin command.  A fork that fails lists
\* nothing and waits for nothing.
Run(p, st) ==
    /\ Main("prompt")
    /\ child[p] = "none"
    /\ child' = [child EXCEPT ![p] = "forked"]
    /\ blocked' = SignalsBlocked
    /\ cmdpid' = p
    /\ cmdstate' = st
    /\ pc' = "add"
    /\ UNCHANGED <<cmdslot, listVars, handlerVars, pending, continued>>

\* The parent lists the child and unblocks the signals.
Add ==
    /\ Main("add")
    /\ AddJob(cmdpid, cmdstate)
    /\ blocked' = FALSE
    /\ IF cmdstate = "FG" THEN WaitFg(cmdpid) ELSE Done
    /\ UNCHANGED <<handlerVars, pending, childVars>>

\* do_bgfg has found the entry i and is to give it the state st; p is the
\* argument of waitfg if it is known already.
BgFg(i, st, p) ==
    /\ Main("prompt")
    /\ i # 0
    /\ cmdslot' = i
    /\ cmdstate' = st
    /\ cmdpid' = p
    /\ pc' = "cont"
    /\ UNCHANGED <<blocked, listVars, handlerVars, pending, childVars>>

\* The commands bg %jid, fg %jid, bg pid and fg pid.  The last looks for the
\* uninitialized jid (tsh.c:360) and waits for the pid.
BgFgJid(j, st) == j > 0 /\ BgFg(SlotOfJid(j), st, None)
BgPid(p) == BgFg(SlotOfPid(p), "BG", None)
FgPidArg(p, g) == BgFg(SlotOfPid(g), "FG", p)

\* kill (-(proc->pid), SIGCONT); the kernel tells the parent of a child that
\* was continued.  With a cleared entry the signal goes to the shell's group.
Cont ==
    /\ Main("cont")
    /\ LET p == jobs[cmdslot].pid
       IN  /\ IF p # None /\ child[p] \in {"stopping", "stopped"}
                THEN /\ child' = [child EXCEPT ![p] = "running"]
                     /\ pending' = pending \cup {"CHLD"}
                ELSE UNCHANGED <<child, pending>>
           /\ continued' = continued \ {p}
    /\ Goto("set")
    /\ UNCHANGED <<blocked, listVars, handlerVars>>

\* The state is set, with the signals blocked, whatever happened since.
Set ==
    /\ Main("set")
    /\ jobs' = Marked(cmdslot, cmdstate)
    /\ CASE cmdstate = "BG" -> Done
         [] cmdstate = "FG" /\ cmdpid = None -> Goto("arg")
         [] OTHER -> WaitFg(cmdpid)
    /\ UNCHANGED <<blocked, nextjid, refused, handlerVars, pending, childVars>>

\* fg %jid: the argument of waitfg, proc->pid, is read after the unblocking.
Arg ==
    /\ Main("arg")
    /\ WaitFg(jobs[cmdslot].pid)
    /\ UNCHANGED <<blocked, listVars, handlerVars, pending, childVars>>

\* waitfg, its first test and the one of its loop: is the job still listed?
WaitListed ==
    /\ Main("wait") \/ Main("test")
    /\ CASE SlotOfPid(cmdpid) = 0 -> Done
         [] SlotOfPid(cmdpid) # 0 /\ pc = "wait" -> Goto("test")
         [] OTHER -> Goto("state")
    /\ UNCHANGED <<blocked, listVars, handlerVars, pending, childVars>>

\* ... and is it, looked up once more, still in the foreground?
WaitState ==
    /\ Main("state")
    /\ LET i == SlotOfPid(cmdpid)
       IN  CASE i = 0 -> Goto("crashed")
             [] i # 0 /\ jobs[i].state = "FG" -> Goto("test")
             [] OTHER -> Done
    /\ UNCHANGED <<blocked, listVars, handlerVars, pending, childVars>>

\* The command quit, or the end of the input.
Quit ==
    /\ Main("prompt")
    /\ Goto("exited")
    /\ UNCHANGED <<blocked, listVars, handlerVars, pending, childVars>>

-----------------------------------------------------------------------------
(* The signal handlers.                                                    *)

\* Handler s is the innermost one, and is at l.
In(s, l) == Alive /\ stack # <<>> /\ Head(stack) = s /\ hpc[s] = l

Return(s) ==
    /\ stack' = Tail(stack)
    /\ hpc' = [hpc EXCEPT ![s] = "off"]
    /\ hpid' = [hpid EXCEPT ![s] = None]

\* A pending signal interrupts the shell; its own handler blocks it meanwhile.
Deliver(s) ==
    /\ Alive
    /\ s \in pending
    /\ ~blocked
    /\ hpc[s] = "off"
    /\ pending' = pending \ {s}
    /\ stack' = <<s>> \o stack
    /\ hpc' = [hpc EXCEPT ![s] = "start"]
    /\ UNCHANGED <<hpid, mainVars, listVars, childVars>>

\* What waitpid (-1, &child_status, WNOHANG|WUNTRACED) can report.
Reportable == {p \in Pids : child[p] \in {"zombie", "stopping"}}

\* sigchld_handler calls waitpid once.
WaitPid ==
    /\ In("CHLD", "start")
    /\ \/ /\ Reportable = {}
          /\ Return("CHLD")
          /\ UNCHANGED childVars
       \/ \E p \in Reportable :
            /\ child' = [child EXCEPT ![p] = IF @ = "zombie" THEN "reaped" ELSE "stopped"]
            /\ continued' = continued \ {p}
            /\ hpc' = [hpc EXCEPT !["CHLD"] = "update"]
            /\ hpid' = [hpid EXCEPT !["CHLD"] = p]
            /\ UNCHANGED stack
    /\ UNCHANGED <<mainVars, listVars, pending>>

\* Near miss: every report is taken for that of a death.
DiedOrStopped(p) == child[p] \in {"reaped", "stopped"}

\* WIFEXITED (child_status) || WIFSIGNALED (child_status)
Died(p) == child[p] = "reaped"

\* ... and brings the job list up to date, with the signals blocked.
UpdateJob ==
    /\ In("CHLD", "update")
    /\ LET p == hpid["CHLD"]
           i == SlotOfPid(p)
       IN  IF Died(p)
             THEN DeleteJob(p) /\ UNCHANGED pc
             ELSE /\ IF i = 0
                       THEN pc' = "crashed" /\ UNCHANGED jobs
                       ELSE jobs' = [jobs EXCEPT ![i].state = "ST"] /\ UNCHANGED pc
                  /\ UNCHANGED <<nextjid, refused>>
    /\ Return("CHLD")
    /\ UNCHANGED <<cmdpid, cmdslot, cmdstate, blocked, pending, childVars>>

\* sigint_handler and sigtstp_handler look for the foreground job ...
FindForeground(s) ==
    /\ In(s, "start")
    /\ IF FgPid = None
         THEN Return(s)
         ELSE /\ hpid' = [hpid EXCEPT ![s] = FgPid]
              /\ hpc' = [hpc EXCEPT ![s] = "kill"]
              /\ UNCHANGED stack
    /\ UNCHANGED <<mainVars, listVars, pending, childVars>>

\* ... and send the signal on to its process group, which a child that has not
\* called setpgid does not have yet.  A program may catch SIGINT.
Forward(s) ==
    /\ In(s, "kill")
    /\ LET p == hpid[s]
       IN  IF child[p] = "running"
             THEN \/ /\ child' = [child EXCEPT ![p] = IF s = "INT" THEN "zombie" ELSE "stopping"]
                     /\ pending' = pending \cup {"CHLD"}
                  \/ UNCHANGED <<child, pending>>
             ELSE UNCHANGED <<child, pending>>
    /\ Return(s)
    /\ UNCHANGED <<mainVars, listVars, continued>>

-----------------------------------------------------------------------------
(* The operating system and the user, until the shell is gone.             *)

\* The child unblocks the signals, becomes a group of its own and runs execve.
ChildStart(p) ==
    /\ Alive
    /\ child[p] = "forked"
    /\ child' = [child EXCEPT ![p] = "running"]
    /\ UNCHANGED <<mainVars, listVars, handlerVars, pending, continued>>

\* A child exits, or is killed, also when it is stopped.  Nothing is said of who
\* continued a dead one.
ChildExit(p) ==
    /\ Alive
    /\ child[p] \in {"running", "stopping", "stopped"}
    /\ child' = [child EXCEPT ![p] = "zombie"]
    /\ continued' = continued \ {p}
    /\ pending' = pending \cup {"CHLD"}
    /\ UNCHANGED <<mainVars, listVars, handlerVars>>

\* A child stops, by a signal of its own or of another process.
ChildStop(p) ==
    /\ Alive
    /\ child[p] = "running"
    /\ child' = [child EXCEPT ![p] = "stopping"]
    /\ pending' = pending \cup {"CHLD"}
    /\ UNCHANGED <<mainVars, listVars, handlerVars, continued>>

\* Another process continues a child that has stopped.  The shell is told of it
\* by a SIGCHLD, but waitpid has not been asked to report it (no WCONTINUED).
ChildContinue(p) ==
    /\ Alive
    /\ child[p] \in {"stopping", "stopped"}
    /\ child' = [child EXCEPT ![p] = "running"]
    /\ continued' = continued \cup (IF child[p] = "stopped" THEN {p} ELSE {})
    /\ pending' = pending \cup {"CHLD"}
    /\ UNCHANGED <<mainVars, listVars, handlerVars>>

\* The user types ctrl-c or ctrl-z.
Keyboard(s) ==
    /\ Alive
    /\ s \notin pending
    /\ pending' = pending \cup {s}
    /\ UNCHANGED <<mainVars, listVars, handlerVars, childVars>>

Next ==
    \/ \E p \in Pids, st \in {"FG", "BG"} : Run(p, st)
    \/ Add
    \/ \E j \in {jobs[i].jid : i \in Slots}, st \in {"FG", "BG"} : BgFgJid(j, st)
    \/ \E p \in Pids : BgPid(p)
    \/ \E p \in Pids, g \in Garbage : FgPidArg(p, g)
    \/ Cont
    \/ Set
    \/ Arg
    \/ WaitListed
    \/ WaitState
    \/ Quit
    \/ \E s \in Signals : Deliver(s)
    \/ WaitPid
    \/ UpdateJob
    \/ \E s \in {"INT", "TSTP"} : FindForeground(s)
    \/ \E s \in {"INT", "TSTP"} : Forward(s)
    \/ \E p \in Pids : ChildStart(p)
    \/ \E p \in Pids : ChildExit(p)
    \/ \E p \in Pids : ChildStop(p)
    \/ \E p \in Pids : ChildContinue(p)
    \/ \E s \in Keys : Keyboard(s)

Spec == Init /\ [][Next]_vars

-----------------------------------------------------------------------------
States == {"UNDEF", "FG", "BG", "ST"}

\* Every variable keeps the type of the one it stands for.
TypeOK ==
    /\ jobs \in [Slots -> [pid : Pids \cup {None}, jid : Nat, state : States]]
    /\ nextjid \in Nat \ {0}
    /\ pc \in {"prompt", "add", "cont", "set", "arg", "wait", "test", "state", "exited",
               "crashed"}
    /\ cmdpid \in Pids \cup {None}
    /\ cmdslot \in Slots \cup {0}
    /\ cmdstate \in States
    /\ blocked \in BOOLEAN
    /\ pending \subseteq Signals
    /\ stack \in Seq(Signals)
    /\ hpc \in [Signals -> {"off", "start", "update", "kill"}]
    /\ hpid \in [Signals -> Pids \cup {None}]
    /\ child \in [Pids -> {"none", "forked", "running", "stopping", "stopped", "zombie",
                           "reaped"}]
    /\ refused \subseteq Pids
    /\ continued \subseteq Pids

Listed(p) == \E i \in Slots : jobs[i].pid = p

\* sigchld_handler has reaped p and not yet taken it off the list.
BeingDeleted(p) == hpc["CHLD"] = "update" /\ hpid["CHLD"] = p

\* eval, addjob and sigchld_handler: a job on the list is a child that has not
\* been reaped, but for the one being taken off, and it is there once: no child
\* is listed after it was reaped, however early it dies.
NoGhostJob ==
    \A i \in Slots : jobs[i].pid # None =>
      /\ child[jobs[i].pid] # "none"
      /\ child[jobs[i].pid] = "reaped" => BeingDeleted(jobs[i].pid)
      /\ \A k \in Slots : jobs[k].pid = jobs[i].pid => k = i

\* A child that has not been reaped is on the list, or eval is about to list it,
\* or the list was full when it tried.
NoChildForgotten ==
    \A p \in Pids : child[p] \notin {"none", "reaped"} =>
      Listed(p) \/ (pc = "add" /\ cmdpid = p) \/ p \in refused

\* eval, its head comment: ctrl-c and ctrl-z do not reach a background job, not
\* even one that was in the foreground when the handler looked for it.
BackgroundUntouched ==
    \A s \in {"INT", "TSTP"}, i \in Slots :
      hpc[s] = "kill" /\ jobs[i].pid = hpid[s] => jobs[i].state \in {"FG", "ST"}

\* do_bgfg, sigchld_handler: a job that is listed as stopped does not run, but
\* while do_bgfg is between its SIGCONT and the new state, unless another process
\* has continued it since the shell was told that it stopped.
StoppedUnlessContinued ==
    \A i \in Slots : Alive /\ jobs[i].pid # None /\ jobs[i].state = "ST" =>
      \/ child[jobs[i].pid] \in {"stopped", "zombie", "reaped"}
      \/ jobs[i].pid \in continued
      \/ pc = "set" /\ cmdslot = i

-----------------------------------------------------------------------------
(* What the repository says of the program and the code does not do.       *)

\* The head comment of sigchld_handler: it reaps all available zombie children.
\* When no SIGCHLD is pending or being handled, none is left.
AllReaped ==
    Alive /\ "CHLD" \notin pending /\ hpc["CHLD"] = "off" =>
      \A p \in Pids : child[p] # "zombie"
=============================================================================

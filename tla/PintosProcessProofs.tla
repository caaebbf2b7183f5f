------------------------- MODULE PintosProcessProofs -------------------------
(***************************************************************************)
(* exec, exit and wait of project 2, for any number of processes, exit     *)
(* codes and deaths: the file system is entered by one process at a time,  *)
(* exec answers whether the program was loaded, and every death that a     *)
(* parent can still ask about is handed over exactly once.                 *)
(***************************************************************************)
EXTENDS PintosProcess, FiniteSetTheorems, TLAPS

\* start_process has not yet told the parent.
Starting == {"load", "report", "started"}

\* Where a process that is not Main holds filesys_lock.
Locked == {"file", "exec_open", "create", "reap", "exec_return"}

\* Tids are given out in order, and run_task calls nothing but process_execute
\* and process_wait.
TreeOK ==
    /\ \A p \in Procs : pc[p] = "unborn" <=> p >= next_tid
    /\ pc[Main] \in {"create", "reap", "wait_zombies", "wait_children", "wait_mark",
                     "wait_down", "wait_return", "done"}
    /\ \A p \in Created : Parent(p) \in 1 .. p - 1

\* While a child starts its parent waits for it, and for no other ...
ChildStarts(p) ==
    /\ pc[p] \in Starting =>
          /\ pc[Parent(p)] = "reap"
          /\ call[Parent(p)].tid = p
          /\ thread[Parent(p)].reap_sema = 0
    /\ pc[p] = "started" => thread[Parent(p)].success = (p \in loaded)

\* ... and reap_sema is up for the answer of that child alone.
ParentReaps(p) ==
    /\ pc[p] = "reap" => call[p].tid \in Created \cup {Error}
    /\ thread[p].reap_sema > 0 =>
          /\ pc[p] = "reap"
          /\ thread[p].reap_sema = 1
          /\ call[p].tid \in Created
          /\ pc[call[p].tid] \notin Starting
          /\ thread[p].success = (call[p].tid \in loaded)

AnswerOK == \A p \in Procs : ChildStarts(p) /\ ParentReaps(p)

\* The lock, and Main, which starts the first process without it.
LockOK ==
    /\ \A p \in Procs : p # Main /\ pc[p] \in Locked => filesys_lock = p
    /\ pc[Main] = "create" => next_tid = 2
    /\ \A p \in Procs : pc[p] = "load" /\ Parent(p) = Main => next_tid = 3

\* A process that waits does so for another one.
Waiting == {"wait_mark", "wait_down", "wait_return"}
ArgOK == \A p \in Procs : pc[p] \in Waiting => call[p].tid \in Procs

IInv == ProcessTypeOK /\ TreeOK /\ AnswerOK /\ LockOK /\ ArgOK

-----------------------------------------------------------------------------
(* Types.                                                                  *)

LEMMA InitType == Init => ProcessTypeOK
BY ProcessAssumption
   DEF Init, ProcessTypeOK, Procs, Main, NewThread, NoCall, Thread, Call, Statuses, Error, Labels

\* What the building blocks of the actions assign.
LEMMA GoType ==
    ASSUME ProcessTypeOK, NEW p \in Procs, NEW l \in Labels, Go(p, l)
    PROVE  pc' \in [Procs -> Labels]
BY DEF ProcessTypeOK, Go

LEMMA SetType ==
    ASSUME ProcessTypeOK, NEW p \in Procs, NEW c \in Call, Set(p, c)
    PROVE  call' \in [Procs -> Call]
BY DEF ProcessTypeOK, Set

LEMMA CallType ==
    ASSUME ProcessTypeOK, NEW p \in Procs
    PROVE  /\ NoCall \in Call
           /\ \A t \in Procs \cup {0, Error} : [NoCall EXCEPT !.tid = t] \in Call
           /\ \A r \in Procs \cup Statuses : [NoCall EXCEPT !.eax = r] \in Call
           /\ \A s \in Statuses : [NoCall EXCEPT !.status = s] \in Call
           /\ [NoCall EXCEPT !.status = Error, !.abort = TRUE] \in Call
           /\ \A t \in Procs \cup {0, Error} : [call[p] EXCEPT !.tid = t] \in Call
           /\ \A r \in Procs \cup Statuses : [call[p] EXCEPT !.eax = r] \in Call
           /\ \A r \in Procs \cup {Error} : [call[p] EXCEPT !.eax = r, !.tid = r] \in Call
           /\ call[p].tid \in Procs \cup {0, Error}
           /\ call[p].status \in Statuses
           /\ call[p].eax \in Procs \cup Statuses
           /\ call[p].abort \in BOOLEAN
BY DEF ProcessTypeOK, NoCall, Call, Statuses

\* The labels of a process other than Main; of Main see TreeOK.
LEMMA ParentType ==
    ASSUME ProcessTypeOK, TreeOK, NEW p \in Procs,
           pc[p] \in Starting \cup {"remove", "test", "signal", "store", "zombie"}
    PROVE  p \in Created /\ Parent(p) \in Procs /\ Parent(p) # p
<1>1. p # Main
  BY DEF TreeOK, Starting
<1>2. p < next_tid
  BY DEF TreeOK, Starting, ProcessTypeOK, Procs
<1>3. p \in Created
  BY <1>1, <1>2, ProcessAssumption DEF Created, Procs, Main, ProcessTypeOK
<1> QED BY <1>1, <1>3, ProcessAssumption DEF TreeOK, Created, Procs, ProcessTypeOK

-----------------------------------------------------------------------------
(* What the steps have in common.                                          *)

\* Where processes are in the tree does not change after their creation.
LEMMA TreeStep ==
    ASSUME IInv, NEW p \in Procs, NEW l, l # "unborn", pc[p] # "unborn",
           pc'[p] = l,
           \A q \in Procs \ {p} : pc'[q] = pc[q],
           p = Main => l \in {"create", "reap", "wait_zombies", "wait_children",
                              "wait_mark", "wait_down", "wait_return", "done"},
           \A q \in Procs : Parent(q)' = Parent(q),
           next_tid' = next_tid
    PROVE  TreeOK'
<1>1. Created' = Created /\ Created \subseteq Procs /\ Main \in Procs
  BY ProcessAssumption DEF IInv, ProcessTypeOK, Created, Procs, Main
<1> QED BY <1>1 DEF IInv, TreeOK

\* p moves on outside of exec, and nothing exec or start_process read changes.
LEMMA QuietStep ==
    ASSUME IInv, NEW p \in Procs, NEW l \in Labels \ ({"unborn", "reap"} \cup Starting),
           pc[p] \notin {"unborn", "reap"} \cup Starting,
           Go(p, l),
           p # Main /\ l \in Locked => filesys_lock' = p,
           p = Main => l \in {"wait_zombies", "wait_children", "wait_mark", "wait_down",
                              "wait_return", "done"},
           \A q \in Procs \ {p} : call'[q] = call[q],
           \A q \in Procs : /\ thread'[q].parent = thread[q].parent
                            /\ thread'[q].reap_sema = thread[q].reap_sema
                            /\ thread'[q].success = thread[q].success,
           filesys_lock' \in Procs \cup {0},
           filesys_lock \notin {0, p} => filesys_lock' = filesys_lock,
           UNCHANGED <<next_tid, loaded>>
    PROVE  TreeOK' /\ AnswerOK' /\ LockOK'
<1>1. /\ pc'[p] = l
      /\ \A q \in Procs \ {p} : pc'[q] = pc[q]
  BY DEF IInv, ProcessTypeOK, Go
<1>2. /\ Created' = Created
      /\ Created \subseteq Procs
      /\ \A q \in Procs : Parent(q)' = Parent(q)
  <2>1. Created' = Created
    BY DEF Created
  <2>2. Created \subseteq Procs
    BY ProcessAssumption DEF IInv, ProcessTypeOK, Created, Procs
  <2>3. \A q \in Procs : Parent(q)' = Parent(q)
    BY DEF Parent
  <2> QED BY <2>1, <2>2, <2>3
<1>3. \A q \in Created : Parent(q) \in Procs
  BY <1>2, ProcessAssumption DEF IInv, TreeOK, Created, Procs
<1>4. Main \in Procs
  BY ProcessAssumption DEF Main, Procs
<1>5. \A q \in Procs : pc[q] \in Starting => Parent(q) \in Procs
  BY ParentType DEF IInv
<1>6. TreeOK'
  BY <1>1, <1>2, <1>4 DEF IInv, TreeOK
<1>7. ASSUME NEW q \in Procs
      PROVE  /\ pc'[q] \in Starting => pc[q] \in Starting
             /\ pc'[q] = "started" => pc[q] = "started"
             /\ pc'[q] = "reap" <=> pc[q] = "reap"
             /\ pc[q] = "reap" => call'[q] = call[q]
             /\ pc'[q] = "load" => pc[q] = "load"
  BY <1>1 DEF Starting
<1>8. AnswerOK'
  <2>1. SUFFICES ASSUME NEW q \in Procs
                 PROVE  ChildStarts(q)' /\ ParentReaps(q)'
    BY DEF AnswerOK
  <2>2. ChildStarts(q) /\ ParentReaps(q)
    BY DEF IInv, AnswerOK
  <2>3. ChildStarts(q)'
    <3>1. pc[q] \in Starting => Parent(q) \in Procs /\ pc[Parent(q)] = "reap"
      BY <1>5, <2>2 DEF ChildStarts
    <3> QED BY <1>2, <1>7, <2>2, <3>1 DEF ChildStarts, Starting
  <2>4. ParentReaps(q)'
    <3>1. call[q].tid \in Created => call[q].tid \in Procs
      BY <1>2
    <3> QED BY <1>2, <1>7, <2>2, <3>1 DEF ParentReaps
  <2> QED BY <2>3, <2>4
<1>9. LockOK'
  <2>1. \A q \in Procs : q # Main /\ pc'[q] \in Locked => filesys_lock' = q
    BY <1>1, ProcessAssumption DEF IInv, LockOK, Procs
  <2>2. pc'[Main] = "create" => pc[Main] = "create"
    BY <1>1, <1>4
  <2> QED BY <1>2, <1>7, <2>1, <2>2 DEF IInv, LockOK
<1> QED BY <1>6, <1>8, <1>9

\* The fields that exec and start_process read.
SameFields(u, v) ==
    u.parent = v.parent /\ u.reap_sema = v.reap_sema /\ u.success = v.success

LEMMA ThreadSet ==
    ASSUME ProcessTypeOK, NEW q \in Procs, NEW u \in Thread, SameFields(u, thread[q]),
           thread' = [thread EXCEPT ![q] = u]
    PROVE  /\ thread' \in [Procs -> Thread]
           /\ \A r \in Procs : SameFields(thread'[r], thread[r])
BY DEF ProcessTypeOK, SameFields

LEMMA ThreadKept ==
    ASSUME ProcessTypeOK, UNCHANGED thread
    PROVE  /\ thread' \in [Procs -> Thread]
           /\ \A r \in Procs : SameFields(thread'[r], thread[r])
BY DEF ProcessTypeOK, SameFields

LEMMA CallKept ==
    ASSUME ProcessTypeOK, NEW p \in Procs, UNCHANGED call
    PROVE  call[p] \in Call /\ Set(p, call[p])
BY DEF ProcessTypeOK, Set

QuietLabels == Labels \ ({"unborn", "reap"} \cup Starting)

LEMMA QuietKeeps ==
    ASSUME IInv, NEW p \in Procs, NEW l \in QuietLabels, NEW c \in Call,
           pc[p] \in QuietLabels,
           Go(p, l), Set(p, c),
           p # Main /\ l \in Locked => filesys_lock' = p,
           p = Main => l \in {"wait_zombies", "wait_children", "wait_mark", "wait_down",
                              "wait_return", "done"},
           l \in Waiting => c.tid \in Procs,
           thread' \in [Procs -> Thread],
           \A q \in Procs : SameFields(thread'[q], thread[q]),
           filesys_lock' \in Procs \cup {0},
           filesys_lock \notin {0, p} => filesys_lock' = filesys_lock,
           collected' \subseteq Procs,
           UNCHANGED <<next_tid, machine, loaded>>
    PROVE  IInv'
<1>1. l \in Labels
  BY DEF QuietLabels
<1>2. pc' \in [Procs -> Labels] /\ call' \in [Procs -> Call]
  BY <1>1, GoType, SetType DEF IInv
<1>3. ProcessTypeOK'
  BY <1>2 DEF IInv, ProcessTypeOK
<1>4. \A q \in Procs \ {p} : call'[q] = call[q]
  BY DEF IInv, ProcessTypeOK, Set
<1>5. l \in Labels \ ({"unborn", "reap"} \cup Starting)
      /\ pc[p] \notin {"unborn", "reap"} \cup Starting
  BY DEF QuietLabels
<1>6. TreeOK' /\ AnswerOK' /\ LockOK'
  <2>1. \A q \in Procs : /\ thread'[q].parent = thread[q].parent
                         /\ thread'[q].reap_sema = thread[q].reap_sema
                         /\ thread'[q].success = thread[q].success
    BY DEF SameFields
  <2>2. UNCHANGED <<next_tid, loaded>>
    OBVIOUS
  <2> HIDE DEF IInv, Go
  <2> QED BY <1>4, <1>5, <2>1, <2>2, QuietStep
<1>7. ArgOK'
  BY DEF IInv, ArgOK, ProcessTypeOK, Go, Set
<1> QED BY <1>3, <1>6, <1>7 DEF IInv

\* A step that changes only where p is and its local variables.
LEMMA LocalKeeps ==
    ASSUME IInv, NEW p \in Procs, NEW l \in QuietLabels, NEW c \in Call,
           pc[p] \in QuietLabels,
           Go(p, l), Set(p, c),
           p # Main /\ l \in Locked => filesys_lock = p,
           p = Main => l \in {"wait_zombies", "wait_children", "wait_mark", "wait_down",
                              "wait_return", "done"},
           l \in Waiting => c.tid \in Procs,
           UNCHANGED <<thread, next_tid, filesys_lock, machine, loaded, collected>>
    PROVE  IInv'
<1>1. ProcessTypeOK /\ collected' \subseteq Procs /\ filesys_lock' \in Procs \cup {0}
  BY DEF IInv, ProcessTypeOK
<1>2. /\ thread' \in [Procs -> Thread]
      /\ \A q \in Procs : SameFields(thread'[q], thread[q])
  BY <1>1, ThreadKept
<1> QED BY <1>1, <1>2, QuietKeeps

\* A step that only stops the machine.
LEMMA StopKeeps ==
    ASSUME IInv, machine' \in {"off", "broken"},
           UNCHANGED <<pc, thread, call, next_tid, filesys_lock, loaded, collected>>
    PROVE  IInv'
<1>1. ProcessTypeOK'
  BY DEF IInv, ProcessTypeOK
<1>2. TreeOK'
  BY DEF IInv, TreeOK, Created, Parent
<1>3. AnswerOK'
  BY DEF IInv, AnswerOK, ChildStarts, ParentReaps, Created, Parent
<1>4. LockOK'
  BY DEF IInv, LockOK, Parent
<1>5. ArgOK'
  BY DEF IInv, ArgOK
<1> QED BY <1>1, <1>2, <1>3, <1>4, <1>5 DEF IInv

-----------------------------------------------------------------------------
(* One lemma per group of actions.                                         *)

LEMMA UserKeeps == ASSUME IInv, NEW p \in Procs, User(p) PROVE IInv'
<1>1. ProcessTypeOK
  BY DEF IInv
<1>2. pc[p] = "user" /\ p # Main
  BY DEF IInv, TreeOK, User, CallExec, CallFile, CallWait, CallExit, Fault, Kill, Halt, At
<1>3. /\ pc[p] \in QuietLabels
      /\ {"exec_lock", "file_lock", "wait_zombies", "remove", "killed"}
           \subseteq QuietLabels \ (Locked \cup Waiting)
  BY <1>2 DEF QuietLabels, Labels, Starting, Locked, Waiting
<1>4. CASE CallExec(p)
  BY <1>1, <1>2, <1>3, <1>4, CallType, LocalKeeps DEF CallExec
<1>5. CASE CallFile(p)
  BY <1>1, <1>2, <1>3, <1>5, CallType, LocalKeeps DEF CallFile
<1>6. CASE CallWait(p)
  BY <1>1, <1>2, <1>3, <1>6, CallType, LocalKeeps DEF CallWait
<1>7. CASE CallExit(p)
  <2>1. Codes \subseteq Statuses
    BY DEF Statuses
  <2> QED BY <1>1, <1>2, <1>3, <1>7, <2>1, CallType, LocalKeeps DEF CallExit
<1>8. CASE Fault(p)
  BY <1>1, <1>2, <1>3, <1>8, CallType, LocalKeeps DEF Fault, Abort
<1>9. CASE Kill(p)
  BY <1>1, <1>2, <1>3, <1>9, CallKept, LocalKeeps DEF Kill
<1>10. CASE Halt(p)
  BY <1>10, StopKeeps DEF Halt
<1> QED BY <1>4, <1>5, <1>6, <1>7, <1>8, <1>9, <1>10 DEF User

LEMMA WaitKeeps == ASSUME IInv, NEW p \in Procs, Wait(p) PROVE IInv'
<1>1. ProcessTypeOK
  BY DEF IInv
<1>2. pc[p] \in {"wait_zombies", "wait_children", "wait_mark", "wait_down", "wait_return"}
  BY DEF Wait, WaitZombie, WaitZombies, WaitFound, WaitDenied, WaitMark, WaitDown,
         WaitReturn, At
<1>3. /\ pc[p] \in QuietLabels
      /\ {"wait_zombies", "wait_children", "wait_mark", "wait_down", "wait_return",
          "done", "user"} \subseteq QuietLabels \ Locked
      /\ {"wait_zombies", "wait_children", "done", "user"} \cap Waiting = {}
      /\ pc[p] \in Waiting => call[p].tid \in Procs
  BY <1>2 DEF QuietLabels, Labels, Starting, Locked, Waiting, IInv, ArgOK
<1>4. /\ filesys_lock \in Procs \cup {0}
      /\ collected \subseteq Procs
      /\ thread[p] \in Thread
  BY <1>1 DEF ProcessTypeOK
<1>5. CASE WaitZombie(p)
  <2>1. PICK z \in ZombiesOf(p, call[p].tid) :
          /\ thread' = [thread EXCEPT ![p].zombies = @ \ {z}]
          /\ Return(p, z.exit_status)
    BY <1>5 DEF WaitZombie
  <2>2. z \in thread[p].zombies /\ z.tid = call[p].tid /\ z \in [tid : Procs, exit_status : Statuses]
    BY <1>4, <2>1 DEF ZombiesOf, Thread
  <2>3. call[p].tid \in Procs /\ z.exit_status \in Statuses
    BY <2>2
  <2> DEFINE u == [thread[p] EXCEPT !.zombies = @ \ {z}]
  <2>4. u \in Thread /\ SameFields(u, thread[p]) /\ thread' = [thread EXCEPT ![p] = u]
    BY <1>4, <2>1 DEF Thread, SameFields
  <2> HIDE DEF u
  <2>5. /\ thread' \in [Procs -> Thread]
        /\ \A q \in Procs : SameFields(thread'[q], thread[q])
    BY <1>1, <2>4, ThreadSet
  <2> QED BY <1>1, <1>3, <1>4, <1>5, <2>1, <2>3, <2>5, CallType, QuietKeeps, ZenonT(60)
          DEF WaitZombie, Return, Back
<1>6. CASE WaitZombies(p)
  BY <1>1, <1>3, <1>6, CallKept, LocalKeeps DEF WaitZombies
<1>7. CASE WaitFound(p)
  <2>1. call[p].tid \in Procs
    BY <1>4, <1>7 DEF WaitFound, Thread
  <2> QED BY <1>1, <1>3, <1>7, <2>1, CallKept, LocalKeeps DEF WaitFound
<1>8. CASE WaitDenied(p)
  <2>1. Error \in Statuses
    BY DEF Statuses
  <2> QED BY <1>1, <1>3, <1>8, <2>1, CallType, LocalKeeps DEF WaitDenied, Return, Back
<1>9. CASE WaitMark(p)
  <2>1. call[p].tid \in Procs
    BY <1>9 DEF WaitMark, At, IInv, ArgOK, Waiting
  <2> DEFINE u == [thread[p] EXCEPT !.waiting = call[p].tid]
  <2>2. u \in Thread /\ SameFields(u, thread[p]) /\ thread' = [thread EXCEPT ![p] = u]
    BY <1>4, <1>9, <2>1 DEF WaitMark, Thread, SameFields
  <2> HIDE DEF u
  <2>3. /\ thread' \in [Procs -> Thread]
        /\ \A q \in Procs : SameFields(thread'[q], thread[q])
    BY <1>1, <2>2, ThreadSet
  <2> QED BY <1>1, <1>3, <1>4, <1>9, <2>1, <2>3, CallKept, QuietKeeps DEF WaitMark
<1>10. CASE WaitDown(p)
  <2>1. call[p].tid \in Procs /\ thread[p].child_sema > 0
    BY <1>10 DEF WaitDown, At, IInv, ArgOK, Waiting
  <2> DEFINE u == [thread[p] EXCEPT !.child_sema = @ - 1]
  <2>2. u \in Thread /\ SameFields(u, thread[p]) /\ thread' = [thread EXCEPT ![p] = u]
    BY <1>4, <1>10, <2>1 DEF WaitDown, Thread, SameFields
  <2> HIDE DEF u
  <2>3. /\ thread' \in [Procs -> Thread]
        /\ \A q \in Procs : SameFields(thread'[q], thread[q])
    BY <1>1, <2>2, ThreadSet
  <2>4. collected' \subseteq Procs
    BY <1>4, <1>10, <2>1 DEF WaitDown
  <2> QED BY <1>1, <1>3, <1>4, <1>10, <2>1, <2>3, <2>4, CallKept, QuietKeeps DEF WaitDown
<1>11. CASE WaitReturn(p)
  <2>1. call[p].tid \in Procs
    BY <1>11 DEF WaitReturn, At, IInv, ArgOK, Waiting
  <2> DEFINE u == [thread[p] EXCEPT !.reaped = call[p].tid]
  <2>2. u \in Thread /\ SameFields(u, thread[p]) /\ thread' = [thread EXCEPT ![p] = u]
    BY <1>4, <1>11, <2>1 DEF WaitReturn, Thread, SameFields
  <2> HIDE DEF u
  <2>3. /\ thread' \in [Procs -> Thread]
        /\ \A q \in Procs : SameFields(thread'[q], thread[q])
    BY <1>1, <2>2, ThreadSet
  <2>4. thread[p].exit_status \in Statuses
    BY <1>4 DEF Thread
  <2> QED BY <1>1, <1>3, <1>4, <1>11, <2>3, <2>4, CallType, QuietKeeps
          DEF WaitReturn, Return, Back
<1> QED BY <1>5, <1>6, <1>7, <1>8, <1>9, <1>10, <1>11 DEF Wait

LEMMA EndKeeps == ASSUME IInv, NEW p \in Procs, End(p) PROVE IInv'
<1>1. ProcessTypeOK
  BY DEF IInv
<1>2. pc[p] \in {"remove", "test", "signal", "store", "zombie", "close", "exit"} /\ p # Main
  BY DEF End, Remove, Test, Signal, Store, Zombie, Close, ThreadExit, At, IInv, TreeOK
<1>3. /\ pc[p] \in QuietLabels
      /\ {"test", "signal", "store", "zombie", "close", "exit", "dead"}
           \subseteq QuietLabels \ (Locked \cup Waiting)
  BY <1>2 DEF QuietLabels, Labels, Starting, Locked, Waiting
<1>4. pc[p] \in {"remove", "test", "signal", "store", "zombie"} =>
         Parent(p) \in Procs /\ thread[Parent(p)] \in Thread
  BY <1>1, ParentType DEF IInv, ProcessTypeOK
<1>5. /\ filesys_lock \in Procs \cup {0}
      /\ collected \subseteq Procs
      /\ thread[p] \in Thread
  BY <1>1 DEF ProcessTypeOK
<1>6. call[p].status \in Statuses
  BY <1>1, CallType
<1>7. CASE Remove(p)
  <2> DEFINE u == [thread[Parent(p)] EXCEPT !.children = @ \ {p}]
  <2>1. u \in Thread /\ SameFields(u, thread[Parent(p)])
        /\ thread' = [thread EXCEPT ![Parent(p)] = u]
    BY <1>1, <1>4, <1>7, <1>6 DEF Remove, At, Thread, SameFields
  <2> HIDE DEF u
  <2>2. /\ thread' \in [Procs -> Thread]
        /\ \A q \in Procs : SameFields(thread'[q], thread[q])
    BY <1>1, <1>4, <1>7, <1>6, <2>1, ThreadSet DEF Remove, At
  <2> QED BY <1>1, <1>2, <1>3, <1>5, <1>7, <2>2, CallKept, QuietKeeps DEF Remove
<1>8. CASE Test(p)
  BY <1>1, <1>2, <1>3, <1>8, CallKept, LocalKeeps DEF Test
<1>9. CASE Signal(p)
  <2> DEFINE u == [thread[Parent(p)] EXCEPT !.child_sema = @ + 1]
  <2>1. u \in Thread /\ SameFields(u, thread[Parent(p)])
        /\ thread' = [thread EXCEPT ![Parent(p)] = u]
    BY <1>1, <1>4, <1>9, <1>6 DEF Signal, At, Thread, SameFields
  <2> HIDE DEF u
  <2>2. /\ thread' \in [Procs -> Thread]
        /\ \A q \in Procs : SameFields(thread'[q], thread[q])
    BY <1>1, <1>4, <1>9, <1>6, <2>1, ThreadSet DEF Signal, At
  <2> QED BY <1>1, <1>2, <1>3, <1>5, <1>9, <2>2, CallKept, QuietKeeps DEF Signal
<1>10. CASE Store(p)
  <2> DEFINE u == [thread[Parent(p)] EXCEPT !.exit_status = call[p].status]
  <2>1. u \in Thread /\ SameFields(u, thread[Parent(p)])
        /\ thread' = [thread EXCEPT ![Parent(p)] = u]
    BY <1>1, <1>4, <1>10, <1>6 DEF Store, At, Thread, SameFields
  <2> HIDE DEF u
  <2>2. /\ thread' \in [Procs -> Thread]
        /\ \A q \in Procs : SameFields(thread'[q], thread[q])
    BY <1>1, <1>4, <1>10, <1>6, <2>1, ThreadSet DEF Store, At
  <2> QED BY <1>1, <1>2, <1>3, <1>5, <1>10, <2>2, CallKept, QuietKeeps DEF Store
<1>11. CASE Zombie(p)
  <2> DEFINE u == [thread[Parent(p)] EXCEPT !.zombies =
                      @ \cup {[tid |-> p, exit_status |-> call[p].status]}]
  <2>1. u \in Thread /\ SameFields(u, thread[Parent(p)])
        /\ thread' = [thread EXCEPT ![Parent(p)] = u]
    BY <1>1, <1>4, <1>11, <1>6 DEF Zombie, At, Thread, SameFields
  <2> HIDE DEF u
  <2>2. /\ thread' \in [Procs -> Thread]
        /\ \A q \in Procs : SameFields(thread'[q], thread[q])
    BY <1>1, <1>4, <1>11, <1>6, <2>1, ThreadSet DEF Zombie, At
  <2> QED BY <1>1, <1>2, <1>3, <1>5, <1>11, <2>2, CallKept, QuietKeeps DEF Zombie
<1>12. CASE Close(p)
  <2> DEFINE u == [thread[p] EXCEPT !.zombies = {}]
  <2>1. u \in Thread /\ SameFields(u, thread[p]) /\ thread' = [thread EXCEPT ![p] = u]
    BY <1>5, <1>12 DEF Close, Thread, SameFields
  <2> HIDE DEF u
  <2>2. /\ thread' \in [Procs -> Thread]
        /\ \A q \in Procs : SameFields(thread'[q], thread[q])
    BY <1>1, <2>1, ThreadSet
  <2> QED BY <1>1, <1>2, <1>3, <1>5, <1>12, <2>2, CallKept, QuietKeeps DEF Close
<1>13. CASE ThreadExit(p)
  <2>1. /\ thread' \in [Procs -> Thread]
        /\ \A q \in Procs : SameFields(thread'[q], thread[q])
    BY <1>1, <1>13, ThreadKept DEF ThreadExit
  <2>2. /\ filesys_lock' \in Procs \cup {0}
        /\ filesys_lock \notin {0, p} => filesys_lock' = filesys_lock
    BY <1>5, <1>13 DEF ThreadExit
  <2> QED BY <1>1, <1>2, <1>3, <1>5, <1>13, <2>1, <2>2, CallKept, QuietKeeps DEF ThreadExit
<1> QED BY <1>7, <1>8, <1>9, <1>10, <1>11, <1>12, <1>13 DEF End

\* The calls on files, and exec but for process_execute.
LEMMA FileKeeps ==
    ASSUME IInv, NEW p \in Procs,
           \/ FileLock(p) \/ FileDone(p) \/ FileFault(p)
           \/ ExecLock(p) \/ ExecReturn(p) \/ ExecOpen(p) \/ NoPage(p)
    PROVE  IInv'
<1>1. ProcessTypeOK
  BY DEF IInv
<1>2. /\ pc[p] \in {"file_lock", "file", "exec_lock", "exec_return", "exec_open", "create"}
      /\ pc[p] # "create" => p # Main
  BY DEF FileLock, FileDone, FileFault, ExecLock, ExecReturn, ExecOpen, NoPage, Acquire,
         Release, At, IInv, TreeOK
<1>3. /\ pc[p] \in QuietLabels
      /\ {"file", "exec_open", "create", "exec_return", "user", "remove", "wait_zombies"}
           \subseteq QuietLabels \ Waiting
      /\ {"user", "remove", "wait_zombies"} \cap Locked = {}
  BY <1>2 DEF QuietLabels, Labels, Starting, Locked, Waiting
<1>4. /\ filesys_lock \in Procs \cup {0}
      /\ collected \subseteq Procs
      /\ UNCHANGED thread => /\ thread' \in [Procs -> Thread]
                             /\ \A q \in Procs : SameFields(thread'[q], thread[q])
  BY <1>1, ThreadKept DEF ProcessTypeOK
<1>5. p # Main /\ pc[p] \in Locked => filesys_lock = p
  BY DEF IInv, LockOK
<1>6. Error \in Statuses /\ 0 \in Statuses /\ call[p].eax \in Procs \cup Statuses
  BY <1>1, CallType DEF Statuses
<1>7. CASE FileLock(p)
  BY <1>1, <1>2, <1>3, <1>4, <1>7, CallKept, QuietKeeps DEF FileLock, Acquire, At
<1>8. CASE FileDone(p)
  <2>1. filesys_lock = p
    BY <1>2, <1>5, <1>8 DEF FileDone, Release, At, Locked
  <2> QED BY <1>1, <1>2, <1>3, <1>4, <1>6, <1>8, <2>1, CallType, QuietKeeps
          DEF FileDone, Release, Back, At
<1>9. CASE FileFault(p)
  BY <1>1, <1>2, <1>3, <1>9, CallType, LocalKeeps DEF FileFault, Abort, At
<1>10. CASE ExecLock(p)
  BY <1>1, <1>2, <1>3, <1>4, <1>10, CallKept, QuietKeeps DEF ExecLock, Acquire, At
<1>11. CASE ExecReturn(p)
  <2>1. filesys_lock = p
    BY <1>2, <1>5, <1>11 DEF ExecReturn, Release, At, Locked
  <2> QED BY <1>1, <1>2, <1>3, <1>4, <1>6, <1>11, <2>1, CallType, QuietKeeps
          DEF ExecReturn, Release, Back, At
<1>12. CASE ExecOpen(p)
  <2>1. p # Main /\ filesys_lock = p
    BY <1>2, <1>5, <1>12 DEF ExecOpen, At, Locked
  <2>2. CASE Go(p, "create") /\ UNCHANGED call
    BY <1>1, <1>3, <1>12, <2>1, <2>2, CallKept, LocalKeeps DEF ExecOpen
  <2>3. CASE Go(p, "exec_return") /\ Set(p, [call[p] EXCEPT !.eax = Error])
    BY <1>1, <1>3, <1>6, <1>12, <2>1, <2>3, CallType, LocalKeeps DEF ExecOpen
  <2> QED BY <1>12, <2>2, <2>3 DEF ExecOpen
<1>13. CASE NoPage(p)
  <2>1. p # Main => filesys_lock = p
    BY <1>5, <1>13 DEF NoPage, At, Locked
  <2>2. [call[p] EXCEPT !.eax = Error, !.tid = Error] \in Call
    BY <1>1, CallType
  <2>3. CASE p = Main
    BY <1>1, <1>3, <1>13, <2>2, <2>3, LocalKeeps DEF NoPage, Executed
  <2>4. CASE p # Main
    BY <1>1, <1>3, <1>13, <2>1, <2>2, <2>4, LocalKeeps DEF NoPage, Executed
  <2> QED BY <2>3, <2>4
<1> QED BY <1>7, <1>8, <1>9, <1>10, <1>11, <1>12, <1>13

LEMMA CreateKeeps == ASSUME IInv, NEW p \in Procs, Create(p) PROVE IInv'
<1>0. PICK c \in Procs : c = next_tid
  BY DEF Create
<1> DEFINE new == NewThread(p, thread[p].exit_status)
           old == [thread[p] EXCEPT !.children = @ \cup {c}]
           k == [call[p] EXCEPT !.tid = c]
<1>1. /\ ProcessTypeOK
      /\ pc[p] = "create"
      /\ c = next_tid
      /\ c \in 2 .. NProcs
      /\ pc[c] = "unborn"
      /\ p # c
  BY <1>0, ProcessAssumption DEF IInv, ProcessTypeOK, TreeOK, Create, At, Procs
<1>2. /\ thread' = [thread EXCEPT ![c] = new, ![p] = old]
      /\ pc' = [pc EXCEPT ![p] = "reap", ![c] = "load"]
      /\ call' = [call EXCEPT ![p] = k]
      /\ next_tid' = c + 1
      /\ UNCHANGED <<filesys_lock, machine, loaded, collected>>
  BY <1>1 DEF Create, Set
<1>3. new \in Thread /\ old \in Thread /\ k \in Call
  <2>1. thread[p] \in Thread
    BY <1>1 DEF ProcessTypeOK
  <2>2. thread[p].exit_status \in Statuses
    BY <2>1 DEF Thread
  <2>3. new \in Thread
    BY <2>2 DEF NewThread, Thread
  <2>4. old \in Thread
    BY <1>1, <2>1 DEF Thread
  <2> QED BY <1>1, <2>3, <2>4, CallType
<1>4. /\ new.parent = p /\ new.reap_sema = 0
      /\ SameFields(old, thread[p])
      /\ k.tid = c
  <2>1. thread[p] \in Thread /\ call[p] \in Call
    BY <1>1 DEF ProcessTypeOK
  <2> QED BY <2>1 DEF NewThread, SameFields, Thread, Call
<1> HIDE DEF new, old, k
<1>5. /\ pc'[p] = "reap" /\ pc'[c] = "load"
      /\ thread'[p] = old /\ thread'[c] = new
      /\ call'[p] = k
      /\ \A q \in Procs \ {p, c} : pc'[q] = pc[q] /\ thread'[q] = thread[q]
      /\ \A q \in Procs \ {p} : call'[q] = call[q]
  BY <1>1, <1>2 DEF ProcessTypeOK
<1>6. /\ \A q \in Procs \ {c} : Parent(q)' = Parent(q)
      /\ Parent(c)' = p
      /\ Created' = Created \cup {c}
      /\ Created \subseteq Procs \ {c}
  <2>1. /\ \A q \in Procs \ {c} : Parent(q)' = Parent(q)
        /\ Parent(c)' = p
    BY <1>4, <1>5 DEF Parent, SameFields
  <2>2. /\ Created' = Created \cup {c}
        /\ Created \subseteq Procs \ {c}
    BY <1>1, <1>2, ProcessAssumption DEF Created, Procs, ProcessTypeOK
  <2> QED BY <2>1, <2>2
<1>7. thread[p].reap_sema = 0 /\ thread[p].reap_sema \in Nat
  <2>1. ParentReaps(p) /\ thread[p] \in Thread
    BY <1>1 DEF IInv, AnswerOK, ProcessTypeOK
  <2> QED BY <1>1, <2>1 DEF ParentReaps, Thread
<1>8. ProcessTypeOK'
  <2>1. thread' \in [Procs -> Thread] /\ call' \in [Procs -> Call]
    BY <1>1, <1>2, <1>3 DEF ProcessTypeOK
  <2>2. pc' \in [Procs -> Labels]
    BY <1>1, <1>2 DEF ProcessTypeOK, Labels
  <2>3. next_tid' \in 2 .. NProcs + 1
    BY <1>1, <1>2, ProcessAssumption
  <2> QED BY <1>1, <1>2, <2>1, <2>2, <2>3 DEF ProcessTypeOK
<1>9. p < c
  BY <1>1, ProcessAssumption DEF IInv, TreeOK, Procs
<1>10. TreeOK'
  <2>1. ASSUME NEW q \in Procs PROVE pc'[q] = "unborn" <=> q >= next_tid'
    <3>1. pc[q] = "unborn" <=> q >= c
      BY <1>1 DEF IInv, TreeOK
    <3>2. q \in Int /\ c \in Int /\ next_tid' = c + 1
      BY <1>1, <1>2, ProcessAssumption DEF Procs
    <3>3. CASE q = c
      BY <1>5, <3>2, <3>3
    <3>4. CASE q = p
      BY <1>5, <1>9, <3>2, <3>4
    <3>5. CASE q \notin {p, c}
      BY <1>5, <3>1, <3>2, <3>5
    <3> QED BY <3>3, <3>4, <3>5
  <2>2. pc'[Main] \in {"create", "reap", "wait_zombies", "wait_children", "wait_mark",
                       "wait_down", "wait_return", "done"}
    BY <1>1, <1>5, ProcessAssumption DEF IInv, TreeOK, Main, Procs
  <2>3. \A q \in Created' : Parent(q)' \in 1 .. q - 1
    BY <1>1, <1>6, <1>9, ProcessAssumption DEF IInv, TreeOK, Procs
  <2> QED BY <2>1, <2>2, <2>3 DEF TreeOK
<1>11. AnswerOK'
  <2>1. SUFFICES ASSUME NEW q \in Procs
                 PROVE  ChildStarts(q)' /\ ParentReaps(q)'
    BY DEF AnswerOK
  <2>2. ChildStarts(q) /\ ParentReaps(q)
    BY DEF IInv, AnswerOK
  <2>3. CASE q = c
    <3>1. ChildStarts(q)'
      BY <1>1, <1>4, <1>5, <1>6, <1>7, <2>3 DEF ChildStarts, SameFields
    <3>2. ParentReaps(q)'
      BY <1>1, <1>4, <1>5, <2>3 DEF ParentReaps
    <3> QED BY <3>1, <3>2
  <2>4. CASE q = p
    <3>1. ChildStarts(q)'
      BY <1>5, <2>4 DEF ChildStarts, Starting
    <3>2. ParentReaps(q)'
      BY <1>1, <1>4, <1>5, <1>6, <1>7, <2>4 DEF ParentReaps, SameFields
    <3> QED BY <3>1, <3>2
  <2>5. CASE q \notin {p, c}
    <3>1. ChildStarts(q)'
      <4>1. SUFFICES ASSUME pc[q] \in Starting
                     PROVE  ChildStarts(q)'
        BY <1>5, <2>5 DEF ChildStarts, Starting
      <4>2. Parent(q) \in Procs \ {p, c} /\ Parent(q)' = Parent(q)
        BY <1>1, <1>6, <2>2, <2>5, <4>1, ParentType DEF IInv, ChildStarts
      <4> QED BY <1>2, <1>5, <2>2, <2>5, <4>1, <4>2, ZenonT(60) DEF ChildStarts
    <3>2. ParentReaps(q)'
      <4>1. call[q].tid \in Created => call[q].tid \in Procs \ {c}
        BY <1>6
      <4>2. \A r \in Procs \ {c} : pc'[r] \in Starting => pc[r] \in Starting
        BY <1>5 DEF Starting
      <4>3. /\ thread'[q] = thread[q] /\ call'[q] = call[q] /\ pc'[q] = pc[q]
            /\ loaded' = loaded
        BY <1>2, <1>5, <2>5
      <4>4. ASSUME thread'[q].reap_sema > 0
            PROVE  pc'[call'[q].tid] \notin Starting
        BY <2>2, <4>1, <4>2, <4>3, <4>4 DEF ParentReaps
      <4> QED BY <1>6, <2>2, <4>3, <4>4 DEF ParentReaps
    <3> QED BY <3>1, <3>2
  <2> QED BY <2>3, <2>4, <2>5
<1>12. LockOK'
  <2>1. \A q \in Procs : q # Main /\ pc'[q] \in Locked => filesys_lock' = q
    BY <1>1, <1>2, <1>5 DEF IInv, LockOK, Locked
  <2>2. pc'[Main] = "create" => next_tid' = 2
    BY <1>1, <1>2, <1>5, <1>9, ProcessAssumption DEF IInv, TreeOK, LockOK, Main, Procs
  <2>3. ASSUME NEW q \in Procs, pc'[q] = "load", Parent(q)' = Main
        PROVE  next_tid' = 3
    <3>1. CASE q = c
      BY <1>1, <1>2, <1>6, <2>3, <3>1 DEF IInv, LockOK
    <3>2. CASE q # c
      <4>1. q # p /\ pc[q] = "load" /\ Parent(q) = Main
        BY <1>5, <1>6, <2>3, <3>2
      <4>2. pc[Main] = "reap" /\ call[Main].tid = q /\ next_tid = 3
        BY <4>1 DEF IInv, AnswerOK, ChildStarts, LockOK, Starting
      <4>3. p \in {1, 2} /\ q \in {1, 2}
        BY <1>1, <1>9, <4>1, <4>2, ProcessAssumption DEF IInv, TreeOK, Procs
      <4> QED BY <1>1, <4>1, <4>2, <4>3 DEF Main
    <3> QED BY <3>1, <3>2
  <2> QED BY <2>1, <2>2, <2>3 DEF LockOK
<1>13. ArgOK'
  BY <1>1, <1>5 DEF IInv, ArgOK, Waiting
<1> QED BY <1>8, <1>10, <1>11, <1>12, <1>13 DEF IInv

LEMMA CreateFailsKeeps == ASSUME IInv, NEW p \in Procs, CreateFails(p) PROVE IInv'
<1> DEFINE k == [call[p] EXCEPT !.tid = Error]
<1>1. /\ ProcessTypeOK
      /\ pc[p] = "create"
      /\ pc' = [pc EXCEPT ![p] = "reap"]
      /\ call' = [call EXCEPT ![p] = k]
      /\ UNCHANGED <<thread, next_tid, filesys_lock, machine, loaded, collected>>
  BY DEF IInv, CreateFails, At, Go, Set
<1>2. k \in Call /\ k.tid = Error
  BY <1>1, CallType DEF Call, ProcessTypeOK
<1> HIDE DEF k
<1>3. /\ pc'[p] = "reap" /\ call'[p] = k
      /\ \A q \in Procs \ {p} : pc'[q] = pc[q] /\ call'[q] = call[q]
  BY <1>1 DEF ProcessTypeOK
<1>4. Created' = Created /\ \A q \in Procs : Parent(q)' = Parent(q)
  BY <1>1 DEF Created, Parent
<1>5. ProcessTypeOK'
  BY <1>1, <1>2 DEF ProcessTypeOK, Labels
<1>6. TreeOK'
  BY <1>1, <1>3, <1>4, TreeStep
<1>7. AnswerOK'
  <2>1. SUFFICES ASSUME NEW q \in Procs
                 PROVE  ChildStarts(q)' /\ ParentReaps(q)'
    BY DEF AnswerOK
  <2>2. /\ ChildStarts(q) /\ ParentReaps(q)
        /\ \A r \in Procs : pc'[r] \in Starting => pc[r] \in Starting
    BY <1>1, <1>3 DEF IInv, AnswerOK, Starting
  <2>3. ChildStarts(q)'
    <3>1. pc'[q] \in Starting => pc[q] \in Starting /\ q # p /\ Parent(q) \in Procs \ {p}
      BY <1>1, <1>3, <2>2, ParentType DEF IInv, ChildStarts, Starting
    <3>2. pc'[q] = "started" => pc[q] = "started"
      BY <1>3
    <3> QED BY <1>1, <1>3, <1>4, <2>2, <3>1, <3>2 DEF ChildStarts, Starting
  <2>4. ParentReaps(q)'
    <3>1. CASE q = p
      BY <1>1, <1>2, <1>3, <2>2, <3>1 DEF ParentReaps
    <3>2. CASE q # p
      <4>1. call[q].tid \in Created => call[q].tid \in Procs
        BY ProcessAssumption, <1>1 DEF Created, Procs, ProcessTypeOK
      <4> QED BY <1>1, <1>3, <1>4, <2>2, <3>2, <4>1 DEF ParentReaps
    <3> QED BY <3>1, <3>2
  <2> QED BY <2>3, <2>4
<1>8. LockOK'
  BY <1>1, <1>3, <1>4 DEF IInv, LockOK, Locked
<1>9. ArgOK'
  BY <1>1, <1>3 DEF IInv, ArgOK, Waiting
<1> QED BY <1>5, <1>6, <1>7, <1>8, <1>9 DEF IInv

LEMMA ReapKeeps == ASSUME IInv, NEW p \in Procs, Reap(p) PROVE IInv'
<1> DEFINE res == IF thread[p].success THEN call[p].tid ELSE Error
           k == [call[p] EXCEPT !.eax = res, !.tid = res]
           u == [thread[p] EXCEPT !.reap_sema = @ - 1]
           l == IF p = Main THEN "wait_zombies" ELSE "exec_return"
<1>1. /\ ProcessTypeOK
      /\ pc[p] = "reap"
      /\ thread[p].reap_sema > 0
      /\ thread' = [thread EXCEPT ![p] = u]
      /\ pc' = [pc EXCEPT ![p] = l]
      /\ call' = [call EXCEPT ![p] = k]
      /\ UNCHANGED <<next_tid, filesys_lock, machine, loaded, collected>>
  BY DEF IInv, Reap, Executed, At, Go, Set
<1>2. /\ thread[p] \in Thread
      /\ ParentReaps(p)
      /\ Created \subseteq Procs
  BY <1>1, ProcessAssumption DEF IInv, ProcessTypeOK, AnswerOK, Created, Procs
<1>3. k \in Call
  <2>1. res \in Procs \cup {Error}
    BY <1>1, <1>2 DEF ParentReaps
  <2> QED BY <1>1, <2>1, CallType
<1>4. /\ u \in Thread
      /\ u.reap_sema = 0 /\ u.parent = thread[p].parent
      /\ thread[p].reap_sema = 1
  BY <1>1, <1>2 DEF Thread, ParentReaps
<1>5. l \in Labels \ (Waiting \cup Starting) /\ l # "unborn" /\ l # "reap" /\ l # "create"
  BY DEF Labels, Waiting, Starting
<1>6. p # Main => l \in Locked /\ "reap" \in Locked
  BY DEF Locked
<1>7. p = Main => l = "wait_zombies"
  OBVIOUS
<1> HIDE DEF k, u, l
<1>8. /\ pc'[p] = l /\ thread'[p] = u
      /\ \A q \in Procs \ {p} : pc'[q] = pc[q] /\ call'[q] = call[q] /\ thread'[q] = thread[q]
  BY <1>1 DEF ProcessTypeOK
<1>9. Created' = Created /\ \A q \in Procs : Parent(q)' = Parent(q)
  <2>1. \A q \in Procs : Parent(q)' = Parent(q)
    BY <1>4, <1>8 DEF Parent
  <2> QED BY <1>1, <2>1 DEF Created
<1>10. ProcessTypeOK'
  BY <1>1, <1>3, <1>4, <1>5 DEF ProcessTypeOK
<1>11. TreeOK'
  BY <1>1, <1>5, <1>7, <1>8, <1>9, TreeStep
<1>12. AnswerOK'
  <2>1. SUFFICES ASSUME NEW q \in Procs
                 PROVE  ChildStarts(q)' /\ ParentReaps(q)'
    BY DEF AnswerOK
  <2>2. /\ ChildStarts(q) /\ ParentReaps(q)
        /\ \A r \in Procs : pc'[r] \in Starting => pc[r] \in Starting
    BY <1>5, <1>8 DEF IInv, AnswerOK
  <2>3. ChildStarts(q)'
    <3>1. pc'[q] \in Starting => pc[q] \in Starting /\ q # p /\ Parent(q) \in Procs \ {p}
      BY <1>1, <1>4, <1>5, <1>8, <2>2, ParentType DEF IInv, ChildStarts
    <3>2. pc'[q] = "started" => pc[q] = "started" /\ pc[q] \in Starting
      BY <1>5, <1>8 DEF Starting
    <3> QED BY <1>1, <1>8, <1>9, <2>2, <3>1, <3>2 DEF ChildStarts
  <2>4. ParentReaps(q)'
    <3>1. CASE q = p
      BY <1>4, <1>5, <1>8, <3>1 DEF ParentReaps
    <3>2. CASE q # p
      <4>1. call[q].tid \in Created => call[q].tid \in Procs
        BY <1>2
      <4> QED BY <1>1, <1>8, <1>9, <2>2, <3>2, <4>1 DEF ParentReaps
    <3> QED BY <3>1, <3>2
  <2> QED BY <2>3, <2>4
<1>13. LockOK'
  <2>1. \A q \in Procs : q # Main /\ pc'[q] \in Locked => filesys_lock' = q
    BY <1>1, <1>6, <1>8 DEF IInv, LockOK
  <2>2. pc'[Main] = "create" => pc[Main] = "create"
    BY <1>1, <1>5, <1>8, ProcessAssumption DEF Main, Procs
  <2>3. \A q \in Procs : pc'[q] = "load" => pc[q] = "load"
    BY <1>5, <1>8 DEF Starting
  <2> QED BY <1>1, <1>9, <2>1, <2>2, <2>3 DEF IInv, LockOK
<1>14. ArgOK'
  BY <1>1, <1>5, <1>8 DEF IInv, ArgOK
<1> QED BY <1>10, <1>11, <1>12, <1>13, <1>14 DEF IInv

LEMMA LoadKeeps == ASSUME IInv, NEW p \in Procs, Load(p) PROVE IInv'
<1>1. /\ ProcessTypeOK
      /\ pc[p] = "load"
      /\ pc' = [pc EXCEPT ![p] = "report"]
      /\ loaded' \in {loaded, loaded \cup {p}}
      /\ UNCHANGED <<thread, call, next_tid, filesys_lock, machine, collected>>
  BY DEF IInv, Load, At, Go
<1>2. /\ pc'[p] = "report"
      /\ \A q \in Procs \ {p} : pc'[q] = pc[q] /\ (q \in loaded' <=> q \in loaded)
  BY <1>1 DEF ProcessTypeOK
<1>3. Created' = Created /\ \A q \in Procs : Parent(q)' = Parent(q)
  BY <1>1 DEF Created, Parent
<1>4. Created \subseteq Procs /\ p # Main
  BY <1>1, ProcessAssumption DEF IInv, ProcessTypeOK, TreeOK, Created, Procs
<1>5. ProcessTypeOK'
  BY <1>1 DEF ProcessTypeOK, Labels
<1>6. TreeOK'
  BY <1>1, <1>2, <1>3, <1>4, TreeStep
<1>7. AnswerOK'
  <2>1. SUFFICES ASSUME NEW q \in Procs
                 PROVE  ChildStarts(q)' /\ ParentReaps(q)'
    BY DEF AnswerOK
  <2>2. /\ ChildStarts(q) /\ ParentReaps(q)
        /\ \A r \in Procs : pc'[r] \in Starting <=> pc[r] \in Starting
    BY <1>1, <1>2 DEF IInv, AnswerOK, Starting
  <2>3. ChildStarts(q)'
    <3>1. pc[q] \in Starting => Parent(q) \in Procs /\ pc[Parent(q)] = "reap"
      BY <2>2, ParentType DEF IInv, ChildStarts
    <3>2. pc'[q] = "started" => pc[q] = "started" /\ pc[q] \in Starting /\ q # p
      BY <1>2 DEF Starting
    <3> QED BY <1>1, <1>2, <1>3, <2>2, <3>1, <3>2 DEF ChildStarts
  <2>4. ParentReaps(q)'
    <3>1. call[q].tid \in Created => call[q].tid \in Procs
      BY <1>4
    <3>2. thread[q].reap_sema > 0 => call[q].tid # p
      BY <1>1, <2>2 DEF ParentReaps, Starting
    <3>3. pc'[q] = "reap" <=> pc[q] = "reap"
      BY <1>1, <1>2
    <3> QED BY <1>1, <1>2, <1>3, <2>2, <3>1, <3>2, <3>3 DEF ParentReaps
  <2> QED BY <2>3, <2>4
<1>8. LockOK'
  BY <1>1, <1>2, <1>3, <1>4 DEF IInv, LockOK, Locked
<1>9. ArgOK'
  BY <1>1, <1>2 DEF IInv, ArgOK, Waiting
<1> QED BY <1>5, <1>6, <1>7, <1>8, <1>9 DEF IInv

LEMMA ReportKeeps == ASSUME IInv, NEW p \in Procs, Report(p) PROVE IInv'
<1>0. PICK h \in Procs : h = Parent(p) /\ h # p
  BY ParentType DEF IInv, Report, At, Starting
<1>a. PICK b \in BOOLEAN : b = (p \in loaded)
  <2>1. (p \in loaded) \in BOOLEAN
    OBVIOUS
  <2> QED BY <2>1, Zenon
<1> DEFINE u == [thread[h] EXCEPT !.success = b]
<1>1. /\ ProcessTypeOK
      /\ pc[p] = "report"
      /\ pc' = [pc EXCEPT ![p] = "started"]
      /\ thread' = [thread EXCEPT ![h] = u]
      /\ UNCHANGED <<call, next_tid, filesys_lock, machine, loaded, collected>>
  BY <1>0, <1>a DEF IInv, Report, At, Go
<1>2. /\ u \in Thread /\ u.parent = thread[h].parent /\ u.reap_sema = thread[h].reap_sema
      /\ u.success = (p \in loaded)
  <2>1. /\ u \in Thread /\ u.parent = thread[h].parent
        /\ u.reap_sema = thread[h].reap_sema /\ u.success = b
    BY <1>1 DEF ProcessTypeOK, Thread
  <2> QED BY <1>a, <2>1
<1> HIDE DEF u
<1>3. /\ pc'[p] = "started" /\ thread'[h] = u
      /\ \A q \in Procs \ {p} : pc'[q] = pc[q]
      /\ \A q \in Procs \ {h} : thread'[q] = thread[q]
  BY <1>1 DEF ProcessTypeOK
<1>4. Created' = Created /\ \A q \in Procs : Parent(q)' = Parent(q)
  <2>1. \A q \in Procs : Parent(q)' = Parent(q)
    BY <1>2, <1>3 DEF Parent
  <2> QED BY <1>1, <2>1 DEF Created
<1>5. Created \subseteq Procs /\ p # Main
  BY <1>1, ProcessAssumption DEF IInv, ProcessTypeOK, TreeOK, Created, Procs
<1>6. /\ pc[h] = "reap" /\ call[h].tid = p /\ thread[h].reap_sema = 0
      /\ thread'[h].reap_sema = 0
  BY <1>0, <1>1, <1>2, <1>3 DEF IInv, AnswerOK, ChildStarts, Starting
<1>7. ProcessTypeOK'
  BY <1>1, <1>2 DEF ProcessTypeOK, Labels
<1>8. TreeOK'
  BY <1>1, <1>3, <1>4, <1>5, TreeStep
<1>9. AnswerOK'
  <2>1. SUFFICES ASSUME NEW q \in Procs
                 PROVE  ChildStarts(q)' /\ ParentReaps(q)'
    BY DEF AnswerOK
  <2>2. /\ ChildStarts(q) /\ ParentReaps(q)
        /\ \A r \in Procs : pc'[r] \in Starting <=> pc[r] \in Starting
        /\ \A r \in Procs : pc'[r] = "reap" <=> pc[r] = "reap"
    BY <1>1, <1>3 DEF IInv, AnswerOK, Starting
  <2>3. ChildStarts(q)'
    <3>1. CASE q = p
      BY <1>0, <1>1, <1>2, <1>3, <1>4, <1>6, <2>2, <3>1 DEF ChildStarts
    <3>2. CASE q # p
      <4>1. pc[q] \in Starting => Parent(q) \in Procs \ {h} /\ pc[Parent(q)] = "reap"
        BY <1>6, <2>2, <3>2, ParentType DEF IInv, ChildStarts
      <4>2. pc'[q] = "started" => pc[q] = "started" /\ pc[q] \in Starting
        BY <1>3, <3>2 DEF Starting
      <4> QED BY <1>1, <1>3, <1>4, <2>2, <3>2, <4>1, <4>2 DEF ChildStarts
    <3> QED BY <3>1, <3>2
  <2>4. ParentReaps(q)'
    <3>1. call[q].tid \in Created => call[q].tid \in Procs
      BY <1>5
    <3>2. CASE q = h
      BY <1>1, <1>3, <1>4, <1>6, <2>2, <3>2 DEF ParentReaps
    <3>3. CASE q # h
      BY <1>1, <1>3, <1>4, <2>2, <3>1, <3>3 DEF ParentReaps
    <3> QED BY <3>2, <3>3
  <2> QED BY <2>3, <2>4
<1>10. LockOK'
  BY <1>1, <1>3, <1>4, <1>5 DEF IInv, LockOK, Locked
<1>11. ArgOK'
  BY <1>1, <1>3 DEF IInv, ArgOK, Waiting
<1> QED BY <1>7, <1>8, <1>9, <1>10, <1>11 DEF IInv

LEMMA StartedKeeps == ASSUME IInv, NEW p \in Procs, Started(p) PROVE IInv'
<1>0. PICK h \in Procs : h = Parent(p) /\ h # p
  BY ParentType DEF IInv, Started, At, Starting
<1> DEFINE u == [thread[h] EXCEPT !.reap_sema = @ + 1]
           k == IF p \in loaded THEN call[p] ELSE [NoCall EXCEPT !.status = Error, !.abort = TRUE]
           l == IF p \in loaded THEN "user" ELSE "remove"
<1>1. /\ ProcessTypeOK
      /\ pc[p] = "started"
      /\ pc' = [pc EXCEPT ![p] = l]
      /\ thread' = [thread EXCEPT ![h] = u]
      /\ call' = [call EXCEPT ![p] = k]
      /\ UNCHANGED <<next_tid, filesys_lock, machine, loaded, collected>>
  <2>1. CASE p \in loaded
    BY <1>0, <2>1 DEF IInv, ProcessTypeOK, Started, At, Go
  <2>2. CASE p \notin loaded
    BY <1>0, <2>2 DEF IInv, Started, At, Go, Set, Abort
  <2> QED BY <2>1, <2>2
<1>2. /\ ParentReaps(h) /\ ChildStarts(p)
      /\ pc[h] = "reap" /\ call[h].tid = p /\ thread[h].reap_sema = 0
      /\ p \in Created /\ Created \subseteq Procs /\ p # Main
      /\ thread[h].success = (p \in loaded)
  BY <1>0, <1>1, ProcessAssumption, ParentType
     DEF IInv, AnswerOK, ChildStarts, Starting, TreeOK, Created, Procs, ProcessTypeOK
<1>3. /\ u \in Thread /\ u.parent = thread[h].parent /\ u.reap_sema = 1
      /\ u.success = thread[h].success
  BY <1>1, <1>2 DEF ProcessTypeOK, Thread
<1>4. k \in Call
  BY <1>1, CallType DEF ProcessTypeOK
<1>5. l \in Labels \ ({"unborn", "reap"} \cup Waiting \cup Starting \cup Locked)
  BY DEF Labels, Waiting, Starting, Locked
<1> HIDE DEF u, k, l
<1>6. /\ pc'[p] = l /\ thread'[h] = u
      /\ \A q \in Procs \ {p} : pc'[q] = pc[q] /\ call'[q] = call[q]
      /\ \A q \in Procs \ {h} : thread'[q] = thread[q]
  BY <1>1 DEF ProcessTypeOK
<1>7. Created' = Created /\ \A q \in Procs : Parent(q)' = Parent(q)
  <2>1. \A q \in Procs : Parent(q)' = Parent(q)
    BY <1>3, <1>6 DEF Parent
  <2> QED BY <1>1, <2>1 DEF Created
<1>8. ProcessTypeOK'
  BY <1>1, <1>3, <1>4, <1>5 DEF ProcessTypeOK
<1>9. TreeOK'
  BY <1>1, <1>2, <1>5, <1>6, <1>7, TreeStep
<1>10. AnswerOK'
  <2>1. SUFFICES ASSUME NEW q \in Procs
                 PROVE  ChildStarts(q)' /\ ParentReaps(q)'
    BY DEF AnswerOK
  <2>2. /\ ChildStarts(q) /\ ParentReaps(q)
        /\ \A r \in Procs : pc'[r] \in Starting <=> pc[r] \in Starting /\ r # p
        /\ \A r \in Procs : pc'[r] = "reap" <=> pc[r] = "reap"
    BY <1>1, <1>5, <1>6 DEF IInv, AnswerOK, Starting
  <2>3. ChildStarts(q)'
    <3>1. pc'[q] \in Starting => Parent(q) \in Procs \ {h, p} /\ pc[Parent(q)] = "reap"
      BY <1>1, <1>2, <2>2, ParentType DEF IInv, ChildStarts
    <3>2. pc'[q] = "started" => pc[q] = "started" /\ pc'[q] \in Starting
      BY <1>5, <1>6 DEF Starting
    <3> QED BY <1>1, <1>6, <1>7, <2>2, <3>1, <3>2 DEF ChildStarts
  <2>4. ParentReaps(q)'
    <3>1. CASE q = h
      BY <1>0, <1>1, <1>2, <1>3, <1>6, <1>7, <2>2, <3>1 DEF ParentReaps
    <3>2. CASE q # h
      <4>1. call[q].tid \in Created => call[q].tid \in Procs
        BY <1>2
      <4>2. pc'[q] = "reap" => q # p /\ pc[q] = "reap"
        BY <1>1, <2>2
      <4>3. thread'[q].reap_sema > 0 => q # p /\ pc[q] = "reap"
        BY <1>1, <1>6, <2>2, <3>2 DEF ParentReaps
      <4> QED BY <1>1, <1>6, <1>7, <2>2, <3>2, <4>1, <4>2, <4>3 DEF ParentReaps
    <3> QED BY <3>1, <3>2
  <2> QED BY <2>3, <2>4
<1>11. LockOK'
  <2>1. \A q \in Procs : pc'[q] \in Locked => pc[q] \in Locked /\ pc'[q] = pc[q]
    BY <1>5, <1>6
  <2>2. \A q \in Procs : pc'[q] = "load" => pc[q] = "load"
    BY <1>5, <1>6 DEF Starting
  <2>3. pc'[Main] = pc[Main]
    BY <1>2, <1>6, ProcessAssumption DEF Main, Procs
  <2> QED BY <1>1, <1>7, <2>1, <2>2, <2>3 DEF IInv, LockOK
<1>12. ArgOK'
  BY <1>1, <1>5, <1>6 DEF IInv, ArgOK
<1> QED BY <1>8, <1>9, <1>10, <1>11, <1>12 DEF IInv

-----------------------------------------------------------------------------
LEMMA InitIInv == Init => IInv
<1> SUFFICES ASSUME Init PROVE IInv
  OBVIOUS
<1>1. ProcessTypeOK
  BY InitType
<1>2. Created = {}
  BY DEF Init, Created
<1>3. TreeOK
  BY <1>2, ProcessAssumption DEF Init, TreeOK, Procs, Main
<1>4. AnswerOK
  BY DEF Init, AnswerOK, ChildStarts, ParentReaps, NewThread, Starting
<1>5. LockOK
  BY DEF Init, LockOK, Locked
<1>6. ArgOK
  BY DEF Init, ArgOK, Waiting
<1> QED BY <1>1, <1>3, <1>4, <1>5, <1>6 DEF IInv

LEMMA NextIInv == IInv /\ [Next]_vars => IInv'
<1> SUFFICES ASSUME IInv, [Next]_vars PROVE IInv'
  OBVIOUS
<1>1. ASSUME NEW p \in Procs, User(p) PROVE IInv'
  BY <1>1, UserKeeps
<1>2. ASSUME NEW p \in Procs, Exec(p) PROVE IInv'
  BY <1>2, FileKeeps, CreateKeeps, CreateFailsKeeps, ReapKeeps DEF Exec
<1>3. ASSUME NEW p \in Procs, Start(p) PROVE IInv'
  <2>1. CASE LoadPanic(p)
    BY <2>1, StopKeeps DEF LoadPanic
  <2> QED BY <1>3, <2>1, LoadKeeps, ReportKeeps, StartedKeeps DEF Start
<1>4. ASSUME NEW p \in Procs, Wait(p) PROVE IInv'
  BY <1>4, WaitKeeps
<1>5. ASSUME NEW p \in Procs, End(p) PROVE IInv'
  BY <1>5, EndKeeps
<1>6. ASSUME NEW p \in Procs, TouchFreed(p) PROVE IInv'
  BY <1>6, StopKeeps DEF TouchFreed
<1>7. CASE PowerOff
  BY <1>7, StopKeeps DEF PowerOff
<1>8. CASE UNCHANGED vars
  <2>1. UNCHANGED <<pc, thread, call, next_tid, filesys_lock, machine, loaded, collected>>
    BY <1>8 DEF vars
  <2> QED BY <2>1 DEF IInv, ProcessTypeOK, TreeOK, AnswerOK, ChildStarts, ParentReaps, LockOK,
          ArgOK, Created, Parent
<1> QED BY <1>1, <1>2, <1>3, <1>4, <1>5, <1>6, <1>7, <1>8 DEF Next

\* The state of exec and start_process hangs together in every reachable state.
THEOREM ProcessInvariant == Spec => []IInv
<1> QED BY InitIInv, NextIInv, PTL DEF Spec

\* The variables keep their types, for any number of processes.
THEOREM ProcessTypeCorrect == Spec => []ProcessTypeOK
<1>1. IInv => ProcessTypeOK
  BY DEF IInv
<1> QED BY <1>1, ProcessInvariant, PTL

\* The file system is entered by one process at a time, although the child
\* that loads a program does not hold the lock: its parent does.
THEOREM ProcessFileSystemExclusive == Spec => []FileSystemExclusive
<1>1. IInv => FileSystemExclusive
  <2> SUFFICES ASSUME IInv, NEW p \in Procs, NEW q \in Procs,
                      InFileSystem(p), InFileSystem(q)
               PROVE  p = q
    BY DEF FileSystemExclusive
  <2>1. ASSUME NEW r \in Procs, InFileSystem(r)
        PROVE  \/ pc[r] \in {"file", "exec_open"} /\ filesys_lock = r
               \/ /\ pc[r] = "load" /\ Parent(r) \in Procs
                  /\ pc[Parent(r)] = "reap" /\ call[Parent(r)].tid = r
                  /\ Parent(r) = Main \/ filesys_lock = Parent(r)
                  /\ Parent(r) = Main => next_tid = 3
    <3>1. CASE pc[r] = "load"
      BY <3>1, ParentType DEF IInv, AnswerOK, ChildStarts, LockOK, Starting, Locked
    <3>2. CASE pc[r] # "load"
      <4>1. r # Main
        BY <2>1, <3>2 DEF InFileSystem, IInv, TreeOK
      <4> QED BY <2>1, <3>2, <4>1 DEF InFileSystem, IInv, LockOK, Locked
    <3> QED BY <3>1, <3>2
  <2>2. \A r \in Procs : InFileSystem(r) => r < next_tid /\ r # Main
    BY DEF InFileSystem, IInv, TreeOK, ProcessTypeOK, Procs
  <2>3. ASSUME NEW r \in Procs, NEW t \in Procs, InFileSystem(r), InFileSystem(t),
               pc[r] = "load", Parent(r) = Main
        PROVE  r = t
    BY <2>1, <2>2, <2>3, ProcessAssumption DEF Procs, Main
  <2> QED BY <2>1, <2>3
<1> QED BY <1>1, ProcessInvariant, PTL

\* The answer of exec is that of the child it created.
THEOREM ProcessExecReportsLoad == Spec => ExecReportsLoad
<1>1. IInv /\ [Next]_vars =>
        [\A p \in Procs :
          pc[p] = "reap" /\ pc'[p] # "reap" =>
              call'[p].eax = IF call[p].tid \in loaded THEN call[p].tid ELSE Error]_vars
  <2> SUFFICES ASSUME IInv, Next, NEW p \in Procs, pc[p] = "reap", pc'[p] # "reap"
               PROVE  call'[p].eax = IF call[p].tid \in loaded THEN call[p].tid ELSE Error
    OBVIOUS
  <2>1. pc \in [Procs -> Labels]
    BY DEF IInv, ProcessTypeOK
  <2>2. ASSUME NEW q \in Procs, NEW l, pc[q] # "reap", Go(q, l) PROVE FALSE
    BY <2>1, <2>2 DEF Go
  <2>3. ASSUME NEW q \in Procs, User(q) PROVE FALSE
    BY <2>2, <2>3 DEF User, CallExec, CallFile, CallWait, CallExit, Fault, Abort, Kill, Halt, At
  <2>4. ASSUME NEW q \in Procs, Start(q) PROVE FALSE
    BY <2>2, <2>4 DEF Start, Load, LoadPanic, Report, Started, Abort, At
  <2>5. ASSUME NEW q \in Procs, Wait(q) PROVE FALSE
    BY <2>2, <2>5 DEF Wait, WaitZombie, WaitZombies, WaitFound, WaitDenied, WaitMark, WaitDown,
                      WaitReturn, Return, Back, At
  <2>6. ASSUME NEW q \in Procs, End(q) PROVE FALSE
    BY <2>2, <2>6 DEF End, Remove, Test, Signal, Store, Zombie, Close, ThreadExit, At
  <2>7. ASSUME NEW q \in Procs, Create(q) PROVE FALSE
    <3>1. pc[next_tid] = "unborn"
      BY <2>7, ProcessAssumption DEF IInv, TreeOK, Create, Procs
    <3>2. pc[q] = "create" /\ pc' = [pc EXCEPT ![q] = "reap", ![next_tid] = "load"]
      BY <2>7 DEF Create, At
    <3> QED BY <2>1, <3>1, <3>2
  <2>8. ASSUME NEW q \in Procs, Exec(q), ~Reap(q), ~Create(q) PROVE FALSE
    BY <2>2, <2>8 DEF Exec, FileLock, FileDone, FileFault, ExecLock, ExecReturn, ExecOpen, NoPage,
                      CreateFails, Acquire, Release, Back, Executed, Abort, At
  <2>9. PICK q \in Procs : Reap(q)
    BY <2>3, <2>4, <2>5, <2>6, <2>7, <2>8 DEF Next, TouchFreed, PowerOff
  <2>10. q = p
    BY <2>1, <2>9 DEF Reap, Executed, Go
  <2>11. call'[p] = [call[p] EXCEPT !.eax = IF thread[p].success THEN call[p].tid ELSE Error,
                                    !.tid = IF thread[p].success THEN call[p].tid ELSE Error]
    BY <2>9, <2>10 DEF Reap, Executed, Set, IInv, ProcessTypeOK
  <2>12. thread[p].success = (call[p].tid \in loaded)
    BY <2>9, <2>10 DEF Reap, IInv, AnswerOK, ParentReaps
  <2>13. call[p] \in Call
    BY DEF IInv, ProcessTypeOK
  <2> QED BY <2>11, <2>12, <2>13 DEF Call
<1> QED BY <1>1, ProcessInvariant, PTL DEF Spec, ExecReportsLoad

-----------------------------------------------------------------------------
(* exit and wait.                                                          *)

\* No longer on the list of the parent.
Left == {"test", "signal", "store", "zombie", "close", "exit", "dead"}

Gone == {"exit", "dead", "killed"}

\* c has left word of its death.
Told(c) == pc[c] \in {"close", "exit", "dead"} \/ (pc[c] = "store" /\ ~call[c].abort)

\* c has seen that its parent waits, and has not signalled it yet.
ToSignal(c) == pc[c] = "signal" \/ (pc[c] = "store" /\ call[c].abort)

Posted(c) == thread[Parent(c)].child_sema > 0 /\ thread[Parent(c)].waiting = c

\* What a child and its parent know of one another.
FamilyOK(c) ==
    /\ c \in thread[Parent(c)].children <=> pc[c] \notin Left
    /\ c \in collected => Told(c) /\ ZombiesOf(Parent(c), c) = {}
    /\ \A z \in ZombiesOf(Parent(c), c) : z.exit_status = call[c].status
    /\ ZombiesOf(Parent(c), c) # {} => pc[c] \in {"close", "exit", "dead"}
    /\ pc[Parent(c)] \in {"wait_mark", "wait_down"} /\ call[Parent(c)].tid = c =>
          c \notin collected
    /\ thread[Parent(c)].waiting = c /\ c \notin collected =>
          pc[Parent(c)] = "wait_down" /\ call[Parent(c)].tid = c
    /\ ToSignal(c) =>
          thread[Parent(c)].waiting = c /\ thread[Parent(c)].child_sema = 0
    /\ Posted(c) =>
          /\ Told(c) /\ ZombiesOf(Parent(c), c) = {} /\ c \notin collected
          /\ thread[Parent(c)].child_sema = 1
    /\ pc[Parent(c)] \notin Gone /\ Told(c) =>
          c \in collected \/ ZombiesOf(Parent(c), c) # {} \/ Posted(c)

\* The lists, the marks and the semaphore of a parent are about its children.
ParentOK(p) ==
    /\ thread[p].children \subseteq Created
    /\ \A c \in thread[p].children : Parent(c) = p
    /\ \A z \in thread[p].zombies : z.tid \in Created /\ Parent(z.tid) = p
    /\ pc[p] \in {"wait_mark", "wait_down"} =>
          call[p].tid \in Created /\ Parent(call[p].tid) = p
    /\ pc[p] = "wait_down" => thread[p].waiting = call[p].tid
    /\ thread[p].child_sema > 0 => pc[p] = "wait_down"
    /\ thread[p].waiting \in Created \cup {0}

ReportOK ==
    /\ collected \subseteq Created
    /\ \A p \in Procs : ParentOK(p)
    /\ \A c \in Created : FamilyOK(c)

IInv2 == IInv /\ ReportOK

-----------------------------------------------------------------------------
(* Frames.                                                                 *)

\* Nothing the report of a death reads or writes.
SameReport(u, v) ==
    /\ u.children = v.children /\ u.zombies = v.zombies
    /\ u.waiting = v.waiting /\ u.child_sema = v.child_sema

AtWait == {"wait_mark", "wait_down"}

LEMMA FamilyType ==
    ASSUME IInv, NEW c \in Created
    PROVE  c \in Procs /\ c # Main /\ Parent(c) \in Procs /\ Parent(c) # c
BY ProcessAssumption DEF IInv, TreeOK, ProcessTypeOK, Created, Procs, Main

\* Only p moves.
LEMMA Moved ==
    ASSUME ProcessTypeOK, NEW p \in Procs, NEW l, Go(p, l)
    PROVE  pc'[p] = l /\ \A q \in Procs \ {p} : pc'[q] = pc[q]
BY DEF ProcessTypeOK, Go

LEMMA Assigned ==
    ASSUME ProcessTypeOK, NEW p \in Procs, NEW c, Set(p, c)
    PROVE  call'[p] = c /\ \A q \in Procs \ {p} : call'[q] = call[q]
BY DEF ProcessTypeOK, Set

\* What is left to show of a step that creates nobody.
LEMMA ReportFrom ==
    ASSUME IInv, ReportOK, next_tid' = next_tid,
           \A q \in Procs : Parent(q)' = Parent(q),
           collected' \subseteq Created,
           \A q \in Procs : ParentOK(q)',
           \A c \in Created : FamilyOK(c)'
    PROVE  ReportOK'
BY DEF ReportOK, Created

\* A parent whose marks do not change, or that is not about to wait.
LEMMA ParentFrame ==
    ASSUME ReportOK, NEW q \in Procs,
           next_tid' = next_tid,
           \A r \in Procs : Parent(r)' = Parent(r),
           Created \subseteq Procs,
           thread'[q].children \subseteq thread[q].children,
           thread'[q].zombies \subseteq thread[q].zombies,
           thread'[q].waiting = thread[q].waiting,
           thread'[q].child_sema = thread[q].child_sema,
           \/ pc'[q] = pc[q] /\ call'[q] = call[q]
           \/ pc[q] # "wait_down" /\ pc'[q] \notin AtWait
    PROVE  ParentOK(q)'
<1>1. Created' = Created
  BY DEF Created
<1>2. ParentOK(q)
  BY DEF ReportOK
<1> QED BY <1>1, <1>2 DEF ParentOK, AtWait

\* A child that does nothing of note while its parent goes no nearer to a wait.
LEMMA FamilyFrame ==
    ASSUME ReportOK, NEW c \in Created, NEW h, h = Parent(c),
           Parent(c)' = h,
           \/ pc'[c] = pc[c] /\ call'[c] = call[c]
           \/ pc[c] \notin Left /\ pc'[c] \notin Left,
           \/ pc'[h] = pc[h] /\ call'[h] = call[h]
           \/ /\ pc[h] \notin AtWait /\ pc'[h] \notin AtWait
              /\ pc[h] \in Gone => pc'[h] \in Gone,
           c \in thread'[h].children <=> c \in thread[h].children,
           \A z : z.tid = c => (z \in thread'[h].zombies <=> z \in thread[h].zombies),
           thread'[h].waiting = thread[h].waiting,
           \/ thread'[h].child_sema = thread[h].child_sema
           \/ thread[h].waiting # c,
           c \in collected' <=> c \in collected
    PROVE  FamilyOK(c)'
<1>1. FamilyOK(c)
  BY DEF ReportOK
<1>2. ZombiesOf(h, c)' = ZombiesOf(h, c)
  BY DEF ZombiesOf
<1>3. ToSignal(c)' = ToSignal(c) /\ Told(c)' = Told(c)
  BY DEF ToSignal, Told, Left
<1> QED BY <1>1, <1>2, <1>3 DEF FamilyOK, Posted, AtWait, Left
\* A step of p outside of wait and of its own death.
QuietPlaces == Labels \ (Left \cup AtWait)

LEMMA QuietReport ==
    ASSUME IInv, ReportOK, NEW p \in Procs, NEW l \in QuietPlaces,
           pc[p] \in QuietPlaces \ Gone,
           pc'[p] = l,
           \A q \in Procs \ {p} : pc'[q] = pc[q] /\ call'[q] = call[q],
           \A q \in Procs : Parent(q)' = Parent(q) /\ SameReport(thread'[q], thread[q]),
           UNCHANGED <<next_tid, collected>>
    PROVE  ReportOK'
<1>1. Created \subseteq Procs
  BY FamilyType
<1>2. ASSUME NEW q \in Procs PROVE ParentOK(q)'
  <2>1. /\ thread'[q].children \subseteq thread[q].children
        /\ thread'[q].zombies \subseteq thread[q].zombies
        /\ thread'[q].waiting = thread[q].waiting
        /\ thread'[q].child_sema = thread[q].child_sema
    BY DEF SameReport
  <2>2. \/ pc'[q] = pc[q] /\ call'[q] = call[q]
        \/ pc[q] # "wait_down" /\ pc'[q] \notin AtWait
    BY DEF QuietPlaces, AtWait
  <2> QED BY <1>1, <2>1, <2>2, ParentFrame
<1>3. ASSUME NEW c \in Created PROVE FamilyOK(c)'
  <2> DEFINE h == Parent(c)
  <2>1. c \in Procs /\ h \in Procs /\ h # c
    BY FamilyType
  <2>2. thread'[h].children = thread[h].children /\ thread'[h].zombies = thread[h].zombies
        /\ thread'[h].waiting = thread[h].waiting
        /\ thread'[h].child_sema = thread[h].child_sema
    BY <2>1 DEF SameReport
  <2>3. Parent(c)' = h
    BY <2>1
  <2>4. /\ \/ pc'[c] = pc[c] /\ call'[c] = call[c]
           \/ pc[c] \notin Left /\ pc'[c] \notin Left
        /\ \/ pc'[h] = pc[h] /\ call'[h] = call[h]
           \/ /\ pc[h] \notin AtWait /\ pc'[h] \notin AtWait
              /\ pc[h] \in Gone => pc'[h] \in Gone
    BY <2>1 DEF QuietPlaces
  <2> HIDE DEF h
  <2>5. h = Parent(c)
    BY DEF h
  <2> QED BY <2>2, <2>3, <2>4, <2>5, FamilyFrame
<1>4. collected' \subseteq Created
  BY DEF ReportOK
<1> QED BY <1>2, <1>3, <1>4, ReportFrom

\* thread is left alone, or changes in fields that nobody reports in.
LEMMA ThreadsKept ==
    ASSUME UNCHANGED thread
    PROVE  \A q \in Procs : Parent(q)' = Parent(q) /\ SameReport(thread'[q], thread[q])
BY DEF Parent, SameReport

LEMMA OneThread ==
    ASSUME ProcessTypeOK, NEW h \in Procs, NEW u, thread' = [thread EXCEPT ![h] = u],
           u.parent = thread[h].parent
    PROVE  /\ \A q \in Procs : Parent(q)' = Parent(q)
           /\ thread'[h] = u
           /\ \A q \in Procs \ {h} : thread'[q] = thread[q]
           /\ SameReport(u, thread[h]) => \A q \in Procs : SameReport(thread'[q], thread[q])
BY DEF ProcessTypeOK, Parent, SameReport

LEMMA StillReports ==
    ASSUME ReportOK, UNCHANGED <<pc, thread, call, next_tid, collected>>
    PROVE  ReportOK'
BY DEF ReportOK, ParentOK, FamilyOK, Told, ToSignal, Posted, ZombiesOf, Created, Parent

-----------------------------------------------------------------------------
(* One lemma per group of actions.                                         *)

LEMMA UserReports == ASSUME IInv2, NEW p \in Procs, User(p) PROVE ReportOK'
<1>1. IInv /\ ReportOK /\ ProcessTypeOK
  BY DEF IInv2, IInv
<1>2. CASE Halt(p)
  BY <1>1, <1>2, StillReports DEF Halt
<1>3. CASE ~Halt(p)
  <2>1. PICK l, c :
          /\ l \in {"exec_lock", "file_lock", "wait_zombies", "remove", "killed"}
          /\ pc[p] = "user" /\ Go(p, l) /\ Set(p, c)
          /\ UNCHANGED <<thread, next_tid, collected>>
    <3>1. UNCHANGED call => Set(p, call[p])
      BY <1>1 DEF Set, ProcessTypeOK
    <3>2. CASE CallExec(p) \/ CallFile(p)
      BY <3>2 DEF CallExec, CallFile, At
    <3>3. CASE CallWait(p)
      BY <3>3 DEF CallWait, At
    <3>4. CASE CallExit(p)
      BY <3>4 DEF CallExit, At
    <3>5. CASE Fault(p)
      BY <3>5 DEF Fault, Abort, At
    <3>6. CASE Kill(p)
      BY <3>1, <3>6 DEF Kill, At
    <3> QED BY <1>3, <3>2, <3>3, <3>4, <3>5, <3>6 DEF User
  <2>2. l \in QuietPlaces /\ pc[p] \in QuietPlaces \ Gone
    BY <2>1 DEF QuietPlaces, Labels, Left, AtWait, Gone
  <2> QED BY <1>1, <2>1, <2>2, Moved, Assigned, ThreadsKept, QuietReport
<1> QED BY <1>2, <1>3
LEMMA ExecReports == ASSUME IInv2, NEW p \in Procs, Exec(p), ~Create(p) PROVE ReportOK'
<1>1. IInv /\ ReportOK /\ ProcessTypeOK
  BY DEF IInv2, IInv
<1>2. PICK l, c :
        /\ l \in {"file", "user", "remove", "exec_open", "exec_return", "create",
                 "wait_zombies", "reap"}
        /\ pc[p] \in {"file_lock", "file", "exec_lock", "exec_return", "exec_open",
                      "create", "reap"}
        /\ Go(p, l) /\ Set(p, c)
        /\ UNCHANGED <<next_tid, collected>>
        /\ \/ UNCHANGED thread
           \/ thread' = [thread EXCEPT ![p].reap_sema = @ - 1]
  <2>1. UNCHANGED call => Set(p, call[p])
    BY <1>1 DEF Set, ProcessTypeOK
  <2>2. CASE FileLock(p) \/ ExecLock(p)
    BY <2>1, <2>2 DEF FileLock, ExecLock, Acquire, At
  <2>3. CASE FileDone(p) \/ ExecReturn(p)
    BY <2>3 DEF FileDone, ExecReturn, Release, Back, At
  <2>4. CASE FileFault(p) \/ ExecOpen(p)
    BY <2>1, <2>4 DEF FileFault, ExecOpen, Abort, At
  <2>5. CASE NoPage(p) \/ CreateFails(p)
    BY <2>5 DEF NoPage, CreateFails, Executed, At
  <2>6. CASE Reap(p)
    BY <2>6 DEF Reap, Executed, At
  <2> QED BY <2>2, <2>3, <2>4, <2>5, <2>6 DEF Exec
<1>3. l \in QuietPlaces /\ pc[p] \in QuietPlaces \ Gone
  BY <1>2 DEF QuietPlaces, Labels, Left, AtWait, Gone
<1>4. \A q \in Procs : Parent(q)' = Parent(q) /\ SameReport(thread'[q], thread[q])
  <2>1. CASE UNCHANGED thread
    BY <2>1, ThreadsKept
  <2>2. CASE thread' = [thread EXCEPT ![p].reap_sema = @ - 1]
    BY <1>1, <2>2 DEF ProcessTypeOK, Thread, Parent, SameReport
  <2> QED BY <1>2, <2>1, <2>2
<1> QED BY <1>1, <1>2, <1>3, <1>4, Moved, Assigned, QuietReport

LEMMA StartReports == ASSUME IInv2, NEW p \in Procs, Start(p) PROVE ReportOK'
<1>1. IInv /\ ReportOK /\ ProcessTypeOK
  BY DEF IInv2, IInv
<1>2. CASE LoadPanic(p)
  BY <1>1, <1>2, StillReports DEF LoadPanic
<1>3. CASE ~LoadPanic(p)
  <2>1. PICK l, c :
          /\ l \in {"report", "started", "user", "remove"}
          /\ pc[p] \in Starting /\ Go(p, l) /\ Set(p, c)
          /\ UNCHANGED <<next_tid, collected>>
          /\ \/ UNCHANGED thread
             \/ thread' = [thread EXCEPT ![Parent(p)].success = p \in loaded]
             \/ thread' = [thread EXCEPT ![Parent(p)].reap_sema = @ + 1]
    <3>1. UNCHANGED call => Set(p, call[p])
      BY <1>1 DEF Set, ProcessTypeOK
    <3>2. CASE Load(p)
      BY <3>1, <3>2 DEF Load, Starting, At
    <3>3. CASE Report(p)
      BY <3>1, <3>3 DEF Report, Starting, At
    <3>4. CASE Started(p)
      BY <3>1, <3>4 DEF Started, Starting, Abort, At
    <3> QED BY <1>3, <3>2, <3>3, <3>4 DEF Start
  <2>2. l \in QuietPlaces /\ pc[p] \in QuietPlaces \ Gone
    BY <2>1 DEF QuietPlaces, Labels, Left, AtWait, Gone, Starting
  <2>3. Parent(p) \in Procs
    BY <1>1, <2>1, ParentType DEF IInv
  <2>4. \A q \in Procs : Parent(q)' = Parent(q) /\ SameReport(thread'[q], thread[q])
    <3>1. CASE UNCHANGED thread
      BY <3>1, ThreadsKept
    <3>2. CASE thread' = [thread EXCEPT ![Parent(p)].success = p \in loaded]
      BY <1>1, <2>3, <3>2 DEF ProcessTypeOK, Thread, Parent, SameReport
    <3>3. CASE thread' = [thread EXCEPT ![Parent(p)].reap_sema = @ + 1]
      BY <1>1, <2>3, <3>3 DEF ProcessTypeOK, Thread, Parent, SameReport
    <3> QED BY <2>1, <3>1, <3>2, <3>3
  <2> QED BY <1>1, <2>1, <2>2, <2>4, Moved, Assigned, QuietReport
<1> QED BY <1>2, <1>3

\* The steps of process_wait that come before the wait, or after it.
LEMMA WaitQuietly ==
    ASSUME IInv2, NEW p \in Procs, WaitZombies(p) \/ WaitDenied(p) \/ WaitReturn(p)
    PROVE  ReportOK'
<1>1. IInv /\ ReportOK /\ ProcessTypeOK
  BY DEF IInv2, IInv
<1>2. PICK l, c :
        /\ l \in {"wait_children", "done", "user"}
        /\ pc[p] \in {"wait_zombies", "wait_children", "wait_return"}
        /\ Go(p, l) /\ Set(p, c)
        /\ UNCHANGED <<next_tid, collected>>
        /\ \/ UNCHANGED thread
           \/ thread' = [thread EXCEPT ![p].reaped = call[p].tid]
  <2>1. UNCHANGED call => Set(p, call[p])
    BY <1>1 DEF Set, ProcessTypeOK
  <2>2. CASE WaitZombies(p)
    BY <2>1, <2>2 DEF WaitZombies, At
  <2>3. CASE WaitDenied(p)
    BY <2>3 DEF WaitDenied, Return, Back, At
  <2>4. CASE WaitReturn(p)
    BY <2>4 DEF WaitReturn, Return, Back, At
  <2> QED BY <2>2, <2>3, <2>4
<1>3. l \in QuietPlaces /\ pc[p] \in QuietPlaces \ Gone
  BY <1>2 DEF QuietPlaces, Labels, Left, AtWait, Gone
<1>4. \A q \in Procs : Parent(q)' = Parent(q) /\ SameReport(thread'[q], thread[q])
  <2>1. CASE UNCHANGED thread
    BY <2>1, ThreadsKept
  <2>2. CASE thread' = [thread EXCEPT ![p].reaped = call[p].tid]
    BY <1>1, <2>2 DEF ProcessTypeOK, Thread, Parent, SameReport
  <2> QED BY <1>2, <2>1, <2>2
<1> QED BY <1>1, <1>2, <1>3, <1>4, Moved, Assigned, QuietReport
\* A step of p in process_wait that may change its marks, and of its children
\* concerns only c.
LEMMA WaitFrame ==
    ASSUME IInv, ReportOK, NEW p \in Procs, NEW c \in Created, NEW l, NEW k,
           Parent(c) = p,
           pc[p] \notin Left \cup Gone, l \notin Left \cup Gone,
           pc[p] = "wait_down" => call[p].tid = c,
           l \in AtWait => k.tid = c,
           Go(p, l), Set(p, k),
           \A q \in Procs : Parent(q)' = Parent(q),
           \A q \in Procs \ {p} : thread'[q] = thread[q],
           thread'[p].children = thread[p].children,
           \A z : z.tid # c => (z \in thread'[p].zombies <=> z \in thread[p].zombies),
           \/ UNCHANGED <<thread[p].waiting, thread[p].child_sema>>
           \/ thread'[p].waiting = c,
           \A d : d # c => (d \in collected' <=> d \in collected),
           next_tid' = next_tid, collected' \subseteq Created,
           ParentOK(p)', FamilyOK(c)'
    PROVE  ReportOK'
<1>1. Created \subseteq Procs /\ ProcessTypeOK
  BY FamilyType DEF IInv
<1>2. /\ pc'[p] = l /\ call'[p] = k
      /\ \A q \in Procs \ {p} : pc'[q] = pc[q] /\ call'[q] = call[q]
  BY <1>1, Moved, Assigned
<1>3. ASSUME NEW q \in Procs \ {p} PROVE ParentOK(q)'
  BY <1>1, <1>2, ParentFrame
<1>4. ASSUME NEW d \in Created, d # c, Parent(d) # p PROVE FamilyOK(d)'
  <2> DEFINE h == Parent(d)
  <2>1. d \in Procs /\ h \in Procs \ {p} /\ Parent(d)' = h
    BY <1>4, FamilyType
  <2>2. \/ pc'[d] = pc[d] /\ call'[d] = call[d]
        \/ pc[d] \notin Left /\ pc'[d] \notin Left
    BY <1>2, <2>1
  <2>3. thread'[h] = thread[h] /\ pc'[h] = pc[h] /\ call'[h] = call[h]
        /\ (d \in collected' <=> d \in collected)
    BY <1>2, <1>4, <2>1
  <2>4. h = Parent(d)
    OBVIOUS
  <2> HIDE DEF h
  <2> QED BY <2>1, <2>2, <2>3, <2>4, FamilyFrame
<1>5. ASSUME NEW d \in Created, d # c, Parent(d) = p PROVE FamilyOK(d)'
  <2>1. d \in Procs \ {p} /\ Parent(d)' = p
    BY <1>5, FamilyType
  <2>2. /\ pc'[d] = pc[d] /\ call'[d] = call[d]
        /\ d \in collected' <=> d \in collected
        /\ d \in thread'[p].children <=> d \in thread[p].children
    BY <1>2, <1>5, <2>1
  <2>3. FamilyOK(d) /\ ParentOK(p)
    BY DEF ReportOK
  <2>4. ZombiesOf(p, d)' = ZombiesOf(p, d)
    BY <1>5 DEF ZombiesOf
  <2>5. Told(d)' = Told(d) /\ ToSignal(d)' = ToSignal(d)
    BY <2>2 DEF Told, ToSignal
  <2>6. ~(thread[p].waiting = d /\ d \notin collected)
    BY <1>5, <2>3 DEF FamilyOK
  <2>7. ~(thread'[p].waiting = d /\ d \notin collected)
    BY <1>5, <2>6
  <2>8. ~ToSignal(d) /\ ~Posted(d) /\ ~Posted(d)'
    <3>1. ToSignal(d) => d \notin collected
      BY <2>3 DEF FamilyOK, ToSignal, Told
    <3>2. (thread[p].waiting = d => ~Posted(d)) /\ (thread'[p].waiting = d => ~Posted(d))
      BY <1>5, <2>3, <2>6 DEF FamilyOK, Posted
    <3> QED BY <1>5, <2>1, <2>3, <2>6, <3>1, <3>2 DEF FamilyOK, Posted
  <2>9. pc'[p] \in AtWait => call'[p].tid # d
    BY <1>2, <1>5
  <2> QED BY <1>2, <1>5, <2>1, <2>2, <2>3, <2>4, <2>5, <2>7, <2>8, <2>9
          DEF FamilyOK, AtWait
<1> QED BY <1>3, <1>4, <1>5, ReportFrom
\* A child whose death has been collected is of no further interest.
LEMMA WaitZombieReports == ASSUME IInv2, NEW p \in Procs, WaitZombie(p) PROVE ReportOK'
<1>1. IInv /\ ReportOK /\ ProcessTypeOK
  BY DEF IInv2, IInv
<1> DEFINE l == IF p = Main THEN "done" ELSE "user"
<1>0. PICK c : c = call[p].tid
  OBVIOUS
<1>2. PICK z \in ZombiesOf(p, c) :
        /\ thread' = [thread EXCEPT ![p].zombies = @ \ {z}]
        /\ Set(p, [NoCall EXCEPT !.eax = z.exit_status]) /\ Go(p, l)
  BY <1>0 DEF WaitZombie, Return, Back
<1>3. /\ pc[p] = "wait_zombies" /\ collected' = collected \cup {c} /\ next_tid' = next_tid
      /\ z \in thread[p].zombies /\ z.tid = c
  BY <1>0, <1>2 DEF WaitZombie, At, ZombiesOf
<1>4. c \in Created /\ Parent(c) = p /\ ParentOK(p) /\ FamilyOK(c)
  BY <1>1, <1>3 DEF ReportOK, ParentOK
<1>5. thread[p] \in Thread /\ thread[p].zombies \subseteq [tid : Procs, exit_status : Statuses]
  BY <1>1 DEF ProcessTypeOK, Thread
<1>6. /\ \A q \in Procs : Parent(q)' = Parent(q)
      /\ thread'[p] = [thread[p] EXCEPT !.zombies = @ \ {z}]
      /\ \A q \in Procs \ {p} : thread'[q] = thread[q]
  <2> DEFINE u == [thread[p] EXCEPT !.zombies = @ \ {z}]
  <2>1. u.parent = thread[p].parent /\ thread' = [thread EXCEPT ![p] = u]
    BY <1>2, <1>5 DEF Thread
  <2> HIDE DEF u
  <2>2. thread'[p] = u
    BY <1>1, <2>1, OneThread
  <2> QED BY <1>1, <2>1, <2>2, OneThread DEF u
<1>7. /\ thread'[p].children = thread[p].children
      /\ thread'[p].zombies = thread[p].zombies \ {z}
      /\ thread'[p].waiting = thread[p].waiting /\ thread'[p].child_sema = thread[p].child_sema
  BY <1>5, <1>6 DEF Thread
<1> HIDE DEF l
<1>8. c \in Procs /\ c # p /\ l \notin Left \cup Gone \cup AtWait /\ Created \subseteq Procs
  BY <1>1, <1>4, FamilyType DEF l, Left, Gone, AtWait
<1>9. /\ pc'[p] = l /\ pc'[c] = pc[c] /\ call'[c] = call[c]
  BY <1>1, <1>2, <1>8, Moved, Assigned
<1>10. ParentOK(p)'
  BY <1>1, <1>3, <1>6, <1>7, <1>8, <1>9, ParentFrame
<1>11. FamilyOK(c)'
  <2>1. ZombiesOf(p, c)' = {}
    <3>1. \A y \in ZombiesOf(p, c) : y = z
      BY <1>2, <1>3, <1>4, <1>5 DEF FamilyOK, ZombiesOf
    <3> QED BY <1>7, <3>1 DEF ZombiesOf
  <2>2. /\ Parent(c)' = p /\ pc[c] \in {"close", "exit", "dead"}
        /\ c \in thread'[p].children <=> c \in thread[p].children
    BY <1>2, <1>4, <1>6, <1>7, <1>8 DEF FamilyOK
  <2>3. Told(c)' /\ ~ToSignal(c)' /\ c \in collected'
    BY <1>3, <1>9, <2>2 DEF Told, ToSignal
  <2>4. ~Posted(c)'
    BY <1>3, <1>4, <1>5, <1>7, <2>2 DEF Posted, ParentOK, Thread
  <2> QED BY <1>4, <1>8, <1>9, <2>1, <2>2, <2>3, <2>4 DEF FamilyOK, AtWait
<1>12. pc[p] \notin Left \cup Gone
  BY <1>3 DEF Left, Gone
<1>13. \A y : y.tid # c => (y \in thread'[p].zombies <=> y \in thread[p].zombies)
  BY <1>3, <1>7
<1>14. collected' \subseteq Created /\ (l \in AtWait => FALSE)
  BY <1>1, <1>3, <1>4, <1>8 DEF ReportOK
<1> QED BY <1>0, <1>1, <1>2, <1>3, <1>4, <1>6, <1>7, <1>8, <1>10, <1>11, <1>12, <1>13, <1>14,
           WaitFrame

LEMMA WaitFoundReports == ASSUME IInv2, NEW p \in Procs, WaitFound(p) PROVE ReportOK'
<1>1. IInv /\ ReportOK /\ ProcessTypeOK
  BY DEF IInv2, IInv
<1>0. PICK c : c = call[p].tid
  OBVIOUS
<1>2. /\ pc[p] = "wait_children" /\ c \in thread[p].children
      /\ Go(p, "wait_mark") /\ Set(p, call[p])
      /\ UNCHANGED <<thread, call, next_tid, collected>>
  BY <1>0, <1>1 DEF WaitFound, At, Set, ProcessTypeOK
<1>3. c \in Created /\ Parent(c) = p /\ ParentOK(p) /\ FamilyOK(c)
  BY <1>0, <1>1, <1>2 DEF ReportOK, ParentOK
<1>4. c \in Procs /\ c # p
  BY <1>1, <1>3, FamilyType
<1>5. pc'[p] = "wait_mark" /\ pc'[c] = pc[c]
  BY <1>1, <1>2, <1>4, Moved
<1>6. /\ \A q : Parent(q)' = Parent(q)
      /\ Created' = Created
  BY <1>2 DEF Parent, Created
<1>7. ParentOK(p)'
  BY <1>0, <1>2, <1>3, <1>4, <1>5, <1>6 DEF ParentOK
<1>8. FamilyOK(c)'
  <2>1. c \notin collected /\ pc[c] \notin Left
    BY <1>2, <1>3 DEF FamilyOK, Told, Left
  <2>2. ~Told(c)' /\ ~ToSignal(c)' /\ ~(thread[p].waiting = c)
    BY <1>2, <1>3, <1>5, <2>1 DEF FamilyOK, Told, ToSignal, Left
  <2> QED BY <1>2, <1>3, <1>4, <1>5, <1>6, <2>1, <2>2 DEF FamilyOK, Posted, ZombiesOf, Told
<1>9. /\ pc[p] \notin Left \cup Gone /\ "wait_mark" \notin Left \cup Gone
      /\ call[p].tid = c
  BY <1>0, <1>2 DEF Left, Gone
<1>10. collected' \subseteq Created
  BY <1>1, <1>2 DEF ReportOK
<1> QED BY <1>0, <1>1, <1>2, <1>3, <1>6, <1>7, <1>8, <1>9, <1>10, WaitFrame

LEMMA WaitMarkReports == ASSUME IInv2, NEW p \in Procs, WaitMark(p) PROVE ReportOK'
<1>1. IInv /\ ReportOK /\ ProcessTypeOK
  BY DEF IInv2, IInv
<1>0. PICK c : c = call[p].tid
  OBVIOUS
<1> DEFINE u == [thread[p] EXCEPT !.waiting = c]
<1>2. /\ pc[p] = "wait_mark" /\ thread' = [thread EXCEPT ![p] = u]
      /\ Go(p, "wait_down") /\ Set(p, call[p])
      /\ UNCHANGED <<call, next_tid, collected>>
  BY <1>0, <1>1 DEF WaitMark, At, Set, ProcessTypeOK
<1>3. c \in Created /\ Parent(c) = p /\ ParentOK(p) /\ FamilyOK(c)
  BY <1>0, <1>1, <1>2 DEF ReportOK, ParentOK
<1>4. /\ thread[p] \in Thread /\ u.parent = thread[p].parent
      /\ u.children = thread[p].children /\ u.zombies = thread[p].zombies
      /\ u.waiting = c /\ u.child_sema = thread[p].child_sema
  BY <1>1 DEF ProcessTypeOK, Thread
<1> HIDE DEF u
<1>5. /\ \A q \in Procs : Parent(q)' = Parent(q)
      /\ thread'[p] = u
      /\ \A q \in Procs \ {p} : thread'[q] = thread[q]
      /\ Created' = Created
  BY <1>1, <1>2, <1>4, OneThread DEF Created
<1>6. c \in Procs /\ c # p
  BY <1>1, <1>3, FamilyType
<1>7. pc'[p] = "wait_down" /\ pc'[c] = pc[c]
  BY <1>1, <1>2, <1>6, Moved
<1>8. ParentOK(p)'
  <2>1. call'[p].tid = c
    BY <1>0, <1>2
  <2>2. thread[p].child_sema = 0
    BY <1>2, <1>3, <1>4 DEF ParentOK, Thread
  <2> QED BY <1>2, <1>3, <1>4, <1>5, <1>6, <1>7, <2>1, <2>2, FamilyType, <1>1 DEF ParentOK
<1>9. FamilyOK(c)'
  <2>1. c \notin collected /\ thread[p].child_sema = 0 /\ call'[p].tid = c
    BY <1>0, <1>2, <1>3, <1>4 DEF FamilyOK, ParentOK, Thread
  <2>2. ~ToSignal(c)
    BY <1>2, <1>3, <2>1 DEF FamilyOK
  <2>3. ~Posted(c)' /\ ~ToSignal(c)' /\ Told(c)' = Told(c) /\ ~Posted(c)
    BY <1>2, <1>3, <1>4, <1>5, <1>6, <1>7, <2>1, <2>2 DEF Posted, ToSignal, Told
  <2>4. ZombiesOf(p, c)' = ZombiesOf(p, c)
    BY <1>4, <1>5 DEF ZombiesOf
  <2>5. pc[p] \notin Gone
    BY <1>2 DEF Gone
  <2> QED BY <1>2, <1>3, <1>4, <1>5, <1>6, <1>7, <2>1, <2>3, <2>4, <2>5 DEF FamilyOK
<1>10. /\ pc[p] \notin Left \cup Gone /\ "wait_down" \notin Left \cup Gone
       /\ call[p].tid = c
  BY <1>0, <1>2 DEF Left, Gone
<1>11. collected' \subseteq Created
  BY <1>1, <1>2 DEF ReportOK
<1> QED BY <1>0, <1>1, <1>2, <1>3, <1>4, <1>5, <1>8, <1>9, <1>10, <1>11, WaitFrame

LEMMA WaitDownReports == ASSUME IInv2, NEW p \in Procs, WaitDown(p) PROVE ReportOK'
<1>1. IInv /\ ReportOK /\ ProcessTypeOK
  BY DEF IInv2, IInv
<1>0. PICK c : c = call[p].tid
  OBVIOUS
<1> DEFINE u == [thread[p] EXCEPT !.child_sema = @ - 1]
<1>2. /\ pc[p] = "wait_down" /\ thread' = [thread EXCEPT ![p] = u]
      /\ Go(p, "wait_return") /\ Set(p, call[p]) /\ thread[p].child_sema > 0
      /\ UNCHANGED <<call, next_tid>> /\ collected' = collected \cup {c}
  BY <1>0, <1>1 DEF WaitDown, At, Set, ProcessTypeOK
<1>3. /\ c \in Created /\ Parent(c) = p /\ ParentOK(p) /\ FamilyOK(c)
      /\ thread[p].waiting = c
  BY <1>0, <1>1, <1>2 DEF ReportOK, ParentOK
<1>4. /\ u.parent = thread[p].parent
      /\ u.children = thread[p].children /\ u.zombies = thread[p].zombies
      /\ u.waiting = c /\ u.child_sema = 0
  <2>1. thread[p] \in Thread /\ thread[p].child_sema = 1
    BY <1>1, <1>2, <1>3 DEF ProcessTypeOK, FamilyOK, Posted
  <2> QED BY <1>3, <2>1 DEF Thread
<1> HIDE DEF u
<1>5. /\ \A q \in Procs : Parent(q)' = Parent(q)
      /\ thread'[p] = u
      /\ \A q \in Procs \ {p} : thread'[q] = thread[q]
      /\ Created' = Created
  BY <1>1, <1>2, <1>4, OneThread DEF Created
<1>6. c \in Procs /\ c # p /\ Created \subseteq Procs
  BY <1>1, <1>3, FamilyType
<1>7. pc'[p] = "wait_return" /\ pc'[c] = pc[c]
  BY <1>1, <1>2, <1>6, Moved
<1>8. ParentOK(p)'
  BY <1>3, <1>4, <1>5, <1>6, <1>7 DEF ParentOK
<1>9. FamilyOK(c)'
  <2>1. Posted(c)
    BY <1>2, <1>3 DEF Posted
  <2>2. Told(c)' /\ ~ToSignal(c)' /\ ~Posted(c)' /\ c \in collected'
    BY <1>2, <1>3, <1>4, <1>5, <1>6, <1>7, <2>1 DEF FamilyOK, Posted, ToSignal, Told
  <2>3. ZombiesOf(p, c)' = {}
    BY <1>3, <1>4, <1>5, <2>1 DEF ZombiesOf, FamilyOK
  <2> QED BY <1>3, <1>4, <1>5, <1>6, <1>7, <2>2, <2>3 DEF FamilyOK
<1>10. /\ pc[p] \notin Left \cup Gone /\ "wait_return" \notin Left \cup Gone \cup AtWait
       /\ call[p].tid = c
  BY <1>0, <1>2 DEF Left, Gone, AtWait
<1>11. collected' \subseteq Created
  BY <1>1, <1>2, <1>3 DEF ReportOK
<1> QED BY <1>0, <1>1, <1>2, <1>3, <1>4, <1>5, <1>8, <1>9, <1>10, <1>11, WaitFrame

LEMMA WaitReports == ASSUME IInv2, NEW p \in Procs, Wait(p) PROVE ReportOK'
BY WaitQuietly, WaitZombieReports, WaitFoundReports, WaitMarkReports, WaitDownReports DEF Wait
\* A step of the dying p, which of its parent's children concerns only p.
LEMMA EndFrame ==
    ASSUME IInv, ReportOK, NEW p \in Created, NEW h, h = Parent(p), NEW l,
           pc[p] \notin AtWait, l \notin AtWait, pc[p] \in Gone => l \in Gone,
           Go(p, l), UNCHANGED <<call, next_tid, collected>>,
           \A q \in Procs : Parent(q)' = Parent(q),
           \A q \in Procs \ {h} : thread'[q] = thread[q],
           thread'[h].children \subseteq thread[h].children,
           \A c \in Created \ {p} : c \in thread'[h].children <=> c \in thread[h].children,
           \A z : z.tid # p => (z \in thread'[h].zombies <=> z \in thread[h].zombies),
           thread'[h].waiting = thread[h].waiting,
           \/ thread'[h].child_sema = thread[h].child_sema
           \/ thread[h].waiting = p,
           \/ /\ thread'[h].zombies \subseteq thread[h].zombies
              /\ thread'[h].child_sema = thread[h].child_sema
           \/ ParentOK(h)',
           FamilyOK(p)'
    PROVE  ReportOK'
<1>1. Created \subseteq Procs /\ ProcessTypeOK /\ p \in Procs /\ h \in Procs /\ h # p
  BY FamilyType DEF IInv
<1>2. /\ pc'[p] = l
      /\ \A q \in Procs \ {p} : pc'[q] = pc[q]
  BY <1>1, Moved
<1>3. ASSUME NEW q \in Procs PROVE ParentOK(q)'
  <2>1. \/ pc'[q] = pc[q] /\ call'[q] = call[q]
        \/ pc[q] # "wait_down" /\ pc'[q] \notin AtWait
    BY <1>2 DEF AtWait
  <2>2. CASE q # h
    BY <1>1, <2>1, <2>2, ParentFrame
  <2>3. CASE q = h
    BY <1>1, <2>1, <2>3, ParentFrame
  <2> QED BY <2>2, <2>3
<1>4. ASSUME NEW c \in Created \ {p} PROVE FamilyOK(c)'
  <2>0. PICK g : g = Parent(c)
    OBVIOUS
  <2>1. c \in Procs /\ g \in Procs /\ Parent(c)' = g
    BY <2>0, FamilyType
  <2>2. pc'[c] = pc[c] /\ call'[c] = call[c]
    BY <1>2, <2>1
  <2>3. \/ pc'[g] = pc[g] /\ call'[g] = call[g]
        \/ /\ pc[g] \notin AtWait /\ pc'[g] \notin AtWait
           /\ pc[g] \in Gone => pc'[g] \in Gone
    BY <1>2, <2>1
  <2>4. /\ c \in thread'[g].children <=> c \in thread[g].children
        /\ \A z : z.tid = c => (z \in thread'[g].zombies <=> z \in thread[g].zombies)
        /\ thread'[g].waiting = thread[g].waiting
        /\ \/ thread'[g].child_sema = thread[g].child_sema
           \/ thread[g].waiting # c
    BY <2>1
  <2> QED BY <2>0, <2>1, <2>2, <2>3, <2>4, FamilyFrame
<1>5. collected' \subseteq Created
  BY DEF ReportOK
<1> QED BY <1>1, <1>3, <1>4, <1>5, ReportFrom

LEMMA RemoveReports == ASSUME IInv2, NEW p \in Procs, Remove(p) PROVE ReportOK'
<1>0. PICK h : h = Parent(p)
  OBVIOUS
<1> DEFINE u == [thread[h] EXCEPT !.children = @ \ {p}]
<1>1. /\ IInv /\ ReportOK /\ ProcessTypeOK
      /\ p \in Created /\ h \in Procs /\ h # p /\ FamilyOK(p)
  BY <1>0, ParentType DEF IInv2, IInv, Remove, At, ReportOK
<1>2. /\ pc[p] = "remove" /\ Go(p, "test")
      /\ thread' = [thread EXCEPT ![h] = u]
      /\ UNCHANGED <<call, next_tid, collected>>
  BY <1>0 DEF Remove, At
<1>3. /\ u.parent = thread[h].parent /\ u.children = thread[h].children \ {p}
      /\ u.zombies = thread[h].zombies /\ u.waiting = thread[h].waiting
      /\ u.child_sema = thread[h].child_sema
  BY <1>1 DEF ProcessTypeOK, Thread
<1> HIDE DEF u
<1>4. /\ \A q \in Procs : Parent(q)' = Parent(q)
      /\ thread'[h] = u
      /\ \A q \in Procs \ {h} : thread'[q] = thread[q]
  BY <1>1, <1>2, <1>3, OneThread
<1>5. pc'[p] = "test" /\ pc'[h] = pc[h]
  BY <1>1, <1>2, Moved
<1>6. FamilyOK(p)'
  <2>1. /\ ~Told(p) /\ ~Told(p)' /\ ~ToSignal(p)'
        /\ p \notin collected /\ ~Posted(p) /\ ~Posted(p)'
    BY <1>0, <1>1, <1>2, <1>3, <1>4, <1>5 DEF FamilyOK, Told, ToSignal, Posted
  <2>2. ZombiesOf(h, p) = {} /\ ZombiesOf(h, p)' = {}
    BY <1>0, <1>1, <1>2, <1>3, <1>4 DEF FamilyOK, ZombiesOf
  <2>3. "test" \in Left
    BY DEF Left
  <2> QED BY <1>0, <1>1, <1>2, <1>3, <1>4, <1>5, <2>1, <2>2, <2>3 DEF FamilyOK
<1>7. "remove" \notin AtWait \cup Gone /\ "test" \notin AtWait
  BY DEF AtWait, Gone
<1> QED BY <1>0, <1>1, <1>2, <1>3, <1>4, <1>6, <1>7, EndFrame

LEMMA TestReports == ASSUME IInv2, NEW p \in Procs, Test(p) PROVE ReportOK'
<1>0. PICK h : h = Parent(p)
  OBVIOUS
<1>1. /\ IInv /\ ReportOK /\ ProcessTypeOK
      /\ p \in Created /\ h \in Procs /\ h # p /\ FamilyOK(p)
  BY <1>0, ParentType DEF IInv2, IInv, Test, At, ReportOK
<1>2. PICK l : l = IF thread[h].waiting # p THEN "zombie"
                   ELSE IF call[p].abort THEN "store" ELSE "signal"
  OBVIOUS
<1>3. /\ pc[p] = "test" /\ Go(p, l)
      /\ UNCHANGED <<thread, call, next_tid, collected>>
  BY <1>0, <1>2 DEF Test, At
<1>4. pc'[p] = l /\ pc'[h] = pc[h] /\ \A q \in Procs : Parent(q)' = Parent(q)
  BY <1>1, <1>3, Moved DEF Parent
<1>5. FamilyOK(p)'
  <2>1. ~Told(p) /\ p \notin collected /\ ~Posted(p) /\ ZombiesOf(h, p) = {}
    BY <1>0, <1>1, <1>3 DEF FamilyOK, Told
  <2>2. ~Told(p)' /\ ~Posted(p)' /\ ZombiesOf(h, p)' = {} /\ p \notin collected'
    BY <1>0, <1>1, <1>2, <1>3, <1>4, <2>1 DEF Told, Posted, ZombiesOf
  <2>3. ToSignal(p)' => thread[h].waiting = p /\ thread[h].child_sema = 0
    <3>1. ToSignal(p)' => thread[h].waiting = p
      BY <1>2, <1>3, <1>4 DEF ToSignal
    <3>2. thread[h].child_sema \in Nat
      BY <1>1 DEF ProcessTypeOK, Thread
    <3> QED BY <1>0, <2>1, <3>1, <3>2 DEF Posted
  <2>4. l \in Left /\ "test" \in Left
    BY <1>2 DEF Left
  <2> QED BY <1>0, <1>1, <1>3, <1>4, <2>1, <2>2, <2>3, <2>4 DEF FamilyOK
<1>6. "test" \notin AtWait \cup Gone /\ l \notin AtWait
  BY <1>2 DEF AtWait, Gone
<1> QED BY <1>0, <1>1, <1>3, <1>4, <1>5, <1>6, EndFrame
LEMMA SignalReports == ASSUME IInv2, NEW p \in Procs, Signal(p) PROVE ReportOK'
<1>0. PICK h : h = Parent(p)
  OBVIOUS
<1> DEFINE u == [thread[h] EXCEPT !.child_sema = @ + 1]
<1>1. /\ IInv /\ ReportOK /\ ProcessTypeOK
      /\ p \in Created /\ h \in Procs /\ h # p /\ FamilyOK(p) /\ ParentOK(h)
  BY <1>0, ParentType DEF IInv2, IInv, Signal, At, ReportOK
<1>2. PICK l : l = IF call[p].abort THEN "close" ELSE "store"
  OBVIOUS
<1>3. /\ pc[p] = "signal" /\ Go(p, l)
      /\ thread' = [thread EXCEPT ![h] = u]
      /\ UNCHANGED <<call, next_tid, collected>>
  BY <1>0, <1>2 DEF Signal, At
<1>4. /\ ToSignal(p) /\ ~Told(p) /\ p \notin collected /\ ZombiesOf(h, p) = {}
      /\ thread[h].waiting = p /\ thread[h].child_sema = 0
      /\ pc[h] = "wait_down" /\ call[h].tid = p
  <2>1. ToSignal(p) /\ ~Told(p)
    BY <1>3 DEF ToSignal, Told
  <2> QED BY <1>0, <1>1, <1>3, <2>1 DEF FamilyOK
<1>5. /\ u.parent = thread[h].parent /\ u.children = thread[h].children
      /\ u.zombies = thread[h].zombies /\ u.waiting = thread[h].waiting
      /\ u.child_sema = 1
  BY <1>1, <1>4 DEF ProcessTypeOK, Thread
<1> HIDE DEF u
<1>6. /\ \A q \in Procs : Parent(q)' = Parent(q)
      /\ thread'[h] = u
      /\ \A q \in Procs \ {h} : thread'[q] = thread[q]
      /\ Created' = Created /\ Created \subseteq Procs
  BY <1>1, <1>3, <1>5, OneThread, FamilyType DEF Created
<1>7. pc'[p] = l /\ pc'[h] = pc[h] /\ Parent(p)' = h
  BY <1>0, <1>1, <1>3, <1>6, Moved
<1>8. FamilyOK(p)'
  <2>1. Told(p)' /\ ~ToSignal(p)' /\ Posted(p)'
    BY <1>2, <1>3, <1>4, <1>5, <1>6, <1>7 DEF Told, ToSignal, Posted
  <2>2. ZombiesOf(h, p)' = {}
    BY <1>4, <1>5, <1>6 DEF ZombiesOf
  <2>3. l \in Left /\ "signal" \in Left
    BY <1>2 DEF Left
  <2> QED BY <1>0, <1>1, <1>3, <1>4, <1>5, <1>6, <1>7, <2>1, <2>2, <2>3 DEF FamilyOK
<1>9. ParentOK(h)'
  <2>1. \A q \in Created : Parent(q)' = Parent(q)
    BY <1>6
  <2> QED BY <1>0, <1>1, <1>3, <1>4, <1>5, <1>6, <1>7, <2>1 DEF ParentOK
<1>10. "signal" \notin AtWait \cup Gone /\ l \notin AtWait
  BY <1>2 DEF AtWait, Gone
<1> QED BY <1>0, <1>1, <1>3, <1>4, <1>5, <1>6, <1>8, <1>9, <1>10, EndFrame

LEMMA StoreReports == ASSUME IInv2, NEW p \in Procs, Store(p) PROVE ReportOK'
<1>0. PICK h : h = Parent(p)
  OBVIOUS
<1> DEFINE u == [thread[h] EXCEPT !.exit_status = call[p].status]
<1>1. /\ IInv /\ ReportOK /\ ProcessTypeOK
      /\ p \in Created /\ h \in Procs /\ h # p /\ FamilyOK(p)
  BY <1>0, ParentType DEF IInv2, IInv, Store, At, ReportOK
<1>2. PICK l : l = IF call[p].abort THEN "signal" ELSE "close"
  OBVIOUS
<1>3. /\ pc[p] = "store" /\ Go(p, l)
      /\ thread' = [thread EXCEPT ![h] = u]
      /\ UNCHANGED <<call, next_tid, collected>>
  BY <1>0, <1>2 DEF Store, At
<1>4. /\ u.parent = thread[h].parent /\ u.children = thread[h].children
      /\ u.zombies = thread[h].zombies /\ u.waiting = thread[h].waiting
      /\ u.child_sema = thread[h].child_sema
  BY <1>1 DEF ProcessTypeOK, Thread
<1> HIDE DEF u
<1>5. /\ \A q \in Procs : Parent(q)' = Parent(q)
      /\ thread'[h] = u
      /\ \A q \in Procs \ {h} : thread'[q] = thread[q]
  BY <1>1, <1>3, <1>4, OneThread
<1>6. pc'[p] = l /\ pc'[h] = pc[h] /\ Parent(p)' = h
  BY <1>0, <1>1, <1>3, <1>5, Moved
<1>7. FamilyOK(p)'
  <2>1. Told(p)' = Told(p) /\ ToSignal(p)' = ToSignal(p) /\ Posted(p)' = Posted(p)
    BY <1>0, <1>2, <1>3, <1>4, <1>5, <1>6 DEF Told, ToSignal, Posted
  <2>2. ZombiesOf(h, p)' = ZombiesOf(h, p) /\ ZombiesOf(h, p) = {}
    BY <1>0, <1>1, <1>3, <1>4, <1>5 DEF ZombiesOf, FamilyOK
  <2>3. l \in Left /\ "store" \in Left
    BY <1>2 DEF Left
  <2> QED BY <1>0, <1>1, <1>3, <1>4, <1>5, <1>6, <2>1, <2>2, <2>3 DEF FamilyOK
<1>8. "store" \notin AtWait \cup Gone /\ l \notin AtWait
  BY <1>2 DEF AtWait, Gone
<1> QED BY <1>0, <1>1, <1>3, <1>4, <1>5, <1>7, <1>8, EndFrame

LEMMA ZombieReports == ASSUME IInv2, NEW p \in Procs, Zombie(p) PROVE ReportOK'
<1>0. PICK h, z : h = Parent(p) /\ z = [tid |-> p, exit_status |-> call[p].status]
  OBVIOUS
<1> DEFINE u == [thread[h] EXCEPT !.zombies = @ \cup {z}]
<1>1. /\ IInv /\ ReportOK /\ ProcessTypeOK
      /\ p \in Created /\ h \in Procs /\ h # p /\ FamilyOK(p) /\ ParentOK(h)
  BY <1>0, ParentType DEF IInv2, IInv, Zombie, At, ReportOK
<1>2. /\ pc[p] = "zombie" /\ Go(p, "close")
      /\ thread' = [thread EXCEPT ![h] = u]
      /\ UNCHANGED <<call, next_tid, collected>>
  BY <1>0 DEF Zombie, At
<1>3. /\ u.parent = thread[h].parent /\ u.children = thread[h].children
      /\ u.zombies = thread[h].zombies \cup {z} /\ u.waiting = thread[h].waiting
      /\ u.child_sema = thread[h].child_sema
  BY <1>1 DEF ProcessTypeOK, Thread
<1> HIDE DEF u
<1>4. /\ \A q \in Procs : Parent(q)' = Parent(q)
      /\ thread'[h] = u
      /\ \A q \in Procs \ {h} : thread'[q] = thread[q]
      /\ Created' = Created /\ Created \subseteq Procs
  BY <1>1, <1>2, <1>3, OneThread, FamilyType DEF Created
<1>5. pc'[p] = "close" /\ pc'[h] = pc[h] /\ Parent(p)' = h /\ z.tid = p
  BY <1>0, <1>1, <1>2, <1>4, Moved
<1>6. FamilyOK(p)'
  <2>1. ~Told(p) /\ p \notin collected /\ ~Posted(p) /\ ZombiesOf(h, p) = {}
    BY <1>0, <1>1, <1>2 DEF FamilyOK, Told
  <2>2. Told(p)' /\ ~ToSignal(p)' /\ ~Posted(p)'
    BY <1>0, <1>2, <1>3, <1>4, <1>5, <2>1 DEF Told, ToSignal, Posted
  <2>3. ZombiesOf(h, p)' = {z}
    BY <1>3, <1>4, <1>5, <2>1 DEF ZombiesOf
  <2>4. "close" \in Left /\ "zombie" \in Left
    BY DEF Left
  <2> QED BY <1>0, <1>1, <1>2, <1>3, <1>4, <1>5, <2>1, <2>2, <2>3, <2>4 DEF FamilyOK
<1>7. ParentOK(h)'
  <2>1. \A q \in Created : Parent(q)' = Parent(q)
    BY <1>4
  <2> QED BY <1>0, <1>1, <1>2, <1>3, <1>4, <1>5, <2>1 DEF ParentOK
<1>8. "zombie" \notin AtWait \cup Gone /\ "close" \notin AtWait
  BY DEF AtWait, Gone
<1>9. \A y : y.tid # p => (y \in thread'[h].zombies <=> y \in thread[h].zombies)
  BY <1>3, <1>4, <1>5
<1> QED BY <1>0, <1>1, <1>2, <1>3, <1>4, <1>6, <1>7, <1>8, <1>9, EndFrame
LEMMA CloseReports == ASSUME IInv2, NEW p \in Procs, Close(p) PROVE ReportOK'
<1> DEFINE u == [thread[p] EXCEPT !.zombies = {}]
<1>1. /\ IInv /\ ReportOK /\ ProcessTypeOK
      /\ pc[p] = "close" /\ Go(p, "exit")
      /\ thread' = [thread EXCEPT ![p] = u]
      /\ UNCHANGED <<call, next_tid, collected>>
  BY DEF IInv2, IInv, Close, At
<1>2. /\ u.parent = thread[p].parent /\ u.children = thread[p].children
      /\ u.zombies = {} /\ u.waiting = thread[p].waiting
      /\ u.child_sema = thread[p].child_sema
  BY <1>1 DEF ProcessTypeOK, Thread
<1> HIDE DEF u
<1>3. /\ \A q \in Procs : Parent(q)' = Parent(q)
      /\ thread'[p] = u
      /\ \A q \in Procs \ {p} : thread'[q] = thread[q]
      /\ Created' = Created /\ Created \subseteq Procs
  BY <1>1, <1>2, OneThread, FamilyType DEF Created
<1>4. pc'[p] = "exit" /\ \A q \in Procs \ {p} : pc'[q] = pc[q]
  BY <1>1, Moved
<1>5. ASSUME NEW q \in Procs PROVE ParentOK(q)'
  <2>1. \/ pc'[q] = pc[q] /\ call'[q] = call[q]
        \/ pc[q] # "wait_down" /\ pc'[q] \notin AtWait
    BY <1>1, <1>4 DEF AtWait
  <2>2. thread'[q].zombies \subseteq thread[q].zombies
    BY <1>2, <1>3
  <2> QED BY <1>1, <1>2, <1>3, <2>1, <2>2, ParentFrame
<1>6. ASSUME NEW c \in Created PROVE FamilyOK(c)'
  <2>0. PICK h : h = Parent(c)
    OBVIOUS
  <2>1. c \in Procs /\ h \in Procs /\ h # c /\ Parent(c)' = h /\ FamilyOK(c)
    BY <1>1, <1>3, <2>0, FamilyType DEF ReportOK
  <2>2. CASE h = p
    <3>1. pc'[c] = pc[c] /\ pc'[h] \in Gone \ AtWait
      BY <1>4, <2>1, <2>2 DEF Gone, AtWait
    <3>2. Told(c)' = Told(c) /\ ToSignal(c)' = ToSignal(c) /\ Posted(c)' = Posted(c)
      BY <1>1, <1>2, <1>3, <2>0, <2>1, <2>2, <3>1 DEF Told, ToSignal, Posted
    <3>3. ZombiesOf(h, c)' = {}
      BY <1>2, <1>3, <2>2 DEF ZombiesOf
    <3>4. ~(thread[p].waiting = c /\ c \notin collected)
      BY <1>1, <2>0, <2>1, <2>2 DEF FamilyOK
    <3> QED BY <1>1, <1>2, <1>3, <2>0, <2>1, <2>2, <3>1, <3>2, <3>3, <3>4 DEF FamilyOK, AtWait
  <2>3. CASE c = p
    <3>1. Told(c)' /\ Told(c) /\ ~ToSignal(c)' /\ pc'[h] = pc[h]
      BY <1>1, <1>4, <2>1, <2>3 DEF Told, ToSignal
    <3>2. Posted(c)' = Posted(c) /\ ZombiesOf(h, c)' = ZombiesOf(h, c)
      BY <1>3, <2>0, <2>1, <2>3 DEF Posted, ZombiesOf
    <3>3. "close" \in Left /\ "exit" \in Left
      BY DEF Left
    <3> QED BY <1>1, <1>3, <1>4, <2>0, <2>1, <2>3, <3>1, <3>2, <3>3 DEF FamilyOK
  <2>4. CASE h # p /\ c # p
    <3>1. thread'[h] = thread[h] /\ pc'[h] = pc[h] /\ pc'[c] = pc[c]
      BY <1>3, <1>4, <2>1, <2>4
    <3> QED BY <1>1, <2>0, <2>1, <3>1, FamilyFrame
  <2> QED BY <2>2, <2>3, <2>4
<1>7. collected' \subseteq Created
  BY <1>1 DEF ReportOK
<1> QED BY <1>1, <1>3, <1>5, <1>6, <1>7, ReportFrom

LEMMA ThreadExitReports == ASSUME IInv2, NEW p \in Procs, ThreadExit(p) PROVE ReportOK'
<1>0. PICK h : h = Parent(p)
  OBVIOUS
<1>1. /\ IInv /\ ReportOK /\ ProcessTypeOK
      /\ pc[p] = "exit" /\ Go(p, "dead")
      /\ UNCHANGED <<thread, call, next_tid, collected>>
  BY DEF IInv2, IInv, ThreadExit, At
<1>2. p \in Created
  BY <1>1, ProcessAssumption DEF IInv, TreeOK, Created, Procs, Main, ProcessTypeOK
<1>3. h \in Procs /\ h # p /\ FamilyOK(p)
  BY <1>0, <1>1, <1>2, FamilyType DEF ReportOK
<1>4. pc'[p] = "dead" /\ pc'[h] = pc[h] /\ \A q : Parent(q)' = Parent(q)
  BY <1>1, <1>3, Moved DEF Parent
<1>5. FamilyOK(p)'
  <2>1. Told(p)' /\ Told(p) /\ ~ToSignal(p)'
    BY <1>1, <1>4 DEF Told, ToSignal
  <2>2. Posted(p)' = Posted(p) /\ ZombiesOf(h, p)' = ZombiesOf(h, p)
    BY <1>0, <1>1, <1>4 DEF Posted, ZombiesOf
  <2>3. "exit" \in Left /\ "dead" \in Left
    BY DEF Left
  <2> QED BY <1>0, <1>1, <1>3, <1>4, <2>1, <2>2, <2>3 DEF FamilyOK
<1>6. "exit" \notin AtWait /\ "dead" \in Gone \ AtWait
  BY DEF AtWait, Gone
<1> QED BY <1>0, <1>1, <1>2, <1>4, <1>5, <1>6, EndFrame

LEMMA EndReports == ASSUME IInv2, NEW p \in Procs, End(p) PROVE ReportOK'
BY RemoveReports, TestReports, SignalReports, StoreReports, ZombieReports, CloseReports,
   ThreadExitReports DEF End

LEMMA CreateReports == ASSUME IInv2, NEW p \in Procs, Create(p) PROVE ReportOK'
<1>0. PICK n \in Procs : n = next_tid
  BY DEF Create
<1> DEFINE u == NewThread(p, thread[p].exit_status)
           v == [thread[p] EXCEPT !.children = @ \cup {n}]
<1>1. IInv /\ ReportOK /\ ProcessTypeOK /\ pc[p] = "create"
  BY DEF IInv2, IInv, Create, At
<1>2. n # p /\ n \notin Created /\ n # 0 /\ n # Main
  BY <1>0, <1>1, ProcessAssumption DEF IInv, TreeOK, Created, Procs, ProcessTypeOK, Main
<1>3. /\ next_tid' = n + 1 /\ UNCHANGED collected
      /\ pc'[p] = "reap" /\ pc'[n] = "load" /\ \A q \in Procs \ {p, n} : pc'[q] = pc[q]
      /\ \A q \in Procs \ {p} : call'[q] = call[q]
      /\ thread'[p] = v /\ thread'[n] = u /\ \A q \in Procs \ {p, n} : thread'[q] = thread[q]
  BY <1>0, <1>1, <1>2 DEF Create, Set, ProcessTypeOK
<1>4. Created' = Created \cup {n}
  BY <1>0, <1>1, <1>3, ProcessAssumption DEF Created, ProcessTypeOK
<1>5. /\ v.parent = thread[p].parent /\ v.children = thread[p].children \cup {n}
      /\ v.zombies = thread[p].zombies /\ v.waiting = thread[p].waiting
      /\ v.child_sema = thread[p].child_sema
      /\ u.parent = p /\ u.children = {} /\ u.zombies = {} /\ u.waiting = 0
      /\ u.child_sema = 0
  BY <1>1 DEF ProcessTypeOK, Thread, NewThread
<1> HIDE DEF u, v
<1>6. Parent(n)' = p /\ \A q \in Procs \ {n} : Parent(q)' = Parent(q)
  BY <1>2, <1>3, <1>5 DEF Parent
<1>7. Created \subseteq Procs /\ \A c \in Created : Parent(c)' = Parent(c)
  BY <1>1, <1>2, <1>6, FamilyType
<1>8. ASSUME NEW q \in Procs PROVE ParentOK(q)'
  <2>1. ParentOK(q)
    BY <1>1 DEF ReportOK
  <2>2. CASE q = n
    BY <1>2, <1>3, <1>5, <2>2 DEF ParentOK
  <2>3. CASE q = p
    BY <1>1, <1>2, <1>3, <1>4, <1>5, <1>6, <1>7, <2>1, <2>3 DEF ParentOK
  <2>4. CASE q \notin {n, p}
    BY <1>3, <1>4, <1>7, <2>1, <2>4 DEF ParentOK
  <2> QED BY <2>2, <2>3, <2>4
<1>9. FamilyOK(n)'
  <2>1. ParentOK(p) /\ thread[p].child_sema \in Nat
    BY <1>1 DEF ReportOK, ProcessTypeOK, Thread
  <2>2. ~Told(n)' /\ ~ToSignal(n)' /\ n \notin collected /\ pc'[n] \notin Left
    BY <1>1, <1>2, <1>3 DEF Told, ToSignal, ReportOK, Left
  <2>3. ZombiesOf(p, n)' = {}
    BY <1>2, <1>3, <1>5, <2>1 DEF ZombiesOf, ParentOK
  <2>4. ~Posted(n)' /\ thread'[p].waiting # n
    BY <1>1, <1>2, <1>3, <1>5, <1>6, <2>1 DEF Posted, ParentOK
  <2> QED BY <1>3, <1>5, <1>6, <2>2, <2>3, <2>4 DEF FamilyOK
<1>10. ASSUME NEW c \in Created PROVE FamilyOK(c)'
  <2>0. PICK h : h = Parent(c)
    OBVIOUS
  <2>1. c \in Procs /\ c # n /\ h \in Procs /\ h # n /\ Parent(c)' = h
    <3>1. c \in Procs /\ c # n /\ h \in Procs /\ Parent(c)' = h
      BY <1>1, <1>2, <1>7, <2>0, FamilyType
    <3>2. h < next_tid
      BY <1>1, <2>0 DEF IInv, TreeOK, Created, Procs, ProcessTypeOK
    <3> QED BY <1>0, <3>1, <3>2 DEF Procs
  <2>2. \/ pc'[c] = pc[c] /\ call'[c] = call[c]
        \/ pc[c] \notin Left /\ pc'[c] \notin Left
    BY <1>1, <1>3, <2>1 DEF Left
  <2>3. \/ pc'[h] = pc[h] /\ call'[h] = call[h]
        \/ /\ pc[h] \notin AtWait /\ pc'[h] \notin AtWait
           /\ pc[h] \in Gone => pc'[h] \in Gone
    BY <1>1, <1>3, <2>1 DEF AtWait, Gone
  <2>4. /\ c \in thread'[h].children <=> c \in thread[h].children
        /\ thread'[h].zombies = thread[h].zombies
        /\ thread'[h].waiting = thread[h].waiting
        /\ thread'[h].child_sema = thread[h].child_sema
    BY <1>3, <1>5, <2>1
  <2> QED BY <1>1, <1>3, <2>0, <2>1, <2>2, <2>3, <2>4, FamilyFrame
<1> QED BY <1>1, <1>3, <1>4, <1>8, <1>9, <1>10 DEF ReportOK
-----------------------------------------------------------------------------
LEMMA InitIInv2 == Init => IInv2
<1> SUFFICES ASSUME Init PROVE IInv2
  OBVIOUS
<1>1. IInv /\ Created = {}
  BY InitIInv DEF Init, Created
<1>2. ReportOK
  BY <1>1 DEF Init, ReportOK, ParentOK, NewThread
<1> QED BY <1>1, <1>2 DEF IInv2

LEMMA NextIInv2 == IInv2 /\ [Next]_vars => IInv2'
<1> SUFFICES ASSUME IInv2, [Next]_vars PROVE IInv2'
  OBVIOUS
<1>1. IInv' /\ ReportOK
  BY NextIInv DEF IInv2
<1> SUFFICES ReportOK'
  BY <1>1 DEF IInv2
<1>2. ASSUME NEW p \in Procs, Exec(p) PROVE ReportOK'
  BY <1>2, ExecReports, CreateReports
<1>3. ASSUME NEW p \in Procs, TouchFreed(p) PROVE ReportOK'
  BY <1>1, <1>3, StillReports DEF TouchFreed
<1>4. CASE PowerOff
  BY <1>1, <1>4, StillReports DEF PowerOff, IInv2
<1>5. CASE UNCHANGED vars
  BY <1>1, <1>5, StillReports DEF vars, IInv2
<1>6. CASE \E p \in Procs : User(p) \/ Start(p) \/ Wait(p) \/ End(p)
  BY <1>6, UserReports, StartReports, WaitReports, EndReports
<1> QED BY <1>2, <1>3, <1>4, <1>5, <1>6 DEF Next

\* What a dying child and its waiting parent know of one another holds in
\* every reachable state.
THEOREM ReportInvariant == Spec => []IInv2
<1> QED BY InitIInv2, NextIInv2, PTL DEF Spec

\* Nobody waits for a child that was collected, and an up of child_sema is
\* meant for the wait it ends.
THEOREM ProcessWaitOnce == Spec => []WaitOnce
<1>1. IInv2 => WaitOnce
  <2> SUFFICES ASSUME IInv2, NEW p \in Procs
               PROVE  /\ pc[p] \in AtWait => call[p].tid \notin collected
                      /\ thread[p].child_sema > 0 =>
                            /\ pc[p] = "wait_down"
                            /\ thread[p].waiting = call[p].tid
                            /\ pc[call[p].tid] \in {"store", "close", "exit", "dead"}
    BY DEF WaitOnce, AtWait
  <2>1. PICK c : c = call[p].tid
    OBVIOUS
  <2>2. ParentOK(p)
    BY DEF IInv2, ReportOK
  <2>3. pc[p] \in AtWait => c \in Created /\ Parent(c) = p /\ FamilyOK(c)
    BY <2>1, <2>2 DEF IInv2, ReportOK, ParentOK, AtWait
  <2>4. pc[p] \in AtWait => c \notin collected
    BY <2>1, <2>3 DEF FamilyOK, AtWait
  <2>5. ASSUME thread[p].child_sema > 0
        PROVE  /\ pc[p] = "wait_down" /\ thread[p].waiting = c
               /\ pc[c] \in {"store", "close", "exit", "dead"}
    <3>1. pc[p] = "wait_down" /\ thread[p].waiting = c
      BY <2>1, <2>2, <2>5 DEF ParentOK
    <3>2. Parent(c) = p /\ FamilyOK(c)
      BY <2>3, <3>1 DEF AtWait
    <3>3. Told(c)
      BY <2>5, <3>1, <3>2 DEF FamilyOK, Posted
    <3> QED BY <3>1, <3>3 DEF Told
  <2> QED BY <2>1, <2>4, <2>5
<1> QED BY <1>1, ReportInvariant, PTL

\* The set that ChildAccounted counts.
Five(A, B, C, D, E) ==
    {i \in 1 .. 5 : CASE i = 1 -> A [] i = 2 -> B [] i = 3 -> C [] i = 4 -> D [] i = 5 -> E}

LEMMA OneOfFive ==
    ASSUME NEW A \in BOOLEAN, NEW B \in BOOLEAN, NEW C \in BOOLEAN, NEW D \in BOOLEAN,
           NEW E \in BOOLEAN,
           A \/ B \/ C \/ D \/ E,
           A => ~(B \/ C \/ D \/ E), B => ~(C \/ D \/ E), C => ~(D \/ E), ~(D /\ E)
    PROVE  Cardinality(Five(A, B, C, D, E)) = 1
<1> DEFINE S == Five(A, B, C, D, E)
<1>1. S \subseteq 1 .. 5
  BY DEF Five
<1>2. /\ (1 \in S <=> A) /\ (2 \in S <=> B) /\ (3 \in S <=> C)
      /\ (4 \in S <=> D) /\ (5 \in S <=> E)
  BY DEF Five
<1> HIDE DEF S
<1>3. \E k \in 1 .. 5 : \A i : i \in S <=> i = k
  <2>1. \A i : i \in S => i = 1 \/ i = 2 \/ i = 3 \/ i = 4 \/ i = 5
    BY <1>1
  <2>2. ASSUME NEW k \in 1 .. 5, k \in S, \A i \in {1, 2, 3, 4, 5} \ {k} : i \notin S
        PROVE  \E j \in 1 .. 5 : \A i : i \in S <=> i = j
    BY <2>1, <2>2
  <2>3. CASE A
    BY <1>2, <2>2, <2>3
  <2>4. CASE B
    BY <1>2, <2>2, <2>4
  <2>5. CASE C
    BY <1>2, <2>2, <2>5
  <2>6. CASE D
    BY <1>2, <2>2, <2>6
  <2>7. CASE E
    BY <1>2, <2>2, <2>7
  <2> QED BY <2>3, <2>4, <2>5, <2>6, <2>7
<1>4. PICK k : S = {k}
  BY <1>3
<1>5. Cardinality(S) = 1
  BY <1>4, FS_Singleton
<1> QED BY <1>5 DEF S

\* The death of a child is in exactly one place on its way to the parent, as
\* long as the parent can ask for it.
THEOREM ProcessChildAccounted == Spec => []ChildAccounted
<1>1. IInv2 => ChildAccounted
  <2> SUFFICES ASSUME IInv2, NEW c \in Created, pc[Parent(c)] \notin Gone
               PROVE  Cardinality({i \in 1 .. 5 :
                        CASE i = 1 -> c \in thread[Parent(c)].children
                          [] i = 2 -> Leaving(c)
                          [] i = 3 -> ZombiesOf(Parent(c), c) # {}
                          [] i = 4 -> Signalled(c)
                          [] i = 5 -> c \in collected}) = 1
    BY DEF ChildAccounted, Gone
  <2> DEFINE A == c \in thread[Parent(c)].children
             B == Leaving(c)
             C == ZombiesOf(Parent(c), c) # {}
             D == Signalled(c)
             E == c \in collected
  <2>1. FamilyOK(c) /\ pc[c] \in Labels
    BY FamilyType DEF IInv2, IInv, ReportOK, ProcessTypeOK
  <2>2. D <=> Posted(c)
    BY <2>1 DEF Signalled, Posted, FamilyOK
  <2>3. A <=> pc[c] \notin Left
    BY <2>1 DEF FamilyOK
  <2>4. /\ Told(c) <=> C \/ D \/ E
        /\ ~(C /\ D) /\ ~(C /\ E) /\ ~(D /\ E)
    <3>1. C => Told(c)
      BY <2>1 DEF FamilyOK, Told
    <3>2. (D \/ E => Told(c)) /\ ~(C /\ D) /\ ~(C /\ E) /\ ~(D /\ E)
      BY <2>1, <2>2 DEF FamilyOK
    <3>3. Told(c) => C \/ D \/ E
      BY <2>1, <2>2 DEF FamilyOK
    <3> QED BY <3>1, <3>2, <3>3
  <2>5. /\ Told(c) => ~A /\ ~B
        /\ B => ~A
        /\ A \/ B \/ Told(c)
    BY <2>1, <2>3 DEF Told, Leaving, Left
  <2> HIDE DEF A, B, C, D, E
  <2>6. A \in BOOLEAN /\ B \in BOOLEAN /\ C \in BOOLEAN /\ D \in BOOLEAN /\ E \in BOOLEAN
    BY DEF A, B, C, D, E, Leaving, Signalled
  <2>7. Cardinality(Five(A, B, C, D, E)) = 1
    <3>1. /\ A \/ B \/ C \/ D \/ E
          /\ A => ~(B \/ C \/ D \/ E)
          /\ B => ~(C \/ D \/ E)
          /\ C => ~(D \/ E)
          /\ ~(D /\ E)
      BY <2>4, <2>5
    <3> QED BY <2>6, <3>1, OneOfFive
  <2> QED BY <2>7 DEF Five, A, B, C, D, E
<1> QED BY <1>1, ReportInvariant, PTL
=============================================================================

------------------------------ MODULE TshProofs ------------------------------
(***************************************************************************)
(* The job list of tsh.c and the children agree, for any number of         *)
(* children and of entries: the invariants that TshJobs.cfg checks.        *)
(***************************************************************************)
EXTENDS Tsh, NaturalsInduction, WellFoundedInduction, TLAPS

\* The shell was told that p stopped or ended, and has not continued it since.
HeardOf(p) == child[p] \in {"stopped", "zombie", "reaped"} \/ p \in continued

\* A handler that is not off is on the stack, and what it holds is a child.
HandlersOK ==
    /\ \A s \in Signals : hpc[s] # "off" => \E k \in 1..Len(stack) : stack[k] = s
    /\ hpc["CHLD"] \in {"off", "start", "update"}
    /\ \A s \in {"INT", "TSTP"} : hpc[s] \in {"off", "start", "kill"}
    /\ hpc["CHLD"] = "update" =>
         /\ hpid["CHLD"] \in Pids
         /\ HeardOf(hpid["CHLD"])
    /\ \A s \in {"INT", "TSTP"} : hpc[s] = "kill" => hpid[s] \in Pids

\* The variables of the command in progress.
MainOK ==
    /\ pc = "add" => /\ blocked /\ stack = <<>> /\ cmdpid \in Pids /\ ~Listed(cmdpid)
                     /\ child[cmdpid] \notin {"none", "reaped"}
    /\ pc \in {"cont", "set", "arg"} => cmdslot \in Slots
    /\ pc \in {"add", "cont", "set", "arg"} => cmdstate \in {"FG", "BG"}

\* The job IDs in use have a greatest one.
JidsBounded == \E b \in Nat : \A i \in Slots : jobs[i].jid <= b

IInv ==
    /\ TypeOK /\ HandlersOK /\ MainOK /\ JidsBounded
    /\ NoGhostJob /\ NoChildForgotten /\ BackgroundUntouched /\ StoppedUnlessContinued

-----------------------------------------------------------------------------
(* The lookups in the job list.                                            *)

\* A non-empty set of naturals has a least element.
LEMMA LeastNatural ==
    ASSUME NEW S \in SUBSET Nat, S # {}
    PROVE  \E m \in S : \A y \in S : m <= y
<1> DEFINE R == OpToRel(<, Nat)
<1>1. IsWellFoundedOn(R, Nat)
  BY NatLessThanWellFounded
<1>2. PICK m \in S : \A y \in S : ~(<<y, m>> \in R)
  <2> HIDE DEF R
  <2> QED BY <1>1, WFMin
<1>3. \A y \in S : ~(y < m)
  BY <1>2 DEF OpToRel
<1> QED BY <1>3

\* Min returns the first entry.
LEMMA FirstProperties ==
    ASSUME NEW S \in SUBSET Slots
    PROVE  /\ S = {} => First(S) = 0
           /\ S # {} => First(S) \in S
<1>1. ASSUME S # {} PROVE First(S) \in S
  <2>1. S \in SUBSET Nat
    BY TshAssumption DEF Slots
  <2>2. \E x \in S : \A y \in S : x <= y
    BY <1>1, <2>1, LeastNatural
  <2>3. Min(S) \in S
    BY <2>2 DEF Min
  <2> QED BY <1>1, <2>3 DEF First
<1> QED BY <1>1 DEF First

\* getjobpid finds the job if it is listed.
LEMMA SlotOfPidProperties ==
    ASSUME TypeOK, NEW p \in Pids
    PROVE  \/ SlotOfPid(p) = 0 /\ ~Listed(p)
           \/ SlotOfPid(p) \in Slots /\ jobs[SlotOfPid(p)].pid = p
<1> DEFINE S == {i \in Slots : jobs[i].pid = p}
<1>1. /\ S = {} => First(S) = 0
      /\ S # {} => First(S) \in S
  BY FirstProperties
<1>2. SlotOfPid(p) = First(S)
  BY TshAssumption DEF SlotOfPid
<1> QED BY <1>1, <1>2 DEF Listed

\* fgpid returns the process id of a job in the foreground, or none.
LEMMA FgPidProperties ==
    ASSUME TypeOK, FgPid # None
    PROVE  FgPid \in Pids /\ \E i \in Slots : jobs[i].pid = FgPid /\ jobs[i].state = "FG"
<1> DEFINE S == {k \in Slots : jobs[k].state = "FG"}
<1>1. /\ S = {} => First(S) = 0
      /\ S # {} => First(S) \in S
  BY FirstProperties
<1>2. FgPid = IF First(S) = 0 THEN None ELSE jobs[First(S)].pid
  BY DEF FgPid
<1>3. First(S) \in S
  BY <1>1, <1>2
<1> QED BY <1>2, <1>3 DEF TypeOK

\* The job ID after the greatest one in use.
LEMMA MaxJidProperties ==
    ASSUME NEW js, \A i \in Slots : js[i].jid \in Nat,
           NEW b \in Nat, \A i \in Slots : js[i].jid <= b
    PROVE  MaxJid(js) \in Nat
<1> DEFINE S == {0} \cup {js[i].jid : i \in Slots}
           U == {n \in Nat : \A y \in S : y <= n}
<1>1. b \in U /\ S \in SUBSET Nat /\ U \in SUBSET Nat /\ 0 \in S
  OBVIOUS
<1>2. PICK m \in U : \A n \in U : m <= n
  <2> HIDE DEF U
  <2> QED BY <1>1, LeastNatural
<1>3. m \in S
  <2>1. SUFFICES ASSUME m \notin S PROVE FALSE
    OBVIOUS
  <2>2. m \in Nat /\ m # 0 /\ \A y \in S : y <= m /\ y # m
    BY <1>1, <2>1
  <2>3. m - 1 \in Nat /\ \A y \in S : y <= m - 1
    BY <1>1, <2>2
  <2>4. m - 1 \in U
    BY <2>3
  <2> HIDE DEF U
  <2> QED BY <1>2, <2>2, <2>4
<1>4. \E x \in S : \A y \in S : x >= y
  <2>1. \A y \in S : m >= y
    BY <1>1
  <2> QED BY <1>3, <2>1
<1>5. Max(S) \in S
  <2> HIDE DEF S
  <2> QED BY <1>4 DEF Max
<1> QED BY <1>1, <1>5 DEF MaxJid

-----------------------------------------------------------------------------
(* What the steps have in common.                                          *)

Labels == {"prompt", "add", "cont", "set", "arg", "wait", "test", "state", "exited", "crashed"}

\* A step of the read/eval loop that leaves the job list and the children alone.
LEMMA CommandStep ==
    ASSUME IInv, stack = <<>>, pc \notin {"add", "set", "exited", "crashed"},
           UNCHANGED <<blocked, listVars, handlerVars, pending, childVars>>,
           pc' \in Labels \ {"add"}, cmdpid' \in Pids \cup {None},
           cmdslot' \in Slots \cup {0}, cmdstate' \in States,
           pc' \in {"cont", "set", "arg"} => cmdslot' \in Slots /\ cmdstate' \in {"FG", "BG"}
    PROVE  IInv'
<1>1. UNCHANGED <<jobs, nextjid, refused, stack, hpc, hpid, blocked, pending, child, continued>>
  BY DEF listVars, handlerVars, childVars
<1>2. TypeOK'
  BY <1>1 DEF IInv, TypeOK, Labels
<1>3. HandlersOK'
  BY <1>1 DEF IInv, HandlersOK, HeardOf
<1>4. MainOK'
  BY <1>1 DEF IInv, MainOK
<1>5. JidsBounded' /\ NoGhostJob' /\ BackgroundUntouched'
  BY <1>1 DEF IInv, JidsBounded, NoGhostJob, BackgroundUntouched, BeingDeleted
<1>6. NoChildForgotten'
  BY <1>1 DEF IInv, NoChildForgotten, Listed
<1>7. StoppedUnlessContinued'
  BY <1>1 DEF IInv, StoppedUnlessContinued, Alive
<1> QED BY <1>2, <1>3, <1>4, <1>5, <1>6, <1>7 DEF IInv

\* A child changes its state by itself, and is neither created nor reaped.
LEMMA ChildStep ==
    ASSUME IInv, Alive, NEW p \in Pids, NEW c \in {"running", "stopping", "zombie"},
           child[p] \notin {"none", "zombie", "reaped"},
           child' = [child EXCEPT ![p] = c], pending' \subseteq Signals,
           continued' \subseteq Pids, HeardOf(p) => HeardOf(p)',
           \A q \in Pids : q # p /\ q \in continued => q \in continued',
           UNCHANGED <<mainVars, listVars, handlerVars>>
    PROVE  IInv'
<1>1. UNCHANGED <<jobs, nextjid, refused, stack, hpc, hpid, pc, cmdpid, cmdslot, cmdstate, blocked>>
  BY DEF mainVars, listVars, handlerVars
<1>2. /\ child'[p] = c
      /\ \A q \in Pids : q # p => child'[q] = child[q]
      /\ \A q \in Pids : HeardOf(q) => HeardOf(q)'
  BY DEF IInv, TypeOK, HeardOf
<1>3. TypeOK'
  BY <1>1 DEF IInv, TypeOK
<1>4. HandlersOK'
  BY <1>1, <1>2 DEF IInv, HandlersOK
<1>5. MainOK'
  BY <1>1, <1>2 DEF IInv, MainOK, Listed
<1>6. NoGhostJob'
  <2> SUFFICES ASSUME NEW i \in Slots, jobs[i].pid # None
               PROVE  /\ child'[jobs[i].pid] # "none"
                      /\ child'[jobs[i].pid] = "reaped" => BeingDeleted(jobs[i].pid)'
                      /\ \A k \in Slots : jobs[k].pid = jobs[i].pid => k = i
    BY <1>1 DEF NoGhostJob
  <2>1. jobs[i].pid \in Pids
    BY DEF IInv, TypeOK
  <2> QED BY <1>1, <1>2, <2>1 DEF IInv, NoGhostJob, BeingDeleted
<1>7. NoChildForgotten'
  BY <1>1, <1>2 DEF IInv, NoChildForgotten, Listed
<1>8. JidsBounded' /\ BackgroundUntouched'
  BY <1>1 DEF IInv, JidsBounded, BackgroundUntouched
<1>9. StoppedUnlessContinued'
  <2> SUFFICES ASSUME NEW i \in Slots, jobs[i].pid # None, jobs[i].state = "ST",
                      ~(pc = "set" /\ cmdslot = i)
               PROVE  HeardOf(jobs[i].pid)'
    BY <1>1 DEF StoppedUnlessContinued, HeardOf
  <2>1. jobs[i].pid \in Pids /\ HeardOf(jobs[i].pid)
    BY DEF IInv, TypeOK, StoppedUnlessContinued, HeardOf
  <2> QED BY <1>1, <1>2, <2>1 DEF HeardOf
<1> QED BY <1>3, <1>4, <1>5, <1>6, <1>7, <1>8, <1>9 DEF IInv

\* A handler returns: the others that are not off are still on the stack.
LEMMA ReturnKeepsStack ==
    ASSUME TypeOK, HandlersOK, NEW s \in Signals, stack # <<>>, Head(stack) = s, Return(s)
    PROVE  /\ stack' \in Seq(Signals)
           /\ hpc' \in [Signals -> {"off", "start", "update", "kill"}]
           /\ hpid' \in [Signals -> Pids \cup {None}]
           /\ hpc'[s] = "off"
           /\ \A r \in Signals : r # s => hpc'[r] = hpc[r] /\ hpid'[r] = hpid[r]
           /\ \A r \in Signals : hpc'[r] # "off" => \E k \in 1..Len(stack') : stack'[k] = r
<1>1. stack \in Seq(Signals) /\ stack' = Tail(stack)
  BY DEF TypeOK, Return
<1>2. /\ stack' \in Seq(Signals) /\ Len(stack') = Len(stack) - 1 /\ Len(stack) \in Nat
      /\ \A k \in 1..Len(stack') : stack'[k] = stack[k + 1]
  BY <1>1
<1>3. /\ hpc'[s] = "off"
      /\ \A r \in Signals : r # s => hpc'[r] = hpc[r] /\ hpid'[r] = hpid[r]
  BY DEF Return, TypeOK
<1>4. /\ hpc' \in [Signals -> {"off", "start", "update", "kill"}]
      /\ hpid' \in [Signals -> Pids \cup {None}]
  BY DEF Return, TypeOK
<1>5. ASSUME NEW r \in Signals, hpc'[r] # "off"
      PROVE  \E k \in 1..Len(stack') : stack'[k] = r
  <2>1. r # s /\ hpc[r] # "off"
    BY <1>3, <1>5
  <2>2. PICK k \in 1..Len(stack) : stack[k] = r
    BY <2>1 DEF HandlersOK
  <2>3. k # 1
    BY <2>1, <2>2, <1>1
  <2>4. k - 1 \in 1..Len(stack') /\ stack'[k - 1] = stack[k]
    BY <1>2, <2>3
  <2> QED BY <2>2, <2>4
<1> QED BY <1>2, <1>3, <1>4, <1>5

-----------------------------------------------------------------------------
(* The read/eval loop.                                                     *)

\* eval forks: the new child is not listed yet, and the signals are blocked.
LEMMA RunKeeps ==
    ASSUME IInv, NEW p \in Pids, NEW st \in {"FG", "BG"}, Run(p, st)
    PROVE  IInv'
<1>1. /\ pc = "prompt" /\ stack = <<>> /\ child[p] = "none"
      /\ child' = [child EXCEPT ![p] = "forked"]
      /\ blocked' = TRUE /\ cmdpid' = p /\ cmdstate' = st /\ pc' = "add"
      /\ UNCHANGED <<cmdslot, jobs, nextjid, refused, stack, hpc, hpid, pending, continued>>
  BY DEF Run, Main, SignalsBlocked, listVars, handlerVars, childVars
<1>2. /\ child'[p] = "forked"
      /\ \A q \in Pids : q # p => child'[q] = child[q]
  BY <1>1 DEF IInv, TypeOK
<1>3. ~Listed(p)
  BY <1>1, TshAssumption DEF IInv, NoGhostJob, Listed
<1>4. TypeOK'
  BY <1>1 DEF IInv, TypeOK, States
<1>5. HandlersOK'
  BY <1>1, <1>2 DEF IInv, HandlersOK, HeardOf
<1>6. MainOK'
  BY <1>1, <1>2, <1>3 DEF MainOK, Listed
<1>7. NoGhostJob' /\ StoppedUnlessContinued'
  <2>1. \A i \in Slots : jobs[i].pid # None => jobs[i].pid \in Pids /\ jobs[i].pid # p
    BY <1>3 DEF IInv, TypeOK, Listed
  <2>2. NoGhostJob'
    BY <1>1, <1>2, <2>1 DEF IInv, NoGhostJob, BeingDeleted
  <2>3. StoppedUnlessContinued'
    BY <1>1, <1>2, <2>1 DEF IInv, StoppedUnlessContinued, Alive
  <2> QED BY <2>2, <2>3
<1>8. NoChildForgotten'
  BY <1>1, <1>2 DEF IInv, NoChildForgotten, Listed
<1>9. JidsBounded' /\ BackgroundUntouched'
  BY <1>1 DEF IInv, JidsBounded, BackgroundUntouched
<1> QED BY <1>4, <1>5, <1>6, <1>7, <1>8, <1>9 DEF IInv

\* eval lists the child, which was not listed and cannot have been reaped.
LEMMA AddKeeps ==
    ASSUME IInv, Add
    PROVE  IInv'
<1> DEFINE job == [pid |-> cmdpid, jid |-> nextjid, state |-> cmdstate]
<1>1. /\ pc = "add" /\ stack = <<>> /\ AddJob(cmdpid, cmdstate) /\ blocked' = FALSE
      /\ UNCHANGED <<stack, hpc, hpid, pending, child, continued>>
  BY DEF Add, Main, handlerVars, childVars
<1>2. /\ cmdpid \in Pids /\ ~Listed(cmdpid) /\ child[cmdpid] \notin {"none", "reaped"}
      /\ cmdstate \in {"FG", "BG"}
  BY <1>1 DEF IInv, MainOK
<1>3. \/ pc' = "wait" /\ cmdpid' = cmdpid /\ cmdslot' = 0 /\ cmdstate' = "UNDEF"
      \/ pc' = "prompt" /\ cmdpid' = None /\ cmdslot' = 0 /\ cmdstate' = "UNDEF"
  BY DEF Add, WaitFg, Done
<1>4. \/ /\ refused' = refused \cup {cmdpid}
         /\ UNCHANGED <<jobs, nextjid>>
      \/ \E i \in Slots :
           /\ jobs[i].pid = None
           /\ jobs' = [jobs EXCEPT ![i] = job]
           /\ nextjid' = NextJid(nextjid)
           /\ UNCHANGED refused
  <2> DEFINE i == First({k \in Slots : jobs[k].pid = None})
  <2>1. i = 0 \/ (i \in Slots /\ jobs[i].pid = None)
    BY FirstProperties
  <2> QED BY <1>1, <2>1 DEF AddJob
<1>5. /\ jobs \in [Slots -> [pid : Pids \cup {None}, jid : Nat, state : States]]
      /\ nextjid \in Nat \ {0} /\ NextJid(nextjid) \in Nat \ {0}
  BY DEF IInv, TypeOK, NextJid
<1>6. TypeOK'
  <2>1. job \in [pid : Pids \cup {None}, jid : Nat, state : States]
    BY <1>2, <1>5 DEF States
  <2>2. jobs' \in [Slots -> [pid : Pids \cup {None}, jid : Nat, state : States]]
    BY <1>4, <1>5, <2>1
  <2>3. nextjid' \in Nat \ {0} /\ refused' \subseteq Pids
    BY <1>2, <1>4, <1>5 DEF IInv, TypeOK
  <2> QED BY <1>1, <1>2, <1>3, <2>2, <2>3 DEF IInv, TypeOK, States
<1>7. HandlersOK'
  BY <1>1 DEF IInv, HandlersOK, HeardOf
<1>8. MainOK'
  BY <1>3 DEF MainOK
<1>9. \A s \in Signals : hpc[s] = "off"
  BY <1>1 DEF IInv, HandlersOK
<1>10. CASE jobs' = jobs /\ refused' = refused \cup {cmdpid} /\ nextjid' = nextjid
  <2>1. JidsBounded' /\ NoGhostJob' /\ BackgroundUntouched'
    BY <1>1, <1>10 DEF IInv, JidsBounded, NoGhostJob, BackgroundUntouched, BeingDeleted
  <2>2. NoChildForgotten'
    BY <1>1, <1>3, <1>10 DEF IInv, NoChildForgotten, Listed
  <2>3. StoppedUnlessContinued'
    BY <1>1, <1>3, <1>10 DEF IInv, StoppedUnlessContinued, Alive
  <2> QED BY <1>6, <1>7, <1>8, <2>1, <2>2, <2>3 DEF IInv
<1>11. ASSUME NEW i \in Slots, jobs[i].pid = None, jobs' = [jobs EXCEPT ![i] = job],
              UNCHANGED refused
       PROVE  IInv'
  <2>1. /\ jobs'[i].pid = cmdpid /\ jobs'[i].jid = nextjid /\ jobs'[i].state = cmdstate
        /\ \A k \in Slots : k # i => jobs'[k] = jobs[k]
    BY <1>5, <1>11
  <2>2. JidsBounded'
    <3>1. PICK b \in Nat : \A k \in Slots : jobs[k].jid <= b
      BY DEF IInv, JidsBounded
    <3>2. \A k \in Slots : jobs[k].jid \in Nat
      BY <1>5
    <3>3. \A k \in Slots : jobs'[k].jid <= b + nextjid
      <4> TAKE k \in Slots
      <4>1. CASE k = i
        BY <1>5, <2>1, <4>1
      <4>2. CASE k # i
        BY <1>5, <2>1, <3>1, <3>2, <4>2
      <4> QED BY <4>1, <4>2
    <3>4. b + nextjid \in Nat
      BY <1>5
    <3> QED BY <3>3, <3>4 DEF JidsBounded
  <2>3. NoGhostJob'
    <3> SUFFICES ASSUME NEW k \in Slots, jobs'[k].pid # None
                 PROVE  /\ child[jobs'[k].pid] # "none"
                        /\ child[jobs'[k].pid] = "reaped" => BeingDeleted(jobs'[k].pid)
                        /\ \A m \in Slots : jobs'[m].pid = jobs'[k].pid => m = k
      BY <1>1 DEF NoGhostJob, BeingDeleted
    <3>1. CASE k = i
      BY <1>2, <2>1, <3>1 DEF Listed
    <3>2. CASE k # i
      BY <1>2, <2>1, <3>2 DEF IInv, NoGhostJob, Listed
    <3> QED BY <3>1, <3>2
  <2>4. NoChildForgotten'
    <3> SUFFICES ASSUME NEW p \in Pids, child[p] \notin {"none", "reaped"}, p \notin refused
                 PROVE  \E k \in Slots : jobs'[k].pid = p
      BY <1>1, <1>11 DEF NoChildForgotten, Listed
    <3>1. p = cmdpid \/ \E k \in Slots : jobs[k].pid = p
      BY DEF IInv, NoChildForgotten, Listed
    <3>2. CASE p = cmdpid
      BY <2>1, <3>2
    <3>3. CASE \E k \in Slots : jobs[k].pid = p
      <4>1. PICK k \in Slots : jobs[k].pid = p
        BY <3>3
      <4>2. k # i
        BY <1>11, <4>1, TshAssumption
      <4> QED BY <2>1, <4>1, <4>2
    <3> QED BY <3>1, <3>2, <3>3
  <2>5. BackgroundUntouched'
    BY <1>1, <1>9 DEF BackgroundUntouched, Signals
  <2>6. StoppedUnlessContinued'
    BY <1>1, <1>2, <2>1 DEF IInv, StoppedUnlessContinued, Alive
  <2> QED BY <1>6, <1>7, <1>8, <2>2, <2>3, <2>4, <2>5, <2>6 DEF IInv
<1> QED BY <1>4, <1>10, <1>11

\* do_bgfg finds an entry of the list.
LEMMA BgFgKeeps ==
    ASSUME IInv, NEW i \in Slots \cup {0}, NEW st \in {"FG", "BG"},
           NEW p \in Pids \cup {None}, BgFg(i, st, p)
    PROVE  IInv'
<1>1. /\ pc = "prompt" /\ stack = <<>> /\ i \in Slots /\ cmdslot' = i /\ cmdstate' = st
      /\ cmdpid' = p /\ pc' = "cont"
      /\ UNCHANGED <<blocked, listVars, handlerVars, pending, childVars>>
  BY DEF BgFg, Main
<1> QED BY <1>1, CommandStep DEF Labels, States

\* The entries the four commands look up.
LEMMA BgFgCommandsKeep ==
    ASSUME IInv,
           \/ \E j \in Nat, st \in {"FG", "BG"} : BgFgJid(j, st)
           \/ \E p \in Pids : BgPid(p)
           \/ \E p \in Pids, g \in Garbage : FgPidArg(p, g)
    PROVE  IInv'
<1>1. ASSUME NEW S \in SUBSET Slots PROVE First(S) \in Slots \cup {0}
  BY FirstProperties
<1>2. \A j : SlotOfJid(j) \in Slots \cup {0}
  BY <1>1 DEF SlotOfJid
<1>3. \A p : SlotOfPid(p) \in Slots \cup {0}
  BY <1>1 DEF SlotOfPid
<1> QED BY <1>2, <1>3, BgFgKeeps DEF BgFgJid, BgPid, FgPidArg

\* do_bgfg continues the job it found: only that entry may be out of date.
LEMMA ContKeeps ==
    ASSUME IInv, Cont
    PROVE  IInv'
<1> DEFINE p == jobs[cmdslot].pid
<1>1. /\ pc = "cont" /\ stack = <<>> /\ pc' = "set" /\ cmdslot \in Slots
      /\ cmdstate \in {"FG", "BG"} /\ continued' = continued \ {p}
      /\ UNCHANGED <<cmdpid, cmdslot, cmdstate, blocked, jobs, nextjid, refused, stack, hpc, hpid>>
  BY DEF Cont, Main, Goto, listVars, handlerVars, IInv, MainOK
<1>2. \/ UNCHANGED <<child, pending>>
      \/ /\ p \in Pids /\ child[p] \in {"stopping", "stopped"}
         /\ child' = [child EXCEPT ![p] = "running"] /\ pending' = pending \cup {"CHLD"}
  BY <1>1 DEF Cont, IInv, TypeOK
<1>3. child \in [Pids -> {"none", "forked", "running", "stopping", "stopped", "zombie", "reaped"}]
  BY DEF IInv, TypeOK
<1>4. /\ \A q \in Pids : q # p => child'[q] = child[q]
      /\ \A q \in Pids : child'[q] # child[q] => child[q] \in {"stopping", "stopped"}
                                               /\ child'[q] = "running"
  BY <1>2, <1>3
<1>5. \A s \in Signals : hpc[s] = "off"
  BY <1>1 DEF IInv, HandlersOK
<1>6. TypeOK'
  BY <1>1, <1>2 DEF IInv, TypeOK, Signals
<1>7. HandlersOK' /\ MainOK'
  BY <1>1, <1>5 DEF IInv, HandlersOK, MainOK, Signals
<1>8. NoGhostJob'
  <2> SUFFICES ASSUME NEW i \in Slots, jobs[i].pid # None
               PROVE  /\ child'[jobs[i].pid] \notin {"none", "reaped"}
                      /\ \A k \in Slots : jobs[k].pid = jobs[i].pid => k = i
    BY <1>1 DEF NoGhostJob
  <2>1. jobs[i].pid \in Pids
    BY DEF IInv, TypeOK
  <2>2. /\ child[jobs[i].pid] \notin {"none", "reaped"}
        /\ \A k \in Slots : jobs[k].pid = jobs[i].pid => k = i
    BY <1>5 DEF IInv, NoGhostJob, BeingDeleted, Signals
  <2> QED BY <1>4, <2>1, <2>2
<1>9. NoChildForgotten'
  BY <1>1, <1>4 DEF IInv, NoChildForgotten, Listed
<1>10. JidsBounded' /\ BackgroundUntouched'
  BY <1>1 DEF IInv, JidsBounded, BackgroundUntouched
<1>11. StoppedUnlessContinued'
  <2> SUFFICES ASSUME NEW i \in Slots, jobs[i].pid # None, jobs[i].state = "ST", i # cmdslot
               PROVE  HeardOf(jobs[i].pid)'
    BY <1>1 DEF StoppedUnlessContinued, HeardOf
  <2>1. jobs[i].pid \in Pids /\ jobs[i].pid # p
    BY <1>1 DEF IInv, TypeOK, NoGhostJob
  <2>2. HeardOf(jobs[i].pid)
    BY <1>1 DEF IInv, StoppedUnlessContinued, Alive, HeardOf
  <2> QED BY <1>1, <1>4, <2>1, <2>2 DEF HeardOf
<1> QED BY <1>6, <1>7, <1>8, <1>9, <1>10, <1>11 DEF IInv

\* do_bgfg sets the state of the entry, while no handler runs.
LEMMA SetKeeps ==
    ASSUME IInv, Set
    PROVE  IInv'
<1>1. /\ pc = "set" /\ stack = <<>> /\ cmdslot \in Slots /\ cmdstate \in {"FG", "BG"}
      /\ jobs' = [jobs EXCEPT ![cmdslot].state = cmdstate]
      /\ UNCHANGED <<blocked, nextjid, refused, stack, hpc, hpid, pending, child, continued>>
  BY DEF Set, Main, Marked, handlerVars, childVars, IInv, MainOK
<1>2. \/ pc' = "prompt" /\ cmdpid' = None /\ cmdslot' = 0 /\ cmdstate' = "UNDEF"
      \/ pc' = "arg" /\ UNCHANGED <<cmdpid, cmdslot, cmdstate>>
      \/ pc' = "wait" /\ cmdpid' = cmdpid /\ cmdslot' = 0 /\ cmdstate' = "UNDEF"
  <2>1. CASE cmdstate = "BG"
    BY <2>1 DEF Set, Done
  <2>2. CASE cmdstate = "FG" /\ cmdpid = None
    BY <2>2 DEF Set, Goto
  <2>3. CASE cmdstate = "FG" /\ cmdpid # None
    BY <2>3 DEF Set, WaitFg
  <2> QED BY <1>1, <2>1, <2>2, <2>3
<1>3. /\ \A i \in Slots : jobs'[i].pid = jobs[i].pid /\ jobs'[i].jid = jobs[i].jid
      /\ jobs'[cmdslot].state = cmdstate
      /\ \A i \in Slots : i # cmdslot => jobs'[i].state = jobs[i].state
  BY <1>1 DEF IInv, TypeOK
<1>4. \A s \in Signals : hpc[s] = "off"
  BY <1>1 DEF IInv, HandlersOK
<1>5. TypeOK'
  <2>1. jobs' \in [Slots -> [pid : Pids \cup {None}, jid : Nat, state : States]]
    BY <1>1 DEF IInv, TypeOK, States
  <2> QED BY <1>1, <1>2, <2>1 DEF IInv, TypeOK, States
<1>6. HandlersOK' /\ MainOK'
  BY <1>1, <1>2 DEF IInv, HandlersOK, MainOK, HeardOf
<1>7. JidsBounded' /\ NoGhostJob'
  BY <1>1, <1>3 DEF IInv, JidsBounded, NoGhostJob, BeingDeleted
<1>8. NoChildForgotten'
  BY <1>1, <1>3 DEF IInv, NoChildForgotten, Listed
<1>9. BackgroundUntouched'
  BY <1>1, <1>4 DEF BackgroundUntouched, Signals
<1>10. StoppedUnlessContinued'
  BY <1>1, <1>3 DEF IInv, StoppedUnlessContinued, Alive
<1> QED BY <1>5, <1>6, <1>7, <1>8, <1>9, <1>10 DEF IInv

\* waitfg, its argument, and the command quit.
LEMMA WaitKeeps ==
    ASSUME IInv, Arg \/ WaitListed \/ WaitState \/ Quit
    PROVE  IInv'
<1>1. /\ pc \in {"arg", "wait", "test", "state", "prompt"} /\ stack = <<>>
      /\ UNCHANGED <<blocked, listVars, handlerVars, pending, childVars>>
  BY DEF Arg, WaitListed, WaitState, Quit, Main
<1>2. TypeOK /\ (pc = "arg" => cmdslot \in Slots /\ jobs[cmdslot].pid \in Pids \cup {None})
  BY DEF IInv, MainOK, TypeOK
<1>3. CASE Arg
  BY <1>1, <1>2, <1>3, CommandStep DEF Arg, Main, WaitFg, Labels, States
<1>4. CASE WaitListed \/ WaitState \/ Quit
  <2>1. \/ pc' = "prompt" /\ cmdpid' = None /\ cmdslot' = 0 /\ cmdstate' = "UNDEF"
        \/ pc' \in {"test", "state", "crashed", "exited"} /\ UNCHANGED <<cmdpid, cmdslot, cmdstate>>
    <3>1. CASE WaitListed
      BY <3>1 DEF WaitListed, Goto, Done
    <3>2. CASE WaitState
      BY <3>2 DEF WaitState, Goto, Done
    <3>3. CASE Quit
      BY <3>3 DEF Quit, Goto
    <3> QED BY <1>4, <3>1, <3>2, <3>3
  <2>2. TypeOK => cmdpid \in Pids \cup {None} /\ cmdslot \in Slots \cup {0} /\ cmdstate \in States
    BY DEF TypeOK
  <2> QED BY <1>1, <1>2, <2>1, <2>2, CommandStep DEF Labels, States
<1> QED BY <1>3, <1>4

-----------------------------------------------------------------------------
(* The handlers.                                                           *)

\* A handler starts on top of what runs; eval is not between fork and addjob.
LEMMA DeliverKeeps ==
    ASSUME IInv, NEW s \in Signals, Deliver(s)
    PROVE  IInv'
<1>1. /\ ~blocked /\ hpc[s] = "off" /\ pending' = pending \ {s} /\ stack' = <<s>> \o stack
      /\ hpc' = [hpc EXCEPT ![s] = "start"]
      /\ UNCHANGED <<hpid, pc, cmdpid, cmdslot, cmdstate, blocked, jobs, nextjid,
                     refused, child, continued>>
  BY DEF Deliver, mainVars, listVars, childVars
<1>2. /\ hpc'[s] = "start"
      /\ \A r \in Signals : r # s => hpc'[r] = hpc[r]
  BY <1>1 DEF IInv, TypeOK
<1>3. /\ stack' \in Seq(Signals) /\ Len(stack') = Len(stack) + 1 /\ stack'[1] = s
      /\ \A k \in 1..Len(stack) : stack'[k + 1] = stack[k]
      /\ Len(stack) \in Nat
  BY <1>1 DEF IInv, TypeOK
<1>4. TypeOK'
  BY <1>1, <1>3 DEF IInv, TypeOK
<1>5. \A r \in Signals : hpc'[r] # "off" => \E k \in 1..Len(stack') : stack'[k] = r
  <2> SUFFICES ASSUME NEW r \in Signals, hpc'[r] # "off"
               PROVE  \E k \in 1..Len(stack') : stack'[k] = r
    OBVIOUS
  <2>1. CASE r = s
    BY <1>3, <2>1
  <2>2. CASE r # s
    <3>1. PICK k \in 1..Len(stack) : stack[k] = r
      BY <1>2, <2>2 DEF IInv, HandlersOK
    <3>2. k + 1 \in 1..Len(stack') /\ stack'[k + 1] = r
      BY <1>3, <3>1
    <3> QED BY <3>2
  <2> QED BY <2>1, <2>2
<1>6. HandlersOK'
  BY <1>1, <1>2, <1>5 DEF IInv, HandlersOK, Signals, HeardOf
<1>7. MainOK'
  BY <1>1 DEF IInv, MainOK
<1>8. JidsBounded' /\ NoGhostJob' /\ NoChildForgotten' /\ StoppedUnlessContinued'
  <2>1. BeingDeleted(hpid["CHLD"]) => hpc'["CHLD"] = "update"
    BY <1>1, <1>2 DEF BeingDeleted, Signals
  <2>2. NoGhostJob'
    BY <1>1, <2>1 DEF IInv, NoGhostJob, BeingDeleted
  <2> QED BY <1>1, <2>2 DEF IInv, JidsBounded, NoChildForgotten, StoppedUnlessContinued,
                 Listed, Alive
<1>9. BackgroundUntouched'
  BY <1>1, <1>2 DEF IInv, BackgroundUntouched, Signals
<1> QED BY <1>4, <1>6, <1>7, <1>8, <1>9 DEF IInv

\* What a handler's return leaves to show of an invariant about the handlers.
LEMMA ReturnKeepsHandlers ==
    ASSUME IInv, NEW s \in Signals, stack # <<>>, Head(stack) = s, Return(s),
           hpc["CHLD"] = "update" /\ s # "CHLD" =>
             HeardOf(hpid["CHLD"])'
    PROVE  HandlersOK'
<1>1. /\ hpc'[s] = "off"
      /\ \A r \in Signals : r # s => hpc'[r] = hpc[r] /\ hpid'[r] = hpid[r]
      /\ \A r \in Signals : hpc'[r] # "off" => \E k \in 1..Len(stack') : stack'[k] = r
  BY ReturnKeepsStack DEF IInv
<1>2. HandlersOK
  BY DEF IInv
<1>3. hpc'["CHLD"] = "update" => s # "CHLD" /\ hpc["CHLD"] = "update" /\
                               hpid'["CHLD"] = hpid["CHLD"]
  BY <1>1 DEF Signals
<1>4. /\ hpc'["CHLD"] \in {"off", "start", "update"}
      /\ \A r \in {"INT", "TSTP"} : hpc'[r] \in {"off", "start", "kill"}
      /\ \A r \in {"INT", "TSTP"} : hpc'[r] = "kill" => hpid'[r] \in Pids
  BY <1>1, <1>2 DEF HandlersOK, Signals
<1>5. hpc'["CHLD"] = "update" =>
        hpid'["CHLD"] \in Pids /\ HeardOf(hpid["CHLD"])'
  BY <1>2, <1>3 DEF HandlersOK
<1> QED BY <1>1, <1>4, <1>5 DEF HandlersOK

\* sigchld_handler finds a zombie or a stopped child, or nothing.
LEMMA WaitPidKeeps ==
    ASSUME IInv, WaitPid
    PROVE  IInv'
<1>1. /\ Alive /\ stack # <<>> /\ Head(stack) = "CHLD" /\ hpc["CHLD"] = "start"
      /\ UNCHANGED <<pc, cmdpid, cmdslot, cmdstate, blocked, jobs, nextjid, refused, pending>>
  BY DEF WaitPid, In, mainVars, listVars
<1>2. MainOK'
  <2>1. pc # "add"
    BY <1>1 DEF IInv, MainOK
  <2> QED BY <1>1, <2>1 DEF IInv, MainOK
<1>3. CASE Return("CHLD") /\ UNCHANGED <<child, continued>>
  <2>1. /\ stack' \in Seq(Signals)
        /\ hpc' \in [Signals -> {"off", "start", "update", "kill"}]
        /\ hpid' \in [Signals -> Pids \cup {None}]
        /\ hpc'["CHLD"] = "off"
        /\ \A r \in Signals : r # "CHLD" => hpc'[r] = hpc[r] /\ hpid'[r] = hpid[r]
    BY <1>1, <1>3, ReturnKeepsStack DEF IInv, Signals
  <2>2. TypeOK'
    BY <1>1, <1>3, <2>1 DEF IInv, TypeOK
  <2>3. HandlersOK'
    BY <1>1, <1>3, ReturnKeepsHandlers DEF Signals
  <2>4. JidsBounded' /\ NoGhostJob' /\ NoChildForgotten' /\ StoppedUnlessContinued'
    BY <1>1, <1>3 DEF IInv, JidsBounded, NoGhostJob, BeingDeleted, NoChildForgotten,
                      StoppedUnlessContinued, Listed, Alive
  <2>5. BackgroundUntouched'
    BY <1>1, <2>1 DEF IInv, BackgroundUntouched, Signals
  <2> QED BY <1>2, <2>2, <2>3, <2>4, <2>5 DEF IInv
<1>4. ASSUME NEW p \in Reportable,
             child' = [child EXCEPT ![p] = IF @ = "zombie" THEN "reaped" ELSE "stopped"],
             continued' = continued \ {p},
             hpc' = [hpc EXCEPT !["CHLD"] = "update"],
             hpid' = [hpid EXCEPT !["CHLD"] = p], UNCHANGED stack
      PROVE  IInv'
  <2>1. /\ p \in Pids /\ child[p] \in {"zombie", "stopping"}
        /\ child'[p] \in {"reaped", "stopped"}
        /\ child[p] = "zombie" => child'[p] = "reaped"
        /\ \A q \in Pids : q # p => child'[q] = child[q]
        /\ \A q \in Pids : q = p \/ HeardOf(q) => HeardOf(q)'
    BY <1>4 DEF Reportable, IInv, TypeOK, HeardOf
  <2>2. /\ hpc'["CHLD"] = "update" /\ hpid'["CHLD"] = p
        /\ \A r \in Signals : r # "CHLD" => hpc'[r] = hpc[r] /\ hpid'[r] = hpid[r]
    BY <1>4 DEF IInv, TypeOK, Signals
  <2>3. TypeOK'
    <3>1. child' \in [Pids -> {"none", "forked", "running", "stopping", "stopped", "zombie",
                               "reaped"}]
      BY <1>4, <2>1 DEF IInv, TypeOK
    <3> QED BY <1>1, <1>4, <2>1, <3>1 DEF IInv, TypeOK
  <2>4. HandlersOK'
    <3>1. HandlersOK
      BY DEF IInv
    <3>2. \A r \in Signals : hpc'[r] # "off" => hpc[r] # "off"
      BY <1>1, <2>2
    <3>3. \A r \in Signals : hpc'[r] # "off" => \E k \in 1..Len(stack') : stack'[k] = r
      BY <1>4, <3>1, <3>2 DEF HandlersOK
    <3>4. /\ \A r \in {"INT", "TSTP"} : hpc'[r] \in {"off", "start", "kill"}
          /\ \A r \in {"INT", "TSTP"} : hpc'[r] = "kill" => hpid'[r] \in Pids
      BY <2>2, <3>1 DEF HandlersOK, Signals
    <3> QED BY <2>1, <2>2, <3>3, <3>4 DEF HandlersOK
  <2>5. NoGhostJob'
    <3> SUFFICES ASSUME NEW i \in Slots, jobs[i].pid # None
                 PROVE  /\ child'[jobs[i].pid] # "none"
                        /\ child'[jobs[i].pid] = "reaped" => jobs[i].pid = p
                        /\ \A k \in Slots : jobs[k].pid = jobs[i].pid => k = i
      BY <1>1, <2>2 DEF NoGhostJob, BeingDeleted
    <3>1. jobs[i].pid \in Pids
      BY DEF IInv, TypeOK
    <3> QED BY <1>1, <2>1, <3>1 DEF IInv, NoGhostJob, BeingDeleted
  <2>6. NoChildForgotten'
    BY <1>1, <2>1 DEF IInv, NoChildForgotten, Listed
  <2>7. JidsBounded' /\ BackgroundUntouched'
    BY <1>1, <2>2 DEF IInv, JidsBounded, BackgroundUntouched, Signals
  <2>8. StoppedUnlessContinued'
    <3> SUFFICES ASSUME NEW i \in Slots, jobs[i].pid # None, jobs[i].state = "ST",
                        ~(pc = "set" /\ cmdslot = i)
                 PROVE  HeardOf(jobs[i].pid)'
      BY <1>1 DEF StoppedUnlessContinued, HeardOf
    <3>1. jobs[i].pid \in Pids /\ HeardOf(jobs[i].pid)
      BY <1>1 DEF IInv, TypeOK, StoppedUnlessContinued, HeardOf
    <3> QED BY <1>1, <2>1, <3>1 DEF HeardOf
  <2> QED BY <1>2, <2>3, <2>4, <2>5, <2>6, <2>7, <2>8 DEF IInv
<1> QED BY <1>3, <1>4 DEF WaitPid, childVars

\* An entry is cleared, and the job ID to come is computed.
LEMMA DeleteJobProperties ==
    ASSUME IInv, NEW p \in Pids, DeleteJob(p)
    PROVE  /\ jobs' \in [Slots -> [pid : Pids \cup {None}, jid : Nat, state : States]]
           /\ nextjid' \in Nat \ {0}
           /\ UNCHANGED refused
           /\ JidsBounded'
           /\ \A i \in Slots : jobs'[i] = NoJob \/ (jobs'[i] = jobs[i] /\ jobs[i].pid # p)
           /\ \A i \in Slots : jobs[i].pid # p => jobs'[i] = jobs[i]
<1>1. /\ jobs \in [Slots -> [pid : Pids \cup {None}, jid : Nat, state : States]]
      /\ nextjid \in Nat \ {0}
  BY DEF IInv, TypeOK
<1>2. PICK b \in Nat : \A i \in Slots : jobs[i].jid <= b
  BY DEF IInv, JidsBounded
<1>3. CASE SlotOfPid(p) = 0
  <2>1. ~Listed(p) /\ UNCHANGED <<jobs, nextjid, refused>>
    BY <1>3, SlotOfPidProperties, TshAssumption DEF IInv, DeleteJob, Slots
  <2> QED BY <1>1, <1>2, <2>1 DEF Listed, JidsBounded
<1>4. CASE SlotOfPid(p) # 0
  <2> DEFINE i == SlotOfPid(p)
  <2>1. i \in Slots /\ jobs[i].pid = p
    BY <1>4, SlotOfPidProperties DEF IInv
  <2>2. /\ jobs' = [jobs EXCEPT ![i] = NoJob] /\ nextjid' = MaxJid(jobs') + 1
        /\ UNCHANGED refused
    BY <1>4 DEF DeleteJob
  <2> HIDE DEF i
  <2>3. /\ NoJob \in [pid : Pids \cup {None}, jid : Nat, state : States]
        /\ NoJob.jid = 0
    BY DEF NoJob, States
  <2>4. /\ jobs' \in [Slots -> [pid : Pids \cup {None}, jid : Nat, state : States]]
        /\ jobs'[i] = NoJob
        /\ \A k \in Slots : k # i => jobs'[k] = jobs[k]
    BY <1>1, <2>1, <2>2, <2>3
  <2>5. \A k \in Slots : jobs'[k].jid \in Nat /\ jobs'[k].jid <= b
    <3> TAKE k \in Slots
    <3>1. CASE k = i
      BY <2>3, <2>4, <3>1
    <3>2. CASE k # i
      BY <1>1, <1>2, <2>4, <3>2
    <3> QED BY <3>1, <3>2
  <2>6. MaxJid(jobs') \in Nat
    BY <2>5, MaxJidProperties
  <2>7. \A k \in Slots : jobs[k].pid = p => k = i
    BY <2>1, TshAssumption DEF IInv, NoGhostJob
  <2> QED BY <2>1, <2>2, <2>4, <2>5, <2>6, <2>7 DEF JidsBounded
<1> QED BY <1>3, <1>4

\* sigchld_handler brings the list up to date and returns.
LEMMA UpdateJobKeeps ==
    ASSUME IInv, UpdateJob
    PROVE  IInv'
<1> DEFINE p == hpid["CHLD"]
           i == SlotOfPid(p)
<1>1. /\ Alive /\ stack # <<>> /\ Head(stack) = "CHLD" /\ hpc["CHLD"] = "update"
      /\ Return("CHLD")
      /\ UNCHANGED <<cmdpid, cmdslot, cmdstate, blocked, pending, child, continued>>
  BY DEF UpdateJob, In, childVars
<1>2. p \in Pids /\ HeardOf(p)
  BY <1>1 DEF IInv, HandlersOK
<1>3. /\ stack' \in Seq(Signals)
      /\ hpc' \in [Signals -> {"off", "start", "update", "kill"}]
      /\ hpid' \in [Signals -> Pids \cup {None}]
      /\ hpc'["CHLD"] = "off"
      /\ \A r \in Signals : r # "CHLD" => hpc'[r] = hpc[r] /\ hpid'[r] = hpid[r]
  BY <1>1, ReturnKeepsStack DEF IInv, Signals
<1>4. HandlersOK'
  BY <1>1, ReturnKeepsHandlers DEF Signals
<1>5. /\ pc # "add"
      /\ pc' = pc \/ pc' = "crashed"
  BY <1>1 DEF UpdateJob, IInv, MainOK
<1>6. MainOK'
  BY <1>1, <1>5 DEF IInv, MainOK
<1>7. CASE Died(p)
  <2>1. DeleteJob(p) /\ pc' = pc
    BY <1>7 DEF UpdateJob
  <2>2. /\ jobs' \in [Slots -> [pid : Pids \cup {None}, jid : Nat, state : States]]
        /\ nextjid' \in Nat \ {0}
        /\ UNCHANGED refused
        /\ JidsBounded'
        /\ \A k \in Slots : jobs'[k] = NoJob \/ (jobs'[k] = jobs[k] /\ jobs[k].pid # p)
        /\ \A k \in Slots : jobs[k].pid # p => jobs'[k] = jobs[k]
    BY <1>2, <2>1, DeleteJobProperties
  <2>3. TypeOK'
    BY <1>1, <1>3, <2>1, <2>2 DEF IInv, TypeOK
  <2>4. NoJob.pid = None
    BY DEF NoJob
  <2>5. NoGhostJob'
    <3> SUFFICES ASSUME NEW k \in Slots, jobs'[k].pid # None
                 PROVE  /\ child[jobs'[k].pid] \notin {"none", "reaped"}
                        /\ \A m \in Slots : jobs'[m].pid = jobs'[k].pid => m = k
      BY <1>1 DEF NoGhostJob
    <3>1. jobs'[k] = jobs[k] /\ jobs[k].pid # p /\ jobs[k].pid # None
      BY <2>2, <2>4
    <3>2. child[jobs[k].pid] \notin {"none", "reaped"}
      BY <3>1 DEF IInv, NoGhostJob, BeingDeleted
    <3>3. ASSUME NEW m \in Slots, jobs'[m].pid = jobs'[k].pid PROVE m = k
      <4>1. jobs'[m] = jobs[m]
        BY <2>2, <2>4, <3>1, <3>3
      <4> QED BY <3>1, <3>3, <4>1 DEF IInv, NoGhostJob
    <3> QED BY <3>1, <3>2, <3>3
  <2>6. NoChildForgotten'
    <3> SUFFICES ASSUME NEW q \in Pids, child[q] \notin {"none", "reaped"}, q \notin refused
                 PROVE  \E k \in Slots : jobs'[k].pid = q
      BY <1>1, <2>2 DEF NoChildForgotten, Listed
    <3>1. PICK k \in Slots : jobs[k].pid = q
      BY <1>5 DEF IInv, NoChildForgotten, Listed
    <3>2. q # p
      BY <1>7 DEF Died
    <3> QED BY <2>2, <3>1, <3>2
  <2>7. BackgroundUntouched'
    <3> SUFFICES ASSUME NEW s \in {"INT", "TSTP"}, NEW k \in Slots, hpc[s] = "kill",
                        jobs'[k].pid = hpid[s]
                 PROVE  jobs'[k].state \in {"FG", "ST"}
      BY <1>3 DEF BackgroundUntouched, Signals
    <3>1. hpid[s] # None
      BY TshAssumption DEF IInv, HandlersOK
    <3>2. jobs'[k] = jobs[k]
      BY <2>2, <2>4, <3>1
    <3> QED BY <3>2 DEF IInv, BackgroundUntouched
  <2>8. StoppedUnlessContinued'
    <3> SUFFICES ASSUME NEW k \in Slots, jobs'[k].pid # None, jobs'[k].state = "ST"
                 PROVE  HeardOf(jobs'[k].pid)
                          \/ (pc = "set" /\ cmdslot = k)
      BY <1>1, <2>1 DEF StoppedUnlessContinued, HeardOf
    <3>1. jobs'[k] = jobs[k]
      BY <2>2, <2>4
    <3> QED BY <1>1, <3>1 DEF IInv, StoppedUnlessContinued, HeardOf
  <2> QED BY <1>4, <1>6, <2>2, <2>3, <2>5, <2>6, <2>7, <2>8 DEF IInv
<1>8. CASE ~Died(p)
  <2>1. /\ \/ i = 0 /\ pc' = "crashed" /\ jobs' = jobs
           \/ i # 0 /\ pc' = pc /\ jobs' = [jobs EXCEPT ![i].state = "ST"]
        /\ UNCHANGED <<nextjid, refused>>
    BY <1>8 DEF UpdateJob
  <2>2. i = 0 \/ (i \in Slots /\ jobs[i].pid = p)
    BY <1>2, SlotOfPidProperties DEF IInv
  <2> HIDE DEF i
  <2>3. /\ jobs' \in [Slots -> [pid : Pids \cup {None}, jid : Nat, state : States]]
        /\ \A k \in Slots : jobs'[k].pid = jobs[k].pid /\ jobs'[k].jid = jobs[k].jid
        /\ \A k \in Slots : jobs'[k].state = jobs[k].state
                              \/ (jobs'[k].state = "ST" /\ jobs[k].pid = p)
    <3>1. jobs \in [Slots -> [pid : Pids \cup {None}, jid : Nat, state : States]]
      BY DEF IInv, TypeOK
    <3>2. CASE jobs' = jobs
      BY <3>1, <3>2
    <3>3. CASE i \in Slots /\ jobs' = [jobs EXCEPT ![i].state = "ST"] /\ jobs[i].pid = p
      <4>1. jobs[i] \in [pid : Pids \cup {None}, jid : Nat, state : States]
        BY <3>1, <3>3
      <4>2. /\ jobs'[i] = [jobs[i] EXCEPT !.state = "ST"]
            /\ \A k \in Slots : k # i => jobs'[k] = jobs[k]
        BY <3>1, <3>3
      <4>3. /\ jobs'[i].pid = p /\ jobs'[i].jid = jobs[i].jid /\ jobs'[i].state = "ST"
            /\ jobs'[i] \in [pid : Pids \cup {None}, jid : Nat, state : States]
        BY <3>3, <4>1, <4>2 DEF States
      <4>4. jobs' \in [Slots -> [pid : Pids \cup {None}, jid : Nat, state : States]]
        BY <3>1, <3>3, <4>1 DEF States
      <4>5. ASSUME NEW k \in Slots
            PROVE  /\ jobs'[k].pid = jobs[k].pid /\ jobs'[k].jid = jobs[k].jid
                   /\ jobs'[k].state = jobs[k].state
                        \/ (jobs'[k].state = "ST" /\ jobs[k].pid = p)
        BY <3>3, <4>2, <4>3
      <4> QED BY <4>4, <4>5
    <3> QED BY <2>1, <2>2, <3>2, <3>3
  <2>4. TypeOK'
    BY <1>1, <1>3, <1>5, <2>1, <2>3 DEF IInv, TypeOK
  <2>5. child[p] # "reaped"
    BY <1>8 DEF Died
  <2>6. NoGhostJob'
    <3> SUFFICES ASSUME NEW k \in Slots, jobs[k].pid # None
                 PROVE  /\ child[jobs[k].pid] \notin {"none", "reaped"}
                        /\ \A m \in Slots : jobs[m].pid = jobs[k].pid => m = k
      BY <1>1, <2>3 DEF NoGhostJob
    <3> QED BY <2>5 DEF IInv, NoGhostJob, BeingDeleted
  <2>7. NoChildForgotten' /\ JidsBounded'
    BY <1>1, <1>5, <2>1, <2>3 DEF IInv, NoChildForgotten, JidsBounded, Listed
  <2>8. BackgroundUntouched'
    BY <1>3, <2>3 DEF IInv, BackgroundUntouched, Signals
  <2>9. StoppedUnlessContinued'
    <3> SUFFICES ASSUME NEW k \in Slots, jobs[k].pid # None, jobs'[k].state = "ST"
                 PROVE  HeardOf(jobs[k].pid)
                          \/ (pc = "set" /\ cmdslot = k) \/ pc' = "crashed"
      BY <1>1, <1>5, <2>3 DEF StoppedUnlessContinued, Alive, HeardOf
    <3> QED BY <1>1, <1>2, <2>3 DEF IInv, StoppedUnlessContinued, HeardOf
  <2> QED BY <1>4, <1>6, <2>4, <2>6, <2>7, <2>8, <2>9 DEF IInv
<1> QED BY <1>7, <1>8

\* A handler of the keyboard returns: nothing but the children may have changed.
LEMMA KeyboardHandlerReturns ==
    ASSUME IInv, NEW s \in {"INT", "TSTP"}, In(s, "start") \/ In(s, "kill"), Return(s),
           UNCHANGED <<mainVars, listVars, pending, childVars>>
    PROVE  IInv'
<1>1. /\ Alive /\ stack # <<>> /\ Head(stack) = s /\ s \in Signals
      /\ UNCHANGED <<pc, cmdpid, cmdslot, cmdstate, blocked, jobs, nextjid, refused,
                     pending, child, continued>>
  BY DEF In, mainVars, listVars, childVars, Signals
<1>2. /\ stack' \in Seq(Signals)
      /\ hpc' \in [Signals -> {"off", "start", "update", "kill"}]
      /\ hpid' \in [Signals -> Pids \cup {None}]
      /\ hpc'[s] = "off"
      /\ \A r \in Signals : r # s => hpc'[r] = hpc[r] /\ hpid'[r] = hpid[r]
  BY <1>1, ReturnKeepsStack DEF IInv
<1>3. HandlersOK'
  <2>1. hpc["CHLD"] = "update" => HeardOf(hpid["CHLD"])'
    BY <1>1, <1>2 DEF IInv, HandlersOK, HeardOf, Signals
  <2> QED BY <1>1, <2>1, ReturnKeepsHandlers
<1>4. TypeOK'
  BY <1>1, <1>2 DEF IInv, TypeOK
<1>5. pc # "add"
  BY <1>1 DEF IInv, MainOK
<1>6. hpc'["CHLD"] = hpc["CHLD"] /\ hpid'["CHLD"] = hpid["CHLD"]
  BY <1>2 DEF Signals
<1>7. MainOK' /\ JidsBounded' /\ NoChildForgotten' /\ StoppedUnlessContinued'
  BY <1>1, <1>5 DEF IInv, MainOK, JidsBounded, NoChildForgotten, StoppedUnlessContinued,
                       Listed, Alive
<1>8. NoGhostJob'
  BY <1>1, <1>6 DEF IInv, NoGhostJob, BeingDeleted
<1>9. BackgroundUntouched'
  BY <1>1, <1>2 DEF IInv, BackgroundUntouched, Signals
<1> QED BY <1>3, <1>4, <1>7, <1>8, <1>9 DEF IInv

\* sigint_handler and sigtstp_handler take the job that is in the foreground.
LEMMA FindForegroundKeeps ==
    ASSUME IInv, NEW s \in {"INT", "TSTP"}, FindForeground(s)
    PROVE  IInv'
<1>1. /\ In(s, "start")
      /\ UNCHANGED <<mainVars, listVars, pending, childVars>>
  BY DEF FindForeground
<1>2. CASE FgPid = None
  BY <1>1, <1>2, KeyboardHandlerReturns DEF FindForeground
<1>3. CASE FgPid # None
  <2>1. /\ hpid' = [hpid EXCEPT ![s] = FgPid] /\ hpc' = [hpc EXCEPT ![s] = "kill"]
        /\ stack' = stack /\ stack # <<>> /\ hpc[s] = "start" /\ s \in Signals
        /\ UNCHANGED <<pc, cmdpid, cmdslot, cmdstate, blocked, jobs, nextjid, refused,
                       pending, child, continued>>
    BY <1>1, <1>3 DEF FindForeground, In, mainVars, listVars, childVars, Signals
  <2>2. PICK f \in Slots : jobs[f].pid = FgPid /\ jobs[f].state = "FG"
    BY <1>3, FgPidProperties DEF IInv
  <2>3. FgPid \in Pids
    BY <1>3, FgPidProperties DEF IInv
  <2>4. /\ hpc'[s] = "kill" /\ hpid'[s] = FgPid
        /\ \A r \in Signals : r # s => hpc'[r] = hpc[r] /\ hpid'[r] = hpid[r]
    BY <2>1 DEF IInv, TypeOK
  <2>5. TypeOK'
    BY <2>1, <2>3 DEF IInv, TypeOK
  <2>6. hpc'["CHLD"] = hpc["CHLD"] /\ hpid'["CHLD"] = hpid["CHLD"]
    BY <2>4 DEF Signals
  <2>7. HandlersOK'
    <3>1. HandlersOK
      BY DEF IInv
    <3>2. \A r \in Signals : hpc'[r] # "off" => hpc[r] # "off"
      BY <2>1, <2>4
    <3>3. \A r \in Signals : hpc'[r] # "off" => \E k \in 1..Len(stack') : stack'[k] = r
      BY <2>1, <3>1, <3>2 DEF HandlersOK
    <3>4. /\ \A r \in {"INT", "TSTP"} : hpc'[r] \in {"off", "start", "kill"}
          /\ \A r \in {"INT", "TSTP"} : hpc'[r] = "kill" => hpid'[r] \in Pids
      BY <2>3, <2>4, <3>1 DEF HandlersOK, Signals
    <3> QED BY <2>1, <2>6, <3>1, <3>3, <3>4 DEF HandlersOK, HeardOf
  <2>8. MainOK' /\ JidsBounded' /\ NoChildForgotten' /\ StoppedUnlessContinued'
    BY <2>1 DEF IInv, MainOK, JidsBounded, NoChildForgotten, StoppedUnlessContinued, Listed, Alive
  <2>9. NoGhostJob'
    BY <2>1, <2>6 DEF IInv, NoGhostJob, BeingDeleted
  <2>10. BackgroundUntouched'
    <3> SUFFICES ASSUME NEW r \in {"INT", "TSTP"}, NEW i \in Slots, hpc'[r] = "kill",
                        jobs[i].pid = hpid'[r]
                 PROVE  jobs[i].state \in {"FG", "ST"}
      BY <2>1 DEF BackgroundUntouched
    <3>1. CASE r = s
      BY <2>2, <2>3, <2>4, <3>1, TshAssumption DEF IInv, NoGhostJob
    <3>2. CASE r # s
      BY <2>4, <3>2 DEF IInv, BackgroundUntouched, Signals
    <3> QED BY <3>1, <3>2
  <2> QED BY <2>5, <2>7, <2>8, <2>9, <2>10 DEF IInv
<1> QED BY <1>2, <1>3

\* ... and forward the signal: the child's change and the handler's return.
LEMMA ForwardKeeps ==
    ASSUME IInv, NEW s \in {"INT", "TSTP"}, Forward(s)
    PROVE  IInv'
<1> DEFINE p == hpid[s]
<1>1. /\ In(s, "kill") /\ Return(s) /\ Alive /\ stack # <<>> /\ Head(stack) = s
      /\ hpc[s] = "kill" /\ s \in Signals /\ s # "CHLD"
      /\ UNCHANGED <<pc, cmdpid, cmdslot, cmdstate, blocked, jobs, nextjid, refused>>
      /\ UNCHANGED <<mainVars, listVars, continued>>
  BY DEF Forward, In, mainVars, listVars, Signals
<1>2. CASE UNCHANGED <<child, pending>>
  BY <1>1, <1>2, KeyboardHandlerReturns DEF childVars
<1>3. ASSUME child[p] = "running", NEW c \in {"zombie", "stopping"},
             child' = [child EXCEPT ![p] = c], pending' = pending \cup {"CHLD"}
      PROVE  IInv'
  <2>1. p \in Pids
    BY <1>1 DEF IInv, HandlersOK
  <2>2. /\ child'[p] = c
        /\ \A q \in Pids : q # p => child'[q] = child[q]
    BY <1>3, <2>1 DEF IInv, TypeOK
  <2>3. /\ stack' \in Seq(Signals)
        /\ hpc' \in [Signals -> {"off", "start", "update", "kill"}]
        /\ hpid' \in [Signals -> Pids \cup {None}]
        /\ hpc'[s] = "off"
        /\ \A r \in Signals : r # s => hpc'[r] = hpc[r] /\ hpid'[r] = hpid[r]
    BY <1>1, ReturnKeepsStack DEF IInv
  <2>4. TypeOK'
    BY <1>1, <1>3, <2>1, <2>3 DEF IInv, TypeOK, Signals
  <2>5. hpc'["CHLD"] = hpc["CHLD"] /\ hpid'["CHLD"] = hpid["CHLD"]
    BY <1>1, <2>3 DEF Signals
  <2>6. HandlersOK'
    <3>1. hpc["CHLD"] = "update" => HeardOf(hpid["CHLD"])'
      BY <1>1, <1>3, <2>2, <2>5 DEF IInv, HandlersOK, HeardOf
    <3> QED BY <1>1, <3>1, ReturnKeepsHandlers
  <2>7. MainOK'
    <3>1. pc # "add"
      BY <1>1 DEF IInv, MainOK
    <3> QED BY <1>1, <3>1 DEF IInv, MainOK
  <2>8. NoGhostJob'
    <3> SUFFICES ASSUME NEW i \in Slots, jobs[i].pid # None
                 PROVE  /\ child'[jobs[i].pid] # "none"
                        /\ child'[jobs[i].pid] = "reaped" => BeingDeleted(jobs[i].pid)
                        /\ \A k \in Slots : jobs[k].pid = jobs[i].pid => k = i
      BY <1>1, <2>5 DEF NoGhostJob, BeingDeleted
    <3>1. jobs[i].pid \in Pids
      BY DEF IInv, TypeOK
    <3> QED BY <2>2, <3>1 DEF IInv, NoGhostJob
  <2>9. NoChildForgotten' /\ JidsBounded'
    BY <1>1, <1>3, <2>2 DEF IInv, NoChildForgotten, JidsBounded, Listed
  <2>10. BackgroundUntouched'
    BY <1>1, <2>3 DEF IInv, BackgroundUntouched, Signals
  <2>11. StoppedUnlessContinued'
    <3> SUFFICES ASSUME NEW i \in Slots, jobs[i].pid # None, jobs[i].state = "ST",
                        ~(pc = "set" /\ cmdslot = i)
                 PROVE  HeardOf(jobs[i].pid)'
      BY <1>1 DEF StoppedUnlessContinued, HeardOf
    <3>1. jobs[i].pid \in Pids /\ HeardOf(jobs[i].pid)
      BY <1>1 DEF IInv, TypeOK, StoppedUnlessContinued, HeardOf
    <3> QED BY <1>1, <1>3, <2>2, <3>1 DEF HeardOf
  <2> QED BY <2>4, <2>6, <2>7, <2>8, <2>9, <2>10, <2>11 DEF IInv
<1>4. CASE child[p] = "running"
  <2>1. CASE s = "INT"
    BY <1>2, <1>3, <1>4, <2>1 DEF Forward
  <2>2. CASE s = "TSTP"
    BY <1>2, <1>3, <1>4, <2>2 DEF Forward
  <2> QED BY <2>1, <2>2
<1>5. CASE child[p] # "running"
  BY <1>2, <1>5 DEF Forward
<1> QED BY <1>4, <1>5

-----------------------------------------------------------------------------
(* The children, and the keyboard.                                         *)

\* A child starts, exits, stops or is continued by another process.
LEMMA ChildKeeps ==
    ASSUME IInv, NEW p \in Pids,
           ChildStart(p) \/ ChildExit(p) \/ ChildStop(p) \/ ChildContinue(p)
    PROVE  IInv'
<1>1. pending \subseteq Signals /\ "CHLD" \in Signals /\ continued \subseteq Pids
  BY DEF IInv, TypeOK, Signals
<1>2. child \in [Pids -> {"none", "forked", "running", "stopping", "stopped", "zombie", "reaped"}]
  BY DEF IInv, TypeOK
<1>3. CASE ChildStart(p)
  <2>1. HeardOf(p) => HeardOf(p)'
    BY <1>2, <1>3 DEF ChildStart, HeardOf
  <2> QED BY <1>1, <1>3, <2>1, ChildStep DEF ChildStart
<1>4. CASE ChildExit(p)
  <2>1. HeardOf(p)'
    BY <1>2, <1>4 DEF ChildExit, HeardOf
  <2> QED BY <1>1, <1>4, <2>1, ChildStep DEF ChildExit
<1>5. CASE ChildStop(p)
  <2>1. HeardOf(p) => HeardOf(p)'
    BY <1>2, <1>5 DEF ChildStop, HeardOf
  <2> QED BY <1>1, <1>5, <2>1, ChildStep DEF ChildStop
<1>6. CASE ChildContinue(p)
  <2>1. HeardOf(p) => HeardOf(p)'
    BY <1>2, <1>6 DEF ChildContinue, HeardOf
  <2> QED BY <1>1, <1>6, <2>1, ChildStep DEF ChildContinue
<1> QED BY <1>3, <1>4, <1>5, <1>6

\* A key only makes a signal pending.
LEMMA KeyboardKeeps ==
    ASSUME IInv, NEW s \in Keys, Keyboard(s)
    PROVE  IInv'
<1>1. /\ s \in Signals /\ pending' = pending \cup {s}
      /\ UNCHANGED <<pc, cmdpid, cmdslot, cmdstate, blocked, jobs, nextjid, refused, stack, hpc,
                     hpid, child, continued>>
  BY TshAssumption DEF Keyboard, mainVars, listVars, handlerVars, childVars, Signals
<1>2. TypeOK'
  BY <1>1 DEF IInv, TypeOK
<1>3. HandlersOK' /\ MainOK' /\ JidsBounded'
  BY <1>1 DEF IInv, HandlersOK, MainOK, JidsBounded, Listed, HeardOf
<1>4. NoGhostJob' /\ NoChildForgotten' /\ BackgroundUntouched' /\ StoppedUnlessContinued'
  BY <1>1 DEF IInv, NoGhostJob, NoChildForgotten, BackgroundUntouched, StoppedUnlessContinued,
              Listed, BeingDeleted, Alive
<1> QED BY <1>2, <1>3, <1>4 DEF IInv

-----------------------------------------------------------------------------
(* The invariant.                                                          *)

\* The shell has just started.
LEMMA InitIInv ==
    ASSUME Init
    PROVE  IInv
<1>1. \A i \in Slots : jobs[i] = NoJob
  BY DEF Init
<1>2. /\ NoJob \in [pid : Pids \cup {None}, jid : Nat, state : States]
      /\ NoJob.pid = None /\ NoJob.jid = 0 /\ NoJob.state = "UNDEF"
  BY DEF NoJob, States
<1>3. TypeOK
  <2>1. jobs \in [Slots -> [pid : Pids \cup {None}, jid : Nat, state : States]]
    BY <1>2 DEF Init
  <2>2. stack \in Seq(Signals)
    BY DEF Init
  <2>3. /\ hpc \in [Signals -> {"off", "start", "update", "kill"}]
        /\ hpid \in [Signals -> Pids \cup {None}]
    BY DEF Init
  <2>4. child \in [Pids -> {"none", "forked", "running", "stopping", "stopped", "zombie", "reaped"}]
    BY DEF Init
  <2>5. nextjid = 1 /\ pc = "prompt" /\ cmdpid = None /\ cmdslot = 0
    BY DEF Init
  <2>6. cmdstate \in States
    BY DEF Init, States
  <2>7. pending \subseteq Signals /\ refused \subseteq Pids /\ continued \subseteq Pids
    BY DEF Init
  <2>8. blocked \in BOOLEAN
    BY DEF Init
  <2> QED BY <2>1, <2>2, <2>3, <2>4, <2>5, <2>6, <2>7, <2>8 DEF TypeOK
<1>4. HandlersOK /\ MainOK
  BY DEF Init, HandlersOK, MainOK, Signals
<1>5. JidsBounded
  BY <1>1, <1>2 DEF JidsBounded
<1>6. NoGhostJob /\ StoppedUnlessContinued
  BY <1>1, <1>2 DEF NoGhostJob, StoppedUnlessContinued
<1>7. NoChildForgotten /\ BackgroundUntouched
  BY DEF Init, NoChildForgotten, BackgroundUntouched, Signals
<1> QED BY <1>3, <1>4, <1>5, <1>6, <1>7 DEF IInv

\* A step that changes nothing.
LEMMA StutterKeeps ==
    ASSUME IInv, UNCHANGED vars
    PROVE  IInv'
<1>1. UNCHANGED <<pc, cmdpid, cmdslot, cmdstate, blocked, jobs, nextjid, refused, stack, hpc,
                  hpid, pending, child, continued>>
  BY DEF vars, mainVars, listVars, handlerVars, childVars
<1>2. TypeOK' /\ HandlersOK' /\ MainOK' /\ JidsBounded'
  BY <1>1 DEF IInv, TypeOK, HandlersOK, MainOK, JidsBounded, Listed, HeardOf
<1>3. NoGhostJob' /\ NoChildForgotten' /\ BackgroundUntouched' /\ StoppedUnlessContinued'
  BY <1>1 DEF IInv, NoGhostJob, NoChildForgotten, BackgroundUntouched, StoppedUnlessContinued,
              Listed, BeingDeleted, Alive
<1> QED BY <1>2, <1>3 DEF IInv

\* Every action keeps the invariant.
LEMMA NextIInv ==
    ASSUME IInv, [Next]_vars
    PROVE  IInv'
<1>1. ASSUME NEW p \in Pids, NEW st \in {"FG", "BG"}, Run(p, st) PROVE IInv'
  BY <1>1, RunKeeps
<1>2. CASE Add
  BY <1>2, AddKeeps
<1>3. CASE \/ \E j \in {jobs[i].jid : i \in Slots}, st \in {"FG", "BG"} : BgFgJid(j, st)
           \/ \E p \in Pids : BgPid(p)
           \/ \E p \in Pids, g \in Garbage : FgPidArg(p, g)
  <2>1. {jobs[i].jid : i \in Slots} \subseteq Nat
    BY DEF IInv, TypeOK
  <2> QED BY <1>3, <2>1, BgFgCommandsKeep
<1>4. CASE Cont
  BY <1>4, ContKeeps
<1>5. CASE Set
  BY <1>5, SetKeeps
<1>6. CASE Arg \/ WaitListed \/ WaitState \/ Quit
  BY <1>6, WaitKeeps
<1>7. ASSUME NEW s \in Signals, Deliver(s) PROVE IInv'
  BY <1>7, DeliverKeeps
<1>8. CASE WaitPid
  BY <1>8, WaitPidKeeps
<1>9. CASE UpdateJob
  BY <1>9, UpdateJobKeeps
<1>10. ASSUME NEW s \in {"INT", "TSTP"}, FindForeground(s) PROVE IInv'
  BY <1>10, FindForegroundKeeps
<1>11. ASSUME NEW s \in {"INT", "TSTP"}, Forward(s) PROVE IInv'
  BY <1>11, ForwardKeeps
<1>12. ASSUME NEW p \in Pids,
               ChildStart(p) \/ ChildExit(p) \/ ChildStop(p) \/ ChildContinue(p)
        PROVE  IInv'
  BY <1>12, ChildKeeps
<1>13. ASSUME NEW s \in Keys, Keyboard(s) PROVE IInv'
  BY <1>13, KeyboardKeeps
<1>14. CASE UNCHANGED vars
  BY <1>14, StutterKeeps
<1> QED BY <1>1, <1>2, <1>3, <1>4, <1>5, <1>6, <1>7, <1>8, <1>9, <1>10, <1>11, <1>12, <1>13,
           <1>14 DEF Next

\* The inductive invariant of the shell: the types, what the handlers and the
\* command in progress hold, and the four properties that need one another.
THEOREM TshInvariant == Spec => []IInv
<1>1. Init => IInv
  BY InitIInv
<1>2. IInv /\ [Next]_vars => IInv'
  BY NextIInv
<1> QED BY <1>1, <1>2, PTL DEF Spec

\* eval, addjob and sigchld_handler: a listed job is a child that has not been
\* reaped, or is being taken off the list, and it is listed once.
THEOREM TshNoGhostJob == Spec => []NoGhostJob
<1>1. IInv => NoGhostJob
  BY DEF IInv
<1> QED BY <1>1, TshInvariant, PTL

\* eval, addjob: a child that has not been reaped is listed, unless the list was
\* full when eval tried.
THEOREM TshNoChildForgotten == Spec => []NoChildForgotten
<1>1. IInv => NoChildForgotten
  BY DEF IInv
<1> QED BY <1>1, TshInvariant, PTL

\* sigint_handler, sigtstp_handler: the signal goes to no background job.
THEOREM TshBackgroundUntouched == Spec => []BackgroundUntouched
<1>1. IInv => BackgroundUntouched
  BY DEF IInv
<1> QED BY <1>1, TshInvariant, PTL

\* do_bgfg, sigchld_handler: a job listed as stopped does not run, but between
\* the SIGCONT and the new state, unless another process has continued it since
\* the shell was told that it stopped.
THEOREM TshStoppedUnlessContinued == Spec => []StoppedUnlessContinued
<1>1. IInv => StoppedUnlessContinued
  BY DEF IInv
<1> QED BY <1>1, TshInvariant, PTL

\* addjob, deletejob and the handlers: every field of the job list and of what the
\* handlers hold keeps its type, whatever signal comes when.
THEOREM TshTypeCorrect == Spec => []TypeOK
<1>1. IInv => TypeOK
  BY DEF IInv
<1> QED BY <1>1, TshInvariant, PTL
=============================================================================

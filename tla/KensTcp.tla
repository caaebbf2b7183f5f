------------------------------ MODULE KensTcp ------------------------------
(***************************************************************************)
(* The TCP module of one KENS host (TCPAssignment.cpp): its socket table,  *)
(* its list of half-open connections, its queue of blocked accept calls,   *)
(* the system calls of the host's processes and the arrival of segments.   *)
(* The remote ends of the connections are external: a conformant TCP that  *)
(* the host talks to over reliable FIFO channels, as the network of the    *)
(* simulator is when it is not told to lose packets.                       *)
(*                                                                         *)
(* Sequence numbers are relative to the initial ones of each direction,    *)
(* the buffers hold BUFSIZE bytes and a segment at most MSS of them.       *)
(***************************************************************************)
EXTENDS Integers, Sequences, FiniteSets

CONSTANTS
  Pids,         \* processes of the host, positive integers
  Scenarios,    \* the calls each process makes, the remote clients there are
  Remotes,      \* remote endpoints, each on a host of its own
  RemotePort,   \* RemotePort[r]: the TCP port of r
  Servers,      \* the remotes that listen
  Incoming,     \* the <<remote, port>> a remote client may connect to
  Ephemeral,    \* ports allocate_port may draw
  FreshStatus,  \* what the uninitialised status of a new node may hold
  MaxFd,        \* descriptors of a process
  BUFSIZE, MSS, \* bytes of a socket buffer, of a segment
  PeerSizes,    \* sizes of a remote's data segments
  PeerBytes     \* PeerBytes[r]: the most bytes r sends on a connection

ASSUME PidsAssumption == Pids \subseteq Nat \ {0}
ASSUME SizesAssumption == BUFSIZE \in Nat \ {0} /\ MSS \in 1..BUFSIZE
ASSUME MaxFdAssumption == MaxFd \in Nat

VARIABLES
  socklist,      \* the nodes of the open sockets, newest first
  backlog_list,  \* half-open connections, oldest first
  accept_queue,  \* blocked accept calls, oldest first
  fds,           \* fds[p]: descriptors created for p
  calls,         \* calls[p]: the system call p is blocked in, or Idle
  prog,          \* prog[p]: the calls p has still to make
  held,          \* held[p]: what socket and accept returned to p
  readBytes,     \* readBytes[p][c]: the bytes of connection c read returned to p
  wrote,         \* wrote[p]: how many bytes write took from p
  toHost, toPeer,\* segments in flight on each connection
  peer           \* the remote end of each connection

kernel == <<socklist, backlog_list, accept_queue, fds>>
apps == <<calls, held, readBytes, wrote>>
vars == <<kernel, apps, prog, toHost, toPeer, peer>>

None == <<-1, 0>>      \* no system call: uuid -1
Zero == <<0, 0>>       \* uuid 0: the host's first call, long answered
Idle == [op |-> "idle", id |-> None, port |-> 0]
NoRemote == "none"
AnyAddr == "any"
Here == "here"

Conns == Incoming \cup (Servers \X Ephemeral)
NoConn == <<NoRemote, 0>>
Conn(n) == <<n.dest, n.srcport>>
Index == 0..BUFSIZE-1
Least(S) == IF S = {} THEN 0 ELSE CHOOSE i \in S : \A j \in S : i <= j
Take(s, i) == SubSeq(s, 1, i-1) \o SubSeq(s, i+1, Len(s))

Statuses == {"LISTENING", "SYN_SENT", "SYN_RCVD", "ESTAB", "CLOSED", "FIN_WAIT_1",
             "FIN_WAIT_2", "TIMED_WAIT", "CLOSING", "CLOSE_WAIT", "LAST_ACK"}

\* A segment of more than MSS = 512 bytes is copied over the end of actual_data
\* (TCPAssignment.cpp:693-695).
ASSUME EndpointsAssumption ==
  /\ Servers \subseteq Remotes /\ NoRemote \notin Remotes
  /\ Incoming \subseteq Remotes \X (Nat \ {0}) /\ Ephemeral \subseteq Nat \ {0}
  /\ FreshStatus \subseteq Statuses
  /\ PeerSizes \subseteq 1..MSS

\* The arguments of a call.  A write larger than the buffer is copied over the
\* end of write_buf (TCPAssignment.cpp:326); a read larger than it is for more
\* than the window lets the remote send.
IsCall(k) ==
  /\ k.op \in {"socket", "bind", "listen", "connect", "accept", "read", "write", "close"}
  /\ k.op = "bind" => k.ip \in {AnyAddr, Here} /\ k.port \in Nat
  /\ k.op = "listen" => k.n \in Nat
  /\ k.op = "connect" => k.to \in Remotes
  /\ k.op \in {"read", "write"} => k.n \in 0..BUFSIZE

ASSUME ProgramsAssumption ==
  \A s \in Scenarios :
    /\ s.prog = [p \in Pids |-> s.prog[p]]
    /\ \A p \in Pids : LET calls_ == {s.prog[p][i] : i \in DOMAIN s.prog[p]}
                       IN  s.prog[p] \in Seq(calls_) /\ \A k \in calls_ : IsCall(k)

-----------------------------------------------------------------------------
(* Nodes of the socket table                                               *)

\* A new node is not initialised (TCPAssignment.cpp:154, TCPAssignment.hpp:53-72).
\* Its status is open.  Its addresses, ports and uuid are taken for 0, which for
\* an address or a port is the value that the searches take for any.
FreshNode(p, fd, st) ==
  [owner |-> p, sockfd |-> fd, status |-> st, srcip |-> AnyAddr, srcport |-> 0,
   dest |-> NoRemote, seq |-> 0, ack |-> 0, bound |-> FALSE, uuid |-> Zero,
   backlog |-> 0, used |-> FALSE,
   send_buffer |-> [i \in Index |-> 0], start_s |-> 0, end_s |-> 0,
   send_len |-> BUFSIZE,
   recv_buffer |-> [i \in Index |-> 0], start_r |-> 0, end_r |-> 0,
   recv_len |-> 0, read_uuid |-> Zero, read_len |-> 0,
   write_uuid |-> Zero, write_buf |-> [i \in Index |-> 0],
   cwnd |-> MSS, sending |-> FALSE]

getnodebysockfdShared(sl, fd, p) == Least({i \in DOMAIN sl : sl[i].sockfd = fd})
getnodebysockfd(sl, fd, p) ==
  Least({i \in DOMAIN sl : sl[i].sockfd = fd /\ sl[i].owner = p})

Listener(sl, port) ==
  Least({i \in DOMAIN sl : /\ sl[i].srcport \in {port, 0}
                           /\ sl[i].status = "LISTENING"})

in_list(bl, fd, r) == \E i \in DOMAIN bl : bl[i].sockfd = fd /\ bl[i].dest = r

num_of_nodes(bl, fd, p) ==
  Cardinality({i \in DOMAIN bl : bl[i].sockfd = fd /\ bl[i].owner = p})

Create(p, fd) == IF fd[p] < MaxFd THEN fd[p] + 1 ELSE -1
Grow(p, fd) == IF fd[p] < MaxFd THEN [fd EXCEPT ![p] = @ + 1] ELSE fd

allocate_port(sl) == {q \in Ephemeral : \A i \in DOMAIN sl : sl[i].srcport # q}

-----------------------------------------------------------------------------
(* Ring buffers and segments                                               *)

Store(buf, at, bytes) ==
  [i \in Index |-> LET k == (i - at + BUFSIZE) % BUFSIZE
                   IN  IF k < Len(bytes) THEN bytes[k+1] ELSE buf[i]]
Load(buf, at, n) == [k \in 1..n |-> buf[(at + k - 1) % BUFSIZE]]
WrapLate(x) == IF x > BUFSIZE THEN x - BUFSIZE ELSE x
Wrap(x) == IF x >= BUFSIZE THEN x - BUFSIZE ELSE x

\* The window a node tells, the bytes read takes from its buffer, and whether
\* the blocked read can be satisfied.
WindowFull(n) == BUFSIZE
Window(n) == BUFSIZE - n.recv_len
ConsumedStill(n, len) == [n EXCEPT !.recv_len = @ - len]
Consumed(n, len) == [n EXCEPT !.recv_len = @ - len, !.start_r = Wrap(@ + len)]
SatisfiedLate(n) == n.read_uuid[1] >= 0 /\ n.recv_len > n.read_len
Satisfied(n) == n.read_uuid[1] >= 0 /\ n.recv_len >= n.read_len

Segment(flags, seq, ack, win, bytes) ==
  [flags |-> flags, seq |-> seq, ack |-> ack, win |-> win, data |-> bytes]

\* Every segment of the loop is len bytes long, for send_len does not change
\* in it; k is the iteration that leaves the loop.  BUFSIZE - send_len is
\* unsigned: a send_len above BUFSIZE makes it huge, and len is MSS.
send_segments(n, seg) ==
  LET room == BUFSIZE - n.send_len
      len == IF room \in 0..MSS THEN room ELSE MSS
      ends(j) == \/ n.send_len >= BUFSIZE
                 \/ n.send_len = 0
                 \/ (n.end_s + j*len) % BUFSIZE = n.start_s
      k == IF n.send_len = BUFSIZE THEN 0
           ELSE Least({j \in 1..seg : j = seg \/ ends(j)})
  IN  [node |-> [n EXCEPT !.end_s = (@ + k*len) % BUFSIZE,
                          !.seq = @ + k*len,
                          !.sending = @ /\ ~(k > 0 /\ n.send_len >= BUFSIZE)],
       out  |-> [j \in 1..k |->
                   Segment("ACK", n.seq + (j-1)*len, n.ack, Window(n),
                           Load(n.send_buffer, n.end_s + (j-1)*len, len))]]

Post(c, out) ==
  toPeer' = IF c \in Conns THEN [toPeer EXCEPT ![c] = @ \o out] ELSE toPeer

-----------------------------------------------------------------------------
(* Answers of system calls.  An answer to a call that is no longer pending *)
(* is ignored.                                                             *)

Answer(id, val) == [id |-> id, val |-> val, from |-> NoConn, data |-> <<>>]
ReadAnswer(id, n, len) ==
  [id |-> id, val |-> len, from |-> Conn(n), data |-> Load(n.recv_buffer, n.start_r, len)]

\* cs: the calls pending when the answers come.
Reply(answers, cs) ==
  LET hit(p) == {a \in answers : cs[p] # Idle /\ a.id = cs[p].id}
      of(p) == CHOOSE a \in hit(p) : TRUE
      by(p, op) == hit(p) # {} /\ cs[p].op = op
  IN  /\ calls' = [p \in Pids |-> IF hit(p) = {} THEN cs[p] ELSE Idle]
      /\ held' = [p \in Pids |-> IF by(p, "socket") \/ by(p, "accept")
                                 THEN Append(held[p], of(p).val) ELSE held[p]]
      /\ readBytes' = [p \in Pids |-> [c \in Conns |->
                         IF by(p, "read") /\ of(p).from = c
                         THEN readBytes[p][c] \o of(p).data ELSE readBytes[p][c]]]
      /\ wrote' = [p \in Pids |-> IF by(p, "write") /\ of(p).val # -1
                                  THEN wrote[p] + of(p).val ELSE wrote[p]]

-----------------------------------------------------------------------------
(* The system calls.  A process makes the calls of its program in turn and *)
(* is blocked in one until it is answered.                                 *)

Next_(p) == Head(prog[p])
Runs(p) == /\ calls[p] = Idle
           /\ prog[p] # <<>>
           /\ prog' = [prog EXCEPT ![p] = Tail(@)]
On(p) == held[p][Next_(p).on]
Enter(p, op) == /\ Runs(p)
                /\ Next_(p).op = op
                /\ op # "socket" => On(p) # -1
Id(p) == <<p, Len(prog[p])>>
Node(p) == getnodebysockfd(socklist, On(p), p)
Called(p, port) ==
  [calls EXCEPT ![p] = [op |-> Next_(p).op, id |-> Id(p), port |-> port]]

\* The call is answered with val, with -1, or not at all.
Returns(p, val) == Reply({Answer(Id(p), val)}, Called(p, 0))
Blocks(p) == Reply({}, Called(p, 0))

Socket(p) ==
  /\ Enter(p, "socket")
  /\ LET fd == Create(p, fds)
     IN  /\ \/ fd = -1 /\ UNCHANGED socklist
            \/ /\ fd # -1
               /\ \E st \in FreshStatus :
                    socklist' = <<FreshNode(p, fd, st)>> \o socklist
         /\ fds' = Grow(p, fds)
         /\ Returns(p, fd)
  /\ UNCHANGED <<backlog_list, accept_queue, toHost, toPeer, peer>>

\* A bound node that overlaps answers -1, and the node is bound all the same.
Bind(p) ==
  /\ Enter(p, "bind")
  /\ LET i == Node(p)
         overlap == \E j \in DOMAIN socklist :
                      /\ socklist[j].bound
                      /\ socklist[j].srcip \in {Next_(p).ip, AnyAddr}
                      /\ socklist[j].srcport = Next_(p).port
         free == i # 0 /\ ~socklist[i].bound
     IN  /\ socklist' = IF free
                        THEN [socklist EXCEPT ![i].srcip = Next_(p).ip,
                                              ![i].srcport = Next_(p).port,
                                              ![i].bound = TRUE]
                        ELSE socklist
         /\ IF i # 0 \/ overlap
            THEN Returns(p, IF overlap \/ ~free THEN -1 ELSE 0)
            ELSE Blocks(p)
  /\ UNCHANGED <<backlog_list, accept_queue, fds, toHost, toPeer, peer>>

Listen(p) ==
  /\ Enter(p, "listen")
  /\ Node(p) # 0
  /\ socklist' = [socklist EXCEPT ![Node(p)].status = "LISTENING",
                                  ![Node(p)].backlog = Next_(p).n]
  /\ Returns(p, 0)
  /\ UNCHANGED <<backlog_list, accept_queue, fds, toHost, toPeer, peer>>

Connect(p) ==
  /\ Enter(p, "connect")
  /\ Node(p) # 0
  /\ \E port \in allocate_port(socklist) :
       /\ socklist' = [socklist EXCEPT
                         ![Node(p)] = [@ EXCEPT !.srcip = Here,
                                         !.srcport = port,
                                         !.dest = Next_(p).to,
                                         !.bound = TRUE, !.uuid = Id(p),
                                         !.seq = 0, !.ack = 0,
                                         !.status = "SYN_SENT"]]
       /\ Post(<<Next_(p).to, port>>, <<Segment("SYN", 0, 0, BUFSIZE, <<>>)>>)
  /\ Blocks(p)
  /\ UNCHANGED <<backlog_list, accept_queue, fds, toHost, peer>>

\* A connection established but not yet returned.
AcceptableAgain(n, port, p) ==
  n.srcport \in {port, 0} /\ n.status # "LISTENING" /\ n.owner = p
AcceptableOpen(n, port, p) ==
  n.srcport \in {port, 0} /\ n.status = "ESTAB" /\ ~n.used /\ n.owner = p
Acceptable(n, port, p) ==
  /\ n.srcport \in {port, 0}
  /\ n.status # "LISTENING"
  /\ ~n.used
  /\ n.owner = p

\* The listening socket is looked up by descriptor alone, whoever owns it.
ListenerNamed(fd) ==
  Least({i \in DOMAIN socklist : /\ socklist[i].sockfd = fd
                                 /\ socklist[i].status = "LISTENING"})
Accept(p) ==
  /\ Enter(p, "accept")
  /\ LET l == ListenerNamed(On(p))
         own == Node(p)
         asked == IF own = 0 THEN 0 ELSE socklist[own].srcport
         i == Least({j \in DOMAIN socklist :
                       Acceptable(socklist[j], socklist[l].srcport, p)})
     IN  /\ l # 0
         /\ \/ /\ i # 0
               /\ socklist' = [socklist EXCEPT ![i].used = TRUE]
               /\ Reply({Answer(Id(p), socklist[i].sockfd)},
                        Called(p, asked))
               /\ UNCHANGED accept_queue
            \/ /\ i = 0
               /\ accept_queue' = Append(accept_queue,
                                    [uuid |-> Id(p), pid |-> p, sockfd |-> On(p)])
               /\ UNCHANGED socklist
               /\ Reply({}, Called(p, asked))
  /\ UNCHANGED <<backlog_list, fds, toHost, toPeer, peer>>

Read(p) ==
  /\ Enter(p, "read")
  /\ Node(p) # 0
  /\ LET i == Node(p)
         n == socklist[i]
         len == Next_(p).n
     IN  \/ /\ n.status = "ESTAB" /\ n.recv_len < len
            /\ socklist' = [socklist EXCEPT ![i].read_uuid = Id(p),
                                            ![i].read_len = len]
            /\ Blocks(p)
         \/ /\ n.status = "ESTAB" /\ n.recv_len >= len
            /\ socklist' = [socklist EXCEPT ![i] = Consumed(n, len)]
            /\ Reply({ReadAnswer(Id(p), n, len)}, Called(p, 0))
         \/ /\ n.status # "ESTAB"
            /\ UNCHANGED socklist
            /\ Returns(p, -1)
  /\ UNCHANGED <<backlog_list, accept_queue, fds, toHost, toPeer, peer>>

\* The bytes a process writes are 1, 2, 3, ... in the order write takes them.
Write(p) ==
  /\ Enter(p, "write")
  /\ Node(p) # 0
  /\ LET i == Node(p)
         n == socklist[i]
         len == IF n.send_len < Next_(p).n THEN n.send_len ELSE Next_(p).n
         text == [k \in 1..BUFSIZE |-> wrote[p] + k]
         m == [n EXCEPT !.send_buffer = Store(@, n.start_s, SubSeq(text, 1, len)),
                        !.start_s = Wrap(@ + len), !.send_len = @ - len]
         s == send_segments([m EXCEPT !.sending = TRUE], n.cwnd \div MSS)
     IN  \/ /\ n.status = "ESTAB" /\ n.send_len > 0
            /\ socklist' = [socklist EXCEPT ![i] = IF n.sending THEN m ELSE s.node]
            /\ Post(<<n.dest, n.srcport>>, IF n.sending THEN <<>> ELSE s.out)
            /\ Returns(p, len)
         \/ /\ n.status = "ESTAB" /\ n.send_len = 0
            /\ socklist' = [socklist EXCEPT
                              ![i].write_uuid = Id(p),
                              ![i].write_buf = Store(@, 0, SubSeq(text, 1, Next_(p).n))]
            /\ UNCHANGED toPeer
            /\ Blocks(p)
         \/ /\ n.status # "ESTAB"
            /\ UNCHANGED <<socklist, toPeer>>
            /\ Returns(p, -1)
  /\ UNCHANGED <<backlog_list, accept_queue, fds, toHost, peer>>

\* From CLOSE_WAIT the call returns -1 at once (success is never set); from
\* any other state than ESTAB it is not answered.
Close(p) ==
  /\ Enter(p, "close")
  /\ Node(p) # 0
  /\ LET i == Node(p)
         n == socklist[i]
         s == send_segments(n, BUFSIZE \div MSS)
         left == [n EXCEPT !.bound = FALSE, !.uuid = Id(p)]
         fin(seq) == Segment("FIN", seq, 0, BUFSIZE, <<>>)
         c == <<n.dest, n.srcport>>
     IN  \/ /\ n.status = "ESTAB"
            /\ socklist' = [socklist EXCEPT
                              ![i] = [s.node EXCEPT !.bound = FALSE,
                                        !.uuid = Id(p), !.status = "FIN_WAIT_1"]]
            /\ Post(c, Append(s.out, fin(s.node.seq)))
            /\ Blocks(p)
         \/ /\ n.status = "CLOSE_WAIT"
            /\ socklist' = [socklist EXCEPT ![i] = [left EXCEPT !.status = "LAST_ACK"]]
            /\ Post(c, <<fin(n.seq)>>)
            /\ Returns(p, -1)
         \/ /\ n.status \notin {"ESTAB", "CLOSE_WAIT"}
            /\ socklist' = [socklist EXCEPT ![i].bound = FALSE]
            /\ UNCHANGED toPeer
            /\ Blocks(p)
  /\ UNCHANGED <<backlog_list, accept_queue, fds, toHost, peer>>

\* A program does not use a descriptor that socket or accept failed to give.
Skip(p) ==
  /\ Runs(p)
  /\ Next_(p).op # "socket" /\ On(p) = -1
  /\ UNCHANGED <<kernel, apps, toHost, toPeer, peer>>

-----------------------------------------------------------------------------
(* packetArrived: the segment at the head of a connection's channel        *)

Delivers(c) == /\ toHost[c] # <<>>
               /\ toHost' = [toHost EXCEPT ![c] = Tail(@)]
Arriving(c, flags) == Delivers(c) /\ Head(toHost[c]).flags = flags

\* The backlog of listener l has room for another half-open connection.
RoomForOneMore(bl, l) == num_of_nodes(bl, l.sockfd, l.owner) <= l.backlog
Room(bl, l) == num_of_nodes(bl, l.sockfd, l.owner) < l.backlog

\* With no listener the handler reads the end of the list as if it were a
\* node.  Its backlog is whatever is there, so the SYN is dropped or answered.
\* A bound: its descriptor is one that no lookup asks for, so that no ACK
\* completes the half-open connection.
Syn(c) ==
  /\ Arriving(c, "SYN")
  /\ LET r == c[1]
         m == Head(toHost[c])
         i == Listener(socklist, c[2])
         l == IF i = 0 THEN [FreshNode(-1, -2, "LISTENING") EXCEPT !.backlog = 1]
              ELSE socklist[i]
         n == [l EXCEPT !.dest = r, !.seq = 0, !.ack = m.seq + 1,
                        !.status = "SYN_RCVD"]
         fits == /\ ~in_list(backlog_list, IF i = 0 THEN -1 ELSE l.sockfd, r)
                 /\ i = 0 \/ Room(backlog_list, l)
     IN  \/ /\ fits
            /\ backlog_list' = Append(backlog_list, n)
            /\ Post(c, <<Segment("SYNACK", n.seq, n.ack, BUFSIZE, <<>>)>>)
         \/ /\ ~(i # 0 /\ fits)
            /\ UNCHANGED <<backlog_list, toPeer>>
  /\ UNCHANGED <<socklist, accept_queue, fds, apps, prog, peer>>

ExpectingListener(n, port) == n.srcport = port /\ n.status = "LISTENING"
Expecting(n, port) == n.srcport = port /\ n.status = "SYN_SENT"

SynAck(c) ==
  /\ Arriving(c, "SYNACK")
  /\ LET m == Head(toHost[c])
         mine == {i \in DOMAIN socklist : Expecting(socklist[i], c[2])}
     IN  /\ socklist' = [i \in DOMAIN socklist |->
                           IF i \in mine
                           THEN [socklist[i] EXCEPT !.status = "ESTAB",
                                   !.seq = m.ack, !.ack = m.seq + 1]
                           ELSE socklist[i]]
         /\ Post(c, [k \in 1..Cardinality(mine) |->
                       Segment("ACK", m.ack, m.seq + 1, BUFSIZE, <<>>)])
         /\ Reply({Answer(socklist[i].uuid, 0) : i \in mine}, calls)
  /\ UNCHANGED <<backlog_list, accept_queue, fds, prog, peer>>

\* Whether an ACK of remote r completes half-open connection n; a listener
\* bound to any address is matched by the remote port alone.
MatchesAny(n, r) == n.dest = r \/ n.srcip = AnyAddr
Matches(n, r) == /\ n.dest = r \/ n.srcip = AnyAddr
                 /\ RemotePort[n.dest] = RemotePort[r] \/ n.srcport = 0

HalfOpen(c) ==
  LET i == Listener(socklist, c[2])
      fd == IF i = 0 THEN -1 ELSE socklist[i].sockfd
  IN  Least({j \in DOMAIN backlog_list : /\ backlog_list[j].sockfd = fd
                                         /\ Matches(backlog_list[j], c[1])})

\* First half of the ACK case: the half-open connection becomes a socket,
\* of the first blocked accept if there is one, else of the listener's owner.
Completed(c, m) ==
  LET j == HalfOpen(c)
      n == [backlog_list[j] EXCEPT !.seq = m.ack, !.ack = m.seq + 1,
                                   !.status = "ESTAB"]
      q == Head(accept_queue)
      p == IF accept_queue = <<>> THEN n.owner ELSE q.pid
      fd == Create(p, fds)
  IN  IF j = 0
      THEN [sl |-> socklist, bl |-> backlog_list, aq |-> accept_queue,
            fds |-> fds, answers |-> {}]
      ELSE [bl |-> Take(backlog_list, j), fds |-> Grow(p, fds),
            aq |-> IF accept_queue = <<>> THEN <<>> ELSE Tail(accept_queue),
            sl |-> IF accept_queue = <<>>
                   THEN <<[n EXCEPT !.sockfd = fd]>> \o socklist
                   ELSE IF fd = -1 THEN socklist
                   ELSE <<[n EXCEPT !.sockfd = fd, !.used = TRUE,
                                    !.owner = p]>> \o socklist,
            answers |-> IF accept_queue = <<>> THEN {}
                        ELSE {Answer(q.uuid, fd)}]

\* A data segment: stored whatever the room, then it may satisfy the read.
Receive(n, c, m) ==
  LET len == Len(m.data)
      stored == [n EXCEPT !.recv_buffer = Store(@, n.end_r, m.data),
                          !.recv_len = @ + len, !.end_r = Wrap(@ + len),
                          !.ack = m.seq + len]
      wakes == Satisfied(stored)
      left == IF wakes
              THEN [Consumed(stored, n.read_len) EXCEPT !.read_uuid = None]
              ELSE stored
  IN  [node |-> left, to |-> c,
       out |-> <<Segment("ACK", left.seq, left.ack, Window(left), <<>>)>>,
       answers |-> IF wakes
                   THEN {ReadAnswer(n.read_uuid, stored, n.read_len)}
                   ELSE {}]

\* An ACK without data: it frees MSS bytes, sends up to two segments more and
\* puts MSS bytes of a blocked write into the buffer.
Acked(n, m) ==
  LET opened == [n EXCEPT !.ack = m.seq,
                          !.send_len = IF n.sending THEN @ + MSS ELSE @,
                          !.cwnd = @ + (IF @ <= 10*MSS THEN MSS ELSE (MSS*MSS) \div @)]
      s == send_segments(opened, 2)
      wakes == n.write_uuid[1] > 0
      text == [k \in 1..MSS |-> n.write_buf[k-1]]
      filled == IF wakes
                THEN [s.node EXCEPT !.send_buffer = Store(@, n.start_s, text),
                                    !.start_s = Wrap(@ + MSS),
                                    !.send_len = @ - MSS]
                ELSE s.node
  IN  [to |-> <<n.dest, n.srcport>>,
       node |-> IF n.sending THEN [filled EXCEPT !.write_uuid = None] ELSE opened,
       out |-> IF n.sending THEN s.out ELSE <<>>,
       answers |-> IF n.sending /\ wakes
                   THEN {Answer(n.write_uuid, MSS)} ELSE {}]

\* What the ACK does to the node it is taken for.
AckOf(n, c, m) ==
  LET quiet(st, seq, answers) == [to |-> c, out |-> <<>>, answers |-> answers,
                                  node |-> [n EXCEPT !.status = st, !.ack = seq]]
      done == {Answer(n.uuid, 0)}
  IN  CASE n.status = "ESTAB" /\ m.data # <<>> -> Receive(n, c, m)
        [] n.status = "ESTAB" /\ m.data = <<>> -> Acked(n, m)
        [] n.status = "FIN_WAIT_1" -> quiet("FIN_WAIT_2", m.seq + 1, {})
        [] n.status = "LAST_ACK" -> quiet("LAST_ACK", m.seq + 1, done)
        [] n.status = "CLOSING" -> quiet("TIMED_WAIT", m.seq, done)
        [] OTHER -> quiet(n.status, m.seq, {})

\* The second half takes the first node with the remote as its destination,
\* whatever the local port.
Ack(c) ==
  /\ Arriving(c, "ACK")
  /\ LET m == Head(toHost[c])
         h == Completed(c, m)
         i == Least({j \in DOMAIN h.sl : /\ h.sl[j].dest = c[1]
                                         /\ h.sl[j].status # "LISTENING"})
         a == IF i = 0 THEN [to |-> c, out |-> <<>>, answers |-> {}]
              ELSE AckOf(h.sl[i], c, m)
     IN  /\ socklist' = IF i = 0 THEN h.sl
                        ELSE IF h.sl[i].status = "LAST_ACK" THEN Take(h.sl, i)
                        ELSE [h.sl EXCEPT ![i] = a.node]
         /\ backlog_list' = h.bl
         /\ accept_queue' = h.aq
         /\ fds' = h.fds
         /\ Post(a.to, a.out)
         /\ Reply(h.answers \cup a.answers, calls)
  /\ UNCHANGED <<prog, peer>>

\* Where a FIN takes a node, and the sequence number of the answer to it.
AfterFinEarly(st) == CASE st = "ESTAB" -> "CLOSE_WAIT" [] OTHER -> "TIMED_WAIT"
AfterFinWaiting(st) == CASE st = "ESTAB" -> "CLOSE_WAIT"
                         [] st = "FIN_WAIT_1" -> "FIN_WAIT_2"
                         [] st = "FIN_WAIT_2" -> "TIMED_WAIT"
AfterFin(st) == CASE st = "ESTAB" -> "CLOSE_WAIT"
                  [] st = "FIN_WAIT_1" -> "CLOSING"
                  [] st = "FIN_WAIT_2" -> "TIMED_WAIT"
FinSeqSame(n) == n.seq
FinSeq(n) == IF n.status = "ESTAB" THEN n.seq ELSE n.seq + 1

\* The end of the stream: a blocked read gets what there is.
EofAnswersSome(n) ==
  IF n.read_uuid[1] < 0 \/ n.recv_len = 0 THEN {}
  ELSE {ReadAnswer(n.read_uuid, n, n.recv_len)}
EofAnswers(n) ==
  IF n.read_uuid[1] < 0 THEN {}
  ELSE {ReadAnswer(n.read_uuid, n, n.recv_len)}

\* Only the first node with the remote as its destination is looked at.
Fin(c) ==
  /\ Arriving(c, "FIN")
  /\ LET m == Head(toHost[c])
         i == Least({j \in DOMAIN socklist : socklist[j].dest = c[1]})
         n == socklist[i]
         closes == i # 0 /\ n.status \in {"ESTAB", "FIN_WAIT_1", "FIN_WAIT_2"}
     IN  \/ /\ closes
            /\ socklist' = [socklist EXCEPT
                 ![i].status = AfterFin(@), ![i].ack = m.seq + 1,
                 ![i].seq = FinSeq(n),
                 ![i].read_uuid = IF n.status = "ESTAB" THEN None ELSE @]
            /\ Post(c, <<Segment("ACK", FinSeq(n), m.seq + 1, BUFSIZE, <<>>)>>)
            /\ Reply(CASE n.status = "ESTAB" -> EofAnswers(n)
                       [] n.status = "FIN_WAIT_2" -> {Answer(n.uuid, 0)}
                       [] OTHER -> {},
                     calls)
         \/ /\ ~closes
            /\ UNCHANGED <<socklist, toPeer, apps>>
  /\ UNCHANGED <<backlog_list, accept_queue, fds, prog, peer>>

-----------------------------------------------------------------------------
(* The remote ends (external): a TCP that opens, sends within the window   *)
(* it was last told, answers every segment and closes in its own time,     *)
(* with a FIN that has no other flag: the handler takes no other (839).    *)

Tell(c, segments) == toHost' = [toHost EXCEPT ![c] = @ \o segments]
Speak(flags, t, bytes) == Segment(flags, t.snd, t.rcv, BUFSIZE, bytes)

\* snd, rcv: the next sequence number to send, to receive; una: the oldest
\* one not acknowledged; got: the bytes received; n: the bytes sent.
Closed == [st |-> "CLOSED", snd |-> 0, una |-> 0, rcv |-> 0, win |-> BUFSIZE,
           got |-> <<>>, n |-> 0]

PeerOpen(c) ==
  /\ c \in Incoming /\ peer[c].st = "CLOSED"
  /\ peer' = [peer EXCEPT ![c].st = "SYN_SENT", ![c].snd = 1]
  /\ Tell(c, <<Speak("SYN", peer[c], <<>>)>>)
  /\ UNCHANGED <<kernel, apps, prog, toPeer>>

\* A SYN the host has dropped is sent again.
PeerRetry(c) ==
  /\ peer[c].st = "SYN_SENT" /\ toHost[c] = <<>> /\ toPeer[c] = <<>>
  /\ Tell(c, <<Speak("SYN", [peer[c] EXCEPT !.snd = 0], <<>>)>>)
  /\ UNCHANGED <<kernel, apps, prog, toPeer, peer>>

PeerSend(c) ==
  /\ peer[c].st \in {"ESTAB", "CLOSE_WAIT"}
  /\ \E len \in PeerSizes :
       LET t == peer[c]
       IN  /\ t.n + len <= PeerBytes[c[1]]
           /\ t.snd - t.una + len <= t.win
           /\ peer' = [peer EXCEPT ![c].snd = @ + len, ![c].n = @ + len]
           /\ Tell(c, <<Speak("ACK", t, [k \in 1..len |-> t.n + k])>>)
  /\ UNCHANGED <<kernel, apps, prog, toPeer>>

PeerClose(c) ==
  /\ peer[c].st \in {"ESTAB", "CLOSE_WAIT"}
  /\ peer' = [peer EXCEPT ![c].snd = @ + 1,
                ![c].st = IF @ = "ESTAB" THEN "FIN_WAIT_1" ELSE "LAST_ACK"]
  /\ Tell(c, <<Speak("FIN", peer[c], <<>>)>>)
  /\ UNCHANGED <<kernel, apps, prog, toPeer>>

\* The remote's next state and its reply to segment m.
Heard(c, t, m) ==
  LET open == t.st \in {"ESTAB", "FIN_WAIT_1", "FIN_WAIT_2"}
      seen == [t EXCEPT !.una = m.ack, !.win = m.win,
                 !.st = IF m.ack # t.snd THEN @
                        ELSE CASE @ = "SYN_RCVD" -> "ESTAB"
                               [] @ = "FIN_WAIT_1" -> "FIN_WAIT_2"
                               [] @ = "CLOSING" -> "TIMED_WAIT"
                               [] @ = "LAST_ACK" -> "DONE"
                               [] OTHER -> @]
      next(x, out) == [t |-> x, out |-> out]
  IN  CASE m.flags = "SYN" /\ t.st = "CLOSED" /\ c[1] \in Servers ->
             LET x == [t EXCEPT !.st = "SYN_RCVD", !.rcv = m.seq + 1, !.snd = 1]
             IN  next(x, <<Speak("SYNACK", [x EXCEPT !.snd = 0], <<>>)>>)
        [] m.flags = "SYNACK" /\ t.st = "SYN_SENT" ->
             LET x == [t EXCEPT !.st = "ESTAB", !.rcv = m.seq + 1, !.una = m.ack]
             IN  next(x, <<Speak("ACK", x, <<>>)>>)
        [] m.flags = "ACK" /\ m.data = <<>> /\ m.ack > 0 -> next(seen, <<>>)
        [] m.flags = "ACK" /\ m.data # <<>> /\ open ->
             LET x == IF m.seq # t.rcv THEN t
                      ELSE [seen EXCEPT !.rcv = @ + Len(m.data), !.got = @ \o m.data]
             IN  next(x, <<Speak("ACK", x, <<>>)>>)
        [] m.flags = "FIN" /\ open /\ m.seq = t.rcv ->
             LET x == [t EXCEPT !.rcv = @ + 1,
                         !.st = CASE @ = "ESTAB" -> "CLOSE_WAIT"
                                  [] @ = "FIN_WAIT_1" -> "CLOSING"
                                  [] @ = "FIN_WAIT_2" -> "TIMED_WAIT"]
             IN  next(x, <<Speak("ACK", x, <<>>)>>)
        [] OTHER -> next(t, <<>>)

Hears(c) == /\ toPeer[c] # <<>>
            /\ toPeer' = [toPeer EXCEPT ![c] = Tail(@)]

PeerReceive(c) ==
  /\ Hears(c)
  /\ LET h == Heard(c, peer[c], Head(toPeer[c]))
     IN  /\ peer' = [peer EXCEPT ![c] = h.t]
         /\ Tell(c, h.out)
  /\ UNCHANGED <<kernel, apps, prog>>

-----------------------------------------------------------------------------
Init ==
  /\ socklist = <<>> /\ backlog_list = <<>> /\ accept_queue = <<>>
  /\ fds = [p \in Pids |-> 0]
  /\ calls = [p \in Pids |-> Idle]
  /\ held = [p \in Pids |-> <<>>]
  /\ readBytes = [p \in Pids |-> [c \in Conns |-> <<>>]]
  /\ wrote = [p \in Pids |-> 0]
  /\ toHost = [c \in Conns |-> <<>>] /\ toPeer = [c \in Conns |-> <<>>]
  /\ \E s \in Scenarios :
       /\ prog = s.prog
       /\ peer = [c \in Conns |-> IF c \in Incoming \ s.clients
                                 THEN [Closed EXCEPT !.st = "DONE"] ELSE Closed]

Syscall(p) == \/ Socket(p) \/ Bind(p) \/ Listen(p) \/ Connect(p) \/ Accept(p)
              \/ Read(p) \/ Write(p) \/ Close(p) \/ Skip(p)
packetArrived(c) == Syn(c) \/ SynAck(c) \/ Ack(c) \/ Fin(c)
Remote(c) == PeerOpen(c) \/ PeerRetry(c) \/ PeerSend(c) \/ PeerClose(c)
             \/ PeerReceive(c)

Next == \/ \E p \in Pids : Syscall(p)
        \/ \E c \in Conns : packetArrived(c) \/ Remote(c)

Spec == Init /\ [][Next]_vars

\* The simulator delivers every segment and runs every process that is not
\* blocked; a remote answers, retries and, in the end, closes.  Only the calls
\* of p take from prog[p], only arrivals from toHost[c] and only the remote
\* from toPeer[c], so the fairness is stated of those three variables.
FairSpec == /\ Spec
            /\ \A p \in Pids : WF_prog(Runs(p))
            /\ \A c \in Conns : /\ WF_toHost(Delivers(c))
                                /\ WF_toPeer(Hears(c))
                                /\ WF_vars(PeerClose(c))
            /\ \A c \in Incoming : WF_vars(PeerRetry(c))

-----------------------------------------------------------------------------
(* Properties                                                              *)

\* Remotes the code can tell apart: by port alone (see Matches), each with one
\* connection, as nodes are found by remote alone; and an uninitialised status
\* that does not read as an open connection.
Distinct ==
  /\ \A q, r \in Remotes : RemotePort[q] = RemotePort[r] => q = r
  /\ \A c, d \in Incoming : c[1] = d[1] => c = d
  /\ \A c \in Incoming : c[1] \notin Servers
  /\ FreshStatus \subseteq {"LISTENING", "CLOSED", "SYN_SENT"}

\* A socket that is neither bound nor connected.
Unused(n) == n.dest = NoRemote /\ n.srcport = 0

\* How a process uses its sockets: it binds and connects fresh ones, not to
\* the ports connect draws from and to each server once, listens on bound
\* ones without lowering a backlog, and accepts on a listener of its own that
\* no listener of another process with the same descriptor hides, when all its
\* other sockets are connected.  Outside of this the code fails in the ways the
\* comments of Bind, Accept, Matches and Ack name.
Orderly ==
  /\ Distinct
  /\ \A p \in Pids : calls[p] = Idle /\ prog[p] # <<>> /\ Next_(p).op # "socket" =>
       LET k == Next_(p)
           n == socklist[Node(p)]
           own == Node(p) # 0
       IN  On(p) # -1 =>
           /\ own /\ k.op = "bind" => Unused(n) /\ k.port \notin Ephemeral \cup {0}
           /\ own /\ k.op = "listen" => /\ n.dest = NoRemote /\ n.srcport # 0
                                        /\ k.n >= n.backlog
           /\ own /\ k.op = "connect" =>
                /\ Unused(n) /\ k.to \in Servers
                /\ \A q \in Ephemeral : peer[<<k.to, q>>] = Closed
                /\ \A i \in DOMAIN socklist : socklist[i].dest # k.to
           /\ k.op = "accept" =>
                /\ ListenerNamed(On(p)) = Node(p)
                /\ \A i \in DOMAIN socklist :
                     socklist[i].owner = p => \/ socklist[i].status = "LISTENING"
                                              \/ socklist[i].dest # NoRemote

\* The acknowledgement that ends a handshake finds the listener that began it,
\* when it is of a remote that sends data.  It does not when a newer listener
\* of the port, or a fresh socket whose uninitialised status reads as a
\* listener's, comes first in the table: the segment is lost on the half-open
\* connection, and a later one may complete it with the bytes between them
\* missing.
Listened ==
  \A j \in DOMAIN backlog_list :
    LET e == backlog_list[j]
        in == toHost[Conn(e)]
        i == Listener(socklist, e.srcport)
    IN  e.sockfd # -2 /\ PeerBytes[e.dest] # 0 /\ in # <<>> /\ Head(in).flags = "ACK"
          => e.sockfd = IF i = 0 THEN -1 ELSE socklist[i].sockfd

\* What the theorems assume of the processes, and the nine programs of the
\* checked instance keep to.
Contract == Orderly /\ Listened

Pending(p, op) == calls[p] # Idle /\ calls[p].op = op
SeqLen(m) == Len(m.data) + (IF m.flags \in {"SYN", "SYNACK", "FIN"} THEN 1 ELSE 0)

\* Type invariant: the ring indices and lengths of every node stay inside its
\* buffers and every queue holds what the handlers put there
\* (DescriptorInfo, TCPAssignment.hpp:45).
TypeOK ==
  /\ \A i \in DOMAIN socklist :
       LET n == socklist[i]
       IN  /\ n.owner \in Pids /\ n.sockfd \in 1..MaxFd \cup {-1}
           /\ n.status \in Statuses
           /\ n.dest \in Remotes \cup {NoRemote}
           /\ {n.start_s, n.end_s, n.start_r, n.end_r} \subseteq Index
           /\ n.recv_len \in Nat /\ n.send_len \in Nat
  /\ \A i \in DOMAIN backlog_list : backlog_list[i].status = "SYN_RCVD"
  /\ \A i \in DOMAIN accept_queue : accept_queue[i].pid \in Pids
  /\ fds \in [Pids -> 0..MaxFd]

\* No descriptor is given out twice: neither two accepts nor an accept and a
\* socket call of a process return the same one (ACCEPT marks the node used,
\* and every connection gets a descriptor of its own).
AcceptDistinct ==
  \A p \in Pids : \A i, j \in DOMAIN held[p] :
    held[p][i] = held[p][j] /\ held[p][i] # -1 => i = j

\* A process blocked in accept is in accept_queue, once, and no connection it
\* could be given is waiting in the socket table meanwhile: whichever comes
\* first, the call or the connection, the other finds it.
NoAcceptMissed ==
  \A p \in Pids : Pending(p, "accept") =>
    /\ Cardinality({i \in DOMAIN accept_queue :
                      accept_queue[i].uuid = calls[p].id}) = 1
    /\ \A i \in DOMAIN socklist :
         LET n == socklist[i]
         IN  ~(/\ n.owner = p /\ ~n.used /\ n.srcport = calls[p].port
               /\ n.status \notin {"LISTENING", "SYN_SENT"})

\* The half-open connections of a listening socket never exceed the backlog it
\* was given, through retried SYNs, completions and several remotes.
BacklogBound ==
  \A i \in DOMAIN socklist :
    socklist[i].status = "LISTENING" =>
      num_of_nodes(backlog_list, socklist[i].sockfd, socklist[i].owner)
        <= socklist[i].backlog

\* A connection has one node, and a node past the handshake has a remote that
\* is past it too or is about to hear the last segment of it.
HandshakeAgreed ==
  \A i \in DOMAIN socklist :
    LET n == socklist[i]
        up == n.status \notin {"LISTENING", "CLOSED", "SYN_SENT"}
    IN  up => /\ peer[Conn(n)].st \notin {"CLOSED", "SYN_SENT"}
              /\ \A j \in DOMAIN socklist :
                   j # i => Conn(socklist[j]) # Conn(n)
              /\ \A j \in DOMAIN backlog_list :
                   backlog_list[j].sockfd # -2 => backlog_list[j].dest # n.dest

\* A socket that has sent no data; a write of no bytes may send some (see Acked).
Silent(n) == wrote[n.owner] = 0 /\ ~n.sending /\ n.send_len = BUFSIZE

\* The two ends agree on the close: what the host takes for the
\* acknowledgement of its FIN is one, and it is in a passive close only when
\* the remote has sent its FIN.  Of connections without data: FIN_WAIT_1 takes
\* the acknowledgement of data, and data itself, for that of the FIN.
CloseAgreed ==
  \A i \in DOMAIN socklist :
    LET n == socklist[i]
        theirs == peer[Conn(n)].st
        quiet == Silent(n) /\ peer[Conn(n)].n = 0
    IN  n.status \in Statuses \ {"LISTENING", "CLOSED", "SYN_SENT"} /\ quiet =>
        /\ n.status \in {"FIN_WAIT_2", "TIMED_WAIT"} =>
             theirs \notin {"CLOSED", "SYN_SENT", "SYN_RCVD", "ESTAB", "FIN_WAIT_1"}
        /\ n.status \in {"CLOSE_WAIT", "LAST_ACK", "CLOSING", "TIMED_WAIT"} =>
             theirs \notin {"CLOSED", "SYN_SENT", "SYN_RCVD", "ESTAB", "CLOSE_WAIT"}

\* The segments under way to a remote continue, without gap or overlap, the
\* sequence it has received: no handler forgets to count a SYN, a FIN or data
\* it has sent.
InSequence ==
  \A c \in Conns : \A k \in DOMAIN toPeer[c] :
    LET s == toPeer[c]
        before == IF k = 1 THEN peer[c].rcv ELSE s[k-1].seq + SeqLen(s[k-1])
    IN  s[k].seq = before

\* What read has returned of a connection, followed by what the connection
\* still buffers, is the stream of the remote from its first byte on, and all
\* of what has been acknowledged.
ReceivedInOrder ==
  \A i \in DOMAIN socklist :
    LET n == socklist[i]
        all == readBytes[n.owner][Conn(n)] \o Load(n.recv_buffer, n.start_r, n.recv_len)
    IN  n.status = "ESTAB" => /\ all = [k \in 1..Len(all) |-> k]
                              /\ n.ack = Len(all) + 1

\* The receive buffer never holds more than it has room for, although
\* arriving data is stored without a check: the windows told are enough.
NoOverrun == \A i \in DOMAIN socklist : socklist[i].recv_len <= BUFSIZE

\* A process blocked in read is recorded in a node that has fewer bytes than
\* it asked for and whose remote has not been heard to finish.
ReaderHeld ==
  \A p \in Pids : Pending(p, "read") =>
    \E i \in DOMAIN socklist :
      LET n == socklist[i]
      IN  /\ n.owner = p /\ n.read_uuid = calls[p].id
          /\ n.status = "ESTAB" /\ n.recv_len < n.read_len

\* connect to a remote that listens returns.
ConnectReturns ==
  \A p \in Pids : \A r \in Servers :
    (\E i \in DOMAIN socklist : /\ Pending(p, "connect")
                                /\ socklist[i].uuid = calls[p].id
                                /\ socklist[i].dest = r) ~> calls[p] = Idle

\* close of a connected socket returns, whoever closes first.
CloseReturns ==
  \A p \in Pids :
    (\E i \in DOMAIN socklist : /\ Pending(p, "close")
                                /\ socklist[i].uuid = calls[p].id)
      ~> calls[p] = Idle

\* read returns: with what was asked for, or with what there is when the
\* remote closes.
ReadReturns == \A p \in Pids : Pending(p, "read") ~> calls[p] = Idle

=============================================================================

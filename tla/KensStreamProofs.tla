-------------------------- MODULE KensStreamProofs --------------------------
(***************************************************************************)
(* How the two ends of a connection of KENS close it, and the streams a    *)
(* host receives: what its processes have read of a connection and what    *)
(* the connection still buffers.  For processes that use their sockets as  *)
(* Orderly says, the streams also for listeners that Listened finds.       *)
(***************************************************************************)
EXTENDS KensRoomProofs

-----------------------------------------------------------------------------
(* The close: what the two ends have said to each other.                   *)

\* The remote has sent its FIN.
Said(t) == t.st \in {"FIN_WAIT_1", "FIN_WAIT_2", "CLOSING", "LAST_ACK", "TIMED_WAIT", "DONE"}
\* No write has taken room that is not given back, and none waits.
Ample(n) == n.send_len >= BUFSIZE /\ n.write_uuid[1] <= 0
\* Silent of KensTcp, with w for what the processes have written.
Hushed(n, w) == w[n.owner] = 0 /\ ~n.sending /\ n.send_len = BUFSIZE

NodeSends(n, w) == ~Up(n.status) \/ w[n.owner] = 0 => Ample(n)
\* Of a connection without data: nothing under way to the remote is data, and
\* an acknowledgement under way to the host is of its FIN.
Calm(n, t, in, out) ==
  /\ \A k \in DOMAIN out : out[k].data = <<>>
  /\ n.status \in {"FIN_WAIT_2", "TIMED_WAIT"} \/ (\E k \in DOMAIN in : in[k].flags = "ACK")
       => Ended(t)
NodeClose(n, w, t, in, out) ==
  Up(n.status) =>
    /\ n.status \in {"CLOSE_WAIT", "LAST_ACK", "CLOSING", "TIMED_WAIT"} => Said(t)
    /\ Hushed(n, w) /\ t.n = 0 => Calm(n, t, in, out)
\* Of a half-open connection without data, the one acknowledgement under way is
\* the handshake's.
HalfClose(t, in) == Past(t) /\ t.n = 0 => \A k \in DOMAIN in : in[k].flags = "ACK" => k = 1
WireClose(t, in) == \A k \in DOMAIN in : in[k].flags = "FIN" => Said(t)

WroteOK == \A p \in Pids : wrote[p] \in Nat
NodesClose == \A i \in DOMAIN socklist :
                LET n == socklist[i]
                    c == Conn(n)
                IN  NodeSends(n, wrote) /\ NodeClose(n, wrote, peer[c], toHost[c], toPeer[c])
HalvesClose == \A j \in DOMAIN backlog_list :
                 LET e == backlog_list[j]
                     c == Conn(e)
                 IN  Ample(e) /\ (Live(e) => HalfClose(peer[c], toHost[c]))
WiresClose == \A c \in Conns : WireClose(peer[c], toHost[c])
CloseOK == WroteOK /\ NodesClose /\ HalvesClose /\ WiresClose

\* What write has returned only grows.
WroteMore == WroteOK' /\ \A p \in Pids : wrote'[p] = 0 => wrote[p] = 0
Above(A) == \A a \in A : a.val >= -1

LEMMA ReplyWrote ==
  ASSUME NEW A \in SUBSET AnswerRecs, NEW cs \in [Pids -> CallRecs], Reply(A, cs),
         NEW p \in Pids
  PROVE  /\ \/ wrote'[p] = wrote[p]
            \/ \E a \in A : a.val # -1 /\ wrote'[p] = wrote[p] + a.val
         /\ \A b : /\ A = {b} /\ cs[p] # Idle /\ cs[p].op = "write"
                   /\ b.id = cs[p].id /\ b.val # -1
                   => wrote'[p] = wrote[p] + b.val
<1> DEFINE hit(q) == {a \in A : cs[q] # Idle /\ a.id = cs[q].id}
           of(q) == CHOOSE a \in hit(q) : TRUE
           by(q, op) == hit(q) # {} /\ cs[q].op = op
<1>1. wrote'[p] = IF by(p, "write") /\ of(p).val # -1 THEN wrote[p] + of(p).val ELSE wrote[p]
  BY DEF Reply
<1>2. hit(p) # {} => of(p) \in hit(p) /\ of(p) \in A
  OBVIOUS
<1>3. ASSUME NEW b, A = {b}, cs[p] # Idle, b.id = cs[p].id
      PROVE  hit(p) = {b} /\ of(p) = b
  BY <1>3
<1> HIDE DEF hit, of
<1>4. wrote'[p] = wrote[p] \/ \E a \in A : a.val # -1 /\ wrote'[p] = wrote[p] + a.val
  BY <1>1, <1>2
<1>5. \A b : /\ A = {b} /\ cs[p] # Idle /\ cs[p].op = "write"
             /\ b.id = cs[p].id /\ b.val # -1
             => wrote'[p] = wrote[p] + b.val
  BY <1>1, <1>3
<1> QED BY <1>4, <1>5

LEMMA RepliesMore ==
  ASSUME NEW A \in SUBSET AnswerRecs, NEW cs \in [Pids -> CallRecs], Reply(A, cs), Above(A),
         WroteOK
  PROVE  WroteMore
<1>1. ASSUME NEW p \in Pids
      PROVE  wrote'[p] \in Nat /\ (wrote'[p] = 0 => wrote[p] = 0)
  <2>1. wrote[p] \in Nat
    BY DEF WroteOK
  <2>2. CASE wrote'[p] = wrote[p]
    BY <2>1, <2>2
  <2>3. ASSUME NEW a \in A, a.val # -1, wrote'[p] = wrote[p] + a.val
        PROVE  wrote'[p] \in Nat /\ (wrote'[p] = 0 => wrote[p] = 0)
    <3>1. a.val \in Int /\ a.val >= -1
      BY DEF Above, AnswerRecs
    <3>2. a.val \in Nat
      BY <3>1, <2>3
    <3> QED BY <2>1, <2>3, <3>2
  <2> QED BY <2>2, <2>3, ReplyWrote
<1> QED BY <1>1 DEF WroteMore, WroteOK

LEMMA SameMore == ASSUME WroteOK, UNCHANGED wrote PROVE WroteMore
BY DEF WroteMore, WroteOK

\* A process that is answered by itself alone.
LEMMA ReturnsMore ==
  ASSUME Typed, WroteOK, NEW p \in Pids, NEW op \in Ops, Enter(p, op),
         Blocks(p) \/ \E val \in Int : val >= -1 /\ Returns(p, val)
  PROVE  WroteMore
<1>1. Called(p, 0) \in [Pids -> CallRecs] /\ Id(p) \in Ids
  BY CalledType, Running DEF Enter
<1>2. CASE Blocks(p)
  BY <1>1, <1>2, RepliesMore, Empties DEF Blocks, Above
<1>3. ASSUME NEW val \in Int, val >= -1, Returns(p, val)
      PROVE  WroteMore
  <2>1. {Answer(Id(p), val)} \in SUBSET AnswerRecs
    BY <1>1, AnswerType
  <2>2. Above({Answer(Id(p), val)})
    BY <1>3 DEF Above, Answer
  <2> QED BY <1>1, <1>3, <2>1, <2>2, RepliesMore DEF Returns
<1> QED BY <1>2, <1>3

\* What a call does to a node, as far as the close is concerned.
Goes(m, n, new) ==
  /\ m.owner = n.owner
  /\ NodeSends(n, wrote) => NodeSends(m, wrote')
  /\ Up(m.status) => \/ m.status = n.status
                     \/ n.status = "ESTAB" /\ m.status = "FIN_WAIT_1"
                     \/ n.status = "CLOSE_WAIT" /\ m.status = "LAST_ACK"
  /\ Hushed(m, wrote') => Hushed(n, wrote) /\ \A k \in DOMAIN new : new[k].data = <<>>

LEMMA SameGoes ==
  ASSUME NEW n \in SockNode, NEW m, m.owner = n.owner, m.status = n.status,
         m.send_len = n.send_len, m.write_uuid = n.write_uuid, m.sending = n.sending, WroteMore
  PROVE  Goes(m, n, <<>>)
<1>1. n.owner \in Pids
  BY NodeFields DEF SockNode
<1>2. wrote'[n.owner] = 0 => wrote[n.owner] = 0
  BY <1>1 DEF WroteMore
<1> QED BY <1>2 DEF Goes, NodeSends, Ample, Hushed

LEMMA GoesClose ==
  ASSUME NEW n, NEW m, NEW new \in Seq(Segments), NEW t, NEW in, NEW out \in Seq(Segments),
         Goes(m, n, new), NodeClose(n, wrote, t, in, out)
  PROVE  NodeClose(m, wrote', t, in, out \o new)
<1>1. \A k \in DOMAIN (out \o new) :
        \/ k \in DOMAIN out /\ (out \o new)[k] = out[k]
        \/ k - Len(out) \in DOMAIN new /\ (out \o new)[k] = new[k - Len(out)]
  BY ConcatElements
<1>2. ASSUME Up(m.status)
      PROVE  /\ Up(n.status)
             /\ m.status \in {"CLOSE_WAIT", "LAST_ACK", "CLOSING", "TIMED_WAIT"} =>
                  n.status \in {"CLOSE_WAIT", "LAST_ACK", "CLOSING", "TIMED_WAIT"}
             /\ m.status \in {"FIN_WAIT_2", "TIMED_WAIT"} => n.status = m.status
  BY <1>2 DEF Goes, Up
<1>3. ASSUME Up(m.status), Hushed(m, wrote'), t.n = 0
      PROVE  Calm(m, t, in, out \o new)
  <2>1. Calm(n, t, in, out) /\ \A k \in DOMAIN new : new[k].data = <<>>
    BY <1>2, <1>3 DEF Goes, NodeClose
  <2> QED BY <1>1, <1>2, <1>3, <2>1 DEF Calm
<1> QED BY <1>2, <1>3 DEF NodeClose

\* A buffer that is full or overfull sends nothing in a write or a close.
LEMMA SentFull ==
  ASSUME NEW O, NEW D, NEW n \in NodeOf(O, D), NEW seg \in Nat
  PROVE  LET s == send_segments(n, seg)
         IN  /\ s.node.owner = n.owner /\ s.node.status = n.status
             /\ s.node.send_len = n.send_len /\ s.node.write_uuid = n.write_uuid
             /\ n.send_len = BUFSIZE => s.node.sending = n.sending /\ s.out = <<>>
<1>1. PICK e \in Index, q \in Int, b \in BOOLEAN : send_segments(n, seg).node = Sent(n, e, q, b)
  BY SendSegmentsType
<1>2. /\ Sent(n, e, q, b).owner = n.owner /\ Sent(n, e, q, b).status = n.status
      /\ Sent(n, e, q, b).send_len = n.send_len /\ Sent(n, e, q, b).write_uuid = n.write_uuid
  BY DEF Sent, NodeOf
<1>3. ASSUME n.send_len = BUFSIZE
      PROVE  send_segments(n, seg).node.sending = n.sending /\ send_segments(n, seg).out = <<>>
  <2> DEFINE room == BUFSIZE - n.send_len
             len == IF room \in 0..MSS THEN room ELSE MSS
             ends(j) == \/ n.send_len >= BUFSIZE
                        \/ n.send_len = 0
                        \/ (n.end_s + j*len) % BUFSIZE = n.start_s
             k == IF n.send_len = BUFSIZE THEN 0 ELSE Least({j \in 1..seg : j = seg \/ ends(j)})
             e2 == (n.end_s + k*len) % BUFSIZE
             q2 == n.seq + k*len
             b2 == n.sending /\ ~(k > 0 /\ n.send_len >= BUFSIZE)
             o(j) == Segment("ACK", n.seq + (j-1)*len, n.ack, Window(n),
                             Load(n.send_buffer, n.end_s + (j-1)*len, len))
  <2>1. send_segments(n, seg) = [node |-> [n EXCEPT !.end_s = e2, !.seq = q2, !.sending = b2],
                                 out |-> [j \in 1..k |-> o(j)]]
    BY DEF send_segments
  <2>2. k = 0 /\ n.sending \in BOOLEAN
    BY <1>3, NodeFields
  <2>3. b2 = n.sending
    BY <2>2
  <2>4. [j \in 1..k |-> o(j)] = <<>>
    <3> HIDE DEF k, o
    <3>1. 1..k = {}
      BY <2>2
    <3> QED BY <3>1
  <2>5. /\ send_segments(n, seg).node = [n EXCEPT !.end_s = e2, !.seq = q2, !.sending = b2]
        /\ send_segments(n, seg).out = [j \in 1..k |-> o(j)]
    BY <2>1
  <2> HIDE DEF e2, q2, b2
  <2>6. [n EXCEPT !.end_s = e2, !.seq = q2, !.sending = b2].sending = b2
    BY DEF NodeOf
  <2> QED BY <2>3, <2>4, <2>5, <2>6
<1> QED BY <1>1, <1>2, <1>3

\* What a call does, as far as the close is concerned.
CallCloses(p) ==
  \/ socklist' = socklist /\ toPeer' = toPeer
  \/ CreatesOne(p) /\ toPeer' = toPeer
  \/ \E i \in DOMAIN socklist : \E m \in SockNode :
       /\ socklist' = [socklist EXCEPT ![i] = m]
       /\ \/ /\ Keeps(m, socklist[i])
             /\ \E new \in Seq(Segments) :
                  /\ Goes(m, socklist[i], new)
                  /\ \/ new = <<>> /\ toPeer' = toPeer
                     \/ Up(socklist[i].status) /\ Post(Conn(socklist[i]), new)
          \/ Plain(m, socklist[i]) /\ Ample(m) /\ toPeer' = toPeer
          \/ Dials(m, socklist[i]) /\ Ample(m) /\ Post(Conn(m), <<SynSegment>>)

\* Of the calls, write and close have to do with the sending side.
LEMMA BindCloses ==
  ASSUME Typed, Orderly, ConnOK, CloseOK, NEW p \in Pids, Bind(p) \/ Listen(p) \/ Connect(p)
  PROVE  CallCloses(p)
<1>1. /\ Node(p) # 0 => /\ Node(p) \in DOMAIN socklist /\ socklist[Node(p)] \in SockNode
                        /\ NodeSends(socklist[Node(p)], wrote)
  BY NodeLookup DEF CloseOK, NodesClose
<1> DEFINE n == socklist[Node(p)]
<1>2. CASE Bind(p)
  <2>1. toPeer' = toPeer /\ Enter(p, "bind") /\ Runs(p)
    BY <1>2 DEF Bind, Enter
  <2>2. CASE socklist' = socklist
    BY <2>1, <2>2 DEF CallCloses
  <2>3. CASE /\ Node(p) # 0 /\ Bound(p) \in SockNode
             /\ Bound(p).srcport = Next_(p).port
             /\ Bound(p).status = n.status
             /\ Bound(p).dest = n.dest
             /\ socklist' = [socklist EXCEPT ![Node(p)] = Bound(p)]
    <3>1. /\ Bound(p).send_len = n.send_len /\ Bound(p).write_uuid = n.write_uuid
          /\ Bound(p).recv_len = n.recv_len
      BY <1>1, <2>3 DEF Bound, SockNode, NodeOf
    <3>2. n.dest = NoRemote /\ Next_(p).port \notin Ephemeral /\ Next_(p).port # 0
      BY <2>1, <2>3, OrderlyNode DEF Unused
    <3>3. ~Up(n.status)
      BY <1>1, <2>3, <3>2 DEF ConnOK, NodesOK, NodeOK
    <3>4. Plain(Bound(p), n) /\ Ample(Bound(p))
      BY <1>1, <2>3, <3>1, <3>2, <3>3 DEF Plain, NodeSends, Ample
    <3> QED BY <1>1, <2>1, <2>3, <3>4 DEF CallCloses
  <2> QED BY <1>2, <2>2, <2>3, BindCases
<1>3. CASE Listen(p)
  <2>1. toPeer' = toPeer /\ Enter(p, "listen") /\ Runs(p) /\ Node(p) # 0
    BY <1>3 DEF Listen, Enter
  <2>2. /\ Listening(p) \in SockNode
        /\ Listening(p).status = "LISTENING" /\ Listening(p).srcport = n.srcport
        /\ Listening(p).dest = n.dest
        /\ socklist' = [socklist EXCEPT ![Node(p)] = Listening(p)]
    BY <1>3, ListenCases
  <2>3. /\ Listening(p).send_len = n.send_len /\ Listening(p).write_uuid = n.write_uuid
        /\ Listening(p).recv_len = n.recv_len
    BY <1>1, <2>1 DEF Listening, SockNode, NodeOf
  <2>4. n.dest = NoRemote /\ n.srcport # 0
    BY <2>1, OrderlyNode
  <2>5. ~Up(n.status) /\ n.srcport \notin Ephemeral /\ ~Up(Listening(p).status)
    BY <1>1, <2>1, <2>2, <2>4 DEF ConnOK, NodesOK, NodeOK, Up
  <2>6. Plain(Listening(p), n) /\ Ample(Listening(p))
    BY <1>1, <2>1, <2>2, <2>3, <2>4, <2>5 DEF Plain, NodeSends, Ample
  <2> QED BY <1>1, <2>1, <2>2, <2>6 DEF CallCloses
<1>4. CASE Connect(p)
  <2>1. Enter(p, "connect") /\ Runs(p) /\ Node(p) # 0
    BY <1>4 DEF Connect, Enter
  <2>2. PICK port \in allocate_port(socklist) :
          /\ Connecting(p, port) \in SockNode
          /\ Connecting(p, port).srcport = port /\ Connecting(p, port).dest = Next_(p).to
          /\ Connecting(p, port).status = "SYN_SENT"
          /\ socklist' = [socklist EXCEPT ![Node(p)] = Connecting(p, port)]
          /\ Post(<<Next_(p).to, port>>, <<Segment("SYN", 0, 0, BUFSIZE, <<>>)>>)
    BY <1>4, ConnectCases
  <2>3. /\ Connecting(p, port).backlog = n.backlog /\ Connecting(p, port).recv_len = n.recv_len
        /\ Connecting(p, port).send_len = n.send_len
        /\ Connecting(p, port).write_uuid = n.write_uuid
    BY <1>1, <2>1 DEF Connecting, SockNode, NodeOf
  <2>4. port # 0
    BY EndpointsAssumption DEF allocate_port
  <2>5. /\ n.dest = NoRemote /\ Next_(p).to \in Servers
        /\ \A q \in Ephemeral : peer[<<Next_(p).to, q>>] = Closed
        /\ \A i \in DOMAIN socklist : socklist[i].dest # Next_(p).to
    BY <2>1, OrderlyNode DEF Unused
  <2>6. ~Up(n.status)
    BY <1>1, <2>1, <2>5 DEF ConnOK, NodesOK, NodeOK
  <2>7. Dials(Connecting(p, port), n) /\ Ample(Connecting(p, port))
    BY <1>1, <2>1, <2>2, <2>3, <2>4, <2>5, <2>6 DEF Dials, NodeSends, Ample
  <2>8. Post(Conn(Connecting(p, port)), <<SynSegment>>)
    BY <2>2 DEF Conn, SynSegment
  <2> QED BY <1>1, <2>1, <2>2, <2>7, <2>8 DEF CallCloses
<1> QED BY <1>2, <1>3, <1>4

LEMMA ReadCloses ==
  ASSUME Typed, WroteMore, NEW p \in Pids, Accept(p) \/ Read(p)
  PROVE  CallCloses(p)
<1>1. CASE Accept(p)
  <2>1. toPeer' = toPeer
    BY <1>1 DEF Accept
  <2>2. CASE Found(p) = 0
    <3>1. socklist' = socklist
      BY <1>1, <2>2, AcceptCases
    <3> QED BY <2>1, <3>1 DEF CallCloses
  <2>3. CASE Found(p) # 0
    <3> DEFINE n == socklist[Found(p)]
    <3>1. /\ Found(p) \in DOMAIN socklist /\ Taken(p) \in SockNode /\ n \in SockNode
          /\ socklist' = [socklist EXCEPT ![Found(p)] = Taken(p)]
          /\ Keeps(Taken(p), n) /\ Taken(p).status = n.status /\ Taken(p).owner = n.owner
      BY <1>1, <2>3, TakenFacts DEF Keeps
    <3>2. /\ Taken(p).send_len = n.send_len /\ Taken(p).write_uuid = n.write_uuid
          /\ Taken(p).sending = n.sending
      BY <3>1 DEF Taken, SockNode, NodeOf
    <3>3. Goes(Taken(p), n, <<>>)
      BY <3>1, <3>2, SameGoes
    <3> QED BY <2>1, <3>1, <3>3, Empties DEF CallCloses
  <2> QED BY <2>2, <2>3
<1>2. CASE Read(p)
  <2> DEFINE n == socklist[Node(p)]
             c == Consumed(n, Next_(p).n)
  <2>1. toPeer' = toPeer
    BY <1>2 DEF Read
  <2>2. Node(p) \in DOMAIN socklist /\ n \in SockNode
    BY <1>2, ReadCases, NodeLookup
  <2>3. \/ socklist' = socklist
        \/ \E m \in {ReadWaits(p), c} : /\ m \in SockNode /\ SameSocket(m, n)
                                        /\ m.status = n.status
                                        /\ socklist' = [socklist EXCEPT ![Node(p)] = m]
    BY <1>2, ReadCases
  <2>4. \A m \in {ReadWaits(p), c} : /\ m.send_len = n.send_len /\ m.write_uuid = n.write_uuid
                                     /\ m.sending = n.sending
    BY <2>2 DEF ReadWaits, Consumed, SockNode, NodeOf
  <2> HIDE DEF c, n
  <2>5. ASSUME NEW m \in {ReadWaits(p), c}, m \in SockNode, SameSocket(m, n), m.status = n.status,
               socklist' = [socklist EXCEPT ![Node(p)] = m]
        PROVE  CallCloses(p)
    <3>1. Goes(m, n, <<>>)
      BY <2>2, <2>4, <2>5, SameGoes DEF SameSocket
    <3>2. Keeps(m, n)
      BY <2>5, SameKeeps
    <3> QED BY <2>1, <2>2, <2>5, <3>1, <3>2, Empties DEF CallCloses, n
  <2> QED BY <2>1, <2>3, <2>5 DEF CallCloses
<1> QED BY <1>1, <1>2

\* Every call answers with -1 or more.
LEMMA SyscallMore ==
  ASSUME Typed, CallsOK, WroteOK, NEW p \in Pids, Syscall(p)
  PROVE  WroteMore
<1>1. CASE Skip(p)
  <2>1. UNCHANGED wrote
    BY <1>1 DEF Skip, apps
  <2> QED BY <2>1, SameMore
<1> DEFINE Plainly(op) == /\ Enter(p, op) /\ op \in Ops
                          /\ Blocks(p) \/ \E val \in Int : val >= -1 /\ Returns(p, val)
<1>2. ASSUME NEW op, Plainly(op) PROVE WroteMore
  BY <1>2, ReturnsMore
<1> HIDE DEF Plainly
<1>3. CASE Socket(p)
  <2>1. Enter(p, "socket") /\ Returns(p, Create(p, fds))
    BY <1>3 DEF Socket
  <2>2. Create(p, fds) \in Int /\ Create(p, fds) >= -1
    <3>1. fds[p] \in 0..MaxFd
      BY DEF Typed, KernelType
    <3> QED BY <3>1, MaxFdAssumption DEF Create
  <2>3. Plainly("socket")
    BY <2>1, <2>2 DEF Plainly, Ops
  <2> QED BY <1>2, <2>3
<1>4. CASE Bind(p)
  <2>1. Enter(p, "bind") /\ (Blocks(p) \/ Returns(p, -1) \/ Returns(p, 0))
    BY <1>4 DEF Bind
  <2>2. Plainly("bind")
    BY <2>1 DEF Plainly, Ops
  <2> QED BY <1>2, <2>2
<1>5. CASE Listen(p)
  <2>1. Plainly("listen")
    BY <1>5 DEF Listen, Plainly, Ops
  <2> QED BY <1>2, <2>1
<1>6. CASE Connect(p)
  <2>1. Plainly("connect")
    BY <1>6 DEF Connect, Plainly, Ops
  <2> QED BY <1>2, <2>1
<1>7. CASE Accept(p)
  <2>1. Enter(p, "accept") /\ Runs(p) /\ Asked(p) \in Nat
    BY <1>7, AcceptCases
  <2>2. Called(p, Asked(p)) \in [Pids -> CallRecs] /\ Id(p) \in Ids
    BY <2>1, CalledType, Running DEF Enter, Ops
  <2>3. CASE Reply({}, Called(p, Asked(p)))
    BY <2>2, <2>3, RepliesMore, Empties DEF Above
  <2>4. ASSUME Found(p) \in DOMAIN socklist,
               Reply({Answer(Id(p), socklist[Found(p)].sockfd)}, Called(p, Asked(p)))
        PROVE  WroteMore
    <3> DEFINE fd == socklist[Found(p)].sockfd
    <3>1. socklist[Found(p)] \in SockNode
      BY <2>4, ListElements DEF Typed, KernelType
    <3>5. fd \in Descriptors
      BY <3>1, NodeFields DEF SockNode
    <3> HIDE DEF fd
    <3>2. fd \in Int /\ fd >= -1
      BY <3>5, MaxFdAssumption DEF Descriptors
    <3>3. {Answer(Id(p), fd)} \in SUBSET AnswerRecs
      BY <2>2, <3>2, AnswerType
    <3>4. Above({Answer(Id(p), fd)})
      BY <3>2 DEF Above, Answer
    <3> QED BY <2>2, <2>4, <3>3, <3>4, RepliesMore DEF fd
  <2> QED BY <1>7, <2>3, <2>4, AcceptCases
<1>10. CASE Read(p)
  <2> DEFINE n == socklist[Node(p)]
             len == Next_(p).n
  <2>1. /\ Enter(p, "read") /\ Runs(p) /\ Node(p) # 0 /\ len \in 0..BUFSIZE
        /\ Blocks(p) \/ Returns(p, -1) \/ Reply({ReadAnswer(Id(p), n, len)}, Called(p, 0))
    BY <1>10, ReadCases
  <2>2. CASE Blocks(p) \/ Returns(p, -1)
    <3>1. Plainly("read")
      BY <2>1, <2>2 DEF Plainly, Ops
    <3> QED BY <1>2, <3>1
  <2>3. CASE Reply({ReadAnswer(Id(p), n, len)}, Called(p, 0))
    <3>1. Called(p, 0) \in [Pids -> CallRecs] /\ Id(p) \in Ids
      BY <2>1, CalledType, Running DEF Enter, Ops
    <3>2. n \in SockNode /\ len \in Nat /\ len >= -1
      BY <2>1, NodeLookup, IndexFacts
    <3> HIDE DEF n, len
    <3>3. {ReadAnswer(Id(p), n, len)} \in SUBSET AnswerRecs
      BY <3>1, <3>2, ReadAnswerType DEF SockNode
    <3>4. Above({ReadAnswer(Id(p), n, len)})
      BY <3>2 DEF Above, ReadAnswer
    <3> QED BY <2>3, <3>1, <3>3, <3>4, RepliesMore
  <2> QED BY <2>1, <2>2, <2>3
<1>8. CASE Write(p)
  <2>1. Enter(p, "write") /\ (Blocks(p) \/ Returns(p, -1) \/ Returns(p, WriteLen(p)))
    BY <1>8, WriteCases
  <2>2. WriteLen(p) \in Nat
    BY <1>8, WritePartTypes
  <2>3. Plainly("write")
    BY <2>1, <2>2 DEF Plainly, Ops
  <2> QED BY <1>2, <2>3
<1>9. CASE Close(p)
  <2>1. Enter(p, "close") /\ (Blocks(p) \/ Returns(p, -1))
    BY <1>9, CloseCases
  <2>2. Plainly("close")
    BY <2>1 DEF Plainly, Ops
  <2> QED BY <1>2, <2>2
<1> QED BY <1>1, <1>3, <1>4, <1>5, <1>6, <1>7, <1>8, <1>9, <1>10 DEF Syscall

LEMMA WriteCloses ==
  ASSUME Typed, CloseOK, WroteMore, NEW p \in Pids, Write(p)
  PROVE  CallCloses(p)
<1> DEFINE n == socklist[Node(p)]
           w == [WriteNode(p) EXCEPT !.sending = TRUE]
           s == WriteSent(p).node
<1>1. Enter(p, "write") /\ Runs(p) /\ Node(p) # 0
  BY WriteCases
<1>2. /\ Node(p) \in DOMAIN socklist /\ n \in SockNode /\ n.owner = p
      /\ WriteLen(p) \in Nat
      /\ WriteNode(p) \in SockNode /\ WriteWaits(p) \in SockNode
      /\ s \in SockNode /\ WriteSent(p).out \in Seq(Segments)
  BY <1>1, WritePartTypes, NodeLookup
<1>3. NodeSends(n, wrote)
  BY <1>2 DEF CloseOK, NodesClose
<1>4. wrote[p] \in Nat /\ wrote'[p] \in Nat /\ (wrote'[p] = 0 => wrote[p] = 0)
  BY DEF WroteMore, WroteOK, CloseOK
<1>5. n.send_len \in Nat /\ n.cwnd \div MSS \in Nat /\ BUFSIZE \in Nat /\ BUFSIZE # 0
  <2>1. n.send_len \in Nat /\ n.cwnd \in Nat
    BY <1>2, NodeFields DEF SockNode
  <2> HIDE DEF n
  <2> QED BY <2>1, IndexFacts, SizesAssumption
<1>6. Conn(n) = <<n.dest, n.srcport>>
  BY DEF Conn
<1>7. CASE /\ n.status = "ESTAB" /\ n.send_len > 0
           /\ socklist' = [socklist EXCEPT ![Node(p)] = IF n.sending THEN WriteNode(p) ELSE s]
           /\ Post(<<n.dest, n.srcport>>, IF n.sending THEN <<>> ELSE WriteSent(p).out)
           /\ Returns(p, WriteLen(p))
  <2> DEFINE m == IF n.sending THEN WriteNode(p) ELSE s
             new == IF n.sending THEN <<>> ELSE WriteSent(p).out
  <2>1. wrote'[p] = wrote[p] + WriteLen(p)
    <3>1. /\ Called(p, 0) \in [Pids -> CallRecs] /\ Id(p) \in Ids
          /\ Called(p, 0)[p] = [op |-> "write", id |-> Id(p), port |-> 0]
      BY <1>1, CalledType, Running DEF Enter, Ops
    <3>2. {Answer(Id(p), WriteLen(p))} \in SUBSET AnswerRecs
      BY <1>2, <3>1, AnswerType
    <3>3. Reply({Answer(Id(p), WriteLen(p))}, Called(p, 0))
      BY <1>7 DEF Returns
    <3>4. Called(p, 0)[p] # Idle /\ Called(p, 0)[p].op = "write" /\ Called(p, 0)[p].id = Id(p)
      BY <3>1 DEF Idle
    <3>5. Answer(Id(p), WriteLen(p)).id = Id(p) /\ Answer(Id(p), WriteLen(p)).val = WriteLen(p)
      BY DEF Answer
    <3> QED BY <1>2, <3>1, <3>2, <3>3, <3>4, <3>5, ReplyWrote
  <2>2. /\ WriteNode(p).send_len = n.send_len - WriteLen(p)
        /\ WriteNode(p).write_uuid = n.write_uuid /\ WriteNode(p).sending = n.sending
        /\ WriteNode(p).owner = n.owner /\ WriteNode(p).status = n.status
    BY <1>2 DEF WriteNode, SockNode, NodeOf
  <2>3. /\ w \in SockNode /\ w.sending = TRUE /\ w.send_len = WriteNode(p).send_len
        /\ w.write_uuid = WriteNode(p).write_uuid
        /\ w.owner = n.owner /\ w.status = n.status
    BY <1>2, <2>2 DEF SockNode, NodeOf
  <2> HIDE DEF w
  <2>4. s = send_segments(w, n.cwnd \div MSS).node
    BY DEF WriteSent, w
  <2>5. /\ s.owner = w.owner /\ s.status = w.status /\ s.send_len = w.send_len
        /\ s.write_uuid = w.write_uuid
        /\ w.send_len = BUFSIZE => s.sending = w.sending
    BY <1>5, <2>3, <2>4, SentFull DEF SockNode
  <2> HIDE DEF s, n
  <2>6. /\ m.owner = n.owner /\ m.status = n.status /\ m.write_uuid = n.write_uuid
        /\ m.send_len = n.send_len - WriteLen(p)
        /\ m.send_len = BUFSIZE => m.sending
        /\ m \in SockNode /\ new \in Seq(Segments)
    BY <1>2, <2>2, <2>3, <2>5, Empties
  <2>7. SameSocket(m, n)
    BY WriteFields DEF s, n
  <2>8. socklist' = [socklist EXCEPT ![Node(p)] = m] /\ Post(Conn(n), new)
    BY <1>6, <1>7 DEF n
  <2> HIDE DEF m, new
  <2>9. ~Hushed(m, wrote')
    BY <2>6 DEF Hushed
  <2>10. wrote'[n.owner] = 0 => wrote[n.owner] = 0 /\ m.send_len = n.send_len
    BY <1>2, <1>4, <1>5, <2>1, <2>6
  <2>12. Keeps(m, n) /\ Up(n.status)
    BY <1>7, <2>6, <2>7, SameKeeps DEF Up, n
  <2>11. Goes(m, n, new)
    <3>1. NodeSends(n, wrote) => NodeSends(m, wrote')
      <4>1. Ample(n) /\ m.send_len = n.send_len => Ample(m)
        BY <2>6 DEF Ample
      <4>2. ~Up(m.status) <=> ~Up(n.status)
        BY <2>6
      <4> QED BY <2>6, <2>10, <4>1, <4>2, <2>12, <1>7 DEF NodeSends
    <3> QED BY <2>6, <2>9, <3>1 DEF Goes
  <2> QED BY <1>2, <2>6, <2>8, <2>11, <2>12 DEF CallCloses, n
<1>8. CASE /\ n.status = "ESTAB" /\ n.send_len = 0
           /\ socklist' = [socklist EXCEPT ![Node(p)] = WriteWaits(p)]
           /\ toPeer' = toPeer
  <2> DEFINE m == WriteWaits(p)
  <2>1. /\ m.send_len = n.send_len /\ m.owner = n.owner /\ m.status = n.status
    BY <1>2 DEF WriteWaits, SockNode, NodeOf
  <2>2. SameSocket(m, n)
    BY WriteFields
  <2> HIDE DEF m, n
  <2>3. ~Ample(n) /\ ~Hushed(m, wrote')
    BY <1>5, <1>8, <2>1 DEF Ample, Hushed, n
  <2>4. wrote[n.owner] # 0
    BY <1>3, <1>8, <2>3 DEF NodeSends, Up, n
  <2>5. Goes(m, n, <<>>)
    BY <1>2, <1>4, <2>1, <2>3, <2>4 DEF Goes, NodeSends
  <2>6. Keeps(m, n)
    BY <2>1, <2>2, SameKeeps
  <2> QED BY <1>2, <1>8, <2>5, <2>6, Empties DEF CallCloses, m, n
<1>9. CASE socklist' = socklist /\ toPeer' = toPeer
  BY <1>9 DEF CallCloses
<1> QED BY <1>7, <1>8, <1>9, WriteCases

LEMMA CloseCloses ==
  ASSUME Typed, WroteMore, NEW p \in Pids, Close(p)
  PROVE  CallCloses(p)
<1> DEFINE n == socklist[Node(p)]
           s == CloseSent(p).node
<1>1. Enter(p, "close") /\ Runs(p) /\ Node(p) # 0
  BY CloseCases
<1>2. /\ Node(p) \in DOMAIN socklist /\ n \in SockNode /\ n.owner = p
      /\ ActiveClosed(p) \in SockNode /\ PassiveClosed(p) \in SockNode /\ Unbound(p) \in SockNode
      /\ s \in SockNode /\ CloseSent(p).out \in Seq(Segments)
      /\ Fin_(s.seq) \in Segments /\ Fin_(n.seq) \in Segments
  BY <1>1, ClosePartTypes, NodeLookup
<1>3. wrote'[n.owner] = 0 => wrote[n.owner] = 0
  BY <1>2 DEF WroteMore
<1>4. \A q : Fin_(q).data = <<>>
  BY DEF Fin_, Segment
<1>5. Conn(n) = <<n.dest, n.srcport>>
  BY DEF Conn
<1>6. CASE /\ n.status = "ESTAB"
           /\ socklist' = [socklist EXCEPT ![Node(p)] = ActiveClosed(p)]
           /\ Post(Conn(n), Append(CloseSent(p).out, Fin_(s.seq)))
  <2> DEFINE m == ActiveClosed(p)
             new == Append(CloseSent(p).out, Fin_(s.seq))
  <2>1. BUFSIZE \div MSS \in Nat
    BY IndexFacts
  <2>2. /\ s.owner = n.owner /\ s.status = n.status /\ s.send_len = n.send_len
        /\ s.write_uuid = n.write_uuid
        /\ n.send_len = BUFSIZE => s.sending = n.sending /\ CloseSent(p).out = <<>>
    BY <1>2, <2>1, SentFull DEF CloseSent, SockNode
  <2>3. /\ m.send_len = s.send_len /\ m.write_uuid = s.write_uuid /\ m.sending = s.sending
        /\ m.owner = s.owner /\ m.status = "FIN_WAIT_1"
    BY <1>2 DEF ActiveClosed, SockNode, NodeOf
  <2>4. new \in Seq(Segments) /\ (CloseSent(p).out = <<>> => new = <<Fin_(s.seq)>>)
    <3> DEFINE f == Fin_(s.seq)
               o == CloseSent(p).out
    <3>1. f \in Segments /\ o \in Seq(Segments)
      BY <1>2
    <3> HIDE DEF f, o
    <3>2. Append(o, f) \in Seq(Segments) /\ Append(<<>>, f) = <<f>>
      BY <3>1
    <3>3. o = <<>> => Append(o, f) = <<f>>
      BY <3>2
    <3> QED BY <3>2, <3>3 DEF f, o
  <2>5. SameButId(m, n)
    BY CloseFields
  <2> HIDE DEF s, m, n, new
  <2>6. CloseSent(p).out = <<>> => \A k \in DOMAIN new : new[k].data = <<>>
    BY <1>4, <2>4
  <2>7. Up(n.status) /\ Up(m.status)
    BY <1>6, <2>3 DEF Up, n
  <2>8. Keeps(m, n)
    BY <2>5, <2>7 DEF Keeps, SameButId
  <2>9. Goes(m, n, new)
    BY <1>3, <1>6, <2>2, <2>3, <2>6 DEF Goes, NodeSends, Ample, Hushed, Up, n
  <2>10. socklist' = [socklist EXCEPT ![Node(p)] = m] /\ Post(Conn(n), new)
    BY <1>6 DEF m, new, n, s
  <2> QED BY <1>2, <2>4, <2>7, <2>8, <2>9, <2>10 DEF CallCloses, m, n
<1>7. CASE /\ n.status = "CLOSE_WAIT"
           /\ socklist' = [socklist EXCEPT ![Node(p)] = PassiveClosed(p)]
           /\ Post(Conn(n), <<Fin_(n.seq)>>)
  <2> DEFINE m == PassiveClosed(p)
             new == <<Fin_(n.seq)>>
  <2>1. /\ m.send_len = n.send_len /\ m.write_uuid = n.write_uuid /\ m.sending = n.sending
        /\ m.owner = n.owner /\ m.status = "LAST_ACK"
    BY <1>2 DEF PassiveClosed, SockNode, NodeOf
  <2>2. new \in Seq(Segments) /\ \A k \in DOMAIN new : new[k].data = <<>>
    BY <1>2, <1>4
  <2>3. SameButId(m, n)
    BY CloseFields
  <2> HIDE DEF m, n, new
  <2>4. Up(n.status) /\ Up(m.status)
    BY <1>7, <2>1 DEF Up, n
  <2>5. Keeps(m, n)
    BY <2>3, <2>4 DEF Keeps, SameButId
  <2>6. Goes(m, n, new)
    BY <1>3, <1>7, <2>1, <2>2 DEF Goes, NodeSends, Ample, Hushed, Up, n
  <2>7. socklist' = [socklist EXCEPT ![Node(p)] = m] /\ Post(Conn(n), new)
    BY <1>7 DEF m, new, n
  <2> QED BY <1>2, <2>2, <2>4, <2>5, <2>6, <2>7 DEF CallCloses, m, n
<1>8. CASE /\ socklist' = [socklist EXCEPT ![Node(p)] = Unbound(p)] /\ toPeer' = toPeer
  <2> DEFINE m == Unbound(p)
  <2>1. /\ m.send_len = n.send_len /\ m.write_uuid = n.write_uuid /\ m.sending = n.sending
        /\ m.owner = n.owner /\ m.status = n.status
    BY <1>2 DEF Unbound, SockNode, NodeOf
  <2>2. SameSocket(m, n)
    BY CloseFields
  <2> HIDE DEF m, n
  <2>3. Goes(m, n, <<>>) /\ Keeps(m, n)
    BY <1>2, <2>1, <2>2, SameGoes, SameKeeps
  <2> QED BY <1>2, <1>8, <2>3, Empties DEF CallCloses, m, n
<1> QED BY <1>5, <1>6, <1>7, <1>8, CloseCases

LEMMA SyscallCloses ==
  ASSUME Typed, CallsOK, Orderly, ConnOK, CloseOK, NEW p \in Pids, Syscall(p)
  PROVE  CallCloses(p) /\ WroteMore
<1>1. WroteMore
  BY SyscallMore DEF CloseOK
<1>2. CASE Socket(p)
  <2>1. socklist' = socklist \/ CreatesOne(p)
    BY <1>2, SocketTable
  <2> QED BY <1>1, <1>2, <2>1 DEF CallCloses, Socket
<1>3. CASE Skip(p)
  BY <1>1, <1>3 DEF CallCloses, Skip, kernel
<1> QED BY <1>1, <1>2, <1>3, BindCloses, ReadCloses, WriteCloses, CloseCloses DEF Syscall

\* A node that a step leaves as it is.
LEMMA OldClose ==
  ASSUME NEW n \in SockNode, WroteMore
  PROVE  /\ NodeSends(n, wrote) => NodeSends(n, wrote')
         /\ \A t, in, out : NodeClose(n, wrote, t, in, out) => NodeClose(n, wrote', t, in, out)
<1>1. n.owner \in Pids
  BY NodeFields DEF SockNode
<1>2. wrote'[n.owner] = 0 => wrote[n.owner] = 0
  BY <1>1 DEF WroteMore
<1>3. Hushed(n, wrote') => Hushed(n, wrote)
  BY <1>2 DEF Hushed
<1>4. NodeSends(n, wrote) => NodeSends(n, wrote')
  BY <1>2 DEF NodeSends
<1>5. \A t, in, out : NodeClose(n, wrote, t, in, out) => NodeClose(n, wrote', t, in, out)
  BY <1>3 DEF NodeClose
<1> QED BY <1>4, <1>5

\* A step of the host that takes and posts on one connection at most.
LEMMA HostClose ==
  ASSUME Typed, ConnOK, CloseOK, WroteMore, peer' = peer, socklist' \in Seq(SockNode), NEW c,
         \A d \in Conns : d # c => toPeer'[d] = toPeer[d] /\ toHost'[d] = toHost[d],
         c \in Conns => WireClose(peer[c], toHost'[c]),
         \A j \in DOMAIN socklist' :
           LET x == socklist'[j]
           IN  \/ /\ Conn(x) # c \/ ~Up(x.status)
                  /\ (Ample(x) /\ ~Up(x.status)) \/ \E k \in DOMAIN socklist : x = socklist[k]
               \/ /\ NodeSends(x, wrote') /\ Conn(x) = c
                  /\ NodeClose(x, wrote', peer[c], toHost'[c], toPeer'[c]),
         \A j \in DOMAIN backlog_list' :
           LET e == backlog_list'[j]
           IN  /\ Ample(e)
               /\ Live(e) => \/ Conn(e) = c /\ HalfClose(peer[c], toHost'[c])
                             \/ Conn(e) # c /\ \E k \in DOMAIN backlog_list : e = backlog_list[k]
  PROVE  CloseOK'
<1>1. ASSUME NEW j \in DOMAIN socklist'
      PROVE  LET x == socklist'[j]
                 d == Conn(x)
             IN  NodeSends(x, wrote') /\ NodeClose(x, wrote', peer'[d], toHost'[d], toPeer'[d])
  <2> DEFINE x == socklist'[j]
             d == Conn(x)
  <2>1. CASE NodeSends(x, wrote') /\ d = c /\ NodeClose(x, wrote', peer[c], toHost'[c], toPeer'[c])
    BY <2>1
  <2>2. CASE Ample(x) /\ ~Up(x.status)
    BY <2>2 DEF NodeSends, NodeClose
  <2>3. ASSUME NEW k \in DOMAIN socklist, x = socklist[k], d # c \/ ~Up(x.status)
        PROVE  NodeSends(x, wrote') /\ NodeClose(x, wrote', peer'[d], toHost'[d], toPeer'[d])
    <3>1. x \in SockNode
      BY ListElements DEF Typed, KernelType
    <3>2. NodeSends(x, wrote) /\ NodeClose(x, wrote, peer[d], toHost[d], toPeer[d])
      BY <2>3 DEF CloseOK, NodesClose
    <3> HIDE DEF x
    <3>3. NodeSends(x, wrote') /\ NodeClose(x, wrote', peer[d], toHost[d], toPeer[d])
      BY <3>1, <3>2, OldClose
    <3>4. CASE ~Up(x.status)
      BY <3>3, <3>4 DEF NodeClose
    <3>5. CASE Up(x.status)
      <4>1. d \in Conns
        BY <2>3, <3>5, UpClear DEF x
      <4> QED BY <2>3, <3>3, <3>5, <4>1
    <3> QED BY <3>4, <3>5
  <2> QED BY <2>1, <2>2, <2>3
<1>2. ASSUME NEW j \in DOMAIN backlog_list'
      PROVE  LET e == backlog_list'[j]
                 d == Conn(e)
             IN  Ample(e) /\ (Live(e) => HalfClose(peer'[d], toHost'[d]))
  <2> DEFINE e == backlog_list'[j]
             d == Conn(e)
  <2>1. Ample(e)
    OBVIOUS
  <2>2. CASE Live(e) /\ d = c /\ HalfClose(peer[c], toHost'[c])
    BY <2>1, <2>2
  <2>3. ASSUME Live(e), d # c, NEW k \in DOMAIN backlog_list, e = backlog_list[k]
        PROVE  HalfClose(peer'[d], toHost'[d])
    <3>1. d \in Conns
      BY <2>3 DEF ConnOK, HalvesOK, HalfOK, Conns
    <3>2. HalfClose(peer[d], toHost[d])
      BY <2>3 DEF CloseOK, HalvesClose
    <3> QED BY <2>3, <3>1, <3>2
  <2> QED BY <2>1, <2>2, <2>3
<1>3. ASSUME NEW d \in Conns PROVE WireClose(peer'[d], toHost'[d])
  <2>1. WireClose(peer[d], toHost[d])
    BY DEF CloseOK, WiresClose
  <2> QED BY <2>1
<1>4. NodesClose'
  BY <1>1 DEF NodesClose
<1>5. HalvesClose'
  BY <1>2 DEF HalvesClose
<1>6. WiresClose' /\ WroteOK'
  BY <1>3 DEF WiresClose, WroteMore
<1> QED BY <1>4, <1>5, <1>6 DEF CloseOK

\* A step of the host that changes one node and posts on its connection.
LEMMA OneNodeClose ==
  ASSUME Typed, ConnOK, CloseOK, WroteMore, NEW i \in DOMAIN socklist, NEW m \in SockNode,
         socklist' = [socklist EXCEPT ![i] = m], backlog_list' = backlog_list, peer' = peer,
         \A d \in Conns : d # Conn(m) => toPeer'[d] = toPeer[d] /\ toHost'[d] = toHost[d],
         Conn(m) \in Conns => WireClose(peer[Conn(m)], toHost'[Conn(m)]),
         NodeSends(m, wrote'),
         NodeClose(m, wrote', peer[Conn(m)], toHost'[Conn(m)], toPeer'[Conn(m)]),
         \A j \in DOMAIN socklist :
           j # i => socklist[j].dest # m.dest \/ socklist[j].dest = NoRemote,
         \A j \in DOMAIN backlog_list :
           Live(backlog_list[j]) => backlog_list[j].dest # m.dest
  PROVE  CloseOK'
<1> DEFINE c == Conn(m)
<1>1. /\ DOMAIN socklist' = DOMAIN socklist /\ socklist' \in Seq(SockNode)
      /\ \A j \in DOMAIN socklist : /\ socklist'[j] = IF j = i THEN m ELSE socklist[j]
                                    /\ socklist[j] \in SockNode
  BY ListElements DEF Typed, KernelType
<1>2. ASSUME NEW j \in DOMAIN socklist', j # i
      PROVE  /\ socklist'[j] = socklist[j] /\ j \in DOMAIN socklist
             /\ Conn(socklist[j]) # c \/ ~Up(socklist[j].status)
  <2>1. j \in DOMAIN socklist /\ socklist'[j] = socklist[j]
    BY <1>1, <1>2
  <2>2. CASE Conn(socklist[j]) = c
    <3>1. socklist[j].dest = NoRemote
      BY <1>2, <2>1, <2>2, ConnParts
    <3> QED BY <2>1, <3>1 DEF ConnOK, NodesOK, NodeOK
  <2> QED BY <2>1, <2>2
<1>3. ASSUME NEW j \in DOMAIN backlog_list'
      PROVE  LET e == backlog_list'[j]
             IN  /\ Ample(e)
                 /\ Live(e) => Conn(e) # c /\ \E k \in DOMAIN backlog_list : e = backlog_list[k]
  <2>1. Ample(backlog_list[j]) /\ j \in DOMAIN backlog_list
    BY <1>3 DEF CloseOK, HalvesClose
  <2>2. Live(backlog_list[j]) => Conn(backlog_list[j]) # c
    BY <2>1, ConnParts
  <2> QED BY <2>1, <2>2
<1>4. /\ \A d \in Conns : d # c => toPeer'[d] = toPeer[d] /\ toHost'[d] = toHost[d]
      /\ c \in Conns => WireClose(peer[c], toHost'[c])
      /\ NodeClose(m, wrote', peer[c], toHost'[c], toPeer'[c])
  OBVIOUS
<1>5. Conn(m) = c /\ (\A j \in DOMAIN socklist' : j = i => socklist'[j] = m)
  BY <1>1
<1> HIDE DEF c
<1>6. \A j \in DOMAIN socklist' :
        LET x == socklist'[j]
        IN  \/ /\ Conn(x) # c \/ ~Up(x.status)
               /\ (Ample(x) /\ ~Up(x.status)) \/ \E k \in DOMAIN socklist : x = socklist[k]
            \/ /\ NodeSends(x, wrote') /\ Conn(x) = c
               /\ NodeClose(x, wrote', peer[c], toHost'[c], toPeer'[c])
  BY <1>2, <1>4, <1>5
<1> QED BY <1>1, <1>3, <1>4, <1>6, HostClose

\* A call leaves every connection its close.
LEMMA SyscallClose ==
  ASSUME Typed, CallsOK, Orderly, ConnOK, CloseOK, NEW p \in Pids, Syscall(p)
  PROVE  CloseOK'
<1>1. CallCloses(p) /\ WroteMore /\ backlog_list' = backlog_list /\ toHost' = toHost /\ peer' = peer
  BY SyscallMoves, SyscallCloses
<1>2. Distinct
  BY DEF Orderly
<1>3. /\ \A c \in Conns : WireClose(peer[c], toHost[c])
      /\ \A j \in DOMAIN backlog_list :
           Ample(backlog_list[j]) /\ (Live(backlog_list[j]) =>
             HalfClose(peer[Conn(backlog_list[j])], toHost[Conn(backlog_list[j])]))
  BY DEF CloseOK, HalvesClose, WiresClose
<1>4. HalvesClose' /\ WiresClose' /\ WroteOK'
  BY <1>1, <1>3 DEF HalvesClose, WiresClose, WroteMore
<1>5. \A k \in DOMAIN socklist :
        LET x == socklist[k]
            d == Conn(x)
        IN  /\ x \in SockNode
            /\ NodeSends(x, wrote') /\ NodeClose(x, wrote', peer[d], toHost[d], toPeer[d])
  <2> SUFFICES ASSUME NEW k \in DOMAIN socklist
      PROVE  LET x == socklist[k]
                 d == Conn(x)
             IN  /\ x \in SockNode
                 /\ NodeSends(x, wrote') /\ NodeClose(x, wrote', peer[d], toHost[d], toPeer[d])
    OBVIOUS
  <2> DEFINE x == socklist[k]
             d == Conn(x)
  <2>1. x \in SockNode
    BY ListElements DEF Typed, KernelType
  <2>2. NodeSends(x, wrote) /\ NodeClose(x, wrote, peer[d], toHost[d], toPeer[d])
    BY DEF CloseOK, NodesClose
  <2> HIDE DEF x
  <2> QED BY <1>1, <2>1, <2>2, OldClose DEF x
<1>6. CASE socklist' = socklist /\ toPeer' = toPeer
  <2>1. NodesClose'
    BY <1>1, <1>5, <1>6 DEF NodesClose
  <2> QED BY <1>4, <2>1 DEF CloseOK
<1>7. CASE CreatesOne(p) /\ toPeer' = toPeer
  <2>1. PICK st \in FreshStatus : /\ FreshNode(p, Create(p, fds), st) \in SockNode
                                  /\ socklist' = <<FreshNode(p, Create(p, fds), st)>> \o socklist
    BY <1>7 DEF CreatesOne
  <2> DEFINE m == FreshNode(p, Create(p, fds), st)
  <2>2. ~Up(m.status) /\ m.send_len = BUFSIZE /\ m.write_uuid = Zero
    BY <1>2 DEF FreshNode, Distinct, Up
  <2>3. \A j \in DOMAIN socklist' :
          socklist'[j] = m \/ \E k \in DOMAIN socklist : socklist'[j] = socklist[k]
    BY <2>1, ConsOthers
  <2> HIDE DEF m
  <2>4. NodeSends(m, wrote') /\ \A t, in, out : NodeClose(m, wrote', t, in, out)
    BY <2>2, IndexFacts DEF NodeSends, NodeClose, Ample, Zero
  <2>5. NodesClose'
    BY <1>1, <1>5, <1>7, <2>3, <2>4 DEF NodesClose
  <2> QED BY <1>4, <2>5 DEF CloseOK
<1>8. ASSUME NEW i \in DOMAIN socklist, NEW m \in SockNode,
             socklist' = [socklist EXCEPT ![i] = m],
             \/ Plain(m, socklist[i]) /\ Ample(m) /\ toPeer' = toPeer
             \/ Dials(m, socklist[i]) /\ Ample(m) /\ Post(Conn(m), <<SynSegment>>)
      PROVE  CloseOK'
  <2> DEFINE n == socklist[i]
             c == Conn(m)
  <2>1. ~Up(m.status) /\ Ample(m)
    BY <1>8 DEF Plain, Dials, Up
  <2>2. /\ \A j \in DOMAIN socklist :
             j # i => socklist[j].dest # m.dest \/ socklist[j].dest = NoRemote
        /\ \A j \in DOMAIN backlog_list :
             Live(backlog_list[j]) => backlog_list[j].dest # m.dest
    <3>1. CASE Plain(m, n)
      <4>1. m.dest = n.dest
        BY <3>1 DEF Plain
      <4> QED BY <4>1, OtherRemotes
    <3>2. CASE Dials(m, n)
      <4>1. m.dest \in Servers /\ \A j \in DOMAIN socklist : socklist[j].dest # m.dest
        BY <3>2 DEF Dials
      <4> QED BY <1>2, <4>1, LiveRemote DEF ConnOK
    <3> QED BY <1>8, <3>1, <3>2
  <2>3. <<SynSegment>> \in Seq(Segments)
    BY SegmentType, Empties, IndexFacts DEF SynSegment, Segment
  <2>4. \A d \in Conns : d # c => toPeer'[d] = toPeer[d]
    BY <1>8, <2>3, PostAt
  <2> HIDE DEF c
  <2>5. NodeSends(m, wrote') /\ NodeClose(m, wrote', peer[c], toHost'[c], toPeer'[c])
    BY <2>1 DEF NodeSends, NodeClose
  <2>6. c \in Conns => WireClose(peer[c], toHost'[c])
    BY <1>1, <1>3
  <2>7. \A d \in Conns : d # c => toPeer'[d] = toPeer[d] /\ toHost'[d] = toHost[d]
    BY <1>1, <2>4
  <2> QED BY <1>1, <1>8, <2>2, <2>5, <2>6, <2>7, OneNodeClose DEF c
<1>9. ASSUME NEW i \in DOMAIN socklist, NEW m \in SockNode,
             socklist' = [socklist EXCEPT ![i] = m], Keeps(m, socklist[i]),
             NEW new \in Seq(Segments), Goes(m, socklist[i], new),
             \/ new = <<>> /\ toPeer' = toPeer
             \/ Up(socklist[i].status) /\ Post(Conn(socklist[i]), new)
      PROVE  CloseOK'
  <2> DEFINE n == socklist[i]
             c == Conn(m)
  <2>1. m.dest = n.dest /\ c = Conn(n) /\ n \in SockNode
    BY <1>9, ListElements DEF Keeps, Conn, Typed, KernelType
  <2>2. NodeSends(n, wrote) /\ NodeClose(n, wrote, peer[c], toHost[c], toPeer[c])
    BY <2>1 DEF CloseOK, NodesClose
  <2>3. /\ \A j \in DOMAIN socklist :
             j # i => socklist[j].dest # m.dest \/ socklist[j].dest = NoRemote
        /\ \A j \in DOMAIN backlog_list :
             Live(backlog_list[j]) => backlog_list[j].dest # m.dest
    BY <2>1, OtherRemotes
  <2>4. Up(n.status) => c \in Conns
    BY <2>1, UpClear
  <2>5. c \in Conns => toPeer[c] \in Seq(Segments)
    BY DEF Typed, NetType
  <2>6. /\ \A d \in Conns : d # c => toPeer'[d] = toPeer[d]
        /\ c \in Conns => toPeer'[c] = toPeer[c] \o new
    <3>1. CASE new = <<>> /\ toPeer' = toPeer
      <4>1. c \in Conns => toPeer[c] \o <<>> = toPeer[c]
        BY <2>5
      <4> QED BY <3>1, <4>1
    <3>2. CASE Up(n.status) /\ Post(Conn(n), new)
      BY <2>1, <3>2, PostAt
    <3> QED BY <1>9, <3>1, <3>2
  <2>7. Up(m.status) => Up(n.status)
    BY <1>9 DEF Goes, Up
  <2> HIDE DEF c, n
  <2>8. NodeSends(m, wrote')
    BY <1>9, <2>2 DEF Goes, n
  <2>9. NodeClose(m, wrote', peer[c], toHost'[c], toPeer'[c])
    <3>1. CASE ~Up(m.status)
      BY <3>1 DEF NodeClose
    <3>2. CASE Up(m.status)
      <4>1. c \in Conns /\ toPeer[c] \in Seq(Segments) /\ toPeer'[c] = toPeer[c] \o new
        BY <2>4, <2>5, <2>6, <2>7, <3>2
      <4>2. NodeClose(m, wrote', peer[c], toHost[c], toPeer[c] \o new)
        BY <1>9, <2>2, <4>1, GoesClose DEF n
      <4> QED BY <1>1, <4>1, <4>2
    <3> QED BY <3>1, <3>2
  <2>10. c \in Conns => WireClose(peer[c], toHost'[c])
    BY <1>1, <1>3
  <2>11. \A d \in Conns : d # c => toPeer'[d] = toPeer[d] /\ toHost'[d] = toHost[d]
    BY <1>1, <2>6
  <2> QED BY <1>1, <1>9, <2>3, <2>8, <2>9, <2>10, <2>11, OneNodeClose DEF c
<1>10. CASE \E i \in DOMAIN socklist : \E m \in SockNode :
              /\ socklist' = [socklist EXCEPT ![i] = m]
              /\ \/ /\ Keeps(m, socklist[i])
                    /\ \E new \in Seq(Segments) :
                         /\ Goes(m, socklist[i], new)
                         /\ \/ new = <<>> /\ toPeer' = toPeer
                            \/ Up(socklist[i].status) /\ Post(Conn(socklist[i]), new)
                 \/ Plain(m, socklist[i]) /\ Ample(m) /\ toPeer' = toPeer
                 \/ Dials(m, socklist[i]) /\ Ample(m) /\ Post(Conn(m), <<SynSegment>>)
  BY <1>8, <1>9, <1>10
<1> QED BY <1>1, <1>6, <1>7, <1>10 DEF CallCloses

\* What a remote past the handshake says, as far as the close is concerned.
Closes(t, in, out, u, in2, out2) ==
  /\ Said(t) => Said(u)
  /\ Ended(t) => Ended(u)
  /\ u.n = 0 => t.n = 0
  /\ \A k \in DOMAIN out2 : \E l \in DOMAIN out : out2[k] = out[l]
  /\ u.n = 0 /\ (\A k \in DOMAIN out : out[k].data = <<>>) /\ (\E k \in DOMAIN in2 : in2[k].flags = "ACK")
       => Ended(u) \/ \E k \in DOMAIN in : in[k].flags = "ACK"

LEMMA RemoteClose ==
  ASSUME Typed, ConnOK, SeqOK, CloseOK, NEW c \in Conns, UNCHANGED <<kernel, apps>>,
         \A d \in Conns : d # c => /\ toHost'[d] = toHost[d] /\ toPeer'[d] = toPeer[d]
                                   /\ peer'[d] = peer[d],
         WireClose(peer'[c], toHost'[c]),
         Past(peer[c]) => Closes(peer[c], toHost[c], toPeer[c], peer'[c], toHost'[c], toPeer'[c]),
         c \in Incoming /\ Past(peer[c]) /\ toPeer[c] = <<>> /\ HalfClose(peer[c], toHost[c])
           => HalfClose(peer'[c], toHost'[c]),
         c \in Incoming /\ ~Past(peer[c]) => HalfClose(peer'[c], toHost'[c])
  PROVE  CloseOK'
<1>1. socklist' = socklist /\ backlog_list' = backlog_list /\ wrote' = wrote
  BY DEF kernel, apps
<1>2. ASSUME NEW i \in DOMAIN socklist
      PROVE  LET n == socklist[i]
                 d == Conn(n)
             IN  NodeSends(n, wrote) /\ NodeClose(n, wrote, peer'[d], toHost'[d], toPeer'[d])
  <2> DEFINE n == socklist[i]
             d == Conn(n)
  <2>1. NodeSends(n, wrote) /\ NodeClose(n, wrote, peer[d], toHost[d], toPeer[d])
    BY DEF CloseOK, NodesClose
  <2>2. Up(n.status) => d \in Conns /\ Past(peer[d])
    BY UpClear
  <2> HIDE DEF d, n
  <2>3. CASE ~Up(n.status)
    BY <2>1, <2>3 DEF NodeClose, n, d
  <2>4. CASE Up(n.status) /\ d # c
    BY <2>1, <2>2, <2>4 DEF n, d
  <2>5. CASE Up(n.status) /\ d = c
    <3> DEFINE t == peer[c]
               u == peer'[c]
               in == toHost[c]
               in2 == toHost'[c]
               out == toPeer[c]
               out2 == toPeer'[c]
    <3>1. NodeClose(n, wrote, t, in, out) /\ Closes(t, in, out, u, in2, out2)
      BY <2>1, <2>2, <2>5
    <3> HIDE DEF t, u, in, in2, out, out2
    <3>2. ASSUME Hushed(n, wrote), u.n = 0 PROVE Calm(n, u, in2, out2)
      <4>1. Calm(n, t, in, out) /\ t.n = 0
        BY <2>5, <3>1, <3>2 DEF NodeClose, Closes
      <4> QED BY <3>1, <3>2, <4>1 DEF Calm, Closes
    <3>3. NodeClose(n, wrote, u, in2, out2)
      BY <3>1, <3>2 DEF NodeClose, Closes
    <3> QED BY <2>1, <2>5, <3>3 DEF n, d, u, in2, out2
  <2> QED BY <2>3, <2>4, <2>5
<1>3. ASSUME NEW j \in DOMAIN backlog_list
      PROVE  LET e == backlog_list[j]
                 d == Conn(e)
             IN  Ample(e) /\ (Live(e) => HalfClose(peer'[d], toHost'[d]))
  <2> DEFINE e == backlog_list[j]
             d == Conn(e)
  <2>1. Ample(e) /\ (Live(e) => HalfClose(peer[d], toHost[d]))
    BY DEF CloseOK, HalvesClose
  <2>2. Live(e) => d \in Incoming /\ d \in Conns
    BY DEF ConnOK, HalvesOK, HalfOK, Conns
  <2>3. Live(e) /\ Past(peer[d]) => toPeer[d] = <<>>
    BY DEF SeqOK, HalvesSeq, HalfSeq
  <2>4. CASE d # c
    BY <2>1, <2>2, <2>4
  <2>5. CASE d = c
    BY <2>1, <2>2, <2>3, <2>5
  <2> QED BY <2>4, <2>5
<1>4. ASSUME NEW d \in Conns PROVE WireClose(peer'[d], toHost'[d])
  <2>1. WireClose(peer[d], toHost[d])
    BY DEF CloseOK, WiresClose
  <2> QED BY <2>1
<1>5. NodesClose'
  BY <1>1, <1>2 DEF NodesClose
<1>6. HalvesClose'
  BY <1>1, <1>3 DEF HalvesClose
<1>7. WiresClose' /\ WroteOK'
  BY <1>1, <1>4 DEF WiresClose, WroteOK, CloseOK
<1> QED BY <1>5, <1>6, <1>7 DEF CloseOK

LEMMA PeerOpenClose ==
  ASSUME Typed, Distinct, ConnOK, SeqOK, CloseOK, NEW c \in Conns, PeerOpen(c) \/ PeerRetry(c)
  PROVE  CloseOK'
<1> DEFINE s == Head(toHost'[c])
           u == peer'[c]
<1>1. PICK x \in Peers : /\ Tell(c, <<Speak("SYN", x, <<>>)>>) /\ toPeer' = toPeer
                         /\ UNCHANGED <<kernel, apps>>
  <2>1. peer[c] \in Peers
    BY DEF Typed, NetType
  <2>2. [peer[c] EXCEPT !.snd = 0] \in Peers
    BY <2>1 DEF Peers
  <2> QED BY <2>1, <2>2 DEF PeerOpen, PeerRetry
<1> DEFINE f == Speak("SYN", x, <<>>)
<1>2. /\ ~Past(peer[c]) /\ toHost[c] = <<>>
      /\ peer[c] \in Peers /\ peer \in [Conns -> Peers]
  <2>1. CASE PeerOpen(c)
    BY <2>1, WireFacts DEF PeerOpen, Past, Typed, NetType
  <2>2. CASE PeerRetry(c)
    BY <2>2 DEF PeerRetry, Past, Typed, NetType
  <2> QED BY <2>1, <2>2
<1>3. f \in ShortSegments /\ <<f>> \in Seq(ShortSegments) /\ f.flags = "SYN"
  BY <1>1, PeerFields, SpeakType, SpeakFields, EmptyBytes
<1>4. toHost'[c] = <<f>> /\ \A d \in Conns : d # c => toHost'[d] = toHost[d]
  <2> HIDE DEF f
  <2>1. toHost'[c] = <<>> \o <<f>> /\ \A d \in Conns : d # c => toHost'[d] = toHost[d]
    BY <1>1, <1>2, <1>3, TellType DEF Typed, f
  <2> QED BY <2>1
<1>5. peer'[c].st = "SYN_SENT" /\ \A d \in Conns : d # c => peer'[d] = peer[d]
  <2>1. CASE PeerOpen(c)
    BY <1>2, <2>1 DEF PeerOpen, Peers
  <2>2. CASE PeerRetry(c)
    BY <2>2 DEF PeerRetry
  <2> QED BY <2>1, <2>2
<1> HIDE DEF f
<1>6. \A k \in DOMAIN <<f>> : <<f>>[k] = f
  OBVIOUS
<1>7. WireClose(peer'[c], <<f>>)
  BY <1>3, <1>6 DEF WireClose
<1>8. ~Past(peer'[c])
  BY <1>5 DEF Past
<1>9. HalfClose(peer'[c], toHost'[c])
  BY <1>8 DEF HalfClose
<1> QED BY <1>1, <1>2, <1>4, <1>5, <1>7, <1>9, RemoteClose

LEMMA PeerSendClose ==
  ASSUME Typed, Distinct, ConnOK, SeqOK, CloseOK, NEW c \in Conns, PeerSend(c)
  PROVE  CloseOK'
<1> DEFINE t == peer[c]
<1>1. /\ peer \in [Conns -> Peers] /\ t \in Peers /\ toPeer' = toPeer
      /\ UNCHANGED <<kernel, apps>> /\ toHost[c] \in Seq(ShortSegments)
  BY DEF Typed, NetType, PeerSend
<1>2. PICK len \in PeerSizes :
        /\ peer' = [peer EXCEPT ![c].snd = @ + len, ![c].n = @ + len]
        /\ Tell(c, <<Speak("ACK", t, PeerBytesSent(t, len))>>)
  BY DEF PeerSend, PeerBytesSent
<1>3. len \in Nat /\ len <= BUFSIZE /\ len # 0 /\ t.n \in Nat
  BY <1>1, EndpointsAssumption, IndexFacts, PeerFields
<1>4. t.snd \in Int /\ t.rcv \in Int
  BY <1>1, PeerFields
<1>5. PeerBytesSent(t, len) \in Bytes /\ Len(PeerBytesSent(t, len)) = len
  BY <1>3 DEF PeerBytesSent, Bytes
<1> DEFINE s == Speak("ACK", t, PeerBytesSent(t, len))
           u == [t EXCEPT !.snd = t.snd + len, !.n = t.n + len]
<1>6. s \in ShortSegments /\ <<s>> \in Seq(ShortSegments) /\ s.flags = "ACK"
  BY <1>3, <1>4, <1>5, SpeakType, SpeakFields
<1>7. peer' = [peer EXCEPT ![c] = u] /\ u.st = t.st /\ u.n = t.n + len
  BY <1>1, <1>2 DEF Peers
<1>8. t.n + len # 0
  BY <1>3
<1> HIDE DEF s, u
<1>9. toHost'[c] = toHost[c] \o <<s>> /\ \A d \in Conns : d # c => toHost'[d] = toHost[d]
  BY <1>2, <1>6, TellType DEF Typed, s
<1>10. peer'[c] = u /\ \A d \in Conns : d # c => peer'[d] = peer[d]
  BY <1>1, <1>7
<1>11. u.n # 0 /\ (Said(t) => Said(u)) /\ (Ended(t) => Ended(u))
  BY <1>7, <1>8 DEF Said, Ended
<1>12. WireClose(u, toHost[c] \o <<s>>)
  <2>1. WireClose(t, toHost[c])
    BY DEF CloseOK, WiresClose
  <2>2. \A k \in DOMAIN (toHost[c] \o <<s>>) :
          \/ k \in DOMAIN toHost[c] /\ (toHost[c] \o <<s>>)[k] = toHost[c][k]
          \/ (toHost[c] \o <<s>>)[k] = s
    BY <1>1, <1>6, TellsElements
  <2> QED BY <1>6, <1>11, <2>1, <2>2 DEF WireClose
<1>13. /\ Closes(t, toHost[c], toPeer[c], u, toHost'[c], toPeer'[c])
       /\ HalfClose(u, toHost'[c])
  BY <1>1, <1>11 DEF Closes, HalfClose
<1> QED BY <1>1, <1>9, <1>10, <1>12, <1>13, RemoteClose

LEMMA PeerCloseClose ==
  ASSUME Typed, Distinct, ConnOK, SeqOK, CloseOK, NEW c \in Conns, PeerClose(c)
  PROVE  CloseOK'
<1> DEFINE t == peer[c]
           s == Speak("FIN", t, <<>>)
           st == IF t.st = "ESTAB" THEN "FIN_WAIT_1" ELSE "LAST_ACK"
           u == [t EXCEPT !.snd = t.snd + 1, !.st = st]
<1>1. /\ peer \in [Conns -> Peers] /\ t \in Peers /\ toPeer' = toPeer
      /\ UNCHANGED <<kernel, apps>> /\ toHost[c] \in Seq(ShortSegments)
      /\ t.st \in {"ESTAB", "CLOSE_WAIT"}
  BY DEF Typed, NetType, PeerClose
<1>2. peer' = [peer EXCEPT ![c] = u] /\ Tell(c, <<s>>)
  BY <1>1 DEF PeerClose
<1>3. t.snd \in Int /\ t.rcv \in Int
  BY <1>1, PeerFields
<1>4. s \in ShortSegments /\ <<s>> \in Seq(ShortSegments) /\ s.flags = "FIN"
  BY <1>3, SpeakType, SpeakFields, EmptyBytes
<1>5. u.st = st /\ u.n = t.n
  BY <1>1 DEF Peers
<1> HIDE DEF s, u
<1>6. toHost'[c] = toHost[c] \o <<s>> /\ \A d \in Conns : d # c => toHost'[d] = toHost[d]
  BY <1>2, <1>4, TellType DEF Typed
<1>7. peer'[c] = u /\ \A d \in Conns : d # c => peer'[d] = peer[d]
  BY <1>1, <1>2
<1>8. Said(u) /\ (Ended(t) => Ended(u)) /\ Past(t)
  BY <1>1, <1>5 DEF Said, Ended, Past
<1>9. WireClose(u, toHost'[c])
  BY <1>8 DEF WireClose
<1>10. \A k \in DOMAIN (toHost[c] \o <<s>>) :
         \/ k \in DOMAIN toHost[c] /\ (toHost[c] \o <<s>>)[k] = toHost[c][k]
         \/ (toHost[c] \o <<s>>)[k] = s
  BY <1>1, <1>4, TellsElements
<1> DEFINE in2 == toHost[c] \o <<s>>
<1> HIDE DEF in2, t
<1>11. \A k \in DOMAIN in2 : in2[k].flags = "ACK" =>
         k \in DOMAIN toHost[c] /\ toHost[c][k].flags = "ACK"
  BY <1>4, <1>10 DEF in2
<1>12. Closes(t, toHost[c], toPeer[c], u, in2, toPeer[c])
  BY <1>5, <1>8, <1>11 DEF Closes
<1>13. HalfClose(t, toHost[c]) => HalfClose(u, in2)
  BY <1>5, <1>8, <1>11 DEF HalfClose
<1> QED BY <1>1, <1>6, <1>7, <1>8, <1>9, <1>12, <1>13, RemoteClose DEF in2, t

\* What a remote past the handshake makes of a segment: it answers data and
\* FINs, and goes on with its close.
LEMMA HeardClose ==
  ASSUME NEW c, NEW t \in Peers, NEW m \in Segments, Past(t)
  PROVE  LET h == Heard(c, t, m)
         IN  /\ Said(t) => Said(h.t)
             /\ h.t.n = t.n
             /\ h.out # <<>> => m.data # <<>> \/ m.flags = "FIN"
<1> DEFINE h == Heard(c, t, m)
<1>1. Seen(t, m).n = t.n /\ (Said(t) => Said(Seen(t, m)))
  <2> DEFINE st == IF m.ack # t.snd THEN t.st
                   ELSE CASE t.st = "SYN_RCVD" -> "ESTAB"
                          [] t.st = "FIN_WAIT_1" -> "FIN_WAIT_2"
                          [] t.st = "CLOSING" -> "TIMED_WAIT"
                          [] t.st = "LAST_ACK" -> "DONE"
                          [] OTHER -> t.st
  <2>1. Seen(t, m) = [t EXCEPT !.una = m.ack, !.win = m.win, !.st = st]
    BY DEF Seen
  <2>2. Said(t) => Said([st |-> st])
    BY DEF Said
  <2> HIDE DEF st
  <2>3. Seen(t, m).n = t.n /\ Seen(t, m).st = st
    BY <2>1 DEF Peers
  <2> QED BY <2>2, <2>3 DEF Said
<1>2. Got(t, m).n = t.n /\ (Said(t) => Said(Got(t, m)))
  <2> DEFINE s == Seen(t, m)
  <2>1. s \in Peers /\ s.n = t.n /\ (Said(t) => Said(s))
    BY <1>1, HeardPartTypes
  <2> HIDE DEF s
  <2>2. Got(t, m) = t \/ Got(t, m) = [s EXCEPT !.rcv = @ + Len(m.data), !.got = @ \o m.data]
    BY DEF Got, s
  <2>3. Got(t, m).n = t.n /\ (Got(t, m).st = t.st \/ Got(t, m).st = s.st)
    BY <2>1, <2>2 DEF Peers
  <2> QED BY <2>1, <2>3 DEF Said
<1>3. t.st \in OpenStates => HeardFin(t).n = t.n /\ (Said(t) => Said(HeardFin(t)))
  <2> SUFFICES ASSUME t.st \in OpenStates
               PROVE  HeardFin(t).n = t.n /\ (Said(t) => Said(HeardFin(t)))
    OBVIOUS
  <2> DEFINE x == CASE t.st = "ESTAB" -> "CLOSE_WAIT"
                    [] t.st = "FIN_WAIT_1" -> "CLOSING"
                    [] t.st = "FIN_WAIT_2" -> "TIMED_WAIT"
  <2>1. Said(t) => Said([st |-> x])
    BY DEF OpenStates, Said
  <2>2. HeardFin(t) = [t EXCEPT !.rcv = t.rcv + 1, !.st = x]
    BY DEF HeardFin
  <2> HIDE DEF x
  <2>3. HeardFin(t).n = t.n /\ HeardFin(t).st = x
    BY <2>2 DEF Peers
  <2> QED BY <2>1, <2>3 DEF Said
<1>4. t.st # "CLOSED" /\ t.st # "SYN_SENT"
  BY DEF Past
<1>5. \/ h.t = Seen(t, m) /\ h.out = <<>>
      \/ h.t = Got(t, m) /\ m.data # <<>>
      \/ h.t = HeardFin(t) /\ t.st \in OpenStates /\ m.flags = "FIN"
      \/ h.t = t /\ h.out = <<>>
  <2>1. CASE m.flags = "ACK" /\ m.data = <<>> /\ m.ack > 0
    BY <2>1 DEF Heard, Seen
  <2>2. CASE m.flags = "ACK" /\ m.data # <<>> /\ t.st \in OpenStates
    BY <2>2 DEF Heard, Seen, Got, OpenStates
  <2>3. CASE m.flags = "FIN" /\ t.st \in OpenStates /\ m.seq = t.rcv
    BY <2>3 DEF Heard, HeardFin, OpenStates
  <2>4. CASE /\ ~(m.flags = "ACK" /\ m.data = <<>> /\ m.ack > 0)
             /\ ~(m.flags = "ACK" /\ m.data # <<>> /\ t.st \in OpenStates)
             /\ ~(m.flags = "FIN" /\ t.st \in OpenStates /\ m.seq = t.rcv)
    BY <1>4, <2>4 DEF Heard, OpenStates
  <2> QED BY <2>1, <2>2, <2>3, <2>4
<1> HIDE DEF h
<1>6. /\ Said(t) => Said(h.t)
      /\ h.t.n = t.n
      /\ h.out # <<>> => m.data # <<>> \/ m.flags = "FIN"
  BY <1>1, <1>2, <1>3, <1>5
<1> QED BY <1>6 DEF h

LEMMA PeerReceiveClose ==
  ASSUME Typed, Distinct, ConnOK, SeqOK, CloseOK, NEW c \in Conns, PeerReceive(c)
  PROVE  CloseOK'
<1> DEFINE t == peer[c]
           out == toPeer[c]
           in == toHost[c]
           m == Head(out)
           h == Heard(c, t, m)
<1>1. /\ toPeer \in [Conns -> Seq(Segments)] /\ out # <<>> /\ out \in Seq(Segments)
      /\ peer \in [Conns -> Peers] /\ t \in Peers
      /\ toPeer' = [toPeer EXCEPT ![c] = Tail(out)]
      /\ peer' = [peer EXCEPT ![c] = h.t]
      /\ Tell(c, h.out) /\ UNCHANGED <<kernel, apps>>
  BY DEF PeerReceive, Hears, Typed, NetType
<1>2. m \in Segments /\ in \in Seq(ShortSegments)
  BY <1>1 DEF Typed, NetType
<1>3. h.t \in Peers /\ h.out \in Seq(ShortSegments)
  BY <1>1, <1>2, HeardType
<1>4. toHost'[c] = in \o h.out /\ \A d \in Conns : d # c => toHost'[d] = toHost[d]
  BY <1>1, <1>3, TellType DEF Typed
<1>5. /\ peer'[c] = h.t /\ toPeer'[c] = Tail(out)
      /\ \A d \in Conns : d # c => peer'[d] = peer[d] /\ toPeer'[d] = toPeer[d]
  BY <1>1
<1>6. WireClose(t, in)
  BY DEF CloseOK, WiresClose
<1>7. OutSeq(t, out) /\ InSeq(c, t, in)
  BY DEF SeqOK, WiresSeq
<1>8. 1 \in DOMAIN out /\ m = out[1]
  BY <1>1, TailElements
<1>9. CASE Past(t)
  <2>1. \/ h.out = <<>>
        \/ \E s \in ShortSegments : h.out = <<s>> /\ s.flags = "ACK"
    BY <1>1, <1>2, <1>9, HeardPast
  <2>2. /\ Said(t) => Said(h.t)
        /\ h.t.n = t.n
        /\ h.out # <<>> => m.data # <<>> \/ m.flags = "FIN"
    BY <1>1, <1>2, <1>9, HeardClose
  <2>3. Ends(h.t, t, m)
    <3>1. t.st = "SYN_RCVD" => t.snd = 1
      BY <1>7 DEF InSeq
    <3> HIDE DEF t
    <3> QED BY <1>1, <1>7, <1>9, <3>1, HeardSeq
  <2>4. \A k \in DOMAIN Tail(out) : \E l \in DOMAIN out : Tail(out)[k] = out[l]
    <3>1. \A k \in DOMAIN Tail(out) : k+1 \in DOMAIN out /\ Tail(out)[k] = out[k+1]
      BY <1>1, TailElements
    <3> QED BY <3>1
  <2> HIDE DEF h, m, out, in, t
  <2>5. \A k \in DOMAIN (in \o h.out) :
          \/ k \in DOMAIN in /\ (in \o h.out)[k] = in[k]
          \/ h.out # <<>> /\ (in \o h.out)[k].flags = "ACK"
    <3>1. CASE h.out = <<>>
      <4>1. in \o h.out = in
        BY <1>2, <3>1
      <4> QED BY <4>1
    <3>2. ASSUME NEW s \in ShortSegments, h.out = <<s>>, s.flags = "ACK"
          PROVE  \A k \in DOMAIN (in \o h.out) :
                   \/ k \in DOMAIN in /\ (in \o h.out)[k] = in[k]
                   \/ h.out # <<>> /\ (in \o h.out)[k].flags = "ACK"
      <4>1. \A k \in DOMAIN (in \o <<s>>) :
              \/ k \in DOMAIN in /\ (in \o <<s>>)[k] = in[k]
              \/ (in \o <<s>>)[k] = s
        BY <1>2, TellsElements
      <4>2. <<s>> # <<>>
        OBVIOUS
      <4> QED BY <3>2, <4>1, <4>2
    <3> QED BY <2>1, <3>1, <3>2
  <2> DEFINE in2 == in \o h.out
  <2> HIDE DEF in2
  <2>6. \A k \in DOMAIN in2 : (k \in DOMAIN in /\ in2[k] = in[k])
                              \/ (h.out # <<>> /\ in2[k].flags = "ACK")
    BY <2>5 DEF in2
  <2>7. WireClose(h.t, in2)
    BY <1>6, <2>2, <2>6 DEF WireClose
  <2>8. Closes(t, in, out, h.t, in2, Tail(out))
    <3>1. ASSUME \A k \in DOMAIN out : out[k].data = <<>>,
                 NEW k \in DOMAIN in2, in2[k].flags = "ACK"
          PROVE  Ended(h.t) \/ \E l \in DOMAIN in : in[l].flags = "ACK"
      <4>1. CASE k \in DOMAIN in /\ in2[k] = in[k]
        BY <3>1, <4>1
      <4>2. CASE h.out # <<>>
        BY <1>8, <2>2, <2>3, <3>1, <4>2 DEF Ends
      <4> QED BY <2>6, <4>1, <4>2
    <3>2. Ended(t) => Ended(h.t)
      BY <2>3 DEF Ends
    <3> QED BY <2>2, <2>4, <3>1, <3>2 DEF Closes
  <2> QED BY <1>1, <1>4, <1>5, <1>9, <2>7, <2>8, RemoteClose DEF in2, t, in, out
<1>10. CASE t.st = "SYN_SENT"
  <2>1. in = <<>> /\ m.flags = "SYNACK" /\ ~Past(t)
    BY <1>1, <1>10, WireFacts DEF Past
  <2> DEFINE u == Connected(t, m)
             s == Speak("ACK", u, <<>>)
  <2>2. h.t = u /\ h.out = <<s>>
    <3> HIDE DEF h, t, m
    <3> QED BY <1>10, <2>1 DEF Heard, Connected, h
  <2>3. s.flags = "ACK"
    BY SpeakFields
  <2> HIDE DEF h, s, u
  <2>4. toHost'[c] = <<s>> /\ peer'[c] = u
    BY <1>3, <1>4, <1>5, <2>1, <2>2
  <2>5. \A k \in DOMAIN <<s>> : <<s>>[k] = s /\ k = 1
    OBVIOUS
  <2>6. WireClose(u, <<s>>) /\ HalfClose(u, <<s>>)
    BY <2>3, <2>5 DEF WireClose, HalfClose
  <2> QED BY <1>1, <1>4, <1>5, <2>1, <2>4, <2>6, RemoteClose
<1>11. CASE t.st = "CLOSED"
  <2>1. in = <<>> /\ c \notin Incoming /\ m.flags = "SYN" /\ ~Past(t)
    BY <1>1, <1>11, WireFacts DEF Past
  <2>2. c[1] \in Servers
    BY <2>1, RemoteConn
  <2> DEFINE u == Answered(t, m)
             s == Speak("SYNACK", [u EXCEPT !.snd = 0], <<>>)
  <2>3. h.t = u /\ h.out = <<s>>
    <3> HIDE DEF h, t, m
    <3> QED BY <1>11, <2>1, <2>2 DEF Heard, Answered, h, u, s
  <2>4. s.flags = "SYNACK"
    BY SpeakFields
  <2> HIDE DEF h, u, s
  <2>5. toHost'[c] = <<s>> /\ peer'[c] = u
    BY <1>3, <1>4, <1>5, <2>1, <2>3
  <2>6. \A k \in DOMAIN <<s>> : <<s>>[k] = s
    OBVIOUS
  <2>7. WireClose(u, <<s>>)
    BY <2>4, <2>6 DEF WireClose
  <2> QED BY <1>1, <1>4, <1>5, <2>1, <2>5, <2>7, RemoteClose
<1> QED BY <1>9, <1>10, <1>11 DEF Past

\* A remote leaves every connection its close.
LEMMA RemoteCloses ==
  ASSUME Typed, Distinct, ConnOK, SeqOK, CloseOK, NEW c \in Conns, Remote(c)
  PROVE  CloseOK'
<1>1. PeerOpen(c) \/ PeerRetry(c) \/ PeerSend(c) \/ PeerClose(c) \/ PeerReceive(c)
  BY DEF Remote
<1> QED BY <1>1, PeerOpenClose, PeerSendClose, PeerCloseClose, PeerReceiveClose

-----------------------------------------------------------------------------
(* Arrivals.                                                               *)

\* What an ACK makes of the table: a node of another connection as it was, or
\* the node the ACK is taken for.
LEMMA AckLeaves ==
  ASSUME Typed, Distinct, ConnOK, SeqOK, NEW c \in Conns, Ack(c), NEW j \in DOMAIN socklist'
  PROVE  LET m == Head(toHost[c])
             sl == Completed(c, m).sl
             i == AckedAt(c, m)
         IN  \/ Conn(socklist'[j]) # c /\ \E k \in DOMAIN socklist : socklist'[j] = socklist[k]
             \/ /\ i # 0 /\ sl[i].status # "LAST_ACK"
                /\ socklist'[j] = AckOf(sl[i], c, m).node
<1> DEFINE m == Head(toHost[c])
           sl == Completed(c, m).sl
           i == AckedAt(c, m)
           n == AckOf(sl[i], c, m).node
           old(x) == Conn(x) # c /\ \E k \in DOMAIN socklist : x = socklist[k]
<1>1. m \in ShortSegments /\ m.flags = "ACK" /\ Delivers(c) /\ sl \in Seq(SockNode)
  BY AckCases, ArrivingFacts, CompletedType
<1>2. \/ i = 0 /\ socklist' = sl
      \/ /\ i # 0 /\ sl[i].status = "LAST_ACK"
         /\ socklist' = Take(sl, i)
      \/ /\ i # 0 /\ sl[i].status # "LAST_ACK"
         /\ socklist' = [sl EXCEPT ![i] = n]
  BY AckCases
<1>3. ASSUME NEW k \in DOMAIN sl, k # i PROVE old(sl[k])
  <2>1. Past(peer[c])
    BY <1>1, ArrivesClear
  <2>2. Conn(sl[k]) # c
    BY <1>3, AckOthers DEF Stays
  <2>3. Continues(sl[k], c)
    BY <1>1, <2>1, CompletedSeq
  <2> QED BY <2>2, <2>3 DEF Continues
<1>4. DOMAIN sl \subseteq Nat \ {0}
  BY <1>1
<1>5. i # 0 => i \in DOMAIN sl
  BY <1>1, AckedAtLookup
<1> HIDE DEF n, sl, i, m, old
<1>6. CASE i = 0 /\ socklist' = sl
  <2>1. j \in DOMAIN sl /\ j # i
    BY <1>4, <1>6
  <2>2. old(socklist'[j])
    BY <1>3, <1>6, <2>1
  <2> QED BY <2>2 DEF old
<1>7. CASE i # 0 /\ socklist' = Take(sl, i)
  <2>1. /\ \/ j \in DOMAIN sl /\ j < i /\ socklist'[j] = sl[j]
           \/ j+1 \in DOMAIN sl /\ j+1 > i /\ socklist'[j] = sl[j+1]
        /\ i \in Nat
    BY <1>1, <1>4, <1>5, <1>7, TakeElements
  <2>2. j \in DOMAIN sl /\ j < i => j # i
    BY <1>4, <2>1
  <2>3. j+1 \in DOMAIN sl /\ j+1 > i => j+1 # i
    BY <1>4, <2>1
  <2>4. old(socklist'[j])
    BY <1>3, <2>1, <2>2, <2>3
  <2> QED BY <2>4 DEF old
<1>8. CASE i # 0 /\ sl[i].status # "LAST_ACK" /\ socklist' = [sl EXCEPT ![i] = n]
  <2>1. j \in DOMAIN sl /\ socklist'[j] = IF j = i THEN n ELSE sl[j]
    BY <1>8
  <2>2. old(socklist'[j]) \/ socklist'[j] = n
    BY <1>3, <2>1
  <2> QED BY <1>8, <2>2 DEF old, n, sl, i, m
<1> QED BY <1>2, <1>6, <1>7, <1>8

\* The node the ACK is taken for, and what it sends.
LEMMA AckTaken ==
  ASSUME Typed, Distinct, ConnOK, SeqOK, NEW c \in Conns, Ack(c),
         AckedAt(c, Head(toHost[c])) # 0
  PROVE  LET m == Head(toHost[c])
             n == Completed(c, m).sl[AckedAt(c, m)]
             a == AckOf(n, c, m)
         IN  /\ n \in SockNode /\ Conn(n) = c /\ Conn(a.node) = c
             /\ \/ \E k \in DOMAIN socklist : n = socklist[k]
                \/ HalfOpen(c) # 0 /\ n = NewSocket(c, m)
             /\ a.out \in Seq(Segments) /\ toPeer'[c] = toPeer[c] \o a.out
<1> DEFINE m == Head(toHost[c])
           i == AckedAt(c, m)
           sl == Completed(c, m).sl
           n == sl[i]
           a == AckOf(n, c, m)
<1>1. Delivers(c) /\ m.flags = "ACK" /\ m \in ShortSegments
  BY AckCases, ArrivingFacts
<1>2. i \in DOMAIN sl /\ n \in SockNode
  BY <1>1, AckedAtLookup
<1>3. Conn(n) = c
  BY AckTakes
<1>4. \/ \E k \in DOMAIN socklist : n = socklist[k]
      \/ HalfOpen(c) # 0 /\ n = NewSocket(c, m)
  <2>1. /\ ~NewlyOpen(c) => sl = socklist
        /\ NewlyOpen(c) =>
             /\ HalfOpen(c) # 0 /\ sl[1] = NewSocket(c, m)
             /\ \A l \in DOMAIN sl : l = 1 \/ (l-1 \in DOMAIN socklist /\ sl[l] = socklist[l-1])
    BY <1>1, CompletedTable
  <2> HIDE DEF sl, i
  <2> QED BY <1>2, <2>1
<1>5. Post(a.to, a.out)
  BY AckCases DEF AckResult
<1> HIDE DEF i, sl, n
<1>6. Conn(a.node) = c /\ a.to = c
  BY <1>1, <1>2, <1>3, AckedKeeps
<1>7. a.out \in Seq(Segments)
  BY <1>1, <1>2, AckOfFacts
<1> HIDE DEF a, m
<1>8. toPeer'[c] = toPeer[c] \o a.out
  BY <1>5, <1>6, <1>7, PostAt
<1> QED BY <1>2, <1>3, <1>4, <1>6, <1>7, <1>8 DEF a, n, i, sl, m

\* An entry that is left, and an ACK that is taken for no node of its connection.
LEMMA AckHalf ==
  ASSUME Typed, Distinct, ConnOK, SeqOK, NEW c \in Conns, Ack(c),
         NEW j \in DOMAIN backlog_list'
  PROVE  /\ \E k \in DOMAIN backlog_list : backlog_list'[j] = backlog_list[k]
         /\ Live(backlog_list'[j]) /\ Conn(backlog_list'[j]) = c =>
              AckedAt(c, Head(toHost[c])) = 0 /\ toPeer'[c] = toPeer[c]
<1> DEFINE m == Head(toHost[c])
           e == backlog_list'[j]
           sl == Completed(c, m).sl
           i == AckedAt(c, m)
<1>1. /\ Delivers(c) /\ m.flags = "ACK" /\ backlog_list' = Completed(c, m).bl
      /\ m \in ShortSegments
  BY AckCases, ArrivingFacts
<1>2. Past(peer[c]) /\ Clear(toHost[c])
  BY <1>1, ArrivesClear
<1>3. ListsApart(sl, backlog_list')
  BY <1>1, <1>2, CompletedConn DEF OpensOK
<1>4. \E k \in DOMAIN backlog_list : e = backlog_list[k]
  <2>1. \/ backlog_list' = backlog_list
        \/ HalfOpen(c) # 0 /\ backlog_list' = Take(backlog_list, HalfOpen(c))
    BY <1>1, CompletedCases
  <2>2. HalfOpen(c) # 0 => HalfOpen(c) \in DOMAIN backlog_list
    BY EntryConn
  <2>3. HalvesApart(backlog_list)
    BY DEF ConnOK, Apart
  <2> QED BY <2>1, <2>2, <2>3, TakeHalves
<1>5. ASSUME Live(e), Conn(e) = c PROVE i = 0
  <2>1. e.dest = c[1]
    BY <1>5, ConnParts
  <2>2. i # 0 => i \in DOMAIN sl /\ sl[i].dest = c[1]
    BY <1>1, AckedAtLookup
  <2> HIDE DEF sl, i, m
  <2> QED BY <1>3, <1>5, <2>1, <2>2 DEF ListsApart
<1> QED BY <1>4, <1>5, AckMakes

\* What a segment taken leaves true.
LEMMA TailClose ==
  ASSUME NEW in \in Seq(ShortSegments), in # <<>>, NEW t
  PROVE  /\ WireClose(t, in) => WireClose(t, Tail(in))
         /\ HalfClose(t, in) => HalfClose(t, Tail(in))
         /\ HalfClose(t, in) /\ Past(t) /\ t.n = 0 => \A k \in DOMAIN Tail(in) : Tail(in)[k].flags # "ACK"
         /\ \A n, w, out : NodeClose(n, w, t, in, out) => NodeClose(n, w, t, Tail(in), out)
<1> DEFINE rest == Tail(in)
<1>1. \A k \in DOMAIN rest : k+1 \in DOMAIN in /\ rest[k] = in[k+1] /\ k+1 # 1
  BY TailElements
<1> HIDE DEF rest
<1>2. \A k \in DOMAIN rest : \E l \in DOMAIN in : l # 1 /\ rest[k] = in[l]
  BY <1>1
<1>3. WireClose(t, in) => WireClose(t, rest)
  BY <1>2 DEF WireClose
<1>4. HalfClose(t, in) /\ Past(t) /\ t.n = 0 => \A k \in DOMAIN rest : rest[k].flags # "ACK"
  BY <1>2 DEF HalfClose
<1>5. HalfClose(t, in) => HalfClose(t, rest)
  BY <1>4 DEF HalfClose
<1>6. \A n, w, out : NodeClose(n, w, t, in, out) => NodeClose(n, w, t, rest, out)
  BY <1>2 DEF NodeClose, Calm
<1> QED BY <1>3, <1>4, <1>5, <1>6 DEF rest

\* What arrives leaves the sending side alone, unless it is an acknowledgement.
SameSide(m, n) == /\ m.owner = n.owner /\ m.send_len = n.send_len
                  /\ m.write_uuid = n.write_uuid /\ m.sending = n.sending

LEMMA SideMore ==
  ASSUME NEW n \in SockNode, NEW m, SameSide(m, n), WroteMore
  PROVE  /\ Ample(m) <=> Ample(n)
         /\ Hushed(m, wrote') => Hushed(n, wrote)
         /\ (Up(n.status) <=> Up(m.status)) /\ NodeSends(n, wrote) => NodeSends(m, wrote')
<1>1. n.owner \in Pids
  BY NodeFields DEF SockNode
<1>2. wrote'[n.owner] = 0 => wrote[n.owner] = 0
  BY <1>1 DEF WroteMore
<1>3. Ample(m) <=> Ample(n)
  BY DEF Ample, SameSide
<1>4. Hushed(m, wrote') => Hushed(n, wrote)
  BY <1>2 DEF Hushed, SameSide
<1>5. (Up(n.status) <=> Up(m.status)) /\ NodeSends(n, wrote) => NodeSends(m, wrote')
  BY <1>2, <1>3 DEF NodeSends, SameSide
<1> QED BY <1>3, <1>4, <1>5

LEMMA LeftSide ==
  ASSUME NEW n \in SockNode, NEW m \in ShortSegments
  PROVE  SameSide(Left(n, m), n)
<1> DEFINE s == Stored(n, m)
           t == Consumed(s, n.read_len)
           u == [t EXCEPT !.read_uuid = None]
           x == Left(n, m)
<1>1. s \in SockNode
  BY StoredType
<1>2. SameSide(s, n)
  BY DEF Stored, SameSide, SockNode, NodeOf
<1> HIDE DEF s
<1>3. SameSide(t, s) /\ DOMAIN t = DOMAIN s
  BY <1>1 DEF Consumed, SameSide, SockNode, NodeOf
<1>4. x = IF Satisfied(s) THEN u ELSE s
  BY DEF Left, s
<1> HIDE DEF t, x
<1>5. SameSide(u, t)
  BY <1>1, <1>3 DEF SameSide, SockNode, NodeOf
<1>6. SameSide(x, n)
  BY <1>2, <1>3, <1>4, <1>5 DEF SameSide
<1> QED BY <1>6 DEF x

\* A data segment is answered without data.
LEMMA ReceiveClose ==
  ASSUME NEW n \in SockNode, NEW m \in ShortSegments, NEW c, NEW t, NEW rest,
         NEW out \in Seq(Segments), WroteMore, NodeSends(n, wrote),
         NodeClose(n, wrote, t, rest, out)
  PROVE  LET r == Receive(n, c, m)
         IN  NodeSends(r.node, wrote') /\ NodeClose(r.node, wrote', t, rest, out \o r.out)
<1> DEFINE x == Left(n, m)
           seg == Segment("ACK", x.seq, x.ack, Window(x), <<>>)
           new == <<seg>>
<1>1. /\ Receive(n, c, m).node = x /\ Receive(n, c, m).out = new
      /\ new \in Seq(Segments)
  <2>1. /\ Receive(n, c, m) = [node |-> x, to |-> c, out |-> new, answers |-> ReadAnswers(n, m)]
        /\ Receive(n, c, m).out \in Seq(Segments)
    BY ReceiveFacts
  <2> HIDE DEF x, new
  <2> QED BY <2>1
<1>2. SameSide(x, n)
  BY LeftSide
<1>3. x.status = n.status
  BY LeftType
<1>4. seg.data = <<>>
  BY DEF Segment
<1> HIDE DEF x, seg
<1>5. \A k \in DOMAIN new : new[k].data = <<>>
  BY <1>4
<1> HIDE DEF new
<1>6. NodeSends(x, wrote') /\ (Hushed(x, wrote') => Hushed(n, wrote))
  BY <1>2, <1>3, SideMore
<1>7. Goes(x, n, new)
  BY <1>2, <1>3, <1>5, <1>6 DEF Goes, SameSide
<1>8. NodeClose(x, wrote', t, rest, out \o new)
  BY <1>1, <1>7, GoesClose
<1> QED BY <1>1, <1>6, <1>8

\* An acknowledgement gives room, so that after it the send buffer of a socket
\* nothing has been written to would hold more than it was made for.
LEMMA AckedClose ==
  ASSUME NEW n \in SockNode, NEW m \in ShortSegments, NEW t, NEW rest, n.status = "ESTAB",
         NEW out \in Seq(Segments), WroteMore, NodeSends(n, wrote),
         NodeClose(n, wrote, t, rest, out)
  PROVE  LET r == Acked(n, m)
         IN  NodeSends(r.node, wrote') /\ NodeClose(r.node, wrote', t, rest, out \o r.out)
<1> DEFINE x == AckedNode(n, m)
           new == Acked(n, m).out
           s == Resumed(n, m).node
<1>1. /\ Acked(n, m).node = x /\ x \in SockNode /\ x.status = n.status /\ new \in Seq(Segments)
      /\ new = IF n.sending THEN Resumed(n, m).out ELSE <<>>
      /\ x.owner = n.owner
  BY AckedFacts DEF Acked, Resumed, Grown, SameSocket
<1>2. n.send_len \in Int /\ BUFSIZE \in Int /\ MSS \in Nat \ {0} /\ n.owner \in Pids
  BY NodeFields, IndexFacts DEF SockNode
<1>3. CASE ~n.sending
  <2>1. x = Grown(n, m) /\ new = <<>>
    BY <1>1, <1>3 DEF AckedNode
  <2>2. SameSide(Grown(n, m), n)
    BY <1>3 DEF Grown, SameSide, SockNode, NodeOf
  <2> HIDE DEF x, new
  <2>3. \A k \in DOMAIN new : FALSE
    BY <2>1
  <2>4. NodeSends(x, wrote') /\ (Hushed(x, wrote') => Hushed(n, wrote))
    BY <1>1, <2>1, <2>2, SideMore
  <2>5. Goes(x, n, new)
    BY <1>1, <2>3, <2>4 DEF Goes
  <2>6. NodeClose(x, wrote', t, rest, out \o new)
    BY <1>1, <2>5, GoesClose
  <2> QED BY <1>1, <2>4, <2>6 DEF x, new
<1>4. CASE n.sending
  <2>1. s \in SockNode /\ s.send_len = n.send_len + MSS
    BY <1>4, ResumedType
  <2>2. ASSUME wrote'[n.owner] = 0
        PROVE  x.send_len >= BUFSIZE /\ x.send_len # BUFSIZE /\ x.write_uuid[1] <= 0
    <3>1. wrote[n.owner] = 0
      BY <1>2, <2>2 DEF WroteMore
    <3>2. n.send_len >= BUFSIZE /\ n.write_uuid[1] <= 0
      BY <3>1 DEF NodeSends, Ample
    <3>3. n.write_uuid \in Ids /\ n.write_uuid[1] \in Int
      BY IdFacts, NodeFields DEF SockNode
    <3>4. Filled(n, m) = s
      BY <3>2, <3>3 DEF Filled
    <3>5. x = [s EXCEPT !.write_uuid = None]
      BY <1>4, <3>4 DEF AckedNode
    <3> HIDE DEF x, s
    <3>6. x.send_len = s.send_len /\ x.write_uuid = None
      BY <2>1, <3>5 DEF SockNode, NodeOf
    <3>7. None[1] <= 0
      BY DEF None
    <3> QED BY <1>2, <2>1, <3>2, <3>6, <3>7
  <2> HIDE DEF x, new, s
  <2>3. NodeSends(x, wrote') /\ ~Hushed(x, wrote')
    <3>1. Up(n.status)
      BY DEF Up
    <3> QED BY <1>1, <2>2, <3>1 DEF NodeSends, Ample, Hushed
  <2>4. Goes(x, n, new)
    BY <1>1, <2>3 DEF Goes
  <2>5. NodeClose(x, wrote', t, rest, out \o new)
    BY <1>1, <2>4, GoesClose
  <2> QED BY <1>1, <2>3, <2>5 DEF x, new
<1> QED BY <1>3, <1>4

\* What an ACK makes of the node it is taken for.
LEMMA AcksClose ==
  ASSUME NEW n \in SockNode, NEW t, NEW in \in Seq(ShortSegments), in # <<>>, NEW c,
         Head(in).flags = "ACK", NEW out \in Seq(Segments), WroteMore, NodeSends(n, wrote),
         NodeClose(n, wrote, t, Tail(in), out), n.status # "LAST_ACK",
         n.status # "ESTAB" => NodeClose(n, wrote, t, in, out)
  PROVE  LET a == AckOf(n, c, Head(in))
         IN  NodeSends(a.node, wrote') /\ NodeClose(a.node, wrote', t, Tail(in), out \o a.out)
<1> DEFINE m == Head(in)
           rest == Tail(in)
           a == AckOf(n, c, m)
           x == a.node
<1>1. m \in ShortSegments /\ 1 \in DOMAIN in /\ m = in[1]
  OBVIOUS
<1>2. CASE n.status = "ESTAB" /\ m.data # <<>>
  <2>1. a = Receive(n, c, m)
    BY <1>2 DEF AckOf
  <2> HIDE DEF m, rest
  <2> QED BY <1>1, <2>1, ReceiveClose DEF m, rest
<1>3. CASE n.status = "ESTAB" /\ m.data = <<>>
  <2>1. a = Acked(n, m)
    BY <1>3 DEF AckOf
  <2> HIDE DEF m, rest
  <2> QED BY <1>1, <1>3, <2>1, AckedClose DEF m, rest
<1>4. CASE n.status # "ESTAB"
  <2> HIDE DEF m, rest
  <2>1. (\E st, seq : x = Quiet(n, st, seq)) /\ a.out = <<>>
    BY <1>4 DEF AckOf, Quiet
  <2>2. SameSide(x, n)
    <3>1. \A st, seq : SameSide(Quiet(n, st, seq), n)
      BY DEF Quiet, SockNode, NodeOf, SameSide
    <3> QED BY <2>1, <3>1
  <2>3. x.status = CASE n.status = "FIN_WAIT_1" -> "FIN_WAIT_2"
                     [] n.status = "CLOSING" -> "TIMED_WAIT"
                     [] OTHER -> n.status
    BY <1>1, AckOfFacts
  <2> HIDE DEF a
  <2>4. /\ Up(n.status) <=> Up(x.status)
        /\ x.status \in {"CLOSE_WAIT", "LAST_ACK", "CLOSING", "TIMED_WAIT"} =>
             n.status \in {"CLOSE_WAIT", "LAST_ACK", "CLOSING", "TIMED_WAIT"}
    <3>1. CASE n.status = "FIN_WAIT_1"
      BY <2>3, <3>1 DEF Up
    <3>2. CASE n.status = "CLOSING"
      BY <2>3, <3>2 DEF Up
    <3>3. CASE n.status \notin {"FIN_WAIT_1", "CLOSING"}
      BY <1>4, <2>3, <3>3
    <3> QED BY <3>1, <3>2, <3>3
  <2>5. out \o a.out = out
    BY <2>1
  <2> HIDE DEF x
  <2>6. NodeSends(x, wrote') /\ (Hushed(x, wrote') => Hushed(n, wrote))
    BY <2>2, <2>4, SideMore
  <2>7. Up(n.status) /\ Hushed(n, wrote) /\ t.n = 0 => Ended(t) /\ \A k \in DOMAIN out : out[k].data = <<>>
    BY <1>1, <1>4 DEF NodeClose, Calm, m
  <2>8. NodeClose(x, wrote', t, rest, out)
    BY <1>4, <2>4, <2>6, <2>7 DEF NodeClose, Calm
  <2> QED BY <2>5, <2>6, <2>8 DEF x, a, rest, m
<1> QED BY <1>2, <1>3, <1>4

\* Every arrival answers with -1 or more.
LEMMA AckOfAbove ==
  ASSUME NEW n \in SockNode, NEW m \in ShortSegments, NEW c
  PROVE  Above(AckOf(n, c, m).answers)
<1> DEFINE A == AckOf(n, c, m).answers
<1>1. n.read_len \in Nat /\ MSS \in Nat
  BY NodeFields, IndexFacts DEF SockNode
<1>2. \A id, v : Answer(id, v).val = v /\ \A x : ReadAnswer(id, x, v).val = v
  BY DEF Answer, ReadAnswer
<1>3. CASE n.status = "ESTAB" /\ m.data # <<>>
  <2>1. A = Receive(n, c, m).answers
    BY <1>3 DEF AckOf
  <2>2. \A a \in Receive(n, c, m).answers : a.val = n.read_len
    BY <1>2 DEF Receive
  <2> QED BY <1>1, <2>1, <2>2 DEF Above
<1>4. CASE n.status = "ESTAB" /\ m.data = <<>>
  <2>1. A = Acked(n, m).answers
    BY <1>4 DEF AckOf
  <2>2. \A a \in Acked(n, m).answers : a.val = MSS
    BY <1>2 DEF Acked
  <2> QED BY <1>1, <2>1, <2>2 DEF Above
<1>5. CASE n.status # "ESTAB"
  <2>1. A \subseteq {Answer(n.uuid, 0)}
    BY <1>5 DEF AckOf
  <2> QED BY <1>2, <2>1 DEF Above
<1> QED BY <1>3, <1>4, <1>5

LEMMA ArrivalMore ==
  ASSUME Typed, WroteOK, NEW c \in Conns, packetArrived(c)
  PROVE  WroteMore
<1> DEFINE m == Head(toHost[c])
<1>0. calls \in [Pids -> CallRecs]
  BY DEF Typed, AppsType
<1>1. \A id, v : Answer(id, v).val = v /\ \A x : ReadAnswer(id, x, v).val = v
  BY DEF Answer, ReadAnswer
<1>2. ASSUME NEW A \in SUBSET AnswerRecs, Reply(A, calls), Above(A) PROVE WroteMore
  BY <1>0, <1>2, RepliesMore
<1>3. CASE Syn(c)
  <2>1. UNCHANGED wrote
    BY <1>3, SynCases DEF apps
  <2> QED BY <2>1, SameMore
<1>4. CASE SynAck(c)
  <2> DEFINE A == {Answer(socklist[i].uuid, 0) : i \in Mine(c)}
  <2>1. Reply(A, calls)
    BY <1>4, SynAckCases
  <2>2. \A i \in DOMAIN socklist : socklist[i].uuid \in Ids
    BY ListElements, NodeFields DEF SockNode
  <2>3. A \in SUBSET AnswerRecs
    BY <2>2, AnswerType, Empties DEF Mine
  <2>4. Above(A)
    BY <1>1 DEF Above
  <2> HIDE DEF A
  <2> QED BY <1>2, <2>1, <2>3, <2>4
<1>5. CASE Ack(c)
  <2> DEFINE A == Completed(c, m).answers
             B == AckResult(c, m).answers
  <2>1. A \cup B \in SUBSET AnswerRecs /\ Reply(A \cup B, calls) /\ m \in ShortSegments
    BY <1>5, AckAnswers
  <2>2. A = {} \/ \E id : A = {Answer(id, NewFd(c))} \/ A = {Answer(id, -1)}
    BY <2>1, CompletedCases
  <2>3. NewFd(c) = -1 \/ NewFd(c) \in Descriptors \/ A = {}
    <3>1. CASE HalfOpen(c) = 0
      BY <2>1, <3>1, CompletedCases
    <3>2. CASE HalfOpen(c) # 0
      BY <2>1, <3>2, NewSocketType
    <3> QED BY <3>1, <3>2
  <2>4. \A d \in Descriptors : d >= -1
    BY MaxFdAssumption DEF Descriptors
  <2>5. Above(A)
    <3> HIDE DEF A
    <3> QED BY <1>1, <2>2, <2>3, <2>4 DEF Above
  <2>6. Above(B)
    <3>1. CASE AckedAt(c, m) = 0
      BY <3>1 DEF AckResult, Above
    <3>2. CASE AckedAt(c, m) # 0
      <4>1. Completed(c, m).sl[AckedAt(c, m)] \in SockNode
        BY <2>1, <3>2, AckedAtLookup
      <4>2. B = AckOf(Completed(c, m).sl[AckedAt(c, m)], c, m).answers
        BY <3>2 DEF AckResult
      <4> HIDE DEF B, m
      <4> QED BY <2>1, <4>1, <4>2, AckOfAbove
    <3> QED BY <3>1, <3>2
  <2> HIDE DEF A, B
  <2>7. Above(A \cup B)
    BY <2>5, <2>6 DEF Above
  <2> QED BY <1>2, <2>1, <2>7
<1>6. CASE Fin(c)
  <2> DEFINE n == socklist[FinAt(c)]
             A == FinAnswers(n)
  <2>1. \/ /\ FinAt(c) # 0 /\ n.status \in {"ESTAB", "FIN_WAIT_1", "FIN_WAIT_2"}
           /\ Reply(A, calls)
        \/ UNCHANGED wrote
    BY <1>6, FinCases DEF apps
  <2>2. m \in ShortSegments
    BY <1>6, FinCases, ArrivingFacts
  <2>3. FinAt(c) # 0 => n \in SockNode
    BY FinAtLookup
  <2> HIDE DEF n, m
  <2>4. ASSUME FinAt(c) # 0, n.status \in {"ESTAB", "FIN_WAIT_1", "FIN_WAIT_2"}, Reply(A, calls)
        PROVE  WroteMore
    <3>1. A \in SUBSET AnswerRecs
      BY <2>2, <2>3, <2>4, FinPartTypes
    <3>2. n.recv_len \in Nat
      BY <2>3, <2>4, NodeFields, IndexFacts DEF SockNode
    <3>3. \A a \in A : a.val = n.recv_len \/ a.val = 0
      BY <1>1 DEF FinAnswers, EofAnswers
    <3>4. Above(A)
      BY <3>2, <3>3 DEF Above
    <3> QED BY <1>2, <2>4, <3>1, <3>4
  <2> QED BY <2>1, <2>4, SameMore
<1> QED BY <1>3, <1>4, <1>5, <1>6 DEF packetArrived

\* A new half-open connection holds nothing to send, as its listener does not.
LEMMA SynHalfClose ==
  ASSUME Typed, CloseOK, NEW port, NEW r \in Remotes, NEW ack \in Int
  PROVE  Ample(Half(ListenerOf(port), r, ack))
<1> DEFINE i == Listener(socklist, port)
           l == ListenerOf(port)
           n == Half(l, r, ack)
<1>1. CASE i = 0
  <2>1. l = NoListener
    BY <1>1 DEF ListenerOf
  <2> HIDE DEF l
  <2>2. n.send_len = BUFSIZE /\ n.write_uuid = Zero
    BY <2>1 DEF NoListener, FreshNode, Half
  <2> HIDE DEF n
  <2>3. Ample(n)
    BY <2>2, IndexFacts DEF Ample, Zero
  <2> QED BY <2>3 DEF l, n
<1>2. CASE i # 0
  <2>1. l = socklist[i] /\ i \in DOMAIN socklist /\ l \in SockNode /\ l.status = "LISTENING"
    BY <1>2, ListenerLookup DEF ListenerOf
  <2>2. Ample(l)
    BY <2>1 DEF CloseOK, NodesClose, NodeSends, Up
  <2> HIDE DEF l
  <2>3. n.send_len = l.send_len /\ n.write_uuid = l.write_uuid
    BY <2>1 DEF Half, SockNode, NodeOf
  <2> QED BY <2>2, <2>3 DEF l, Ample
<1> QED BY <1>1, <1>2

LEMMA SynClose ==
  ASSUME Typed, Distinct, ConnOK, CloseOK, WroteMore, socklist' \in Seq(SockNode),
         NEW c \in Conns, Syn(c)
  PROVE  CloseOK'
<1> DEFINE ack == Head(toHost[c]).seq + 1
           n == Half(ListenerOf(c[2]), c[1], ack)
           s == Segment("SYNACK", 0, n.ack, BUFSIZE, <<>>)
<1>1. /\ socklist' = socklist /\ peer' = peer /\ Delivers(c)
      /\ \/ Fits(c) /\ backlog_list' = Append(backlog_list, n) /\ Post(c, <<s>>)
         \/ backlog_list' = backlog_list /\ toPeer' = toPeer
  BY SynCases
<1>2. /\ peer[c].st = "SYN_SENT"
      /\ toHost'[c] = <<>> /\ \A d \in Conns : d # c => toHost'[d] = toHost[d]
      /\ \A i \in DOMAIN socklist : socklist[i].dest # c[1]
      /\ \A j \in DOMAIN backlog_list : Live(backlog_list[j]) => backlog_list[j].dest # c[1]
  BY SynArrives
<1>3. ack \in Int /\ c[1] \in Remotes
  <2>1. Head(toHost[c]) \in ShortSegments
    BY <1>1, ArrivingFacts
  <2> QED BY <2>1, SegmentFields, ConnFacts
<1> HIDE DEF ack
<1>4. n \in HalfNode /\ Ample(n) /\ (Fits(c) /\ Live(n) => Conn(n) = c)
  <2>1. Fits(c) /\ Live(n) => Conn(n) = c
    BY <1>3, SynHalf
  <2> QED BY <1>3, <2>1, HalfType, SynHalfClose
<1> HIDE DEF n
<1>5. s \in Segments /\ <<s>> \in Seq(Segments)
  <2>1. n.ack \in Int
    BY <1>4, NodeFields DEF HalfNode
  <2> QED BY <2>1, SegmentType, Empties, IndexFacts
<1> HIDE DEF s
<1>6. \A d \in Conns : d # c => toPeer'[d] = toPeer[d] /\ toHost'[d] = toHost[d]
  BY <1>1, <1>2, <1>5, PostAt
<1>7. WireClose(peer[c], toHost'[c])
  <2>1. DOMAIN toHost'[c] = {}
    BY <1>2
  <2> QED BY <2>1 DEF WireClose
<1>8. ASSUME NEW j \in DOMAIN socklist'
      PROVE  Conn(socklist'[j]) # c /\ \E k \in DOMAIN socklist : socklist'[j] = socklist[k]
  BY <1>1, <1>2, <1>8, ConnParts
<1>9. ASSUME NEW j \in DOMAIN backlog_list'
      PROVE  LET e == backlog_list'[j]
             IN  /\ Ample(e)
                 /\ Live(e) => \/ Conn(e) = c /\ HalfClose(peer[c], toHost'[c])
                               \/ Conn(e) # c /\ \E k \in DOMAIN backlog_list : e = backlog_list[k]
  <2>1. \/ j \in DOMAIN backlog_list /\ backlog_list'[j] = backlog_list[j]
        \/ Fits(c) /\ backlog_list'[j] = n
    <3>1. backlog_list \in Seq(HalfNode)
      BY DEF Typed, KernelType
    <3> QED BY <1>1, <1>4, <1>9, <3>1, AppendElements
  <2>2. HalfClose(peer[c], toHost'[c])
    BY <1>2 DEF HalfClose, Past
  <2>3. ASSUME j \in DOMAIN backlog_list, Live(backlog_list[j])
        PROVE  Conn(backlog_list[j]) # c
    BY <1>2, <2>3, ConnParts
  <2>4. j \in DOMAIN backlog_list => Ample(backlog_list[j])
    BY DEF CloseOK, HalvesClose
  <2> QED BY <1>4, <2>1, <2>2, <2>3, <2>4
<1> QED BY <1>1, <1>6, <1>7, <1>8, <1>9, HostClose

LEMMA SynAckClose ==
  ASSUME Typed, Distinct, ConnOK, CloseOK, WroteMore, socklist' \in Seq(SockNode),
         NEW c \in Conns, SynAck(c)
  PROVE  CloseOK'
<1> DEFINE m == Head(toHost[c])
           seg == Segment("ACK", m.ack, m.seq + 1, BUFSIZE, <<>>)
           size == Cardinality(Mine(c))
           out == [k \in 1..size |-> seg]
<1>1. /\ toHost'[c] = <<>> /\ \A d \in Conns : d # c => toHost'[d] = toHost[d]
      /\ \A i \in Mine(c) : Conn(socklist[i]) = c
  BY SynAckArrives
<1>2. /\ socklist' = [i \in DOMAIN socklist |-> IF i \in Mine(c) THEN Opened(i, m) ELSE socklist[i]]
      /\ Post(c, out) /\ Delivers(c) /\ backlog_list' = backlog_list /\ peer' = peer
      /\ m.flags = "SYNACK"
  BY SynAckCases
<1>3. /\ 1 \in DOMAIN toHost[c] /\ toHost[c][1] = m /\ m \in ShortSegments
  <2>1. toHost[c] \in Seq(ShortSegments) /\ toHost[c] # <<>>
    BY <1>2 DEF Typed, NetType, Delivers
  <2> QED BY <2>1
<1> HIDE DEF m
<1>4. c[1] \in Servers /\ toPeer[c] = <<>>
  <2>1. WireOK(c, toHost[c], toPeer[c], peer[c], socklist)
    BY DEF ConnOK, WiresOK
  <2> QED BY <1>2, <1>3, <2>1 DEF WireOK, Alone_
<1>5. seg \in Segments /\ seg.data = <<>>
  <2>1. m.ack \in Int /\ m.seq + 1 \in Int
    BY <1>3, SegmentFields
  <2>2. seg \in Segments
    BY <2>1, SegmentType, IndexFacts, Empties
  <2> QED BY <2>2 DEF Segment
<1>6. size \in Nat
  <2>1. DOMAIN socklist = 1..Len(socklist) /\ Len(socklist) \in Nat
    BY DEF Typed, KernelType
  <2>2. IsFiniteSet(1..Len(socklist))
    BY <2>1, FS_Interval
  <2>3. Mine(c) \subseteq 1..Len(socklist)
    BY <2>1 DEF Mine
  <2>4. IsFiniteSet(Mine(c))
    BY <2>2, <2>3, FS_Subset
  <2> QED BY <2>4, FS_CardinalityType
<1> HIDE DEF seg, size
<1>7. out \in Seq(Segments) /\ \A k \in DOMAIN out : out[k] = seg
  BY <1>5, <1>6
<1> HIDE DEF out
<1>8. /\ \A d \in Conns : d # c => toPeer'[d] = toPeer[d]
      /\ toPeer'[c] = out
  <2>1. /\ \A d \in Conns : d # c => toPeer'[d] = toPeer[d]
        /\ toPeer'[c] = toPeer[c] \o out
    BY <1>2, <1>7, PostAt
  <2>2. <<>> \o out = out
    BY <1>7
  <2> QED BY <1>4, <2>1, <2>2
<1>9. DOMAIN toHost'[c] = {}
  BY <1>1
<1>10. ASSUME NEW j \in DOMAIN socklist'
       PROVE  LET x == socklist'[j]
              IN  \/ /\ Conn(x) # c \/ ~Up(x.status)
                     /\ \E k \in DOMAIN socklist : x = socklist[k]
                  \/ /\ NodeSends(x, wrote') /\ Conn(x) = c
                     /\ NodeClose(x, wrote', peer[c], toHost'[c], toPeer'[c])
  <2> DEFINE n == socklist[j]
             x == socklist'[j]
  <2>0. j \in DOMAIN socklist /\ n \in SockNode
    BY <1>2, <1>10, ListElements
  <2>1. CASE j \in Mine(c)
    <3>1. x = Opened(j, m) /\ n.status = "SYN_SENT"
      BY <1>2, <2>1 DEF Mine, Expecting
    <3>2. Conn(n) = c
      BY <1>1, <2>1
    <3>3. Ample(n)
      BY <2>0, <3>1 DEF CloseOK, NodesClose, NodeSends, Up
    <3>4. /\ x.dest = n.dest /\ x.srcport = n.srcport /\ x.status = "ESTAB"
          /\ x.send_len = n.send_len /\ x.write_uuid = n.write_uuid
      BY <2>0, <3>1 DEF Opened, SockNode, NodeOf
    <3> HIDE DEF x, n
    <3>5. Conn(x) = c
      BY <3>2, <3>4 DEF Conn
    <3>6. NodeSends(x, wrote')
      BY <3>3, <3>4 DEF NodeSends, Ample
    <3>7. NodeClose(x, wrote', peer[c], toHost'[c], out)
      BY <1>5, <1>7, <1>9, <3>4 DEF NodeClose, Calm
    <3> QED BY <1>8, <3>5, <3>6, <3>7 DEF x
  <2>2. CASE j \notin Mine(c)
    <3>1. x = n
      BY <1>2, <2>0, <2>2
    <3>2. ASSUME Up(n.status) PROVE Conn(n) # c
      <4>1. Clear(toHost[Conn(n)])
        BY <2>0, <3>2, UpClear
      <4> QED BY <1>2, <1>3, <4>1 DEF Clear
    <3> QED BY <2>0, <3>1, <3>2
  <2> QED BY <2>1, <2>2
<1>11. ASSUME NEW j \in DOMAIN backlog_list'
       PROVE  LET e == backlog_list'[j]
              IN  /\ Ample(e)
                  /\ Live(e) => Conn(e) # c /\ \E k \in DOMAIN backlog_list : e = backlog_list[k]
  <2>1. j \in DOMAIN backlog_list /\ backlog_list'[j] = backlog_list[j]
    BY <1>2, <1>11
  <2>2. Live(backlog_list[j]) => Conn(backlog_list[j]) \in Incoming
    BY <2>1 DEF ConnOK, HalvesOK, HalfOK
  <2>3. c \notin Incoming
    BY <1>4, RemoteConn
  <2>4. Ample(backlog_list[j])
    BY <2>1 DEF CloseOK, HalvesClose
  <2> QED BY <2>1, <2>2, <2>3, <2>4
<1>12. \A d \in Conns : d # c => toPeer'[d] = toPeer[d] /\ toHost'[d] = toHost[d]
  BY <1>1, <1>8
<1>13. WireClose(peer[c], toHost'[c])
  BY <1>9 DEF WireClose
<1> HIDE DEF m
<1> QED BY <1>2, <1>10, <1>11, <1>12, <1>13, HostClose

LEMMA FinClose ==
  ASSUME Typed, Distinct, ConnOK, SeqOK, CloseOK, WroteMore, socklist' \in Seq(SockNode),
         NEW c \in Conns, Fin(c)
  PROVE  CloseOK'
<1> DEFINE m == Head(toHost[c])
           i == FinAt(c)
           n == socklist[i]
           seg == Segment("ACK", FinSeq(n), m.seq + 1, BUFSIZE, <<>>)
           f == Finished(n, m)
<1>1. /\ Delivers(c) /\ m.flags = "FIN" /\ backlog_list' = backlog_list /\ peer' = peer
      /\ \/ /\ i # 0 /\ n.status \in {"ESTAB", "FIN_WAIT_1", "FIN_WAIT_2"}
            /\ socklist' = [socklist EXCEPT ![i] = f]
            /\ Post(c, <<seg>>)
         \/ /\ socklist' = socklist /\ toPeer' = toPeer
  BY FinCases
<1>2. Past(peer[c])
  BY <1>1, ArrivesClear
<1>3. /\ m \in ShortSegments /\ \A d \in Conns : d # c => toHost'[d] = toHost[d]
      /\ toHost'[c] = Tail(toHost[c]) /\ toHost[c] \in Seq(ShortSegments) /\ toHost[c] # <<>>
      /\ toPeer[c] \in Seq(Segments)
  BY <1>1, ArrivingFacts DEF Typed, NetType, Delivers
<1>4. Said(peer[c]) /\ WireClose(peer[c], toHost'[c])
  <2>1. WireClose(peer[c], toHost[c])
    BY DEF CloseOK, WiresClose
  <2>2. 1 \in DOMAIN toHost[c] /\ toHost[c][1] = m
    BY <1>3
  <2> HIDE DEF m
  <2> QED BY <1>1, <1>3, <2>1, <2>2, TailClose DEF WireClose
<1>5. CASE socklist' = socklist /\ toPeer' = toPeer
  <2>1. ASSUME NEW j \in DOMAIN socklist'
        PROVE  LET x == socklist'[j]
               IN  \/ Conn(x) # c /\ \E k \in DOMAIN socklist : x = socklist[k]
                   \/ /\ NodeSends(x, wrote') /\ Conn(x) = c
                      /\ NodeClose(x, wrote', peer[c], toHost'[c], toPeer'[c])
    <3> DEFINE x == socklist[j]
    <3>1. j \in DOMAIN socklist /\ socklist'[j] = x /\ x \in SockNode
      BY <1>5, ListElements
    <3>2. CASE Conn(x) = c
      <4>1. NodeSends(x, wrote) /\ NodeClose(x, wrote, peer[c], toHost[c], toPeer[c])
        BY <3>1, <3>2 DEF CloseOK, NodesClose
      <4>2. NodeClose(x, wrote, peer[c], toHost'[c], toPeer[c])
        BY <1>3, <4>1, TailClose
      <4> HIDE DEF x
      <4>3. NodeSends(x, wrote') /\ NodeClose(x, wrote', peer[c], toHost'[c], toPeer[c])
        BY <3>1, <4>1, <4>2, OldClose
      <4> QED BY <1>5, <3>1, <3>2, <4>3
    <3> QED BY <3>1, <3>2
  <2>2. ASSUME NEW j \in DOMAIN backlog_list'
        PROVE  LET e == backlog_list'[j]
               IN  /\ Ample(e)
                   /\ Live(e) => \/ Conn(e) = c /\ HalfClose(peer[c], toHost'[c])
                                 \/ Conn(e) # c /\ \E k \in DOMAIN backlog_list : e = backlog_list[k]
    <3> DEFINE e == backlog_list[j]
    <3>1. j \in DOMAIN backlog_list /\ backlog_list'[j] = e
      BY <1>1, <2>2
    <3>2. Ample(e) /\ (Live(e) => HalfClose(peer[Conn(e)], toHost[Conn(e)]))
      BY <3>1 DEF CloseOK, HalvesClose
    <3>3. HalfClose(peer[c], toHost[c]) => HalfClose(peer[c], toHost'[c])
      BY <1>3, TailClose
    <3> QED BY <3>1, <3>2, <3>3
  <2>3. \A d \in Conns : d # c => toPeer'[d] = toPeer[d] /\ toHost'[d] = toHost[d]
    BY <1>3, <1>5
  <2> HIDE DEF m, i, n, seg, f
  <2> QED BY <1>1, <1>4, <2>1, <2>2, <2>3, HostClose
<1>6. CASE /\ i # 0 /\ n.status \in {"ESTAB", "FIN_WAIT_1", "FIN_WAIT_2"}
           /\ socklist' = [socklist EXCEPT ![i] = f]
           /\ Post(c, <<seg>>)
  <2>1. i \in DOMAIN socklist /\ n \in SockNode /\ n.dest = c[1]
    BY <1>6, FinAtLookup
  <2> HIDE DEF i
  <2>2. /\ NodeSends(n, wrote)
        /\ NodeClose(n, wrote, peer[Conn(n)], toHost[Conn(n)], toPeer[Conn(n)])
        /\ OneConn(n, peer)
    BY <2>1 DEF SeqOK, ConnsOne, CloseOK, NodesClose
  <2> HIDE DEF n
  <2>3. Conn(n) = c
    BY <1>2, <2>1, <2>2, OneRemote
  <2>4. /\ f \in SockNode /\ SameSocket(f, n)
        /\ f.status \in {"CLOSE_WAIT", "CLOSING", "TIMED_WAIT"} /\ FinSeq(n) \in Int
        /\ f.status = "TIMED_WAIT" => n.status = "FIN_WAIT_2"
    <3>1. /\ f \in SockNode /\ SameSocket(f, n) /\ f.status = AfterFin(n.status)
          /\ f.status \in {"CLOSE_WAIT", "CLOSING", "TIMED_WAIT"} /\ FinSeq(n) \in Int
      BY <1>3, <1>6, <2>1, FinPartTypes
    <3> HIDE DEF f
    <3> QED BY <1>6, <3>1 DEF AfterFin
  <2>5. SameSide(f, n)
    BY <2>1 DEF Finished, SameSide, SockNode, NodeOf
  <2>6. seg \in Segments /\ seg.data = <<>>
    <3>1. m.seq + 1 \in Int
      BY <1>3, SegmentFields
    <3> HIDE DEF m
    <3>2. seg \in Segments
      BY <2>4, <3>1, SegmentType, IndexFacts, Empties
    <3> QED BY <3>2 DEF Segment
  <2> HIDE DEF seg, f
  <2>7. <<seg>> \in Seq(Segments) /\ \A k \in DOMAIN <<seg>> : <<seg>>[k].data = <<>>
    BY <2>6
  <2>8. /\ toPeer'[c] = toPeer[c] \o <<seg>>
        /\ \A d \in Conns : d # c => toPeer'[d] = toPeer[d]
    BY <1>6, <2>7, PostAt
  <2>9. Up(f.status) /\ Up(n.status)
    BY <1>6, <2>4 DEF Up
  <2>10. NodeSends(f, wrote') /\ (Hushed(f, wrote') => Hushed(n, wrote))
    BY <2>1, <2>2, <2>5, <2>9, SideMore
  <2>11. ASSUME Hushed(f, wrote'), peer[c].n = 0
         PROVE  Calm(f, peer[c], toHost'[c], toPeer'[c])
    <3>1. Calm(n, peer[c], toHost[c], toPeer[c])
      BY <2>2, <2>3, <2>9, <2>10, <2>11 DEF NodeClose
    <3>2. \A k \in DOMAIN toPeer'[c] : toPeer'[c][k].data = <<>>
      <4>1. \A k \in DOMAIN toPeer'[c] :
              \/ k \in DOMAIN toPeer[c] /\ toPeer'[c][k] = toPeer[c][k]
              \/ toPeer'[c][k] = seg
        BY <1>3, <2>6, <2>8, TellsElements
      <4> QED BY <2>6, <3>1, <4>1 DEF Calm
    <3>3. \A k \in DOMAIN toHost'[c] : \E l \in DOMAIN toHost[c] : toHost'[c][k] = toHost[c][l]
      BY <1>3, TailElements
    <3> QED BY <2>4, <3>1, <3>2, <3>3 DEF Calm
  <2>12. NodeClose(f, wrote', peer[c], toHost'[c], toPeer'[c])
    BY <1>4, <2>11 DEF NodeClose
  <2>13. Conn(f) = c /\ f.dest = socklist[i].dest
    BY <2>3, <2>4 DEF Conn, SameSocket, n
  <2>14. /\ \A j \in DOMAIN socklist :
              j # i => socklist[j].dest # f.dest \/ socklist[j].dest = NoRemote
         /\ \A j \in DOMAIN backlog_list :
              Live(backlog_list[j]) => backlog_list[j].dest # f.dest
    BY <2>1, <2>13, OtherRemotes
  <2>15. /\ Conn(f) \in Conns => WireClose(peer[Conn(f)], toHost'[Conn(f)])
         /\ NodeClose(f, wrote', peer[Conn(f)], toHost'[Conn(f)], toPeer'[Conn(f)])
    BY <1>4, <2>12, <2>13
  <2>16. \A d \in Conns : d # Conn(f) => toPeer'[d] = toPeer[d] /\ toHost'[d] = toHost[d]
    BY <1>3, <2>8, <2>13
  <2> HIDE DEF m
  <2> QED BY <1>1, <1>6, <2>1, <2>4, <2>10, <2>14, <2>15, <2>16, OneNodeClose
<1> QED BY <1>1, <1>5, <1>6

\* A new socket holds nothing to send, and no acknowledgement is behind the one
\* that has opened it.
LEMMA NewSocketClose ==
  ASSUME Typed, Distinct, ConnOK, SeqOK, CloseOK, NEW c \in Conns, Past(peer[c]),
         toHost[c] \in Seq(ShortSegments), toHost[c] # <<>>, HalfOpen(c) # 0,
         NEW m \in ShortSegments
  PROVE  LET x == NewSocket(c, m)
         IN  /\ x.status = "ESTAB" /\ NodeSends(x, wrote)
             /\ NodeClose(x, wrote, peer[c], Tail(toHost[c]), toPeer[c])
<1> DEFINE x == NewSocket(c, m)
           e == Entry(c)
<1>1. /\ HalfOpen(c) \in DOMAIN backlog_list /\ Live(e) /\ Conn(e) = c
      /\ e = backlog_list[HalfOpen(c)] /\ e \in HalfNode
  BY EntryConn, HalfOpenLookup DEF Entry
<1>2. x.send_len = e.send_len /\ x.write_uuid = e.write_uuid /\ x.status = "ESTAB"
  BY <1>1 DEF NewSocket, HalfNode, NodeOf
<1>3. Ample(e) /\ HalfClose(peer[c], toHost[c])
  BY <1>1 DEF CloseOK, HalvesClose
<1>4. toPeer[c] = <<>> /\ DOMAIN <<>> = {}
  BY <1>1 DEF SeqOK, HalvesSeq, HalfSeq
<1>5. peer[c].n = 0 => \A k \in DOMAIN Tail(toHost[c]) : Tail(toHost[c])[k].flags # "ACK"
  BY <1>3, TailClose
<1> HIDE DEF x, e
<1>6. NodeSends(x, wrote)
  BY <1>2, <1>3 DEF NodeSends, Ample
<1>7. NodeClose(x, wrote, peer[c], Tail(toHost[c]), toPeer[c])
  BY <1>2, <1>4, <1>5 DEF NodeClose, Calm
<1> QED BY <1>2, <1>6, <1>7 DEF x

LEMMA AckTakesClose ==
  ASSUME Typed, Distinct, ConnOK, SeqOK, CloseOK, WroteMore, NEW c \in Conns, Ack(c),
         AckedAt(c, Head(toHost[c])) # 0,
         Completed(c, Head(toHost[c])).sl[AckedAt(c, Head(toHost[c]))].status # "LAST_ACK"
  PROVE  LET m == Head(toHost[c])
             x == AckOf(Completed(c, m).sl[AckedAt(c, m)], c, m).node
         IN  /\ NodeSends(x, wrote') /\ Conn(x) = c
             /\ NodeClose(x, wrote', peer[c], toHost'[c], toPeer'[c])
<1> DEFINE m == Head(toHost[c])
           n == Completed(c, m).sl[AckedAt(c, m)]
           a == AckOf(n, c, m)
<1>1. Delivers(c) /\ m.flags = "ACK" /\ m \in ShortSegments
  BY AckCases, ArrivingFacts
<1>2. Past(peer[c])
  BY <1>1, ArrivesClear
<1>3. /\ toHost[c] \in Seq(ShortSegments) /\ toHost[c] # <<>>
      /\ toPeer[c] \in Seq(Segments) /\ toHost'[c] = Tail(toHost[c])
  BY <1>1, ArrivingFacts DEF Typed, NetType, Delivers
<1>4. /\ n \in SockNode /\ Conn(n) = c /\ Conn(a.node) = c
      /\ (\E k \in DOMAIN socklist : n = socklist[k]) \/ (HalfOpen(c) # 0 /\ n = NewSocket(c, m))
      /\ toPeer'[c] = toPeer[c] \o a.out
  BY AckTaken
<1>5. n.status # "LAST_ACK"
  OBVIOUS
<1> HIDE DEF n
<1>6. /\ NodeSends(n, wrote) /\ NodeClose(n, wrote, peer[c], Tail(toHost[c]), toPeer[c])
      /\ n.status # "ESTAB" => NodeClose(n, wrote, peer[c], toHost[c], toPeer[c])
  <2>1. CASE \E k \in DOMAIN socklist : n = socklist[k]
    <3>1. NodeSends(n, wrote) /\ NodeClose(n, wrote, peer[c], toHost[c], toPeer[c])
      BY <1>4, <2>1 DEF CloseOK, NodesClose
    <3> QED BY <1>3, <3>1, TailClose
  <2>2. CASE HalfOpen(c) # 0 /\ n = NewSocket(c, m)
    <3> HIDE DEF m
    <3> QED BY <1>1, <1>2, <1>3, <2>2, NewSocketClose
  <2> QED BY <1>4, <2>1, <2>2
<1>7. NodeSends(a.node, wrote') /\ NodeClose(a.node, wrote', peer[c], Tail(toHost[c]), toPeer[c] \o a.out)
  BY <1>1, <1>3, <1>4, <1>5, <1>6, AcksClose
<1> QED BY <1>3, <1>4, <1>7 DEF n

LEMMA AckClose ==
  ASSUME Typed, Distinct, ConnOK, SeqOK, CloseOK, WroteMore, socklist' \in Seq(SockNode),
         NEW c \in Conns, Ack(c)
  PROVE  CloseOK'
<1> DEFINE m == Head(toHost[c])
<1>1. Delivers(c) /\ m.flags = "ACK" /\ peer' = peer
  BY AckCases
<1>2. /\ toHost[c] \in Seq(ShortSegments) /\ toHost[c] # <<>> /\ toHost'[c] = Tail(toHost[c])
      /\ \A d \in Conns : d # c => toHost'[d] = toHost[d]
  BY <1>1, ArrivingFacts DEF Typed, NetType, Delivers
<1>3. \A d \in Conns : d # c => toPeer'[d] = toPeer[d] /\ toHost'[d] = toHost[d]
  BY <1>2, AckMakes
<1>4. WireClose(peer[c], toHost'[c])
  BY <1>2, TailClose DEF CloseOK, WiresClose
<1>5. ASSUME NEW j \in DOMAIN socklist'
      PROVE  LET x == socklist'[j]
             IN  \/ Conn(x) # c /\ \E k \in DOMAIN socklist : x = socklist[k]
                 \/ /\ NodeSends(x, wrote') /\ Conn(x) = c
                    /\ NodeClose(x, wrote', peer[c], toHost'[c], toPeer'[c])
  BY AckLeaves, AckTakesClose
<1>6. ASSUME NEW j \in DOMAIN backlog_list'
      PROVE  LET e == backlog_list'[j]
             IN  /\ Ample(e)
                 /\ Live(e) => \/ Conn(e) = c /\ HalfClose(peer[c], toHost'[c])
                               \/ Conn(e) # c /\ \E k \in DOMAIN backlog_list : e = backlog_list[k]
  <2>1. PICK k \in DOMAIN backlog_list : backlog_list'[j] = backlog_list[k]
    BY AckHalf
  <2> DEFINE e == backlog_list[k]
  <2>2. Ample(e) /\ (Live(e) => HalfClose(peer[Conn(e)], toHost[Conn(e)]))
    BY DEF CloseOK, HalvesClose
  <2>3. HalfClose(peer[c], toHost[c]) => HalfClose(peer[c], toHost'[c])
    BY <1>2, TailClose
  <2> QED BY <2>1, <2>2, <2>3
<1> HIDE DEF m
<1> QED BY <1>1, <1>3, <1>4, <1>5, <1>6, HostClose

\* An arrival leaves the two ends agreed.
LEMMA ArrivalClose ==
  ASSUME Typed, Distinct, ConnOK, SeqOK, CloseOK, socklist' \in Seq(SockNode),
         NEW c \in Conns, packetArrived(c)
  PROVE  CloseOK'
<1>1. WroteMore
  BY ArrivalMore DEF CloseOK
<1> QED BY <1>1, SynClose, SynAckClose, AckClose, FinClose DEF packetArrived

-----------------------------------------------------------------------------
(* The two ends agree.                                                     *)

LEMMA StepClose == Typed /\ CallsOK /\ Orderly /\ ConnOK /\ SeqOK /\ CloseOK /\ [Next]_vars => CloseOK'
<1> SUFFICES ASSUME Typed, CallsOK, Orderly, ConnOK, SeqOK, CloseOK, [Next]_vars PROVE CloseOK'
  OBVIOUS
<1>1. Distinct
  BY DEF Orderly
<1>2. socklist' \in Seq(SockNode)
  BY NextTyped DEF Typed, KernelType
<1>3. ASSUME NEW p \in Pids, Syscall(p) PROVE CloseOK'
  BY <1>3, SyscallClose
<1>4. ASSUME NEW c \in Conns, packetArrived(c) PROVE CloseOK'
  BY <1>1, <1>2, <1>4, ArrivalClose
<1>5. ASSUME NEW c \in Conns, Remote(c) PROVE CloseOK'
  BY <1>1, <1>5, RemoteCloses
<1>6. CASE UNCHANGED vars
  BY <1>6 DEF vars, kernel, apps, CloseOK, WroteOK, NodesClose, HalvesClose, WiresClose
<1> QED BY <1>3, <1>4, <1>5, <1>6 DEF Next

LEMMA InitClose == Init => CloseOK
<1> SUFFICES ASSUME Init PROVE CloseOK
  OBVIOUS
<1>1. DOMAIN socklist = {} /\ DOMAIN backlog_list = {}
  BY DEF Init
<1>2. NodesClose /\ HalvesClose
  BY <1>1 DEF NodesClose, HalvesClose
<1>3. WroteOK
  BY DEF Init, WroteOK
<1>4. WiresClose
  <2>1. \A c \in Conns : toHost[c] = <<>> /\ DOMAIN <<>> = {}
    BY DEF Init
  <2> QED BY <2>1 DEF WiresClose, WireClose
<1> QED BY <1>2, <1>3, <1>4 DEF CloseOK

LEMMA CloseAgrees == CloseOK => CloseAgreed
<1> SUFFICES ASSUME CloseOK, NEW i \in DOMAIN socklist, Up(socklist[i].status),
                    Silent(socklist[i]), peer[Conn(socklist[i])].n = 0
             PROVE  LET n == socklist[i]
                        theirs == peer[Conn(n)].st
                    IN  /\ n.status \in {"FIN_WAIT_2", "TIMED_WAIT"} =>
                             theirs \notin {"CLOSED", "SYN_SENT", "SYN_RCVD", "ESTAB", "FIN_WAIT_1"}
                        /\ n.status \in {"CLOSE_WAIT", "LAST_ACK", "CLOSING", "TIMED_WAIT"} =>
                             theirs \notin {"CLOSED", "SYN_SENT", "SYN_RCVD", "ESTAB", "CLOSE_WAIT"}
  BY DEF CloseAgreed, Up
<1> DEFINE n == socklist[i]
           t == peer[Conn(n)]
<1>1. NodeClose(n, wrote, t, toHost[Conn(n)], toPeer[Conn(n)])
  BY DEF CloseOK, NodesClose
<1>2. Hushed(n, wrote) /\ Up(n.status) /\ t.n = 0
  BY DEF Hushed, Silent
<1> HIDE DEF n
<1>3. /\ n.status \in {"CLOSE_WAIT", "LAST_ACK", "CLOSING", "TIMED_WAIT"} => Said(t)
      /\ n.status \in {"FIN_WAIT_2", "TIMED_WAIT"} => Ended(t)
  BY <1>1, <1>2 DEF NodeClose, Calm
<1> QED BY <1>3 DEF Said, Ended, n

\* The two ends of a connection without data agree on its close, whichever of
\* them closes first and also when both do at once: a socket is in FIN_WAIT_2
\* or TIMED_WAIT only when the remote has heard its FIN, although the handler
\* takes any ACK for the one of the FIN, and in a passive close only when the
\* remote has sent its own.  The fact behind it is that no acknowledgement is
\* under way to such a socket before the remote has heard the FIN.  Of
\* processes that use their sockets as Orderly says.
THEOREM TcpCloseAgreed == Spec /\ []Orderly => []CloseAgreed
<1> DEFINE Inv == Typed /\ CallsOK /\ ConnOK /\ SeqOK /\ CloseOK
<1>1. Init => Inv
  BY InitTyped, InitCalls, InitConn, InitSeq, InitClose
<1>2. Inv /\ Orderly /\ [Next]_vars => Inv'
  BY NextTyped, NextCalls, NextConn, StepSeq, StepClose
<1>3. Inv => CloseAgreed
  BY CloseAgrees
<1> QED BY <1>1, <1>2, <1>3, PTL DEF Spec

-----------------------------------------------------------------------------
(* The ring of the receive buffer.                                         *)

LEMMA ModIs ==
  ASSUME NEW x \in Int, NEW q \in Int, NEW r \in Index, x = q * BUFSIZE + r
  PROVE  x % BUFSIZE = r
<1>1. BUFSIZE \in Nat \ {0} /\ r \in Int /\ 0 <= r /\ r < BUFSIZE
  BY IndexFacts DEF Index
<1> DEFINE d == x \div BUFSIZE
           e == x % BUFSIZE
           f == q - d
<1>2. d \in Int /\ e \in Int /\ 0 <= e /\ e < BUFSIZE /\ x = BUFSIZE * d + e
  BY <1>1
<1>3. f \in Int /\ BUFSIZE * f = e - r
  BY <1>1, <1>2
<1> HIDE DEF f, d, e
<1>4. f >= 1 => BUFSIZE * f >= BUFSIZE
  BY <1>1, <1>3
<1>5. f <= -1 => BUFSIZE * f <= -BUFSIZE
  BY <1>1, <1>3
<1>6. f = 0
  BY <1>1, <1>2, <1>3, <1>4, <1>5
<1>7. e = r
  BY <1>1, <1>2, <1>3, <1>6
<1> QED BY <1>7 DEF e

\* The remainders the ring meets.
LEMMA ModSmall ==
  ASSUME NEW x \in Int, 0 <= x, x < 3 * BUFSIZE
  PROVE  x % BUFSIZE = IF x < BUFSIZE THEN x
                       ELSE IF x < 2 * BUFSIZE THEN x - BUFSIZE ELSE x - 2 * BUFSIZE
<1>1. BUFSIZE \in Nat \ {0}
  BY IndexFacts
<1>2. CASE x < BUFSIZE
  <2>1. x \in Index /\ x = 0 * BUFSIZE + x
    BY <1>1, <1>2 DEF Index
  <2> QED BY <2>1, <1>2, ModIs
<1>3. CASE x >= BUFSIZE /\ x < 2 * BUFSIZE
  <2>1. x - BUFSIZE \in Index /\ x = 1 * BUFSIZE + (x - BUFSIZE)
    BY <1>1, <1>3 DEF Index
  <2>2. x % BUFSIZE = x - BUFSIZE
    BY <2>1, ModIs
  <2> QED BY <2>2, <1>1, <1>3
<1>4. CASE x >= 2 * BUFSIZE
  <2>1. x - 2 * BUFSIZE \in Index /\ x = 2 * BUFSIZE + (x - 2 * BUFSIZE)
    BY <1>1, <1>4 DEF Index
  <2>2. x % BUFSIZE = x - 2 * BUFSIZE
    BY <2>1, ModIs
  <2> QED BY <2>2, <1>1, <1>4
<1> QED BY <1>1, <1>2, <1>3, <1>4

LEMMA ModTwice ==
  ASSUME NEW x \in Int, 0 <= x, x < 2 * BUFSIZE
  PROVE  x % BUFSIZE = IF x < BUFSIZE THEN x ELSE x - BUFSIZE
BY IndexFacts, ModSmall

LEMMA WrapIs ==
  ASSUME NEW i \in Index, NEW k \in 0..BUFSIZE
  PROVE  Wrap(i + k) = (i + k) % BUFSIZE /\ Wrap(i + k) \in Index
<1>1. BUFSIZE \in Nat \ {0} /\ i \in Int /\ 0 <= i /\ i < BUFSIZE
  BY IndexFacts DEF Index
<1>2. i + k \in Int /\ 0 <= i + k /\ i + k < 2 * BUFSIZE
  BY <1>1
<1>3. PICK x \in Int : x = i + k
  BY <1>2
<1>4. x % BUFSIZE = IF x < BUFSIZE THEN x ELSE x - BUFSIZE
  BY <1>2, <1>3, ModTwice
<1>5. Wrap(i + k) = x % BUFSIZE
  BY <1>1, <1>2, <1>3, <1>4 DEF Wrap
<1> QED BY <1>3, <1>5, WrapType

\* A string is the join of two when it has the elements of one, then the other.
LEMMA BytesJoin ==
  ASSUME NEW u \in Bytes, NEW v \in Bytes
  PROVE  /\ u \o v \in Bytes /\ Len(u \o v) = Len(u) + Len(v)
         /\ Len(u) \in Nat /\ Len(v) \in Nat
         /\ \A w \in Bytes :
              /\ Len(w) = Len(u) + Len(v)
              /\ \A k \in 1..Len(u) : w[k] = u[k]
              /\ \A k \in 1..Len(v) : w[Len(u) + k] = v[k]
              => w = u \o v
<1>1. /\ u \o v \in Bytes /\ Len(u \o v) = Len(u) + Len(v)
      /\ Len(u) \in Nat /\ Len(v) \in Nat
  BY DEF Bytes
<1>2. ASSUME NEW w \in Bytes, Len(w) = Len(u) + Len(v),
             \A k \in 1..Len(u) : w[k] = u[k],
             \A k \in 1..Len(v) : w[Len(u) + k] = v[k],
             NEW k \in 1..Len(w)
      PROVE  w[k] = (u \o v)[k]
  <2>1. CASE k <= Len(u)
    BY <1>1, <1>2, <2>1 DEF Bytes
  <2>2. CASE k > Len(u)
    <3>1. (u \o v)[k] = v[k - Len(u)] /\ k - Len(u) \in 1..Len(v)
      BY <1>1, <1>2, <2>2 DEF Bytes
    <3>2. w[Len(u) + (k - Len(u))] = v[k - Len(u)] /\ Len(u) + (k - Len(u)) = k
      BY <3>1, <1>1, <1>2
    <3> QED BY <3>1, <3>2
  <2> QED BY <2>1, <2>2, <1>1, <1>2
<1>3. ASSUME NEW w \in Bytes, Len(w) = Len(u) + Len(v),
             \A k \in 1..Len(u) : w[k] = u[k],
             \A k \in 1..Len(v) : w[Len(u) + k] = v[k]
      PROVE  w = u \o v
  <2>1. \A k \in 1..Len(w) : w[k] = (u \o v)[k]
    BY <1>2, <1>3
  <2> QED BY <1>1, <1>3, <2>1, SeqEqual DEF Bytes
<1> QED BY <1>1, <1>3

\* Reading a + b bytes is reading a of them, then b more.
LEMMA LoadSplit ==
  ASSUME NEW buf \in Buffer, NEW at \in Int, NEW a \in Nat, NEW b \in Nat
  PROVE  Load(buf, at, a + b) = Load(buf, at, a) \o Load(buf, at + a, b)
<1> DEFINE u == Load(buf, at, a)
           v == Load(buf, at + a, b)
           w == Load(buf, at, a + b)
<1>1. u \in Bytes /\ v \in Bytes /\ w \in Bytes /\ Len(u) = a /\ Len(v) = b /\ Len(w) = a + b
  BY LoadType
<1>2. \A k \in 1..a : w[k] = u[k]
  BY DEF Load
<1>3. ASSUME NEW k \in 1..b
      PROVE  w[a + k] = v[k]
  <2>1. w[a + k] = buf[(at + (a + k) - 1) % BUFSIZE] /\ v[k] = buf[(at + a + k - 1) % BUFSIZE]
    BY DEF Load
  <2>2. at + (a + k) - 1 = at + a + k - 1
    OBVIOUS
  <2> QED BY <2>1, <2>2
<1> HIDE DEF u, v, w
<1>4. /\ Len(w) = Len(u) + Len(v)
      /\ \A k \in 1..Len(u) : w[k] = u[k]
      /\ \A k \in 1..Len(v) : w[Len(u) + k] = v[k]
  BY <1>1, <1>2, <1>3
<1>5. w = u \o v
  BY <1>1, <1>4, BytesJoin
<1> QED BY <1>5 DEF u, v, w

\* Where a wrapped position reads.
LEMMA LoadWrap ==
  ASSUME NEW buf \in Buffer, NEW i \in Index, NEW k \in 0..BUFSIZE, NEW n \in 0..BUFSIZE
  PROVE  Load(buf, Wrap(i + k), n) = Load(buf, i + k, n)
<1>1. BUFSIZE \in Nat \ {0} /\ i \in Int /\ 0 <= i /\ i < BUFSIZE
  BY IndexFacts DEF Index
<1>2. ASSUME NEW j \in 1..n
      PROVE  (Wrap(i + k) + j - 1) % BUFSIZE = (i + k + j - 1) % BUFSIZE
  <2>1. CASE i + k < BUFSIZE
    BY <1>1, <2>1 DEF Wrap
  <2>2. CASE i + k >= BUFSIZE
    <3>1. Wrap(i + k) + j - 1 = i + k + j - 1 - BUFSIZE
      BY <1>1, <2>2 DEF Wrap
    <3>2. /\ i + k + j - 1 \in Int /\ i + k + j - 1 >= BUFSIZE /\ i + k + j - 1 < 3 * BUFSIZE
          /\ i + k + j - 1 - BUFSIZE \in Int
      BY <1>1, <2>2
    <3>3. (i + k + j - 1) % BUFSIZE = (i + k + j - 1 - BUFSIZE) % BUFSIZE
      <4>1. ASSUME NEW x \in Int, x >= BUFSIZE, x < 3 * BUFSIZE
            PROVE  x % BUFSIZE = (x - BUFSIZE) % BUFSIZE
        <5>1. 0 <= x /\ x - BUFSIZE \in Int /\ 0 <= x - BUFSIZE /\ x - BUFSIZE < 2 * BUFSIZE
          BY <4>1, <1>1
        <5>2. PICK y \in Int : y = x - BUFSIZE
          BY <5>1
        <5>3. y % BUFSIZE = IF y < BUFSIZE THEN y ELSE y - BUFSIZE
          BY <5>1, <5>2, ModTwice
        <5>4. x % BUFSIZE = IF x < BUFSIZE THEN x
                            ELSE IF x < 2 * BUFSIZE THEN x - BUFSIZE ELSE x - 2 * BUFSIZE
          BY <5>1, <4>1, ModSmall
        <5>5. x % BUFSIZE = y % BUFSIZE
          BY <5>1, <5>2, <5>3, <5>4, <4>1, <1>1
        <5> QED BY <5>2, <5>5
      <4>2. PICK x \in Int : x = i + k + j - 1
        BY <3>2
      <4>3. x % BUFSIZE = (x - BUFSIZE) % BUFSIZE
        BY <4>1, <4>2, <3>2
      <4> QED BY <1>1, <3>2, <4>2, <4>3
    <3> QED BY <1>1, <3>1, <3>2, <3>3
  <2> QED BY <2>1, <2>2, <1>1
<1> QED BY <1>2 DEF Load

\* Storing bytes behind the len that are there appends them.
LEMMA StoreLoad ==
  ASSUME NEW buf \in Buffer, NEW at \in Index, NEW len \in Nat, NEW bytes \in Bytes,
         len + Len(bytes) <= BUFSIZE, NEW end, end = (at + len) % BUFSIZE
  PROVE  Load(Store(buf, end, bytes), at, len + Len(bytes)) = Load(buf, at, len) \o bytes
<1> DEFINE new == Store(buf, end, bytes)
           k == Len(bytes)
           u == Load(buf, at, len)
           w == Load(new, at, len + k)
           i(j) == (at + j - 1) % BUFSIZE
           o(j) == (i(j) - end + BUFSIZE) % BUFSIZE
<1>1. BUFSIZE \in Nat \ {0} /\ at \in Int /\ 0 <= at /\ at < BUFSIZE /\ k \in Nat
  BY IndexFacts DEF Index, Bytes
<1>2. end = IF at + len < BUFSIZE THEN at + len ELSE at + len - BUFSIZE
  <2>1. at + len \in Int /\ 0 <= at + len /\ at + len < 2 * BUFSIZE
    BY <1>1
  <2>2. PICK x \in Int : x = at + len
    BY <2>1
  <2>3. x % BUFSIZE = IF x < BUFSIZE THEN x ELSE x - BUFSIZE
    BY <2>1, <2>2, ModTwice
  <2> QED BY <1>1, <2>1, <2>2, <2>3
<1>3. end \in Int /\ new \in Buffer
  BY <1>1, <1>2, StoreType
<1>4. u \in Bytes /\ Len(u) = len /\ w \in Bytes /\ Len(w) = len + k
  BY <1>1, <1>3, LoadType
<1>5. ASSUME NEW j \in 1..len+k
      PROVE  /\ w[j] = IF o(j) < k THEN bytes[o(j) + 1] ELSE buf[i(j)]
             /\ o(j) = IF j > len THEN j - 1 - len ELSE j - 1 - len + BUFSIZE
  <2>1. j \in Int /\ j >= 1 /\ j <= BUFSIZE /\ j <= len + k
    BY <1>1
  <2>2. i(j) = IF at + j - 1 < BUFSIZE THEN at + j - 1 ELSE at + j - 1 - BUFSIZE
    <3>1. at + j - 1 \in Int /\ 0 <= at + j - 1 /\ at + j - 1 < 2 * BUFSIZE
      BY <1>1, <2>1
    <3>2. PICK y \in Int : y = at + j - 1
      BY <3>1
    <3>3. y % BUFSIZE = IF y < BUFSIZE THEN y ELSE y - BUFSIZE
      BY <3>1, <3>2, ModTwice
    <3> QED BY <1>1, <2>1, <3>1, <3>2, <3>3
  <2>3. i(j) \in Index /\ i(j) \in Int
    BY <2>2, <2>1, <1>1 DEF Index
  <2>4. w[j] = new[i(j)]
    BY DEF Load
  <2>5. new[i(j)] = IF o(j) < k THEN bytes[o(j) + 1] ELSE buf[i(j)]
    BY <2>3 DEF Store
  <2> DEFINE x == i(j) - end + BUFSIZE
  <2>6. x \in Int /\ 0 <= x /\ x < 2 * BUFSIZE
        /\ (x = j - 1 - len \/ x = j - 1 - len + BUFSIZE \/ x = j - 1 - len + 2 * BUFSIZE)
    <3>1. PICK ii \in Int : ii = i(j)
      BY <2>3
    <3> HIDE DEF i
    <3>2. /\ ii = IF at + j - 1 < BUFSIZE THEN at + j - 1 ELSE at + j - 1 - BUFSIZE
          /\ x = ii - end + BUFSIZE
      BY <2>2, <3>1
    <3>3. 0 <= ii /\ ii < BUFSIZE /\ 0 <= end /\ end < BUFSIZE
      BY <1>1, <1>2, <2>1, <3>2
    <3>4. x \in Int /\ 0 <= x /\ x < 2 * BUFSIZE
      BY <1>1, <1>3, <3>2, <3>3
    <3> HIDE DEF x
    <3>5. CASE end = at + len
      <4>1. x = ii - at - len + BUFSIZE
        BY <1>1, <1>3, <2>1, <3>2, <3>5
      <4>2. x = j - 1 - len + BUFSIZE \/ x = j - 1 - len
        BY <4>1, <1>1, <2>1, <3>2
      <4> QED BY <3>4, <4>2
    <3>6. CASE end = at + len - BUFSIZE
      <4>1. x = ii - at - len + BUFSIZE + BUFSIZE
        BY <1>1, <1>3, <2>1, <3>2, <3>6
      <4>2. x = j - 1 - len + BUFSIZE \/ x = j - 1 - len + BUFSIZE + BUFSIZE
        BY <4>1, <1>1, <2>1, <3>2
      <4>3. j - 1 - len + BUFSIZE + BUFSIZE = j - 1 - len + 2 * BUFSIZE
        BY <1>1, <2>1
      <4> QED BY <3>4, <4>2, <4>3
    <3> QED BY <1>2, <3>5, <3>6
  <2>7. o(j) = IF x < BUFSIZE THEN x ELSE x - BUFSIZE
    <3> HIDE DEF i
    <3>1. x \in Int /\ 0 <= x /\ x < 2 * BUFSIZE
      BY <2>6
    <3>2. x % BUFSIZE = IF x < BUFSIZE THEN x ELSE x - BUFSIZE
      <4> HIDE DEF x
      <4> QED BY <3>1, ModTwice
    <3> QED BY <3>2
  <2> HIDE DEF x, i, o
  <2>8. o(j) = IF j > len THEN j - 1 - len ELSE j - 1 - len + BUFSIZE
    BY <2>6, <2>7, <2>1, <1>1
  <2> QED BY <2>4, <2>5, <2>8
<1>6. \A j \in 1..len : u[j] = buf[i(j)]
  BY DEF Load
<1> HIDE DEF u, w, i, o, new, k
<1>7. ASSUME NEW j \in 1..len
      PROVE  w[j] = u[j]
  <2>1. j \in 1..len+k /\ j <= len
    BY <1>1
  <2>2. o(j) = j - 1 - len + BUFSIZE
    BY <1>5, <2>1, <1>1
  <2>3. ~(o(j) < k)
    BY <2>2, <1>1 DEF k
  <2> QED BY <1>5, <1>6, <2>1, <2>3
<1>8. ASSUME NEW j \in 1..k
      PROVE  w[len + j] = bytes[j]
  <2>1. len + j \in 1..len+k /\ len + j > len
    BY <1>1
  <2>2. o(len + j) = len + j - 1 - len
    BY <1>5, <2>1, <1>1
  <2>3. o(len + j) < k /\ o(len + j) + 1 = j
    BY <2>2, <1>1
  <2> QED BY <1>5, <2>1, <2>3
<1>9. /\ Len(w) = Len(u) + Len(bytes)
      /\ \A j \in 1..Len(u) : w[j] = u[j]
      /\ \A j \in 1..Len(bytes) : w[Len(u) + j] = bytes[j]
  BY <1>4, <1>7, <1>8 DEF k
<1>10. w = u \o bytes
  BY <1>4, <1>9, BytesJoin
<1> QED BY <1>10 DEF u, w, new, k

\* The first k bytes of a remote.
Count(k) == [i \in 1..k |-> i]
From(a, k) == [j \in 1..k |-> a + j - 1]

LEMMA CountType ==
  ASSUME NEW k \in Nat
  PROVE  /\ Count(k) \in Bytes /\ Len(Count(k)) = k /\ DOMAIN Count(k) = 1..k
         /\ \A i \in 1..k : Count(k)[i] = i
BY DEF Count, Bytes

LEMMA CountMore ==
  ASSUME NEW a \in Nat \ {0}, NEW k \in Nat
  PROVE  Count(a - 1) \o From(a, k) = Count(a + k - 1)
<1> DEFINE u == Count(a - 1)
           v == From(a, k)
           w == Count(a + k - 1)
<1>1. /\ u \in Bytes /\ Len(u) = a - 1 /\ w \in Bytes /\ Len(w) = a - 1 + k
      /\ \A i \in 1..a-1 : u[i] = i
      /\ \A i \in 1..a+k-1 : w[i] = i
  BY CountType
<1>2. v \in Bytes /\ Len(v) = k /\ \A i \in 1..k : v[i] = a + i - 1
  BY DEF From, Bytes
<1> HIDE DEF u, v, w
<1>3. \A i \in 1..a-1 : w[i] = u[i]
  BY <1>1
<1>4. \A i \in 1..k : w[a - 1 + i] = v[i]
  BY <1>1, <1>2
<1>5. /\ Len(w) = Len(u) + Len(v)
      /\ \A i \in 1..Len(u) : w[i] = u[i]
      /\ \A i \in 1..Len(v) : w[Len(u) + i] = v[i]
  BY <1>1, <1>2, <1>3, <1>4
<1>6. w = u \o v
  BY <1>1, <1>2, <1>5, BytesJoin
<1> QED BY <1>6 DEF u, v, w

-----------------------------------------------------------------------------
(* The stream a host receives.                                             *)

Empty(n) == n.recv_len = 0 /\ n.end_r = n.start_r
\* The bytes read of a connection and those node n buffers are the first a-1.
Ordered(n, bytes, a) ==
  /\ a \in Nat \ {0}
  /\ n.end_r = (n.start_r + n.recv_len) % BUFSIZE
  /\ bytes \o Load(n.recv_buffer, n.start_r, n.recv_len) = Count(a - 1)
SameBuffer(m, n) ==
  /\ m.recv_buffer = n.recv_buffer /\ m.start_r = n.start_r /\ m.end_r = n.end_r
  /\ m.recv_len = n.recv_len
\* A segment carries the bytes its sequence number says.
Carries(m) == m.data = From(m.seq, Len(m.data))

LEMMA BytesAssoc ==
  ASSUME NEW u \in Bytes, NEW v \in Bytes, NEW w \in Bytes
  PROVE  (u \o v) \o w = u \o (v \o w)
<1>1. /\ u \in Seq(Int) /\ v \in Seq(Int) /\ w \in Seq(Int)
  BY DEF Bytes
<1> QED BY <1>1

LEMMA BytesEmpty == \A u \in Bytes : u \o <<>> = u /\ <<>> \o u = u
BY DEF Bytes

LEMMA LoadNone ==
  ASSUME NEW buf \in Buffer, NEW at \in Int
  PROVE  Load(buf, at, 0) = <<>>
<1>1. Load(buf, at, 0) \in Bytes /\ Len(Load(buf, at, 0)) = 0
  BY LoadType
<1> QED BY <1>1 DEF Bytes

LEMMA ModPlus ==
  ASSUME NEW x \in Int, 0 <= x, x < 2 * BUFSIZE, NEW k \in Int, 0 <= k, k <= BUFSIZE
  PROVE  ((x % BUFSIZE) + k) % BUFSIZE = (x + k) % BUFSIZE
<1>1. x % BUFSIZE = IF x < BUFSIZE THEN x ELSE x - BUFSIZE
  BY ModTwice
<1>2. CASE x < BUFSIZE
  BY <1>1, <1>2
<1>3. CASE ~(x < BUFSIZE)
  <2>1. PICK y \in Int : y = x - BUFSIZE + k
    BY IndexFacts
  <2>2. PICK z \in Int : z = x + k
    OBVIOUS
  <2>3. z = y + BUFSIZE /\ y >= 0 /\ y < 2 * BUFSIZE /\ z < 3 * BUFSIZE /\ z >= 0
    BY <1>3, <2>1, <2>2, IndexFacts
  <2>4. y % BUFSIZE = IF y < BUFSIZE THEN y ELSE y - BUFSIZE
    BY <2>3, ModTwice
  <2>5. z % BUFSIZE = IF z < BUFSIZE THEN z
                      ELSE IF z < 2 * BUFSIZE THEN z - BUFSIZE ELSE z - 2 * BUFSIZE
    BY <2>3, ModSmall
  <2>6. y % BUFSIZE = z % BUFSIZE
    BY <2>3, <2>4, <2>5, IndexFacts
  <2> QED BY <1>1, <1>3, <2>1, <2>2, <2>6
<1> QED BY <1>2, <1>3

LEMMA WrapPlus ==
  ASSUME NEW i \in Index, NEW k \in 0..BUFSIZE, NEW r \in Nat, k + r <= BUFSIZE
  PROVE  (Wrap(i + k) + r) % BUFSIZE = (i + (k + r)) % BUFSIZE
<1>1. PICK x \in Int : x = i + k
  BY IndexFacts
<1>2. PICK z \in Int : z = i + (k + r)
  BY IndexFacts
<1>3. x >= 0 /\ z = x + r /\ z >= 0 /\ z < 2 * BUFSIZE /\ x < 2 * BUFSIZE
  BY <1>1, <1>2, IndexFacts
<1>4. Wrap(x) = IF x >= BUFSIZE THEN x - BUFSIZE ELSE x
  BY DEF Wrap
<1>5. z % BUFSIZE = IF z < BUFSIZE THEN z ELSE z - BUFSIZE
  BY <1>3, ModTwice
<1>6. CASE x < BUFSIZE
  <2>1. Wrap(x) + r = z
    BY <1>3, <1>4, <1>6, IndexFacts
  <2> QED BY <1>1, <1>2, <2>1
<1>7. CASE x >= BUFSIZE
  <2>1. PICK y \in Int : y = z - BUFSIZE
    BY IndexFacts
  <2>2. Wrap(x) + r = y /\ y >= 0 /\ y < BUFSIZE /\ z >= BUFSIZE /\ y < 2 * BUFSIZE
    BY <1>1, <1>2, <1>3, <1>4, <1>7, <2>1, IndexFacts
  <2>3. y % BUFSIZE = y
    BY <2>2, ModTwice
  <2>4. z % BUFSIZE = y
    BY <1>5, <2>1, <2>2, IndexFacts
  <2> QED BY <1>1, <1>2, <2>2, <2>3, <2>4
<1> QED BY <1>3, <1>6, <1>7, IndexFacts

LEMMA SameOrdered ==
  ASSUME NEW n, NEW m, SameBuffer(m, n)
  PROVE  /\ \A bytes, a : Ordered(n, bytes, a) => Ordered(m, bytes, a)
         /\ Empty(n) => Empty(m)
BY DEF SameBuffer, Ordered, Empty

LEMMA EmptyOrdered ==
  ASSUME NEW O, NEW D, NEW n \in NodeOf(O, D), Empty(n)
  PROVE  Ordered(n, <<>>, 1)
<1>1. n.start_r \in Index /\ n.recv_buffer \in Buffer /\ n.recv_len = 0 /\ n.end_r = n.start_r
  BY NodeFields DEF Empty
<1>2. Load(n.recv_buffer, n.start_r, 0) = <<>>
  BY <1>1, LoadNone, IndexFacts
<1>3. n.start_r % BUFSIZE = n.start_r
  BY <1>1, IndexFacts, SizesAssumption DEF Index
<1>4. Count(0) = <<>>
  BY DEF Count
<1>5. n.start_r + 0 = n.start_r /\ 1 - 1 = 0
  BY <1>1, IndexFacts
<1>6. <<>> \o <<>> = <<>>
  OBVIOUS
<1> QED BY <1>1, <1>2, <1>3, <1>4, <1>5, <1>6 DEF Ordered

\* Data that comes next is stored behind what is buffered.
LEMMA OrderedStored ==
  ASSUME NEW n \in SockNode, NEW m \in ShortSegments, NEW bytes \in Bytes,
         Ordered(n, bytes, m.seq), Carries(m), n.recv_len + Len(m.data) <= BUFSIZE
  PROVE  Ordered(Stored(n, m), bytes, Stored(n, m).ack)
<1> DEFINE s == Stored(n, m)
           a == m.seq
           k == Len(m.data)
           u == Load(n.recv_buffer, n.start_r, n.recv_len)
<1>1. /\ n.start_r \in Index /\ n.end_r \in Index /\ n.recv_buffer \in Buffer
      /\ n.recv_len \in Nat /\ m.data \in Bytes /\ k \in 0..BUFSIZE /\ a \in Nat \ {0}
      /\ n.end_r = (n.start_r + n.recv_len) % BUFSIZE
      /\ bytes \o u = Count(a - 1) /\ m.data = From(a, k)
  BY NodeFields, SegmentFields DEF SockNode, Ordered, Carries
<1>2. /\ s.start_r = n.start_r /\ s.recv_len = n.recv_len + k
      /\ s.recv_buffer = Store(n.recv_buffer, n.end_r, m.data)
      /\ s.end_r = Wrap(n.end_r + k) /\ s.ack = a + k
  BY DEF Stored, SockNode, NodeOf
<1>3. n.recv_len + k <= BUFSIZE
  OBVIOUS
<1>4. Load(s.recv_buffer, s.start_r, s.recv_len) = u \o m.data
  <2>1. Load(Store(n.recv_buffer, n.end_r, m.data), n.start_r, n.recv_len + Len(m.data))
          = u \o m.data
    <3> DEFINE buf == n.recv_buffer
               at == n.start_r
               len == n.recv_len
               data == m.data
               end == n.end_r
    <3>1. /\ buf \in Buffer /\ at \in Index /\ len \in Nat /\ data \in Bytes
          /\ len + Len(data) <= BUFSIZE /\ end = (at + len) % BUFSIZE
      BY <1>1
    <3> HIDE DEF a, k, s, buf, at, len, data, end
    <3>2. Load(Store(buf, end, data), at, len + Len(data)) = Load(buf, at, len) \o data
      BY <3>1, StoreLoad
    <3> QED BY <3>2 DEF buf, at, len, data, end
  <2> QED BY <1>2, <2>1
<1> HIDE DEF s, a, k
<1>5. s.end_r = (s.start_r + s.recv_len) % BUFSIZE
  <2>1. s.end_r = (n.end_r + k) % BUFSIZE
    BY <1>1, <1>2, WrapIs
  <2>2. PICK x \in Int : x = n.start_r + n.recv_len
    BY <1>1, IndexFacts
  <2>3. n.start_r \in Int /\ 0 <= n.start_r /\ n.start_r < BUFSIZE /\ BUFSIZE \in Int
        /\ n.recv_len \in Int /\ 0 <= n.recv_len /\ k \in Int /\ 0 <= k /\ k <= BUFSIZE
    BY <1>1, IndexFacts
  <2>4. x >= 0 /\ n.start_r + (n.recv_len + k) = x + k /\ x < 2 * BUFSIZE
    BY ONLY <1>3, <2>2, <2>3
  <2>5. ((x % BUFSIZE) + k) % BUFSIZE = (x + k) % BUFSIZE
    BY <2>3, <2>4, ModPlus
  <2> QED BY <1>1, <1>2, <2>1, <2>2, <2>4, <2>5
<1>6. bytes \o Load(s.recv_buffer, s.start_r, s.recv_len) = Count(a + k - 1)
  <2>1. u \in Bytes
    BY <1>1, LoadType, IndexFacts
  <2>2. bytes \o (u \o m.data) = (bytes \o u) \o m.data
    BY <1>1, <2>1, BytesAssoc
  <2>3. k \in Nat
    BY <1>1, IndexFacts
  <2>4. Count(a - 1) \o From(a, k) = Count(a + k - 1)
    BY <1>1, <2>3, CountMore
  <2> QED BY <1>1, <1>4, <2>2, <2>4
<1>7. a + k \in Nat \ {0}
  BY <1>1, IndexFacts
<1>8. Ordered(s, bytes, s.ack)
  <2>1. s.ack - 1 = a + k - 1 /\ s.ack \in Nat \ {0}
    BY <1>1, <1>2, <1>7
  <2> QED BY <1>5, <1>6, <2>1 DEF Ordered
<1> QED BY <1>8 DEF s

\* What read takes from the buffer follows what has been read.
LEMMA OrderedConsumed ==
  ASSUME NEW O, NEW D, NEW n \in NodeOf(O, D), NEW len \in 0..BUFSIZE, len <= n.recv_len,
         n.recv_len <= BUFSIZE, NEW bytes \in Bytes, NEW a, Ordered(n, bytes, a)
  PROVE  Ordered(Consumed(n, len), bytes \o Load(n.recv_buffer, n.start_r, len), a)
<1> DEFINE s == Consumed(n, len)
           u == Load(n.recv_buffer, n.start_r, len)
           rest == n.recv_len - len
           v == Load(n.recv_buffer, n.start_r + len, rest)
<1>1. /\ n.start_r \in Index /\ n.end_r \in Index /\ n.recv_buffer \in Buffer
      /\ n.recv_len \in 0..BUFSIZE /\ rest \in 0..BUFSIZE /\ len + rest = n.recv_len
      /\ len \in Nat /\ rest \in Nat /\ n.start_r \in Int
      /\ n.end_r = (n.start_r + n.recv_len) % BUFSIZE
      /\ bytes \o Load(n.recv_buffer, n.start_r, n.recv_len) = Count(a - 1)
  BY NodeFields, IndexFacts DEF Ordered
<1>2. /\ s.recv_buffer = n.recv_buffer /\ s.end_r = n.end_r /\ s.recv_len = rest
      /\ s.start_r = Wrap(n.start_r + len)
  BY DEF Consumed, NodeOf
<1> HIDE DEF s, rest
<1>3. Load(n.recv_buffer, n.start_r, n.recv_len) = u \o v
  <2>1. Load(n.recv_buffer, n.start_r, len + rest) = u \o v
    <3> DEFINE buf == n.recv_buffer
               at == n.start_r
    <3>1. buf \in Buffer /\ at \in Int /\ len \in Nat /\ rest \in Nat
      BY <1>1
    <3> HIDE DEF buf, at
    <3>2. Load(buf, at, len + rest) = Load(buf, at, len) \o Load(buf, at + len, rest)
      BY <3>1, LoadSplit
    <3> QED BY <3>2 DEF buf, at
  <2> QED BY <1>1, <2>1
<1>4. Load(s.recv_buffer, s.start_r, s.recv_len) = v
  BY <1>1, <1>2, LoadWrap
<1>5. u \in Bytes /\ v \in Bytes
  BY <1>1, LoadType
<1>6. (bytes \o u) \o v = bytes \o (u \o v)
  BY <1>5, BytesAssoc
<1>7. s.end_r = (s.start_r + s.recv_len) % BUFSIZE
  <2>1. len + rest <= BUFSIZE
    BY <1>1, IndexFacts
  <2>2. (Wrap(n.start_r + len) + rest) % BUFSIZE = (n.start_r + (len + rest)) % BUFSIZE
    BY <1>1, <2>1, WrapPlus
  <2> QED BY <1>1, <1>2, <2>2
<1> QED BY <1>1, <1>2, <1>3, <1>4, <1>6, <1>7 DEF Ordered, s

\* What the answers of a step give of connection c to process q, if anything.
Gives(q, c, bytes) ==
  \A p \in Pids : \A d \in Conns :
    readBytes'[p][d] = IF p = q /\ d = c THEN readBytes[p][d] \o bytes ELSE readBytes[p][d]
GivesNone == \A p \in Pids : \A d \in Conns : readBytes'[p][d] = readBytes[p][d]
\* An answer that is not to a read.
NotRead(a, cs) ==
  \/ a.from = NoConn
  \/ \A p \in Pids : cs[p] # Idle /\ cs[p].id = a.id => cs[p].op # "read"

LEMMA NoConnApart == NoConn \notin Conns
<1>1. \A c \in Conns : c[1] \in Remotes
  BY ConnFacts
<1>2. NoConn[1] = NoRemote
  BY DEF NoConn
<1> QED BY <1>1, <1>2, EndpointsAssumption

LEMMA ReplyGives ==
  ASSUME NEW A \in SUBSET AnswerRecs, NEW cs \in [Pids -> CallRecs], Reply(A, cs)
  PROVE  /\ (\A a \in A : NotRead(a, cs)) => GivesNone
         /\ \A b \in A : \A q \in Pids :
              /\ cs[q] # Idle /\ cs[q].id = b.id /\ cs[q].op = "read"
              /\ \A a \in A : a = b \/ (a.id # b.id /\ NotRead(a, cs))
              /\ \A p \in Pids : p # q /\ cs[p] # Idle => cs[p].id # b.id
              => Gives(q, b.from, b.data)
<1> DEFINE hit(q) == {a \in A : cs[q] # Idle /\ a.id = cs[q].id}
           of(q) == CHOOSE a \in hit(q) : TRUE
           by(q, op) == hit(q) # {} /\ cs[q].op = op
<1>1. \A p \in Pids : \A d \in Conns :
        readBytes'[p][d] = IF by(p, "read") /\ of(p).from = d
                           THEN readBytes[p][d] \o of(p).data ELSE readBytes[p][d]
  BY DEF Reply
<1>2. \A p : hit(p) # {} => /\ of(p) \in A /\ cs[p] # Idle /\ of(p).id = cs[p].id
  <2> SUFFICES ASSUME NEW p, hit(p) # {}
               PROVE  of(p) \in A /\ cs[p] # Idle /\ of(p).id = cs[p].id
    OBVIOUS
  <2>1. of(p) \in hit(p)
    OBVIOUS
  <2> HIDE DEF of
  <2> QED BY <2>1
<1>3. \A p : hit(p) = {} => ~\E a \in A : cs[p] # Idle /\ a.id = cs[p].id
  OBVIOUS
<1> HIDE DEF hit, of
<1>4. ASSUME \A a \in A : NotRead(a, cs)
      PROVE  GivesNone
  <2>1. ASSUME NEW p \in Pids, by(p, "read")
        PROVE  \A d \in Conns : of(p).from # d
    BY <1>2, <1>4, <2>1, NoConnApart DEF NotRead
  <2> QED BY <1>1, <2>1 DEF GivesNone
<1>5. ASSUME NEW b \in A, NEW q \in Pids, cs[q] # Idle, cs[q].id = b.id, cs[q].op = "read",
             \A a \in A : a = b \/ (a.id # b.id /\ NotRead(a, cs)),
             \A p \in Pids : p # q /\ cs[p] # Idle => cs[p].id # b.id
      PROVE  Gives(q, b.from, b.data)
  <2>1. hit(q) # {} /\ of(q) = b
    <3>1. hit(q) # {}
      BY <1>3, <1>5
    <3> QED BY <1>2, <1>5, <3>1
  <2>2. ASSUME NEW p \in Pids, p # q, by(p, "read")
        PROVE  \A d \in Conns : of(p).from # d
    <3>1. of(p) \in A /\ cs[p] # Idle /\ of(p).id = cs[p].id /\ of(p).id # b.id
      BY <1>2, <1>5, <2>2
    <3>2. NotRead(of(p), cs)
      BY <1>5, <3>1
    <3> QED BY <2>2, <3>1, <3>2, NoConnApart DEF NotRead
  <2>3. by(q, "read")
    BY <1>5, <2>1
  <2>4. ASSUME NEW p \in Pids, NEW d \in Conns
        PROVE  readBytes'[p][d] = IF p = q /\ d = b.from THEN readBytes[p][d] \o b.data
                                  ELSE readBytes[p][d]
    <3>1. CASE p = q
      BY <1>1, <2>1, <2>3, <3>1
    <3>2. CASE p # q
      BY <1>1, <2>2, <3>2
    <3> QED BY <3>1, <3>2
  <2> QED BY <2>4 DEF Gives
<1> QED BY <1>4, <1>5

LEMMA AnswersNotRead == \A id, val, cs : NotRead(Answer(id, val), cs)
BY DEF NotRead, Answer

\* A process that is answered by itself alone gets no bytes, unless it reads.
LEMMA ReturnsGives ==
  ASSUME Typed, NEW p \in Pids, NEW op \in Ops, Enter(p, op),
         Blocks(p) \/ \E val \in Int : Returns(p, val)
  PROVE  GivesNone
<1>1. Called(p, 0) \in [Pids -> CallRecs] /\ Id(p) \in Ids
  BY CalledType, Running DEF Enter
<1>2. CASE Blocks(p)
  BY <1>1, <1>2, ReplyGives, Empties DEF Blocks
<1>3. ASSUME NEW val \in Int, Returns(p, val)
      PROVE  GivesNone
  <2>1. {Answer(Id(p), val)} \in SUBSET AnswerRecs
    BY <1>1, AnswerType
  <2>2. \A a \in {Answer(Id(p), val)} : NotRead(a, Called(p, 0))
    BY AnswersNotRead
  <2>3. Reply({Answer(Id(p), val)}, Called(p, 0))
    BY <1>3 DEF Returns
  <2> DEFINE A == {Answer(Id(p), val)}
             cs == Called(p, 0)
  <2> HIDE DEF A, cs
  <2> QED BY <1>1, <2>1, <2>2, <2>3, ReplyGives DEF A, cs
<1> QED BY <1>2, <1>3

LEMMA AcceptGives ==
  ASSUME Typed, NEW p \in Pids, Accept(p)
  PROVE  GivesNone
<1>1. Enter(p, "accept") /\ Runs(p) /\ Asked(p) \in Nat
  BY AcceptCases
<1>2. Called(p, Asked(p)) \in [Pids -> CallRecs] /\ Id(p) \in Ids
  BY <1>1, CalledType, Running DEF Enter, Ops
<1>3. CASE Reply({}, Called(p, Asked(p)))
  BY <1>2, <1>3, ReplyGives, Empties
<1>4. ASSUME Found(p) \in DOMAIN socklist,
             Reply({Answer(Id(p), socklist[Found(p)].sockfd)}, Called(p, Asked(p)))
      PROVE  GivesNone
  <2> DEFINE fd == socklist[Found(p)].sockfd
             A == {Answer(Id(p), fd)}
             cs == Called(p, Asked(p))
  <2>1. socklist[Found(p)] \in SockNode
    BY <1>4, ListElements DEF Typed, KernelType
  <2>2. fd \in Descriptors
    BY <2>1, NodeFields DEF SockNode
  <2> HIDE DEF fd
  <2>3. fd \in Int
    BY <2>2, MaxFdAssumption DEF Descriptors
  <2>4. A \in SUBSET AnswerRecs /\ \A a \in A : NotRead(a, cs)
    BY <1>2, <2>3, AnswerType, AnswersNotRead
  <2>5. Reply(A, cs) /\ cs \in [Pids -> CallRecs]
    BY <1>2, <1>4 DEF fd
  <2> HIDE DEF A, cs
  <2> QED BY <2>4, <2>5, ReplyGives
<1> QED BY <1>3, <1>4, AcceptCases

\* Of the calls, read alone returns bytes.
LEMMA SyscallGives ==
  ASSUME Typed, NEW p \in Pids, Syscall(p), ~Read(p)
  PROVE  GivesNone
<1> DEFINE Plainly(op) == /\ Enter(p, op) /\ op \in Ops
                          /\ Blocks(p) \/ \E val \in Int : Returns(p, val)
<1>1. CASE Skip(p)
  BY <1>1 DEF Skip, apps, GivesNone
<1>2. ASSUME NEW op, Plainly(op) PROVE GivesNone
  BY <1>2, ReturnsGives
<1> HIDE DEF Plainly
<1>3. CASE Socket(p)
  <2>1. Enter(p, "socket") /\ Returns(p, Create(p, fds))
    BY <1>3 DEF Socket
  <2>2. Create(p, fds) \in Int
    <3>1. fds[p] \in 0..MaxFd
      BY DEF Typed, KernelType
    <3> QED BY <3>1, MaxFdAssumption DEF Create
  <2>3. Plainly("socket")
    BY <2>1, <2>2 DEF Plainly, Ops
  <2> QED BY <1>2, <2>3
<1>4. CASE Bind(p)
  <2>1. Enter(p, "bind") /\ (Blocks(p) \/ Returns(p, -1) \/ Returns(p, 0))
    BY <1>4 DEF Bind
  <2>2. Plainly("bind")
    BY <2>1 DEF Plainly, Ops
  <2> QED BY <1>2, <2>2
<1>5. CASE Listen(p)
  <2>1. Plainly("listen")
    BY <1>5 DEF Listen, Plainly, Ops
  <2> QED BY <1>2, <2>1
<1>6. CASE Connect(p)
  <2>1. Plainly("connect")
    BY <1>6 DEF Connect, Plainly, Ops
  <2> QED BY <1>2, <2>1
<1>7. CASE Write(p)
  <2>1. Enter(p, "write") /\ (Blocks(p) \/ Returns(p, -1) \/ Returns(p, WriteLen(p)))
    BY <1>7, WriteCases
  <2>2. WriteLen(p) \in Nat
    BY <1>7, WritePartTypes
  <2>3. Plainly("write")
    BY <2>1, <2>2 DEF Plainly, Ops
  <2> QED BY <1>2, <2>3
<1>8. CASE Close(p)
  <2>1. Enter(p, "close") /\ (Blocks(p) \/ Returns(p, -1))
    BY <1>8, CloseCases
  <2>2. Plainly("close")
    BY <2>1 DEF Plainly, Ops
  <2> QED BY <1>2, <2>2
<1> QED BY <1>1, <1>3, <1>4, <1>5, <1>6, <1>7, <1>8, AcceptGives DEF Syscall

\* What a call does, as far as the streams are concerned.
SameReads(m, n) == m.read_uuid = n.read_uuid /\ m.read_len = n.read_len
AwaitsRead(p, m) == /\ m.status = "ESTAB" /\ m.read_uuid = Id(p)
               /\ calls'[p] # Idle /\ calls'[p].op = "read" /\ calls'[p].id = Id(p)
Lasts(m, n) == m.status = "ESTAB" => n.status = "ESTAB" /\ m.ack = n.ack
Takes(p, m, n) ==
  \E len \in 0..BUFSIZE : /\ len <= n.recv_len /\ m = Consumed(n, len)
                          /\ Gives(p, Conn(n), Load(n.recv_buffer, n.start_r, len))
CallStreams(p) ==
  \/ socklist' = socklist /\ GivesNone
  \/ CreatesOne(p) /\ GivesNone
  \/ \E i \in DOMAIN socklist : \E m \in SockNode :
       LET n == socklist[i]
       IN  /\ socklist' = [socklist EXCEPT ![i] = m] /\ n.owner = p /\ m.owner = p
           /\ \/ /\ SameBuffer(m, n) /\ GivesNone
                 /\ \/ Keeps(m, n) /\ Lasts(m, n) /\ (SameReads(m, n) \/ AwaitsRead(p, m))
                    \/ Plain(m, n) /\ SameReads(m, n)
                    \/ Dials(m, n) /\ SameReads(m, n)
              \/ Keeps(m, n) /\ n.status = "ESTAB" /\ SameReads(m, n) /\ Takes(p, m, n)

LEMMA BindStreams ==
  ASSUME Typed, Orderly, ConnOK, NEW p \in Pids, Bind(p) \/ Listen(p) \/ Connect(p)
  PROVE  CallStreams(p)
<1>1. /\ Node(p) # 0 => /\ Node(p) \in DOMAIN socklist /\ socklist[Node(p)] \in SockNode
                        /\ socklist[Node(p)].owner = p
      /\ GivesNone
  <2>1. Syscall(p) /\ ~Read(p)
    BY DEF Syscall, Bind, Listen, Connect, Read, Enter
  <2> QED BY <2>1, SyscallGives, NodeLookup
<1> DEFINE n == socklist[Node(p)]
<1>2. CASE Bind(p)
  <2>1. Enter(p, "bind") /\ Runs(p)
    BY <1>2 DEF Bind, Enter
  <2>2. CASE socklist' = socklist
    BY <1>1, <2>2 DEF CallStreams
  <2>3. CASE /\ Node(p) # 0 /\ Bound(p) \in SockNode
             /\ Bound(p).srcport = Next_(p).port
             /\ Bound(p).status = n.status
             /\ Bound(p).dest = n.dest
             /\ socklist' = [socklist EXCEPT ![Node(p)] = Bound(p)]
    <3>1. /\ SameBuffer(Bound(p), n) /\ SameReads(Bound(p), n) /\ Bound(p).owner = n.owner
      BY <1>1, <2>3 DEF Bound, SockNode, NodeOf, SameBuffer, SameReads
    <3>2. n.dest = NoRemote /\ Next_(p).port \notin Ephemeral /\ Next_(p).port # 0
      BY <2>1, <2>3, OrderlyNode DEF Unused
    <3>3. ~Up(n.status)
      BY <1>1, <2>3, <3>2 DEF ConnOK, NodesOK, NodeOK
    <3>4. Plain(Bound(p), n)
      BY <1>1, <2>3, <3>1, <3>2, <3>3 DEF Plain, SameBuffer
    <3> QED BY <1>1, <2>1, <2>3, <3>1, <3>4 DEF CallStreams
  <2> QED BY <1>2, <2>2, <2>3, BindCases
<1>3. CASE Listen(p)
  <2>1. Enter(p, "listen") /\ Runs(p) /\ Node(p) # 0
    BY <1>3 DEF Listen, Enter
  <2>2. /\ Listening(p) \in SockNode
        /\ Listening(p).status = "LISTENING" /\ Listening(p).srcport = n.srcport
        /\ Listening(p).dest = n.dest
        /\ socklist' = [socklist EXCEPT ![Node(p)] = Listening(p)]
    BY <1>3, ListenCases
  <2>3. /\ SameBuffer(Listening(p), n) /\ SameReads(Listening(p), n)
        /\ Listening(p).owner = n.owner
    BY <1>1, <2>1 DEF Listening, SockNode, NodeOf, SameBuffer, SameReads
  <2>4. n.dest = NoRemote /\ n.srcport # 0
    BY <2>1, OrderlyNode
  <2>5. ~Up(n.status) /\ n.srcport \notin Ephemeral /\ ~Up(Listening(p).status)
    BY <1>1, <2>1, <2>2, <2>4 DEF ConnOK, NodesOK, NodeOK, Up
  <2>6. Plain(Listening(p), n)
    BY <1>1, <2>1, <2>2, <2>3, <2>4, <2>5 DEF Plain, SameBuffer
  <2> QED BY <1>1, <2>1, <2>2, <2>3, <2>6 DEF CallStreams
<1>4. CASE Connect(p)
  <2>1. Enter(p, "connect") /\ Runs(p) /\ Node(p) # 0
    BY <1>4 DEF Connect, Enter
  <2>2. PICK port \in allocate_port(socklist) :
          /\ Connecting(p, port) \in SockNode
          /\ Connecting(p, port).srcport = port /\ Connecting(p, port).dest = Next_(p).to
          /\ Connecting(p, port).status = "SYN_SENT"
          /\ socklist' = [socklist EXCEPT ![Node(p)] = Connecting(p, port)]
    BY <1>4, ConnectCases
  <2>3. /\ Connecting(p, port).backlog = n.backlog /\ Connecting(p, port).owner = n.owner
        /\ SameBuffer(Connecting(p, port), n) /\ SameReads(Connecting(p, port), n)
    BY <1>1, <2>1 DEF Connecting, SockNode, NodeOf, SameBuffer, SameReads
  <2>4. port # 0
    BY EndpointsAssumption DEF allocate_port
  <2>5. /\ n.dest = NoRemote /\ Next_(p).to \in Servers
        /\ \A q \in Ephemeral : peer[<<Next_(p).to, q>>] = Closed
        /\ \A i \in DOMAIN socklist : socklist[i].dest # Next_(p).to
    BY <2>1, OrderlyNode DEF Unused
  <2>6. Dials(Connecting(p, port), n)
    BY <1>1, <2>1, <2>2, <2>3, <2>4, <2>5 DEF Dials, SameBuffer
  <2> QED BY <1>1, <2>1, <2>2, <2>3, <2>6 DEF CallStreams
<1> QED BY <1>2, <1>3, <1>4

\* Read waits for its bytes, or takes them from the buffer.
LEMMA ReadStreams ==
  ASSUME Typed, CallsOK, NEW p \in Pids, Read(p)
  PROVE  CallStreams(p)
<1> DEFINE n == socklist[Node(p)]
           len == Next_(p).n
           c == Consumed(n, len)
<1>1. /\ Enter(p, "read") /\ Runs(p) /\ Next_(p).op = "read" /\ Node(p) # 0
      /\ len \in 0..BUFSIZE
  BY ReadCases
<1>2. Node(p) \in DOMAIN socklist /\ n \in SockNode /\ n.owner = p
  BY <1>1, NodeLookup
<1>3. CASE /\ n.status = "ESTAB" /\ n.recv_len < len
           /\ ReadWaits(p) \in SockNode /\ SameSocket(ReadWaits(p), n)
           /\ ReadWaits(p).status = n.status /\ ReadWaits(p).ack = n.ack
           /\ ReadWaits(p).read_uuid = Id(p)
           /\ socklist' = [socklist EXCEPT ![Node(p)] = ReadWaits(p)]
           /\ Blocks(p)
  <2>1. GivesNone
    BY <1>1, <1>3, ReturnsGives DEF Ops
  <2>2. SameBuffer(ReadWaits(p), n) /\ ReadWaits(p).owner = n.owner
    BY <1>2 DEF ReadWaits, SockNode, NodeOf, SameBuffer
  <2>3. calls'[p] = [op |-> "read", id |-> Id(p), port |-> 0]
    BY <1>1, <1>3, BlocksStep DEF Ops
  <2>4. AwaitsRead(p, ReadWaits(p))
    BY <1>3, <2>3 DEF AwaitsRead, Idle
  <2>5. Keeps(ReadWaits(p), n) /\ Lasts(ReadWaits(p), n)
    BY <1>3, SameKeeps DEF Lasts
  <2> QED BY <1>2, <1>3, <2>1, <2>2, <2>4, <2>5 DEF CallStreams
<1>4. CASE /\ n.status = "ESTAB" /\ n.recv_len >= len
           /\ c \in SockNode /\ SameSocket(c, n) /\ c.status = n.status
           /\ socklist' = [socklist EXCEPT ![Node(p)] = c]
           /\ Reply({ReadAnswer(Id(p), n, len)}, Called(p, 0))
  <2>1. Called(p, 0) \in [Pids -> CallRecs] /\ Id(p) \in Ids
        /\ Called(p, 0)[p] = [op |-> "read", id |-> Id(p), port |-> 0]
        /\ \A q \in Pids : q # p => Called(p, 0)[q] = calls[q]
    BY <1>1, CalledType, Running DEF Ops
  <2>2. len \in Nat
    BY <1>1, IndexFacts
  <2> DEFINE b == ReadAnswer(Id(p), n, len)
             A == {b}
             cs == Called(p, 0)
  <2>3. A \in SUBSET AnswerRecs /\ b.id = Id(p)
    BY <1>2, <2>1, <2>2, ReadAnswerType DEF SockNode
  <2>4. b.from = Conn(n) /\ b.data = Load(n.recv_buffer, n.start_r, len)
    BY DEF ReadAnswer
  <2>5. cs[p] # Idle /\ cs[p].id = Id(p) /\ cs[p].op = "read"
    BY <2>1 DEF Idle
  <2>6. \A q \in Pids : q # p /\ cs[q] # Idle => cs[q].id # Id(p)
    BY <2>1 DEF CallsOK, Id
  <2>7. Reply(A, cs) /\ \A a \in A : a = b
    BY <1>4
  <2>8. b \in A /\ cs \in [Pids -> CallRecs]
    BY <2>1
  <2> HIDE DEF A, b, cs, c
  <2>9. Gives(p, b.from, b.data)
    BY <2>3, <2>5, <2>6, <2>7, <2>8, ReplyGives
  <2>10. Takes(p, c, n)
    BY <1>1, <1>4, <2>4, <2>9 DEF Takes, c
  <2>11. SameReads(c, n) /\ Keeps(c, n) /\ c.owner = n.owner
    <3>1. SameReads(c, n)
      BY <1>2 DEF SameReads, c, Consumed, SockNode, NodeOf
    <3> QED BY <1>4, <3>1, SameKeeps DEF SameSocket
  <2> QED BY <1>2, <1>4, <2>10, <2>11 DEF CallStreams
<1>5. CASE n.status # "ESTAB" /\ socklist' = socklist /\ Returns(p, -1)
  <2>1. GivesNone
    BY <1>1, <1>5, ReturnsGives DEF Ops
  <2> QED BY <1>5, <2>1 DEF CallStreams
<1> QED BY <1>3, <1>4, <1>5, ReadCases

LEMMA AcceptStreams ==
  ASSUME Typed, NEW p \in Pids, Accept(p)
  PROVE  CallStreams(p)
<1>1. GivesNone
  BY AcceptGives
<1>2. CASE Found(p) = 0
  <2>1. socklist' = socklist
    BY <1>2, AcceptCases
  <2> QED BY <1>1, <2>1 DEF CallStreams
<1>3. CASE Found(p) # 0
  <2> DEFINE n == socklist[Found(p)]
  <2>1. /\ Found(p) \in DOMAIN socklist /\ Taken(p) \in SockNode /\ n \in SockNode
        /\ socklist' = [socklist EXCEPT ![Found(p)] = Taken(p)]
        /\ Keeps(Taken(p), n) /\ Taken(p).status = n.status
        /\ Taken(p).owner = p /\ n.owner = p
    BY <1>3, TakenFacts DEF Keeps
  <2>2. SameBuffer(Taken(p), n) /\ SameReads(Taken(p), n) /\ Taken(p).ack = n.ack
    BY <2>1 DEF Taken, SockNode, NodeOf, SameBuffer, SameReads
  <2>3. Lasts(Taken(p), n)
    BY <2>1, <2>2 DEF Lasts
  <2> QED BY <1>1, <2>1, <2>2, <2>3 DEF CallStreams
<1> QED BY <1>2, <1>3

\* What send_segments and the calls that use it leave to the stream.
SameStream(m, n) == SameBuffer(m, n) /\ SameReads(m, n) /\ m.owner = n.owner /\ m.ack = n.ack

LEMMA SentStream ==
  ASSUME NEW O, NEW D, NEW n \in NodeOf(O, D), NEW seg \in Nat
  PROVE  SameStream(send_segments(n, seg).node, n) /\ send_segments(n, seg).node.status = n.status
<1>1. PICK e \in Index, q \in Int, b \in BOOLEAN : send_segments(n, seg).node = Sent(n, e, q, b)
  BY SendSegmentsType
<1>2. SameStream(Sent(n, e, q, b), n) /\ Sent(n, e, q, b).status = n.status
  BY DEF Sent, SameStream, SameBuffer, SameReads, NodeOf
<1> QED BY <1>1, <1>2

LEMMA WriteStreams ==
  ASSUME Typed, NEW p \in Pids, Write(p)
  PROVE  CallStreams(p)
<1> DEFINE n == socklist[Node(p)]
           w == [WriteNode(p) EXCEPT !.sending = TRUE]
           s == WriteSent(p).node
<1>1. GivesNone
  <2>1. Syscall(p) /\ ~Read(p)
    BY DEF Syscall, Write, Read, Enter
  <2> QED BY <2>1, SyscallGives
<1>2. Enter(p, "write") /\ Runs(p) /\ Node(p) # 0
  BY WriteCases
<1>3. /\ Node(p) \in DOMAIN socklist /\ n \in SockNode /\ n.owner = p
      /\ WriteNode(p) \in SockNode /\ WriteWaits(p) \in SockNode /\ s \in SockNode
  BY <1>2, WritePartTypes, NodeLookup
<1>4. n.cwnd \div MSS \in Nat
  <2>1. n.cwnd \in Nat
    BY <1>3, NodeFields DEF SockNode
  <2> HIDE DEF n
  <2> QED BY <2>1, IndexFacts, SizesAssumption
<1>5. SameStream(WriteNode(p), n) /\ SameStream(WriteWaits(p), n)
  BY <1>3 DEF WriteNode, WriteWaits, SockNode, NodeOf, SameStream, SameBuffer, SameReads
<1>6. w \in SockNode /\ SameStream(w, WriteNode(p))
  BY <1>3 DEF SockNode, NodeOf, SameStream, SameBuffer, SameReads
<1>7. SameStream(s, n)
  <2>1. s = send_segments(w, n.cwnd \div MSS).node
    BY DEF WriteSent
  <2> HIDE DEF w, s, n
  <2>2. SameStream(s, w)
    BY <1>4, <1>6, <2>1, SentStream DEF SockNode
  <2> QED BY <1>5, <1>6, <2>2 DEF SameStream, SameBuffer, SameReads
<1>8. \A m \in {WriteNode(p), WriteWaits(p), s} : SameSocket(m, n) /\ m.status = n.status
  BY WriteFields
<1>9. ASSUME NEW m \in {WriteNode(p), WriteWaits(p), s},
             socklist' = [socklist EXCEPT ![Node(p)] = m]
      PROVE  CallStreams(p)
  <2>1. m \in SockNode /\ SameStream(m, n) /\ SameSocket(m, n) /\ m.status = n.status
    BY <1>3, <1>5, <1>7, <1>8
  <2> HIDE DEF s, n
  <2>2. Keeps(m, n) /\ Lasts(m, n)
    BY <2>1, SameKeeps DEF Lasts, SameStream
  <2> QED BY <1>1, <1>3, <1>9, <2>1, <2>2 DEF CallStreams, SameStream, n
<1>10. socklist' = socklist => CallStreams(p)
  BY <1>1 DEF CallStreams
<1>11. \/ socklist' = socklist
       \/ \E m \in {WriteNode(p), WriteWaits(p), s} : socklist' = [socklist EXCEPT ![Node(p)] = m]
  BY WriteCases
<1> QED BY <1>9, <1>10, <1>11

LEMMA CloseStreams ==
  ASSUME Typed, NEW p \in Pids, Close(p)
  PROVE  CallStreams(p)
<1> DEFINE n == socklist[Node(p)]
           s == CloseSent(p).node
<1>1. GivesNone
  <2>1. Syscall(p) /\ ~Read(p)
    BY DEF Syscall, Close, Read, Enter
  <2> QED BY <2>1, SyscallGives
<1>2. Enter(p, "close") /\ Runs(p) /\ Node(p) # 0
  BY CloseCases
<1>3. /\ Node(p) \in DOMAIN socklist /\ n \in SockNode /\ n.owner = p
      /\ ActiveClosed(p) \in SockNode /\ PassiveClosed(p) \in SockNode /\ Unbound(p) \in SockNode
      /\ s \in SockNode
  BY <1>2, ClosePartTypes, NodeLookup
<1>4. SameStream(s, n)
  <2>1. BUFSIZE \div MSS \in Nat
    BY IndexFacts
  <2> QED BY <1>3, <2>1, SentStream DEF CloseSent, SockNode
<1>5. /\ SameStream(ActiveClosed(p), s) /\ SameStream(PassiveClosed(p), n)
      /\ SameStream(Unbound(p), n)
  BY <1>3 DEF ActiveClosed, PassiveClosed, Unbound, SockNode, NodeOf, SameStream, SameBuffer,
              SameReads
<1>6. \A m \in {ActiveClosed(p), PassiveClosed(p), Unbound(p)} : SameStream(m, n)
  BY <1>4, <1>5 DEF SameStream, SameBuffer, SameReads
<1>7. /\ SameButId(ActiveClosed(p), n) /\ ActiveClosed(p).status = "FIN_WAIT_1"
      /\ SameButId(PassiveClosed(p), n) /\ PassiveClosed(p).status = "LAST_ACK"
      /\ SameSocket(Unbound(p), n) /\ Unbound(p).status = n.status
  BY CloseFields
<1>8. \/ /\ n.status = "ESTAB" /\ socklist' = [socklist EXCEPT ![Node(p)] = ActiveClosed(p)]
      \/ /\ n.status = "CLOSE_WAIT"
         /\ socklist' = [socklist EXCEPT ![Node(p)] = PassiveClosed(p)]
      \/ socklist' = [socklist EXCEPT ![Node(p)] = Unbound(p)]
  BY CloseCases
<1>9. ASSUME NEW m \in {ActiveClosed(p), PassiveClosed(p), Unbound(p)}, Keeps(m, n), Lasts(m, n),
             socklist' = [socklist EXCEPT ![Node(p)] = m]
      PROVE  CallStreams(p)
  <2>1. m \in SockNode /\ SameStream(m, n)
    BY <1>3, <1>6
  <2> HIDE DEF s, n
  <2> QED BY <1>1, <1>3, <1>9, <2>1 DEF CallStreams, SameStream, n
<1>10. ASSUME n.status = "ESTAB" PROVE Keeps(ActiveClosed(p), n) /\ Lasts(ActiveClosed(p), n)
  BY <1>7, <1>10 DEF Keeps, Lasts, SameButId, Up
<1>11. ASSUME n.status = "CLOSE_WAIT"
       PROVE  Keeps(PassiveClosed(p), n) /\ Lasts(PassiveClosed(p), n)
  BY <1>7, <1>11 DEF Keeps, Lasts, SameButId, Up
<1>12. Keeps(Unbound(p), n) /\ Lasts(Unbound(p), n)
  BY <1>6, <1>7, SameKeeps DEF Lasts, SameStream
<1> QED BY <1>8, <1>9, <1>10, <1>11, <1>12

LEMMA SyscallStreams ==
  ASSUME Typed, CallsOK, Orderly, ConnOK, NEW p \in Pids, Syscall(p)
  PROVE  CallStreams(p)
<1>1. CASE Socket(p)
  <2>1. socklist' = socklist \/ CreatesOne(p)
    BY <1>1, SocketTable
  <2>2. GivesNone
    <3>1. ~Read(p)
      BY <1>1 DEF Socket, Read, Enter
    <3> QED BY <3>1, SyscallGives
  <2> QED BY <2>1, <2>2 DEF CallStreams
<1>2. CASE Skip(p)
  BY <1>2 DEF CallStreams, Skip, kernel, apps, GivesNone
<1> QED BY <1>1, <1>2, BindStreams, ReadStreams, AcceptStreams, WriteStreams, CloseStreams
        DEF Syscall

-----------------------------------------------------------------------------
(* Blocked reads: a node that is to answer a read answers a pending one of  *)
(* its owner, and no other node answers it.                                 *)

Awaited(n) == n.read_uuid[1] > 0
Zeroed(n) == n.read_uuid[1] = 0 => n.read_len = 0
NodeReads(n, cs) ==
  /\ Awaited(n) => /\ n.status = "ESTAB" /\ cs[n.owner] # Idle
                   /\ cs[n.owner].op = "read" /\ cs[n.owner].id = n.read_uuid
  /\ Zeroed(n)
ReadersOnce(sl) == \A i, j \in DOMAIN sl :
  Awaited(sl[i]) /\ sl[i].read_uuid = sl[j].read_uuid => i = j
SockReads == \A i \in DOMAIN socklist : NodeReads(socklist[i], calls)
HalfReads == \A j \in DOMAIN backlog_list : ~Awaited(backlog_list[j]) /\ Zeroed(backlog_list[j])
ReadsOK == SockReads /\ HalfReads /\ ReadersOnce(socklist)

\* A call of p and its nodes.
LEMMA CallReads ==
  ASSUME Typed, CallsOK, ReadsOK, NEW p \in Pids, Runs(p), SyscallStep(p),
         NEW i \in DOMAIN socklist
  PROVE  LET n == socklist[i]
         IN  /\ n.owner = p => ~Awaited(n)
             /\ NodeReads(n, calls')
<1> DEFINE n == socklist[i]
<1>1. n \in SockNode
  BY ListElements
<1>2. n.owner \in Pids
  BY <1>1, NodeFields DEF SockNode
<1>3. NodeReads(n, calls)
  BY DEF ReadsOK, SockReads
<1>4. calls[p] = Idle
  BY DEF Runs
<1> HIDE DEF n
<1>5. n.owner = p => ~Awaited(n)
  BY <1>3, <1>4 DEF NodeReads
<1>6. n.owner # p => calls'[n.owner] = calls[n.owner]
  BY <1>2 DEF SyscallStep
<1>7. NodeReads(n, calls')
  BY <1>3, <1>5, <1>6 DEF NodeReads
<1> QED BY <1>5, <1>7 DEF n

LEMMA SyscallReads ==
  ASSUME Typed, CallsOK, UsesOK, ReadsOK, NEW p \in Pids, Syscall(p), CallStreams(p)
  PROVE  ReadsOK'
<1>1. /\ SyscallStep(p) /\ Runs(p) /\ backlog_list' = backlog_list
  BY SyscallSteps, SyscallLists
<1>2. \A k \in DOMAIN socklist : /\ socklist[k].owner = p => ~Awaited(socklist[k])
                                 /\ NodeReads(socklist[k], calls')
  BY <1>1, CallReads
<1>3. HalfReads'
  BY <1>1 DEF ReadsOK, HalfReads
<1>4. CASE socklist' = socklist
  BY <1>2, <1>3, <1>4 DEF ReadsOK, SockReads
<1>5. CASE CreatesOne(p)
  <2>1. PICK st \in FreshStatus : /\ FreshNode(p, Create(p, fds), st) \in SockNode
                                  /\ socklist' = <<FreshNode(p, Create(p, fds), st)>> \o socklist
    BY <1>5 DEF CreatesOne
  <2> DEFINE m == FreshNode(p, Create(p, fds), st)
  <2>2. ~Awaited(m) /\ Zeroed(m)
    BY DEF FreshNode, Awaited, Zeroed, Zero
  <2> HIDE DEF m
  <2>3. m \in SockNode /\ socklist' = <<m>> \o socklist /\ socklist \in Seq(SockNode)
    BY <2>1 DEF m, Typed, KernelType
  <2>4. /\ socklist'[1] = m
        /\ \A j \in DOMAIN socklist' :
             \/ j = 1 /\ socklist'[j] = m
             \/ j-1 \in DOMAIN socklist /\ socklist'[j] = socklist[j-1]
        /\ DOMAIN socklist' \subseteq Int
    BY <2>3, ConsOthers
  <2>5. SockReads'
    BY <1>2, <2>2, <2>4 DEF SockReads, NodeReads
  <2>6. ReadersOnce(socklist')
    <3> SUFFICES ASSUME NEW i \in DOMAIN socklist', NEW j \in DOMAIN socklist',
                        Awaited(socklist'[i]), socklist'[i].read_uuid = socklist'[j].read_uuid
                 PROVE  i = j
      BY DEF ReadersOnce
    <3>1. Awaited(socklist'[j])
      BY DEF Awaited
    <3>2. /\ i-1 \in DOMAIN socklist /\ socklist'[i] = socklist[i-1]
          /\ j-1 \in DOMAIN socklist /\ socklist'[j] = socklist[j-1]
          /\ i \in Int /\ j \in Int
      BY <2>2, <2>4, <3>1
    <3>3. i-1 = j-1
      BY <3>2 DEF ReadsOK, ReadersOnce
    <3> QED BY <3>2, <3>3
  <2> QED BY <1>3, <2>5, <2>6 DEF ReadsOK
<1>6. ASSUME NEW i \in DOMAIN socklist, NEW m \in SockNode,
             socklist' = [socklist EXCEPT ![i] = m], socklist[i].owner = p, m.owner = p,
             SameReads(m, socklist[i]) \/ AwaitsRead(p, m)
      PROVE  ReadsOK'
  <2> DEFINE n == socklist[i]
  <2>1. /\ DOMAIN socklist' = DOMAIN socklist
        /\ \A j \in DOMAIN socklist : socklist'[j] = IF j = i THEN m ELSE socklist[j]
    BY <1>6
  <2>2. ~Awaited(n) /\ Zeroed(n)
    BY <1>2, <1>6 DEF ReadsOK, SockReads, NodeReads
  <2>3. Id(p)[1] > 0
    BY PidsAssumption DEF Id
  <2>4. CASE SameReads(m, n)
    <3>1. ~Awaited(m) /\ Zeroed(m)
      BY <2>2, <2>4 DEF SameReads, Awaited, Zeroed
    <3>2. SockReads'
      BY <1>2, <2>1, <3>1 DEF SockReads, NodeReads
    <3>3. ReadersOnce(socklist')
      BY <2>1, <3>1 DEF ReadsOK, ReadersOnce, Awaited
    <3> QED BY <1>3, <3>2, <3>3 DEF ReadsOK
  <2>5. CASE AwaitsRead(p, m)
    <3>1. m.read_uuid = Id(p) /\ NodeReads(m, calls')
      BY <1>6, <2>3, <2>5 DEF AwaitsRead, NodeReads, Awaited, Zeroed
    <3>2. SockReads'
      BY <1>2, <2>1, <3>1 DEF SockReads
    <3>3. \A k \in DOMAIN socklist : socklist[k].read_uuid # Id(p)
      <4> SUFFICES ASSUME NEW k \in DOMAIN socklist PROVE socklist[k].read_uuid # Id(p)
        OBVIOUS
      <4>1. socklist[k] \in SockNode /\ NodeUse(socklist[k], prog, calls)
        BY ListElements DEF UsesOK, SockUses
      <4>2. socklist[k].read_uuid \in Ids /\ IdOld(socklist[k].read_uuid, prog)
        BY <4>1, NodeIdsType DEF NodeUse, SockNode
      <4> QED BY <1>1, <4>2, IdsOfCall
    <3>4. ReadersOnce(socklist')
      BY <2>1, <3>1, <3>3 DEF ReadsOK, ReadersOnce, Awaited
    <3> QED BY <1>3, <3>2, <3>4 DEF ReadsOK
  <2> QED BY <1>6, <2>4, <2>5
<1> QED BY <1>4, <1>5, <1>6 DEF CallStreams

-----------------------------------------------------------------------------
(* Arrivals and blocked reads.                                             *)

\* A pending read is not a call that other numbers are of.
LEMMA ReadApart ==
  ASSUME NEW x, NodeReads(x, calls), Awaited(x), x.owner \in Pids
  PROVE  /\ \A n : NodeUse(n, prog, calls) => x.read_uuid # n.uuid /\ x.read_uuid # n.write_uuid
         /\ \A q : QueueUse(q, prog, calls) => x.read_uuid # q.uuid
<1>1. calls[x.owner] # Idle /\ calls[x.owner].op = "read" /\ calls[x.owner].id = x.read_uuid
  BY DEF NodeReads
<1> QED BY <1>1 DEF NodeUse, QueueUse, IdFor

\* A node answers its read once.
LEMMA AckOfReads ==
  ASSUME NEW n \in SockNode, NEW m \in ShortSegments, NEW c
  PROVE  LET a == AckOf(n, c, m)
         IN  /\ a.node.read_uuid \in {n.read_uuid, None} /\ a.node.read_len = n.read_len
             /\ a.node.owner = n.owner
             /\ n.status = "ESTAB" => a.node.status = "ESTAB"
             /\ \A b \in a.answers :
                  \/ b.id \in {n.uuid, n.write_uuid} /\ b.from = NoConn
                  \/ b.id = n.read_uuid /\ a.node.read_uuid = None /\ b.from = Conn(n)
<1> DEFINE a == AckOf(n, c, m)
<1>1. /\ SameSocket(a.node, n)
      /\ a.node.status = CASE n.status = "FIN_WAIT_1" -> "FIN_WAIT_2"
                           [] n.status = "CLOSING" -> "TIMED_WAIT"
                           [] OTHER -> n.status
  BY AckOfFacts
<1>2. CASE n.status = "ESTAB" /\ m.data # <<>>
  <2>1. a.node = Left(n, m) /\ a.answers = ReadAnswers(n, m)
    BY <1>2, ReceiveFacts DEF AckOf
  <2> DEFINE s == Stored(n, m)
  <2>2. /\ s \in SockNode /\ s.read_uuid = n.read_uuid /\ s.read_len = n.read_len
        /\ Conn(s) = Conn(n)
    BY StoredType DEF SameSocket, Conn
  <2> HIDE DEF s
  <2>3. CASE Satisfied(s)
    <3> DEFINE t == Consumed(s, n.read_len)
    <3>1. n.read_len \in 0..BUFSIZE /\ n.read_len <= s.recv_len
      BY <2>2, <2>3, NodeFields DEF Satisfied, SockNode
    <3>2. t \in SockNode
      BY <2>2, <3>1, ConsumedType DEF SockNode
    <3>3. t.read_len = n.read_len
      BY <2>2 DEF Consumed, SockNode, NodeOf
    <3> HIDE DEF t
    <3>4. Left(n, m) = [t EXCEPT !.read_uuid = None]
      BY <2>3 DEF Left, s, t
    <3>5. Left(n, m).read_uuid = None /\ Left(n, m).read_len = n.read_len
      BY <3>2, <3>3, <3>4 DEF SockNode, NodeOf
    <3>6. ReadAnswers(n, m) = {ReadAnswer(n.read_uuid, s, n.read_len)}
      BY <2>3 DEF ReadAnswers, s
    <3>7. \A b \in ReadAnswers(n, m) : b.id = n.read_uuid /\ b.from = Conn(n)
      BY <2>2, <3>6 DEF ReadAnswer
    <3> HIDE DEF a
    <3> QED BY <1>1, <1>2, <2>1, <3>5, <3>7 DEF a, SameSocket
  <2>4. CASE ~Satisfied(s)
    <3>1. Left(n, m) = s /\ ReadAnswers(n, m) = {}
      BY <2>4 DEF Left, ReadAnswers, s
    <3> HIDE DEF a
    <3> QED BY <1>1, <1>2, <2>1, <2>2, <3>1 DEF a, SameSocket
  <2> QED BY <2>3, <2>4
<1>3. CASE n.status = "ESTAB" /\ m.data = <<>>
  <2>1. a = Acked(n, m)
    BY <1>3 DEF AckOf
  <2>2. /\ a.node = AckedNode(n, m) /\ AckedNode(n, m).read_uuid = n.read_uuid
        /\ AckedNode(n, m).read_len = n.read_len
    BY <2>1, AckedFacts DEF ReadGoesOn
  <2>3. Acked(n, m).answers = IF n.sending /\ n.write_uuid[1] > 0
                               THEN {Answer(n.write_uuid, MSS)} ELSE {}
    BY DEF Acked, AckedNode, Filled, Resumed, Grown
  <2>4. Answer(n.write_uuid, MSS).id = n.write_uuid /\ Answer(n.write_uuid, MSS).from = NoConn
    BY DEF Answer
  <2> HIDE DEF a
  <2> QED BY <1>1, <1>3, <2>1, <2>2, <2>3, <2>4 DEF a, SameSocket
<1>4. CASE n.status # "ESTAB"
  <2>1. PICK st, seq : a.node = Quiet(n, st, seq)
    BY <1>4 DEF AckOf, Quiet
  <2>2. \A b \in a.answers : b.id = n.uuid /\ b.from = NoConn
    BY <1>4 DEF AckOf, Answer
  <2>3. Quiet(n, st, seq).read_uuid = n.read_uuid /\ Quiet(n, st, seq).read_len = n.read_len
    BY DEF Quiet, SockNode, NodeOf
  <2> HIDE DEF a
  <2> QED BY <1>1, <1>4, <2>1, <2>2, <2>3 DEF a, SameSocket
<1> QED BY <1>2, <1>3, <1>4

LEMMA FinishedReads ==
  ASSUME NEW n \in SockNode, NEW m \in ShortSegments,
         n.status \in {"ESTAB", "FIN_WAIT_1", "FIN_WAIT_2"}
  PROVE  LET f == Finished(n, m)
         IN  /\ f.read_uuid = IF n.status = "ESTAB" THEN None ELSE n.read_uuid
             /\ f.read_len = n.read_len /\ f.owner = n.owner
             /\ SameBuffer(f, n) /\ f.status = AfterFin(n.status)
             /\ \A b \in FinAnswers(n) :
                  \/ b.id = n.uuid /\ b.from = NoConn
                  \/ b.id = n.read_uuid /\ f.read_uuid = None /\ b.from = Conn(n)
<1> DEFINE f == Finished(n, m)
<1>1. /\ f.read_uuid = IF n.status = "ESTAB" THEN None ELSE n.read_uuid
      /\ f.read_len = n.read_len /\ f.owner = n.owner
      /\ SameBuffer(f, n) /\ f.status = AfterFin(n.status)
  BY DEF Finished, SockNode, NodeOf, SameBuffer
<1>2. \A b \in FinAnswers(n) :
        \/ b.id = n.uuid /\ b.from = NoConn
        \/ b.id = n.read_uuid /\ n.status = "ESTAB" /\ b.from = Conn(n)
  BY DEF FinAnswers, EofAnswers, Answer, ReadAnswer
<1> QED BY <1>1, <1>2

\* The entry an ACK completes, and its socket, answer no read.
LEMMA NewSocketReads ==
  ASSUME Typed, ReadsOK, NEW c \in Conns, NEW m \in ShortSegments, HalfOpen(c) # 0
  PROVE  ~Awaited(NewSocket(c, m)) /\ Zeroed(NewSocket(c, m))
<1>1. Entry(c) \in NodeOf(Pids \cup {-1}, Descriptors \cup {-2})
  BY HalfOpenLookup DEF Entry, HalfNode
<1>2. ~Awaited(Entry(c)) /\ Zeroed(Entry(c))
  BY HalfOpenLookup DEF ReadsOK, HalfReads, Entry
<1>3. NewSocket(c, m).read_uuid = Entry(c).read_uuid /\ NewSocket(c, m).read_len = Entry(c).read_len
  BY <1>1 DEF NewSocket, NodeOf
<1> QED BY <1>2, <1>3 DEF Awaited, Zeroed

\* A node an arrival leaves waiting for a read is not answered.
LEMMA WaitsOn ==
  ASSUME Typed, NEW A \in SUBSET AnswerRecs, Reply(A, calls), UNCHANGED prog, CallsOK,
         NEW n, NodeReads(n, calls), n.owner \in Pids, NEW x, x.owner = n.owner,
         x.read_uuid \in {n.read_uuid, None}, x.read_len = n.read_len,
         n.status = "ESTAB" => x.status = "ESTAB" \/ x.read_uuid = None,
         Awaited(x) => \A b \in A : b.id # n.read_uuid
  PROVE  NodeReads(x, calls')
<1>1. /\ \A p \in Pids : calls'[p] = IF Answers(A, calls[p]) THEN Idle ELSE calls[p]
  BY AnswersStep
<1>2. None[1] = -1
  BY DEF None
<1>3. Zeroed(x)
  <2>1. CASE x.read_uuid = None
    BY <1>2, <2>1 DEF Zeroed
  <2>2. CASE x.read_uuid = n.read_uuid
    BY <2>2 DEF Zeroed, NodeReads
  <2> QED BY <2>1, <2>2
<1>4. ASSUME Awaited(x)
      PROVE  /\ x.status = "ESTAB" /\ calls'[x.owner] # Idle
             /\ calls'[x.owner].op = "read" /\ calls'[x.owner].id = x.read_uuid
  <2>1. x.read_uuid = n.read_uuid /\ Awaited(n) /\ x.read_uuid # None
    BY <1>2, <1>4 DEF Awaited
  <2>2. /\ n.status = "ESTAB" /\ calls[n.owner] # Idle
        /\ calls[n.owner].op = "read" /\ calls[n.owner].id = n.read_uuid
    BY <2>1 DEF NodeReads
  <2>3. ~Answers(A, calls[n.owner])
    BY <1>4, <2>2 DEF Answers
  <2> QED BY <1>1, <2>1, <2>2, <2>3
<1> QED BY <1>3, <1>4 DEF NodeReads

LEMMA AckReads ==
  ASSUME Typed, CallsOK, UsesOK, Distinct, ConnOK, SeqOK, ReadsOK, NEW c \in Conns, Ack(c)
  PROVE  SockReads'
<1> DEFINE m == Head(toHost[c])
           sl == Completed(c, m).sl
           i == AckedAt(c, m)
           a == AckOf(sl[i], c, m)
           B == Completed(c, m).answers
           A == B \cup AckResult(c, m).answers
<1>1. A \in SUBSET AnswerRecs /\ Reply(A, calls) /\ m \in ShortSegments /\ UNCHANGED prog
  BY AckAnswers
<1>2. \A k \in DOMAIN socklist : /\ socklist[k] \in SockNode /\ NodeReads(socklist[k], calls)
                                 /\ NodeUse(socklist[k], prog, calls)
                                 /\ socklist[k].owner \in Pids
  BY ListElements, NodeFields DEF ReadsOK, SockReads, UsesOK, SockUses, SockNode
<1>3. \A b \in B : \E q : QueueUse(q, prog, calls) /\ b.id = q.uuid
  <2> SUFFICES ASSUME NEW b \in B PROVE \E q : QueueUse(q, prog, calls) /\ b.id = q.uuid
    OBVIOUS
  <2>1. accept_queue # <<>> /\ b = Answer(Head(accept_queue).uuid, NewFd(c))
    BY <1>1, CompletedCases
  <2>2. b.id = Head(accept_queue).uuid
    BY <2>1 DEF Answer
  <2>3. accept_queue \in Seq(QueueRecs)
    BY DEF Typed, KernelType
  <2>4. 1 \in DOMAIN accept_queue /\ Head(accept_queue) = accept_queue[1]
    BY <2>1, <2>3, TailElements
  <2>5. QueueUse(accept_queue[1], prog, calls)
    BY <2>4 DEF UsesOK, QueueUses
  <2> QED BY <2>2, <2>4, <2>5
<1>4. i # 0 => /\ sl[i] \in SockNode /\ Conn(sl[i]) = c
               /\ \/ \E k \in DOMAIN socklist : sl[i] = socklist[k]
                  \/ HalfOpen(c) # 0 /\ sl[i] = NewSocket(c, m)
  BY AckTaken
<1>5. i # 0 => /\ NodeReads(sl[i], calls) /\ NodeUse(sl[i], prog, calls)
               /\ sl[i].owner \in Pids
  <2>1. ASSUME HalfOpen(c) # 0
        PROVE  /\ NodeReads(NewSocket(c, m), calls) /\ NodeUse(NewSocket(c, m), prog, calls)
    <3>1. NodeReads(NewSocket(c, m), calls)
      BY <1>1, <2>1, NewSocketReads DEF NodeReads
    <3>2. HalfOpen(c) \in DOMAIN backlog_list /\ Entry(c) = backlog_list[HalfOpen(c)]
      BY <2>1, HalfOpenLookup DEF Entry
    <3>3. NodeUse(Entry(c), prog, calls)
      BY <3>2 DEF UsesOK, HalfUses
    <3>4. NodeUse(NewSocket(c, m), prog, calls)
      BY <1>1, <2>1, <3>3, NewSocketIds DEF NodeUse, NodeIds
    <3> QED BY <3>1, <3>4
  <2> HIDE DEF sl, i, m
  <2>2. i # 0 => sl[i].owner \in Pids
    BY <1>4, NodeFields DEF SockNode
  <2> QED BY <1>2, <1>4, <2>1, <2>2
<1>6. AckResult(c, m).answers = IF i = 0 THEN {} ELSE a.answers
  BY DEF AckResult
<1> HIDE DEF sl, i
<1>7. i # 0 => /\ a.node.read_uuid \in {sl[i].read_uuid, None} /\ a.node.read_len = sl[i].read_len
               /\ a.node.owner = sl[i].owner
               /\ sl[i].status = "ESTAB" => a.node.status = "ESTAB"
               /\ \A b \in a.answers :
                    \/ b.id \in {sl[i].uuid, sl[i].write_uuid}
                    \/ b.id = sl[i].read_uuid /\ a.node.read_uuid = None
  BY <1>1, <1>4, AckOfReads
<1>8. A = B \cup (IF i = 0 THEN {} ELSE a.answers)
  BY <1>6
<1> HIDE DEF a, A, B
<1>9. ASSUME NEW n, NodeReads(n, calls), n.owner \in Pids, Awaited(n), NEW b \in A,
             b.id = n.read_uuid
      PROVE  i # 0 /\ b \in a.answers /\ b.id = sl[i].read_uuid /\ a.node.read_uuid = None
  <2>1. b \notin B
    BY <1>3, <1>9, ReadApart
  <2>2. i # 0 /\ b \in a.answers
    BY <1>8, <1>9, <2>1
  <2> QED BY <1>5, <1>7, <1>9, <2>2, ReadApart
<1>10. None[1] = -1
  BY DEF None
<1>11. i # 0 => NodeReads(a.node, calls')
  <2> SUFFICES ASSUME i # 0 PROVE NodeReads(a.node, calls')
    OBVIOUS
  <2>1. ASSUME Awaited(a.node), NEW b \in A PROVE b.id # sl[i].read_uuid
    <3>1. a.node.read_uuid # None
      BY <1>10, <2>1 DEF Awaited
    <3>2. Awaited(sl[i])
      BY <1>7, <2>1, <3>1 DEF Awaited
    <3> QED BY <1>5, <1>9, <2>1, <3>1, <3>2
  <2> QED BY <1>1, <1>5, <1>7, <2>1, WaitsOn
<1>12. ASSUME NEW k \in DOMAIN socklist, Conn(socklist[k]) # c
       PROVE  NodeReads(socklist[k], calls')
  <2> DEFINE n == socklist[k]
  <2>1. n \in SockNode /\ NodeReads(n, calls) /\ n.owner \in Pids
    BY <1>2
  <2>2. ASSUME Awaited(n), NEW b \in A PROVE b.id # n.read_uuid
    <3>1. CASE b.id = n.read_uuid
      <4>1. i # 0 /\ sl[i].read_uuid = n.read_uuid /\ Awaited(sl[i])
        BY <1>9, <2>1, <2>2, <3>1 DEF Awaited
      <4>2. CASE \E l \in DOMAIN socklist : sl[i] = socklist[l]
        <5>1. PICK l \in DOMAIN socklist : sl[i] = socklist[l]
          BY <4>2
        <5>2. l = k
          BY <4>1, <5>1, <2>2 DEF ReadsOK, ReadersOnce
        <5> QED BY <1>4, <1>12, <4>1, <5>1, <5>2
      <4>3. CASE HalfOpen(c) # 0 /\ sl[i] = NewSocket(c, m)
        BY <1>1, <4>1, <4>3, NewSocketReads
      <4> QED BY <1>4, <4>1, <4>2, <4>3
    <3> QED BY <3>1
  <2> HIDE DEF n
  <2>3. NodeReads(n, calls')
    BY <1>1, <2>1, <2>2, WaitsOn
  <2> QED BY <2>3 DEF n
<1>13. ASSUME NEW j \in DOMAIN socklist' PROVE NodeReads(socklist'[j], calls')
  <2>1. \/ Conn(socklist'[j]) # c /\ \E k \in DOMAIN socklist : socklist'[j] = socklist[k]
        \/ i # 0 /\ socklist'[j] = a.node
    BY <1>13, AckLeaves DEF i, sl, a
  <2> QED BY <1>11, <1>12, <2>1
<1> QED BY <1>13 DEF SockReads

LEMMA FinReads ==
  ASSUME Typed, CallsOK, UsesOK, ReadsOK, NEW c \in Conns, Fin(c)
  PROVE  SockReads'
<1> DEFINE m == Head(toHost[c])
           i == FinAt(c)
           n == socklist[i]
           A == FinAnswers(n)
<1>1. m \in ShortSegments /\ UNCHANGED prog
  BY FinCases, ArrivingFacts
<1>2. \A k \in DOMAIN socklist : /\ socklist[k] \in SockNode /\ NodeReads(socklist[k], calls)
                                 /\ NodeUse(socklist[k], prog, calls)
                                 /\ socklist[k].owner \in Pids
  BY ListElements, NodeFields DEF ReadsOK, SockReads, UsesOK, SockUses, SockNode
<1>3. \/ /\ i # 0 /\ n.status \in {"ESTAB", "FIN_WAIT_1", "FIN_WAIT_2"}
         /\ socklist' = [socklist EXCEPT ![i] = Finished(n, m)] /\ Reply(A, calls)
      \/ socklist' = socklist /\ calls' = calls
  BY FinCases DEF apps
<1>4. CASE socklist' = socklist /\ calls' = calls
  BY <1>2, <1>4 DEF SockReads
<1>5. CASE /\ i # 0 /\ n.status \in {"ESTAB", "FIN_WAIT_1", "FIN_WAIT_2"}
           /\ socklist' = [socklist EXCEPT ![i] = Finished(n, m)] /\ Reply(A, calls)
  <2>1. i \in DOMAIN socklist /\ n \in SockNode /\ A \in SUBSET AnswerRecs
    BY <1>1, <1>5, FinAtLookup, FinPartTypes
  <2> DEFINE f == Finished(n, m)
  <2>2. /\ f.read_uuid = IF n.status = "ESTAB" THEN None ELSE n.read_uuid
        /\ f.read_len = n.read_len /\ f.owner = n.owner
        /\ \A b \in A : \/ b.id = n.uuid
                        \/ b.id = n.read_uuid /\ f.read_uuid = None
    BY <1>1, <1>5, <2>1, FinishedReads
  <2>3. /\ NodeReads(n, calls) /\ NodeUse(n, prog, calls) /\ n.owner \in Pids
    BY <1>2, <2>1
  <2>4. DOMAIN socklist' = DOMAIN socklist
        /\ \A j \in DOMAIN socklist : socklist'[j] = IF j = i THEN f ELSE socklist[j]
    BY <1>5, <2>1
  <2>5. \A j \in DOMAIN socklist : Awaited(socklist[j]) /\ socklist[j].read_uuid = n.read_uuid => j = i
    BY <2>1 DEF ReadsOK, ReadersOnce
  <2>6. Reply(A, calls)
    BY <1>5
  <2> HIDE DEF n, f, A, i, m
  <2>7. ~Awaited(f) \/ n.status # "ESTAB"
    BY <2>2 DEF Awaited, None
  <2>8. NodeReads(f, calls')
    <3>1. ~Awaited(f)
      BY <2>2, <2>3, <2>7 DEF NodeReads, Awaited
    <3> QED BY <1>1, <2>1, <2>2, <2>3, <2>6, <3>1, WaitsOn
  <2>9. ASSUME NEW j \in DOMAIN socklist, j # i PROVE NodeReads(socklist[j], calls')
    <3> DEFINE x == socklist[j]
    <3>1. x \in SockNode /\ NodeReads(x, calls) /\ x.owner \in Pids
      BY <1>2
    <3>2. ASSUME Awaited(x), NEW b \in A PROVE b.id # x.read_uuid
      BY <2>2, <2>3, <2>5, <2>9, <3>1, <3>2, ReadApart
    <3> HIDE DEF x
    <3>3. NodeReads(x, calls')
      BY <1>1, <2>1, <2>6, <3>1, <3>2, WaitsOn
    <3> QED BY <3>3 DEF x
  <2> QED BY <2>4, <2>8, <2>9 DEF SockReads
<1> QED BY <1>3, <1>4, <1>5

LEMMA SynAckReads ==
  ASSUME Typed, CallsOK, UsesOK, ReadsOK, NEW c \in Conns, SynAck(c)
  PROVE  SockReads'
<1> DEFINE m == Head(toHost[c])
           A == {Answer(socklist[i].uuid, 0) : i \in Mine(c)}
<1>1. /\ Reply(A, calls) /\ UNCHANGED prog
      /\ socklist' = [i \in DOMAIN socklist |-> IF i \in Mine(c) THEN Opened(i, m) ELSE socklist[i]]
  BY SynAckCases
<1>2. \A k \in DOMAIN socklist : /\ socklist[k] \in SockNode /\ NodeReads(socklist[k], calls)
                                 /\ NodeUse(socklist[k], prog, calls)
                                 /\ socklist[k].owner \in Pids /\ socklist[k].uuid \in Ids
  BY ListElements, NodeFields DEF ReadsOK, SockReads, UsesOK, SockUses, SockNode
<1>3. A \in SUBSET AnswerRecs
  BY <1>2, AnswerType, Empties DEF Mine
<1>4. \A b \in A : \E i \in DOMAIN socklist : b.id = socklist[i].uuid
  BY DEF Mine, Answer
<1> HIDE DEF A
<1>5. ASSUME NEW j \in DOMAIN socklist' PROVE NodeReads(socklist'[j], calls')
  <2> DEFINE n == socklist[j]
             x == socklist'[j]
  <2>1. j \in DOMAIN socklist
    BY <1>1, <1>5
  <2>2. x = n \/ (n.status = "SYN_SENT" /\ x = Opened(j, m))
    BY <1>1, <2>1 DEF Mine, Expecting
  <2>3. /\ x.read_uuid = n.read_uuid /\ x.read_len = n.read_len /\ x.owner = n.owner
        /\ n.status = "ESTAB" => x.status = "ESTAB"
    BY <1>2, <2>1, <2>2 DEF Opened, SockNode, NodeOf
  <2>4. NodeReads(n, calls) /\ n.owner \in Pids
    BY <1>2, <2>1
  <2> HIDE DEF n, x
  <2>5. ASSUME Awaited(x), NEW b \in A PROVE b.id # n.read_uuid
    <3>1. Awaited(n)
      BY <2>3, <2>5 DEF Awaited
    <3> QED BY <1>2, <1>4, <2>4, <2>5, <3>1, ReadApart
  <2>6. NodeReads(x, calls')
    BY <1>1, <1>3, <2>3, <2>4, <2>5, WaitsOn
  <2> QED BY <2>6 DEF x
<1> QED BY <1>5 DEF SockReads

\* No step of the network makes two nodes answer one read.
LEMMA ArrivalOnce ==
  ASSUME Typed, ReadsOK, NEW c \in Conns, packetArrived(c)
  PROVE  ReadersOnce(socklist')
<1> DEFINE m == Head(toHost[c])
           sl == IF Ack(c) THEN Completed(c, m).sl ELSE socklist
<1>1. m \in ShortSegments
  BY HalfLists
<1>2. ReadersOnce(sl)
  <2>1. CASE Ack(c) /\ NewlyOpen(c)
    <3>1. /\ HalfOpen(c) # 0 /\ sl[1] = NewSocket(c, m)
          /\ \A k \in DOMAIN sl : k = 1 \/ (k-1 \in DOMAIN socklist /\ sl[k] = socklist[k-1])
          /\ DOMAIN sl \subseteq Nat
      BY <1>1, <2>1, CompletedTable
    <3>2. ~Awaited(sl[1])
      BY <1>1, <3>1, NewSocketReads
    <3> HIDE DEF sl, m
    <3> SUFFICES ASSUME NEW i \in DOMAIN sl, NEW j \in DOMAIN sl, Awaited(sl[i]),
                        sl[i].read_uuid = sl[j].read_uuid
                 PROVE  i = j
      BY DEF ReadersOnce
    <3>3. Awaited(sl[j])
      BY DEF Awaited
    <3>4. /\ i-1 \in DOMAIN socklist /\ sl[i] = socklist[i-1]
          /\ j-1 \in DOMAIN socklist /\ sl[j] = socklist[j-1]
          /\ i \in Nat /\ j \in Nat
      BY <3>1, <3>2, <3>3
    <3>5. i-1 = j-1
      BY <3>4 DEF ReadsOK, ReadersOnce
    <3> QED BY <3>4, <3>5
  <2>2. CASE ~(Ack(c) /\ NewlyOpen(c))
    <3>1. sl = socklist
      BY <1>1, <2>2, CompletedTable
    <3> QED BY <3>1 DEF ReadsOK
  <2> QED BY <2>1, <2>2
<1>3. ComesFrom(socklist', sl)
  BY ArrivalTable
<1> HIDE DEF sl
<1>4. PICK f \in [DOMAIN socklist' -> DOMAIN sl] :
        /\ \A j \in DOMAIN socklist' : Evolves(socklist'[j], sl[f[j]])
        /\ \A j, k \in DOMAIN socklist' : f[j] = f[k] => j = k
  BY <1>3 DEF ComesFrom
<1>5. \A j \in DOMAIN socklist' : Awaited(socklist'[j]) =>
        f[j] \in DOMAIN sl /\ Awaited(sl[f[j]]) /\ socklist'[j].read_uuid = sl[f[j]].read_uuid
  <2> SUFFICES ASSUME NEW j \in DOMAIN socklist', Awaited(socklist'[j])
               PROVE  f[j] \in DOMAIN sl /\ Awaited(sl[f[j]])
                      /\ socklist'[j].read_uuid = sl[f[j]].read_uuid
    OBVIOUS
  <2>1. socklist'[j].read_uuid \in {sl[f[j]].read_uuid, None} /\ f[j] \in DOMAIN sl
    BY <1>4 DEF Evolves
  <2>2. socklist'[j].read_uuid # None
    BY DEF Awaited, None
  <2> QED BY <2>1, <2>2 DEF Awaited
<1> SUFFICES ASSUME NEW i \in DOMAIN socklist', NEW j \in DOMAIN socklist', Awaited(socklist'[i]),
                    socklist'[i].read_uuid = socklist'[j].read_uuid
             PROVE  i = j
  BY DEF ReadersOnce
<1>6. Awaited(socklist'[j])
  BY DEF Awaited
<1>7. f[i] = f[j]
  BY <1>2, <1>5, <1>6 DEF ReadersOnce
<1> QED BY <1>4, <1>7

LEMMA ArrivalReads ==
  ASSUME Typed, CallsOK, UsesOK, Distinct, ConnOK, SeqOK, ReadsOK, NEW c \in Conns,
         packetArrived(c)
  PROVE  ReadsOK'
<1> DEFINE m == Head(toHost[c])
<1>1. SockReads'
  <2>1. CASE Syn(c)
    <3>1. socklist' = socklist /\ calls' = calls
      BY <2>1, SynCases DEF apps
    <3> QED BY <3>1 DEF ReadsOK, SockReads
  <2> QED BY <2>1, AckReads, FinReads, SynAckReads DEF packetArrived
<1>2. HalfReads'
  <2>1. \A j \in DOMAIN backlog_list : ~Awaited(backlog_list[j]) /\ Zeroed(backlog_list[j])
    BY DEF ReadsOK, HalfReads
  <2>2. CASE backlog_list' = backlog_list
    BY <2>1, <2>2 DEF HalfReads
  <2>3. CASE Ack(c) /\ HalfOpen(c) # 0 /\ backlog_list' = Take(backlog_list, HalfOpen(c))
    <3>1. HalfOpen(c) \in DOMAIN backlog_list /\ backlog_list \in Seq(HalfNode)
      BY <2>3, HalfOpenLookup DEF Typed, KernelType
    <3>2. \A j \in DOMAIN backlog_list' : \E k \in DOMAIN backlog_list :
            backlog_list'[j] = backlog_list[k]
      BY <2>3, <3>1, TakeElements
    <3> QED BY <2>1, <3>2 DEF HalfReads
  <2>4. CASE /\ Syn(c) /\ Half(ListenerOf(c[2]), c[1], m.seq + 1) \in HalfNode
             /\ backlog_list' = Append(backlog_list, Half(ListenerOf(c[2]), c[1], m.seq + 1))
    <3> DEFINE l == ListenerOf(c[2])
               n == Half(l, c[1], m.seq + 1)
    <3>1. ~Awaited(l) /\ Zeroed(l) /\ "read_uuid" \in DOMAIN l /\ "read_len" \in DOMAIN l
      <4>1. CASE Listener(socklist, c[2]) = 0
        BY <4>1 DEF ListenerOf, NoListener, FreshNode, Awaited, Zeroed, Zero
      <4>2. CASE Listener(socklist, c[2]) # 0
        <5>1. /\ Listener(socklist, c[2]) \in DOMAIN socklist
              /\ l = socklist[Listener(socklist, c[2])] /\ l.status = "LISTENING"
          BY <4>2, ListenerLookup DEF ListenerOf
        <5>2. NodeReads(l, calls) /\ l \in SockNode
          BY <5>1, ListElements DEF ReadsOK, SockReads
        <5> HIDE DEF l
        <5> QED BY <5>1, <5>2 DEF NodeReads, SockNode, NodeOf
      <4> QED BY <4>1, <4>2
    <3> HIDE DEF l
    <3>2. n.read_uuid = l.read_uuid /\ n.read_len = l.read_len
      BY <3>1 DEF Half
    <3>3. ~Awaited(n) /\ Zeroed(n)
      BY <3>1, <3>2 DEF Awaited, Zeroed
    <3>4. n \in HalfNode /\ backlog_list' = Append(backlog_list, n) /\ backlog_list \in Seq(HalfNode)
      BY <2>4 DEF l, Typed, KernelType
    <3> HIDE DEF n
    <3>5. \A j \in DOMAIN backlog_list' :
            backlog_list'[j] = n \/ \E k \in DOMAIN backlog_list : backlog_list'[j] = backlog_list[k]
      BY <3>4, AppendElements
    <3> QED BY <2>1, <3>3, <3>5 DEF HalfReads
  <2> QED BY <2>2, <2>3, <2>4, HalfLists
<1> QED BY <1>1, <1>2, ArrivalOnce DEF ReadsOK

LEMMA StepReads ==
  Typed /\ CallsOK /\ UsesOK /\ Orderly /\ ConnOK /\ SeqOK /\ ReadsOK /\ [Next]_vars => ReadsOK'
<1> SUFFICES ASSUME Typed, CallsOK, UsesOK, Orderly, ConnOK, SeqOK, ReadsOK, [Next]_vars
             PROVE  ReadsOK'
  OBVIOUS
<1>1. ASSUME UNCHANGED <<kernel, calls>> PROVE ReadsOK'
  BY <1>1 DEF ReadsOK, SockReads, HalfReads, kernel
<1>2. ASSUME NEW c \in Conns, Remote(c) PROVE UNCHANGED <<kernel, calls>>
  BY <1>2 DEF Remote, PeerOpen, PeerRetry, PeerSend, PeerClose, PeerReceive, apps
<1>3. UNCHANGED vars => UNCHANGED <<kernel, calls>>
  BY DEF vars, apps
<1>4. ASSUME NEW p \in Pids, Syscall(p) PROVE ReadsOK'
  BY <1>4, SyscallStreams, SyscallReads
<1>5. ASSUME NEW c \in Conns, packetArrived(c) PROVE ReadsOK'
  BY <1>5, ArrivalReads DEF Orderly
<1> QED BY <1>1, <1>2, <1>3, <1>4, <1>5 DEF Next

LEMMA InitReads == Init => ReadsOK
BY DEF Init, ReadsOK, SockReads, HalfReads, ReadersOnce

-----------------------------------------------------------------------------
(* The streams: a socket that is connected holds what comes after what its  *)
(* owner has read, one that is not holds nothing, and the segments under    *)
(* way to the host carry the bytes their numbers say.                       *)

NoneRead(rb, c) == \A p \in Pids : rb[p][c] = <<>>
NodeStream(n, rb) ==
  /\ ~Up(n.status) => Empty(n) /\ (n.dest # NoRemote => NoneRead(rb, Conn(n)))
  /\ n.status = "ESTAB" => Ordered(n, rb[n.owner][Conn(n)], n.ack)
\* A half-open connection whose remote has heard the SYNACK: the first segment
\* to come is the first of the stream.  That of a remote without data may be
\* lost on the connection, but then the stream has not moved.
First(s) == s.flags = "ACK" => s.seq = 1
HalfFirst(e, in) ==
  IF PeerBytes[e.dest] = 0 THEN \A k \in DOMAIN in : First(in[k])
  ELSE in # <<>> /\ in[1].flags = "ACK" /\ in[1].seq = 1
HalfStream(e, t, in, rb) ==
  /\ Empty(e)
  /\ Live(e) => NoneRead(rb, Conn(e)) /\ (Past(t) => HalfFirst(e, in))
Counted(t) == t.st \in {"SYN_SENT", "SYN_RCVD", "ESTAB", "CLOSE_WAIT"} => t.snd = t.n + 1
WireStream(c, t, in, rb) ==
  /\ ~Past(t) => NoneRead(rb, c)
  /\ t.st = "CLOSED" => t.n = 0
  /\ Counted(t)
  /\ \A k \in DOMAIN in : Carries(in[k])

NodesStream == \A i \in DOMAIN socklist : NodeStream(socklist[i], readBytes)
HalvesStream == \A j \in DOMAIN backlog_list :
                  LET e == backlog_list[j]
                      c == Conn(e)
                  IN  HalfStream(e, peer[c], toHost[c], readBytes)
WiresStream == \A c \in Conns : WireStream(c, peer[c], toHost[c], readBytes)
StreamOK == NodesStream /\ HalvesStream /\ WiresStream

\* A step that leaves what is read of connection d.
Unread(d) == \A p \in Pids : readBytes'[p][d] = readBytes[p][d]

LEMMA KeptStream ==
  ASSUME NEW n \in SockNode, NodeOK(n, peer), NodeStream(n, readBytes),
         n.dest = NoRemote \/ Unread(Conn(n))
  PROVE  NodeStream(n, readBytes')
<1>1. n.owner \in Pids
  BY NodeFields DEF SockNode
<1>2. CASE n.dest = NoRemote
  <2>1. ~Up(n.status)
    BY <1>2 DEF NodeOK
  <2> QED BY <1>2, <2>1 DEF NodeStream, Up
<1>3. CASE Unread(Conn(n))
  <2>1. \A p \in Pids : readBytes'[p][Conn(n)] = readBytes[p][Conn(n)]
    BY <1>3 DEF Unread
  <2>2. NoneRead(readBytes, Conn(n)) => NoneRead(readBytes', Conn(n))
    BY <2>1 DEF NoneRead
  <2>3. readBytes'[n.owner][Conn(n)] = readBytes[n.owner][Conn(n)]
    BY <1>1, <2>1
  <2> QED BY <2>2, <2>3 DEF NodeStream
<1> QED BY <1>2, <1>3

LEMMA OldStream ==
  ASSUME Typed, ConnOK, StreamOK, NEW i \in DOMAIN socklist,
         socklist[i].dest = NoRemote \/ Unread(Conn(socklist[i]))
  PROVE  NodeStream(socklist[i], readBytes')
<1>1. /\ socklist[i] \in SockNode /\ NodeOK(socklist[i], peer)
      /\ NodeStream(socklist[i], readBytes)
  BY ListElements DEF ConnOK, NodesOK, StreamOK, NodesStream
<1> QED BY <1>1, KeptStream

\* A step of the host that takes, reads and changes nodes on one connection at most.
LEMMA HostStream ==
  ASSUME Typed, ConnOK, StreamOK, peer' = peer, NEW c,
         \A d \in Conns : d # c => toHost'[d] = toHost[d] /\ Unread(d),
         c \in Conns => WireStream(c, peer[c], toHost'[c], readBytes'),
         \A j \in DOMAIN socklist' :
           LET x == socklist'[j]
           IN  \/ NodeStream(x, readBytes')
               \/ /\ x.dest = NoRemote \/ Conn(x) # c
                  /\ \E k \in DOMAIN socklist : x = socklist[k],
         \A j \in DOMAIN backlog_list' :
           LET e == backlog_list'[j]
           IN  \/ Conn(e) = c /\ HalfStream(e, peer[c], toHost'[c], readBytes')
               \/ ~Live(e) /\ Empty(e)
               \/ /\ ~Live(e) \/ Conn(e) # c
                  /\ \E k \in DOMAIN backlog_list : e = backlog_list[k]
  PROVE  StreamOK'
<1>1. ASSUME NEW j \in DOMAIN socklist' PROVE NodeStream(socklist'[j], readBytes')
  <2> DEFINE x == socklist'[j]
  <2>1. ASSUME NEW k \in DOMAIN socklist, x = socklist[k], x.dest = NoRemote \/ Conn(x) # c
        PROVE  NodeStream(x, readBytes')
    <3>1. x.dest # NoRemote => Conn(x) \in Conns
      BY <2>1 DEF ConnOK, NodesOK, NodeOK
    <3>2. x.dest = NoRemote \/ Unread(Conn(x))
      BY <2>1, <3>1
    <3> QED BY <2>1, <3>2, OldStream
  <2> QED BY <2>1
<1>2. ASSUME NEW j \in DOMAIN backlog_list'
      PROVE  LET e == backlog_list'[j]
                 d == Conn(e)
             IN  HalfStream(e, peer'[d], toHost'[d], readBytes')
  <2> DEFINE e == backlog_list'[j]
             d == Conn(e)
  <2>1. CASE d = c /\ HalfStream(e, peer[c], toHost'[c], readBytes')
    BY <2>1
  <2>2. ASSUME NEW k \in DOMAIN backlog_list, e = backlog_list[k], ~Live(e) \/ d # c
        PROVE  HalfStream(e, peer'[d], toHost'[d], readBytes')
    <3>1. HalfStream(e, peer[d], toHost[d], readBytes)
      BY <2>2 DEF StreamOK, HalvesStream
    <3>2. CASE ~Live(e)
      BY <3>1, <3>2 DEF HalfStream
    <3>3. CASE Live(e)
      <4>1. d \in Conns
        BY <2>2, <3>3 DEF ConnOK, HalvesOK, HalfOK, Conns
      <4>2. toHost'[d] = toHost[d] /\ Unread(d) /\ peer'[d] = peer[d] /\ Conn(e) = d
        BY <2>2, <3>3, <4>1
      <4> HIDE DEF e, d
      <4> QED BY <3>1, <4>2 DEF HalfStream, Unread, NoneRead
    <3> QED BY <3>2, <3>3
  <2>3. CASE ~Live(e) /\ Empty(e)
    BY <2>3 DEF HalfStream
  <2> QED BY <2>1, <2>2, <2>3
<1>3. ASSUME NEW d \in Conns PROVE WireStream(d, peer'[d], toHost'[d], readBytes')
  <2>1. WireStream(d, peer[d], toHost[d], readBytes)
    BY DEF StreamOK, WiresStream
  <2>2. CASE d # c
    <3>1. toHost'[d] = toHost[d] /\ Unread(d)
      BY <2>2
    <3> QED BY <2>1, <3>1 DEF WireStream, Unread, NoneRead
  <2> QED BY <2>2
<1> QED BY <1>1, <1>2, <1>3 DEF StreamOK, NodesStream, HalvesStream, WiresStream

\* A step of the host that changes one node, and may read its connection.
LEMMA OneNodeStream ==
  ASSUME Typed, ConnOK, StreamOK, NEW i \in DOMAIN socklist, NEW m \in SockNode,
         socklist' = [socklist EXCEPT ![i] = m], backlog_list' = backlog_list, peer' = peer,
         \A d \in Conns : d # Conn(m) => toHost'[d] = toHost[d] /\ Unread(d),
         Conn(m) \in Conns => WireStream(Conn(m), peer[Conn(m)], toHost'[Conn(m)], readBytes'),
         NodeStream(m, readBytes'),
         \A j \in DOMAIN socklist :
           j # i => socklist[j].dest # m.dest \/ socklist[j].dest = NoRemote,
         \A j \in DOMAIN backlog_list :
           Live(backlog_list[j]) => backlog_list[j].dest # m.dest
  PROVE  StreamOK'
<1> DEFINE c == Conn(m)
<1>1. /\ DOMAIN socklist' = DOMAIN socklist
      /\ \A j \in DOMAIN socklist : socklist'[j] = IF j = i THEN m ELSE socklist[j]
  OBVIOUS
<1>2. \A j \in DOMAIN socklist :
        j # i => socklist[j].dest = NoRemote \/ Conn(socklist[j]) # c
  BY ConnParts
<1>3. \A j \in DOMAIN backlog_list : ~Live(backlog_list[j]) \/ Conn(backlog_list[j]) # c
  BY ConnParts
<1>4. /\ \A d \in Conns : d # c => toHost'[d] = toHost[d] /\ Unread(d)
      /\ c \in Conns => WireStream(c, peer[c], toHost'[c], readBytes')
  OBVIOUS
<1> HIDE DEF c
<1>5. \A j \in DOMAIN socklist' :
        LET x == socklist'[j]
        IN  \/ NodeStream(x, readBytes')
            \/ /\ x.dest = NoRemote \/ Conn(x) # c
               /\ \E k \in DOMAIN socklist : x = socklist[k]
  BY <1>1, <1>2
<1>6. \A j \in DOMAIN backlog_list' :
        LET e == backlog_list'[j]
        IN  \/ Conn(e) = c /\ HalfStream(e, peer[c], toHost'[c], readBytes')
            \/ ~Live(e) /\ Empty(e)
            \/ /\ ~Live(e) \/ Conn(e) # c
               /\ \E k \in DOMAIN backlog_list : e = backlog_list[k]
  BY <1>3
<1> QED BY <1>4, <1>5, <1>6, HostStream

LEMMA SyscallStream ==
  ASSUME Typed, CallsOK, Orderly, ConnOK, RoomOK, StreamOK, NEW p \in Pids, Syscall(p)
  PROVE  StreamOK'
<1>1. CallStreams(p) /\ backlog_list' = backlog_list /\ toHost' = toHost /\ peer' = peer
  BY SyscallMoves, SyscallStreams
<1>2. Distinct
  BY DEF Orderly
<1>3. \A c \in Conns : WireStream(c, peer[c], toHost[c], readBytes)
  BY DEF StreamOK, WiresStream
<1>4. GivesNone => \A d \in Conns : Unread(d)
  BY DEF GivesNone, Unread
<1>5. ASSUME GivesNone
      PROVE  /\ \A c \in Conns : WireStream(c, peer[c], toHost'[c], readBytes')
             /\ NoConn \notin Conns
             /\ \A j \in DOMAIN backlog_list :
                  ~Live(backlog_list[j]) \/ Conn(backlog_list[j]) # NoConn
  <2>1. \A j \in DOMAIN backlog_list : Live(backlog_list[j]) => Conn(backlog_list[j]) \in Conns
    BY DEF ConnOK, HalvesOK, HalfOK, Conns
  <2> QED BY <1>1, <1>3, <1>4, <1>5, <2>1, NoConnApart DEF WireStream, Unread, NoneRead
<1>6. \A k \in DOMAIN socklist : socklist[k].dest = NoRemote \/ Conn(socklist[k]) # NoConn
  <2>1. \A k \in DOMAIN socklist : socklist[k].dest # NoRemote => Conn(socklist[k]) \in Conns
    BY DEF ConnOK, NodesOK, NodeOK
  <2> QED BY <2>1, NoConnApart
<1>7. CASE socklist' = socklist /\ GivesNone
  BY <1>1, <1>4, <1>5, <1>6, <1>7, HostStream
<1>8. CASE CreatesOne(p) /\ GivesNone
  <2>1. PICK st \in FreshStatus : /\ FreshNode(p, Create(p, fds), st) \in SockNode
                                  /\ socklist' = <<FreshNode(p, Create(p, fds), st)>> \o socklist
    BY <1>8 DEF CreatesOne
  <2> DEFINE m == FreshNode(p, Create(p, fds), st)
  <2>2. ~Up(m.status) /\ Empty(m) /\ m.dest = NoRemote
    BY <1>2 DEF FreshNode, Distinct, Up, Empty
  <2>3. \A j \in DOMAIN socklist' :
          socklist'[j] = m \/ \E k \in DOMAIN socklist : socklist'[j] = socklist[k]
    BY <2>1, ConsOthers
  <2> HIDE DEF m
  <2>4. NodeStream(m, readBytes')
    BY <2>2 DEF NodeStream, Up
  <2>5. \A j \in DOMAIN socklist' :
        LET x == socklist'[j]
        IN  \/ NodeStream(x, readBytes')
            \/ /\ x.dest = NoRemote \/ Conn(x) # NoConn
               /\ \E k \in DOMAIN socklist : x = socklist[k]
    BY <1>6, <2>3, <2>4
  <2> QED BY <1>1, <1>4, <1>5, <1>8, <2>5, HostStream
<1>9. ASSUME NEW i \in DOMAIN socklist, NEW m \in SockNode,
             socklist' = [socklist EXCEPT ![i] = m], socklist[i].owner = p, m.owner = p,
             SameBuffer(m, socklist[i]), GivesNone,
             \/ Keeps(m, socklist[i]) /\ Lasts(m, socklist[i])
             \/ Plain(m, socklist[i]) \/ Dials(m, socklist[i])
      PROVE  StreamOK'
  <2> DEFINE n == socklist[i]
             c == Conn(m)
  <2>1. n \in SockNode /\ NodeStream(n, readBytes) /\ NodeOK(n, peer)
    BY ListElements DEF StreamOK, NodesStream, ConnOK, NodesOK
  <2>2. \A d \in Conns : NoneRead(readBytes, d) => NoneRead(readBytes', d)
    BY <1>4, <1>9 DEF Unread, NoneRead
  <2>3. NodeStream(m, readBytes')
    <3> HIDE DEF n, c
    <3>1. CASE Keeps(m, n) /\ Lasts(m, n)
      <4>1. Conn(m) = Conn(n) /\ m.dest = n.dest
        BY <3>1 DEF Keeps, Conn
      <4>2. ~Up(m.status) => ~Up(n.status)
        BY <3>1 DEF Keeps
      <4>3. ~Up(m.status) => Empty(m) /\ (m.dest # NoRemote => NoneRead(readBytes', Conn(m)))
        BY <1>9, <2>1, <2>2, <4>1, <4>2, SameOrdered DEF NodeStream, NodeOK, n
      <4>4. ASSUME m.status = "ESTAB" PROVE Ordered(m, readBytes'[m.owner][Conn(m)], m.ack)
        <5>1. n.status = "ESTAB" /\ m.ack = n.ack
          BY <3>1, <4>4 DEF Lasts
        <5>2. Conn(n) \in Conns
          BY <2>1, <5>1 DEF NodeOK, Up
        <5>3. readBytes'[p][Conn(n)] = readBytes[p][Conn(n)]
          BY <1>4, <1>9, <5>2 DEF Unread
        <5>4. Ordered(n, readBytes[p][Conn(n)], n.ack)
          BY <1>9, <2>1, <5>1 DEF NodeStream, n
        <5>5. Ordered(m, readBytes[p][Conn(n)], n.ack)
          BY <1>9, <5>4, SameOrdered DEF n
        <5> QED BY <1>9, <4>1, <5>1, <5>3, <5>5
      <4> QED BY <4>3, <4>4 DEF NodeStream
    <3>2. CASE Plain(m, n) \/ Dials(m, n)
      <4>1. n.dest = NoRemote /\ ~Up(m.status)
        BY <3>2 DEF Plain, Dials, Up
      <4>2. Empty(m)
        BY <1>9, <2>1, <4>1, SameOrdered DEF NodeStream, NodeOK, n
      <4>3. ASSUME m.dest # NoRemote PROVE NoneRead(readBytes', Conn(m))
        <5>1. Dials(m, n)
          BY <3>2, <4>3 DEF Plain
        <5>2. Conn(m) \in Conns /\ peer[Conn(m)] = Closed
          BY <5>1 DEF Dials, allocate_port, Conn, Conns
        <5>3. NoneRead(readBytes, Conn(m))
          BY <1>3, <5>2 DEF WireStream, Past, Closed
        <5> QED BY <2>2, <5>2, <5>3
      <4> QED BY <4>1, <4>2, <4>3 DEF NodeStream, Up
    <3> QED BY <1>9, <3>1, <3>2 DEF n
  <2>4. /\ \A j \in DOMAIN socklist :
             j # i => socklist[j].dest # m.dest \/ socklist[j].dest = NoRemote
        /\ \A j \in DOMAIN backlog_list :
             Live(backlog_list[j]) => backlog_list[j].dest # m.dest
    <3>1. CASE Keeps(m, n) \/ Plain(m, n)
      <4>1. m.dest = n.dest
        BY <3>1 DEF Keeps, Plain
      <4> QED BY <4>1, OtherRemotes
    <3>2. CASE Dials(m, n)
      <4>1. m.dest \in Servers /\ \A j \in DOMAIN socklist : socklist[j].dest # m.dest
        BY <3>2 DEF Dials
      <4> QED BY <1>2, <4>1, LiveRemote DEF ConnOK
    <3> QED BY <1>9, <3>1, <3>2
  <2> QED BY <1>1, <1>4, <1>5, <1>9, <2>3, <2>4, OneNodeStream
<1>10. ASSUME NEW i \in DOMAIN socklist, NEW m \in SockNode,
             socklist' = [socklist EXCEPT ![i] = m], socklist[i].owner = p, m.owner = p,
             Keeps(m, socklist[i]), socklist[i].status = "ESTAB", Takes(p, m, socklist[i])
      PROVE  StreamOK'
  <2> DEFINE n == socklist[i]
             c == Conn(n)
             bytes == readBytes[p][c]
  <2>1. n \in SockNode /\ NodeStream(n, readBytes) /\ NodeOK(n, peer)
    BY ListElements DEF StreamOK, NodesStream, ConnOK, NodesOK
  <2>2. PICK len \in 0..BUFSIZE : /\ len <= n.recv_len /\ m = Consumed(n, len)
                                  /\ Gives(p, c, Load(n.recv_buffer, n.start_r, len))
    BY <1>10 DEF Takes
  <2>3. c \in Conns /\ Past(peer[c]) /\ bytes \in Bytes
    <3>1. c \in Conns /\ Past(peer[c])
      BY <1>10, UpClear DEF Up
    <3> HIDE DEF c
    <3> QED BY <3>1 DEF Typed, AppsType
  <2>4. n.recv_len <= BUFSIZE
    BY RoomEnough DEF NoOverrun
  <2>5. Ordered(n, bytes, n.ack)
    BY <1>10, <2>1 DEF NodeStream
  <2> DEFINE more == bytes \o Load(n.recv_buffer, n.start_r, len)
  <2> HIDE DEF n, bytes, c
  <2>6. Ordered(m, more, n.ack)
    BY <2>1, <2>2, <2>3, <2>4, <2>5, OrderedConsumed DEF SockNode
  <2>7. m.ack = n.ack /\ Conn(m) = c /\ m.dest = n.dest /\ m.status = "ESTAB"
    <3>1. m.ack = n.ack /\ m.status = n.status
      BY <2>1, <2>2 DEF Consumed, SockNode, NodeOf
    <3> QED BY <1>10, <3>1 DEF Keeps, Conn, n, c
  <2>8. /\ readBytes'[p][c] = more
        /\ \A d \in Conns : d # c => Unread(d)
    BY <2>2, <2>3 DEF Gives, Unread, bytes
  <2> HIDE DEF more
  <2>9. NodeStream(m, readBytes')
    BY <1>10, <2>6, <2>7, <2>8 DEF NodeStream, Up
  <2>10. WireStream(c, peer[c], toHost'[c], readBytes')
    BY <1>1, <1>3, <2>3 DEF WireStream
  <2>11. /\ \A j \in DOMAIN socklist :
             j # i => socklist[j].dest # m.dest \/ socklist[j].dest = NoRemote
         /\ \A j \in DOMAIN backlog_list :
             Live(backlog_list[j]) => backlog_list[j].dest # m.dest
    BY <2>7, OtherRemotes DEF n
  <2> QED BY <1>1, <1>10, <2>7, <2>8, <2>9, <2>10, <2>11, OneNodeStream
<1> QED BY <1>1, <1>7, <1>8, <1>9, <1>10 DEF CallStreams

-----------------------------------------------------------------------------
(* The remote ends.                                                        *)

LEMMA CarriesNone == \A m : m.data = <<>> => Carries(m)
<1> SUFFICES ASSUME NEW m, m.data = <<>> PROVE m.data = From(m.seq, Len(m.data))
  BY DEF Carries
<1>1. Len(<<>>) = 0
  OBVIOUS
<1>2. From(m.seq, 0) = <<>>
  BY DEF From
<1> QED BY <1>1, <1>2

LEMMA TellsFirst ==
  ASSUME NEW S, NEW in \in Seq(S), NEW new \in Seq(S), in # <<>>
  PROVE  in \o new # <<>> /\ (in \o new)[1] = in[1]
<1>1. Len(in) >= 1 /\ Len(in) \in Nat /\ Len(new) \in Nat
  OBVIOUS
<1>2. Len(in \o new) = Len(in) + Len(new) /\ (in \o new)[1] = in[1]
  BY <1>1
<1> QED BY <1>1, <1>2

LEMMA RemoteStream ==
  ASSUME Typed, ConnOK, SeqOK, StreamOK, NEW c \in Conns, UNCHANGED <<kernel, apps>>,
         \A d \in Conns : d # c => toHost'[d] = toHost[d] /\ peer'[d] = peer[d],
         NEW new \in Seq(ShortSegments), toHost'[c] = toHost[c] \o new,
         \A k \in DOMAIN new : Carries(new[k]),
         Past(peer[c]) => Past(peer'[c]),
         peer'[c].st # "CLOSED", Counted(peer'[c]),
         Past(peer'[c]) /\ ~Past(peer[c]) /\ c \in Incoming
           => /\ toHost[c] = <<>> /\ new # <<>> /\ new[1].flags = "ACK" /\ new[1].seq = 1
              /\ \A k \in DOMAIN new : First(new[k]),
         \/ ~Past(peer[c]) \/ PeerBytes[c[1]] # 0
         \/ \A k \in DOMAIN new : First(new[k])
         \/ \A j \in DOMAIN backlog_list :
              ~Live(backlog_list[j]) \/ Conn(backlog_list[j]) # c
  PROVE  StreamOK'
<1>1. socklist' = socklist /\ backlog_list' = backlog_list /\ readBytes' = readBytes
  BY DEF kernel, apps
<1>2. toHost[c] \in Seq(ShortSegments)
  BY DEF Typed, NetType
<1>3. ASSUME NEW d \in Conns PROVE WireStream(d, peer'[d], toHost'[d], readBytes)
  <2>1. WireStream(d, peer[d], toHost[d], readBytes)
    BY DEF StreamOK, WiresStream
  <2>2. CASE d # c
    BY <2>1, <2>2
  <2>3. CASE d = c
    <3>1. ASSUME NEW k \in DOMAIN toHost'[c] PROVE Carries(toHost'[c][k])
      <4> DEFINE in == toHost[c]
                 all == in \o new
      <4>1. \/ k \in DOMAIN in /\ all[k] = in[k]
            \/ k - Len(in) \in DOMAIN new /\ all[k] = new[k - Len(in)]
        BY <1>2, <3>1, ConcatElements
      <4> HIDE DEF in, all
      <4> QED BY <2>1, <2>3, <4>1 DEF WireStream, in, all
    <3> QED BY <2>1, <2>3, <3>1 DEF WireStream
  <2> QED BY <2>2, <2>3
<1>4. ASSUME NEW j \in DOMAIN backlog_list
      PROVE  LET e == backlog_list[j]
                 d == Conn(e)
             IN  HalfStream(e, peer'[d], toHost'[d], readBytes)
  <2> DEFINE e == backlog_list[j]
             d == Conn(e)
  <2>1. HalfStream(e, peer[d], toHost[d], readBytes)
    BY DEF StreamOK, HalvesStream
  <2>2. Live(e) => d \in Incoming /\ d \in Conns
    BY DEF ConnOK, HalvesOK, HalfOK, Conns
  <2> HIDE DEF d, e
  <2>3. CASE ~Live(e)
    BY <2>1, <2>3 DEF HalfStream, d, e
  <2>4. CASE Live(e) /\ d # c
    BY <2>1, <2>2, <2>4 DEF d, e
  <2>5. CASE Live(e) /\ d = c
    <3>0. e.dest = c[1]
      BY <2>5, ConnParts DEF d
    <3>1. ASSUME Past(peer'[c]) PROVE HalfFirst(e, toHost'[c])
      <4>1. CASE Past(peer[c]) /\ PeerBytes[e.dest] # 0
        <5>1. toHost[c] # <<>> /\ toHost[c][1].flags = "ACK" /\ toHost[c][1].seq = 1
          BY <2>1, <2>5, <4>1 DEF HalfStream, HalfFirst
        <5>2. toHost'[c] # <<>> /\ toHost'[c][1] = toHost[c][1]
          BY <1>2, <5>1, TellsFirst
        <5> QED BY <4>1, <5>1, <5>2 DEF HalfFirst
      <4>2. CASE Past(peer[c]) /\ PeerBytes[e.dest] = 0
        <5>1. \A k \in DOMAIN toHost[c] : First(toHost[c][k])
          BY <2>1, <2>5, <4>2 DEF HalfStream, HalfFirst
        <5>2. \A k \in DOMAIN new : First(new[k])
          BY <2>5, <3>0, <4>2 DEF d, e
        <5>3. ASSUME NEW k \in DOMAIN toHost'[c] PROVE First(toHost'[c][k])
          <6> DEFINE in == toHost[c]
                     all == in \o new
          <6>1. \/ k \in DOMAIN in /\ all[k] = in[k]
                \/ k - Len(in) \in DOMAIN new /\ all[k] = new[k - Len(in)]
            BY <1>2, <5>3, ConcatElements
          <6> HIDE DEF in, all
          <6> QED BY <5>1, <5>2, <6>1 DEF in, all
        <5> QED BY <4>2, <5>3 DEF HalfFirst
      <4>3. CASE ~Past(peer[c])
        <5>1. /\ toHost[c] = <<>> /\ new # <<>> /\ new[1].flags = "ACK" /\ new[1].seq = 1
              /\ \A k \in DOMAIN new : First(new[k])
          BY <2>2, <2>5, <3>1, <4>3
        <5>2. <<>> \o new = new
          OBVIOUS
        <5> QED BY <5>1, <5>2 DEF HalfFirst
      <4> QED BY <4>1, <4>2, <4>3
    <3>2. Empty(e) /\ NoneRead(readBytes, Conn(e))
      BY <2>1, <2>5 DEF HalfStream
    <3>3. HalfStream(e, peer'[c], toHost'[c], readBytes)
      BY <3>1, <3>2 DEF HalfStream
    <3> QED BY <2>5, <3>3 DEF d, e
  <2> QED BY <2>3, <2>4, <2>5
<1>5. NodesStream'
  BY <1>1 DEF StreamOK, NodesStream
<1>6. HalvesStream'
  BY <1>1, <1>4 DEF HalvesStream
<1>7. WiresStream'
  BY <1>1, <1>3 DEF WiresStream
<1> QED BY <1>5, <1>6, <1>7 DEF StreamOK

LEMMA PeerOpenStream ==
  ASSUME Typed, Distinct, ConnOK, SeqOK, RoomOK, StreamOK, NEW c \in Conns,
         PeerOpen(c) \/ PeerRetry(c)
  PROVE  StreamOK'
<1> DEFINE u == peer'[c]
<1>1. PICK x \in Peers : /\ Tell(c, <<Speak("SYN", x, <<>>)>>)
                         /\ UNCHANGED <<kernel, apps>>
  <2>1. peer[c] \in Peers
    BY DEF Typed, NetType
  <2>2. [peer[c] EXCEPT !.snd = 0] \in Peers
    BY <2>1 DEF Peers
  <2> QED BY <2>1, <2>2 DEF PeerOpen, PeerRetry
<1> DEFINE f == Speak("SYN", x, <<>>)
<1>2. ~Past(peer[c]) /\ peer[c] \in Peers /\ peer \in [Conns -> Peers]
  BY DEF PeerOpen, PeerRetry, Past, Typed, NetType
<1>3. f \in ShortSegments /\ <<f>> \in Seq(ShortSegments) /\ f.data = <<>>
  BY <1>1, PeerFields, SpeakType, SpeakFields, EmptyBytes
<1>4. toHost'[c] = toHost[c] \o <<f>> /\ \A d \in Conns : d # c => toHost'[d] = toHost[d]
  <2> HIDE DEF f
  <2> QED BY <1>1, <1>3, TellType DEF Typed, f
<1>5. WireStream(c, peer[c], toHost[c], readBytes)
  BY DEF StreamOK, WiresStream
<1>6. /\ u.st = "SYN_SENT" /\ Counted(u)
      /\ \A d \in Conns : d # c => peer'[d] = peer[d]
  <2>1. CASE PeerOpen(c)
    <3>1. u.st = "SYN_SENT" /\ u.snd = 1 /\ u.n = peer[c].n /\ peer[c].st = "CLOSED"
      BY <1>2, <2>1 DEF PeerOpen, Peers
    <3>2. u.snd = u.n + 1
      BY <1>5, <3>1 DEF WireStream
    <3> QED BY <1>2, <2>1, <3>1, <3>2 DEF PeerOpen, Counted
  <2>2. CASE PeerRetry(c)
    BY <1>5, <2>2 DEF PeerRetry, WireStream
  <2> QED BY <2>1, <2>2
<1> HIDE DEF f
<1>7. \A k \in DOMAIN <<f>> : Carries(<<f>>[k])
  BY <1>3, CarriesNone
<1>8. ~Past(u)
  BY <1>6 DEF Past
<1> QED BY <1>1, <1>2, <1>3, <1>4, <1>6, <1>7, <1>8, RemoteStream

LEMMA PeerSendStream ==
  ASSUME Typed, Distinct, ConnOK, SeqOK, RoomOK, StreamOK, NEW c \in Conns, PeerSend(c)
  PROVE  StreamOK'
<1> DEFINE t == peer[c]
<1>1. /\ peer \in [Conns -> Peers] /\ t \in Peers /\ t.st \in {"ESTAB", "CLOSE_WAIT"}
      /\ UNCHANGED <<kernel, apps>> /\ toHost[c] \in Seq(ShortSegments)
  BY DEF Typed, NetType, PeerSend
<1>2. PICK len \in PeerSizes :
        /\ peer' = [peer EXCEPT ![c].snd = @ + len, ![c].n = @ + len]
        /\ Tell(c, <<Speak("ACK", t, PeerBytesSent(t, len))>>)
        /\ t.n + len <= PeerBytes[c[1]]
  BY DEF PeerSend, PeerBytesSent
<1>3. len \in Nat /\ len <= BUFSIZE /\ len # 0 /\ t.n \in Nat
  BY <1>1, EndpointsAssumption, IndexFacts, PeerFields
<1>4. t.snd \in Int /\ t.rcv \in Int /\ t.snd = t.n + 1
  <2>1. Counted(t)
    BY DEF StreamOK, WiresStream, WireStream
  <2>2. t.snd = t.n + 1
    BY <1>1, <2>1 DEF Counted
  <2> QED BY <1>1, <2>2, PeerFields
<1>5. PeerBytesSent(t, len) \in Bytes /\ Len(PeerBytesSent(t, len)) = len
  BY <1>3 DEF PeerBytesSent, Bytes
<1> DEFINE s == Speak("ACK", t, PeerBytesSent(t, len))
           u == [t EXCEPT !.snd = t.snd + len, !.n = t.n + len]
<1>6. /\ s \in ShortSegments /\ <<s>> \in Seq(ShortSegments)
      /\ s.seq = t.snd /\ s.data = PeerBytesSent(t, len)
  BY <1>3, <1>4, <1>5, SpeakType, SpeakFields
<1>7. peer' = [peer EXCEPT ![c] = u] /\ u.st = t.st /\ u.n = t.n + len /\ u.snd = t.snd + len
  BY <1>1, <1>2 DEF Peers
<1> HIDE DEF s, u
<1>8. toHost'[c] = toHost[c] \o <<s>> /\ \A d \in Conns : d # c => toHost'[d] = toHost[d]
  BY <1>2, <1>6, TellType DEF Typed, s
<1>9. peer'[c] = u /\ \A d \in Conns : d # c => peer'[d] = peer[d]
  BY <1>1, <1>7
<1>10. Past(t) /\ Past(u) /\ u.st # "CLOSED" /\ Counted(u)
  BY <1>1, <1>3, <1>4, <1>7 DEF Past, Counted
<1>11. Carries(s)
  <2>1. \A k \in 1..len : t.n + k = t.snd + k - 1
    BY <1>3, <1>4
  <2>2. PeerBytesSent(t, len) = From(t.snd, len)
    BY <2>1 DEF PeerBytesSent, From
  <2> QED BY <1>5, <1>6, <2>2 DEF Carries
<1>12. \A k \in DOMAIN <<s>> : Carries(<<s>>[k])
  BY <1>11
<1>13. PeerBytes[c[1]] # 0
  BY <1>2, <1>3
<1> QED BY <1>1, <1>6, <1>8, <1>9, <1>10, <1>12, <1>13, RemoteStream

LEMMA PeerCloseStream ==
  ASSUME Typed, Distinct, ConnOK, SeqOK, RoomOK, StreamOK, NEW c \in Conns, PeerClose(c)
  PROVE  StreamOK'
<1> DEFINE t == peer[c]
           s == Speak("FIN", t, <<>>)
           st == IF t.st = "ESTAB" THEN "FIN_WAIT_1" ELSE "LAST_ACK"
           u == [t EXCEPT !.snd = t.snd + 1, !.st = st]
<1>1. /\ peer \in [Conns -> Peers] /\ t \in Peers
      /\ UNCHANGED <<kernel, apps>> /\ toHost[c] \in Seq(ShortSegments)
      /\ t.st \in {"ESTAB", "CLOSE_WAIT"}
  BY DEF Typed, NetType, PeerClose
<1>2. peer' = [peer EXCEPT ![c] = u] /\ Tell(c, <<s>>)
  BY <1>1 DEF PeerClose
<1>3. t.snd \in Int /\ t.rcv \in Int
  BY <1>1, PeerFields
<1>4. /\ s \in ShortSegments /\ <<s>> \in Seq(ShortSegments) /\ s.data = <<>>
      /\ s.flags = "FIN"
  BY <1>3, SpeakType, SpeakFields, EmptyBytes
<1>5. u.st = st
  BY <1>1 DEF Peers
<1> HIDE DEF s, u
<1>6. toHost'[c] = toHost[c] \o <<s>> /\ \A d \in Conns : d # c => toHost'[d] = toHost[d]
  BY <1>2, <1>4, TellType DEF Typed
<1>7. peer'[c] = u /\ \A d \in Conns : d # c => peer'[d] = peer[d]
  BY <1>1, <1>2
<1>8. Past(t) /\ Past(u) /\ u.st # "CLOSED" /\ Counted(u)
  BY <1>1, <1>5 DEF Past, Counted
<1>9. \A k \in DOMAIN <<s>> : Carries(<<s>>[k]) /\ First(<<s>>[k])
  BY <1>4, CarriesNone DEF First
<1> QED BY <1>1, <1>4, <1>6, <1>7, <1>8, <1>9, RemoteStream

LEMMA PeerReceiveStream ==
  ASSUME Typed, Distinct, ConnOK, SeqOK, RoomOK, StreamOK, NEW c \in Conns, PeerReceive(c)
  PROVE  StreamOK'
<1> DEFINE t == peer[c]
           out == toPeer[c]
           in == toHost[c]
           m == Head(out)
           h == Heard(c, t, m)
<1>1. /\ toPeer \in [Conns -> Seq(Segments)] /\ out # <<>> /\ out \in Seq(Segments)
      /\ peer \in [Conns -> Peers] /\ t \in Peers
      /\ peer' = [peer EXCEPT ![c] = h.t]
      /\ Tell(c, h.out) /\ UNCHANGED <<kernel, apps>>
  BY DEF PeerReceive, Hears, Typed, NetType
<1>2. m \in Segments /\ in \in Seq(ShortSegments)
  BY <1>1 DEF Typed, NetType
<1>3. h.t \in Peers /\ h.out \in Seq(ShortSegments)
  BY <1>1, <1>2, HeardType
<1>4. toHost'[c] = in \o h.out /\ \A d \in Conns : d # c => toHost'[d] = toHost[d]
  BY <1>1, <1>3, TellType DEF Typed
<1>5. peer'[c] = h.t /\ \A d \in Conns : d # c => peer'[d] = peer[d]
  BY <1>1
<1>6. WireStream(c, t, in, readBytes)
  BY DEF StreamOK, WiresStream
<1>7. CASE Past(t)
  <2>1. /\ Said(t) => Said(h.t)
        /\ h.t.n = t.n
    BY <1>1, <1>2, <1>7, HeardClose
  <2>2. /\ h.t.snd = t.snd
        /\ \/ h.out = <<>>
           \/ \E s \in ShortSegments : h.out = <<s>> /\ s.data = <<>>
    <3>1. t \in Peers /\ m \in Segments /\ Past(t)
      BY <1>1, <1>2, <1>7
    <3> HIDE DEF t, m
    <3> QED BY <3>1, HeardRoom
  <2>3. Past(h.t)
    BY <1>1, <1>2, <1>7, HeardPast
  <2> HIDE DEF h, t, in, out, m
  <2>4. Counted(h.t)
    <3>1. t.st \in PeerStates
      BY <1>1, PeerFields
    <3>2. Said(h.t) \/ t.st \in {"SYN_RCVD", "ESTAB", "CLOSE_WAIT"}
      BY <1>7, <2>1, <3>1 DEF Said, Past, PeerStates, Statuses
    <3> QED BY <1>6, <2>1, <2>2, <3>2 DEF WireStream, Counted, Said
  <2>5. \A k \in DOMAIN h.out : Carries(h.out[k])
    <3>1. CASE h.out = <<>>
      BY <3>1
    <3>2. ASSUME NEW s \in ShortSegments, h.out = <<s>>, s.data = <<>>
          PROVE  \A k \in DOMAIN h.out : Carries(h.out[k])
      BY <3>2, CarriesNone
    <3> QED BY <2>2, <3>1, <3>2
  <2>6. h.t.st # "CLOSED"
    BY <2>3 DEF Past
  <2>7. \A j \in DOMAIN backlog_list : ~Live(backlog_list[j]) \/ Conn(backlog_list[j]) # c
    BY <1>1, <1>7 DEF SeqOK, HalvesSeq, HalfSeq, t, out
  <2> QED BY <1>1, <1>3, <1>4, <1>5, <1>7, <2>3, <2>4, <2>5, <2>6, <2>7, RemoteStream
          DEF t, in
<1>8. CASE t.st = "SYN_SENT"
  <2>1. in = <<>> /\ m.flags = "SYNACK" /\ ~Past(t)
    BY <1>1, <1>8, WireFacts DEF Past
  <2>2. t.snd = 1 /\ Counted(t)
    BY <1>6, <1>8 DEF RoomOK, WiresRoom, WireRoom, WireStream
  <2> DEFINE u == Connected(t, m)
             s == Speak("ACK", u, <<>>)
  <2>3. h.t = u /\ h.out = <<s>>
    <3> HIDE DEF h, t, m
    <3> QED BY <1>8, <2>1 DEF Heard, Connected, h
  <2>4. s.flags = "ACK" /\ s.seq = u.snd /\ s.data = <<>>
    BY SpeakFields
  <2>5. u.st = "ESTAB" /\ u.snd = t.snd /\ u.n = t.n
    BY <1>1 DEF Connected, Peers
  <2> HIDE DEF h, s, u
  <2>6. Counted(u) /\ Past(u) /\ u.st # "CLOSED"
    BY <1>8, <2>2, <2>5 DEF Counted, Past
  <2>7. \A k \in DOMAIN <<s>> : Carries(<<s>>[k]) /\ First(<<s>>[k])
    BY <2>2, <2>4, <2>5, CarriesNone DEF First
  <2>8. <<s>> # <<>> /\ <<s>>[1] = s
    OBVIOUS
  <2>9. <<s>> \in Seq(ShortSegments) /\ toHost'[c] = in \o <<s>> /\ peer'[c] = u
        /\ \A d \in Conns : d # c => toHost'[d] = toHost[d] /\ peer'[d] = peer[d]
    BY <1>3, <1>4, <1>5, <2>3
  <2>10. <<s>>[1].flags = "ACK" /\ <<s>>[1].seq = 1
    BY <2>2, <2>4, <2>5, <2>8
  <2> HIDE DEF m
  <2> QED BY <1>1, <2>1, <2>6, <2>7, <2>8, <2>9, <2>10, RemoteStream
<1>9. CASE t.st = "CLOSED"
  <2>1. in = <<>> /\ c \notin Incoming /\ m.flags = "SYN" /\ ~Past(t)
    BY <1>1, <1>9, WireFacts DEF Past
  <2>2. c[1] \in Servers
    BY <2>1, RemoteConn
  <2> DEFINE u == Answered(t, m)
             s == Speak("SYNACK", [u EXCEPT !.snd = 0], <<>>)
  <2>3. h.t = u /\ h.out = <<s>>
    <3> HIDE DEF h, t, m
    <3> QED BY <1>9, <2>1, <2>2 DEF Heard, Answered, h, u, s
  <2>4. s.data = <<>>
    BY SpeakFields
  <2>5. u.st = "SYN_RCVD" /\ u.snd = 1 /\ u.n = t.n
    BY <1>1 DEF Answered, Peers
  <2> HIDE DEF h, u, s
  <2>6. Counted(u) /\ u.st # "CLOSED"
    BY <1>6, <1>9, <2>5 DEF Counted, WireStream
  <2>7. \A k \in DOMAIN <<s>> : Carries(<<s>>[k])
    BY <2>4, CarriesNone
  <2> QED BY <1>1, <1>3, <1>4, <1>5, <2>1, <2>3, <2>6, <2>7, RemoteStream
<1> QED BY <1>7, <1>8, <1>9 DEF Past

\* A remote leaves the streams as they should be.
LEMMA RemoteStreams ==
  ASSUME Typed, Distinct, ConnOK, SeqOK, RoomOK, StreamOK, NEW c \in Conns, Remote(c)
  PROVE  StreamOK'
<1>1. PeerOpen(c) \/ PeerRetry(c) \/ PeerSend(c) \/ PeerClose(c) \/ PeerReceive(c)
  BY DEF Remote
<1> QED BY <1>1, PeerOpenStream, PeerSendStream, PeerCloseStream, PeerReceiveStream

-----------------------------------------------------------------------------
(* Arrivals.                                                               *)

\* Answers that give of no connection but c.
LEMMA ReplyElsewhere ==
  ASSUME NEW A \in SUBSET AnswerRecs, Reply(A, calls), NEW c,
         \A a \in A : a.from = NoConn \/ a.from = c
  PROVE  \A d \in Conns : d # c => Unread(d)
<1> DEFINE hit(q) == {a \in A : calls[q] # Idle /\ a.id = calls[q].id}
           of(q) == CHOOSE a \in hit(q) : TRUE
           by(q, op) == hit(q) # {} /\ calls[q].op = op
<1>1. \A p \in Pids : \A d \in Conns :
        readBytes'[p][d] = IF by(p, "read") /\ of(p).from = d
                           THEN readBytes[p][d] \o of(p).data ELSE readBytes[p][d]
  BY DEF Reply
<1>2. \A p : hit(p) # {} => of(p) \in A
  <2> SUFFICES ASSUME NEW p, hit(p) # {} PROVE of(p) \in A
    OBVIOUS
  <2>1. of(p) \in hit(p)
    OBVIOUS
  <2> HIDE DEF of
  <2> QED BY <2>1
<1> HIDE DEF hit, of
<1>3. ASSUME NEW d \in Conns, d # c, NEW p \in Pids PROVE readBytes'[p][d] = readBytes[p][d]
  <2>1. ASSUME by(p, "read") PROVE of(p).from # d
    BY <1>2, <1>3, <2>1, NoConnApart
  <2> QED BY <1>1, <1>3, <2>1
<1> QED BY <1>3 DEF Unread

\* What a segment taken leaves true.
LEMMA TailStream ==
  ASSUME NEW in \in Seq(ShortSegments), in # <<>>, NEW c, NEW t, NEW rb, WireStream(c, t, in, rb)
  PROVE  /\ WireStream(c, t, Tail(in), rb)
         /\ Past(t) => \A rb2 : WireStream(c, t, Tail(in), rb2)
<1> DEFINE rest == Tail(in)
<1>1. \A k \in DOMAIN rest : k+1 \in DOMAIN in /\ rest[k] = in[k+1]
  BY TailElements
<1> HIDE DEF rest
<1>2. \A k \in DOMAIN rest : Carries(rest[k])
  BY <1>1 DEF WireStream
<1> QED BY <1>2 DEF WireStream, rest

\* What is lost on a half-open connection is of a remote without data.
LEMMA TailHalf ==
  ASSUME NEW in \in Seq(ShortSegments), in # <<>>, NEW e, NEW t, NEW rb, Past(t),
         HalfStream(e, t, in, rb), in[1].flags = "ACK" => PeerBytes[e.dest] = 0 \/ ~Live(e)
  PROVE  \A rb2 : NoneRead(rb2, Conn(e)) => HalfStream(e, t, Tail(in), rb2)
<1> DEFINE rest == Tail(in)
<1>1. \A k \in DOMAIN rest : k+1 \in DOMAIN in /\ rest[k] = in[k+1]
  BY TailElements
<1> HIDE DEF rest
<1>2. CASE ~Live(e)
  BY <1>2 DEF HalfStream
<1>3. CASE Live(e)
  <2>1. PeerBytes[e.dest] = 0 /\ \A k \in DOMAIN in : First(in[k])
    BY <1>3 DEF HalfStream, HalfFirst
  <2>2. \A k \in DOMAIN rest : First(rest[k])
    BY <1>1, <2>1
  <2> QED BY <2>1, <2>2 DEF HalfStream, HalfFirst, rest
<1> QED BY <1>2, <1>3

\* A new half-open connection holds nothing, as its listener does not.
LEMMA SynHalfStream ==
  ASSUME Typed, StreamOK, NEW port, NEW r \in Remotes, NEW ack \in Int
  PROVE  Empty(Half(ListenerOf(port), r, ack))
<1> DEFINE i == Listener(socklist, port)
           l == ListenerOf(port)
           n == Half(l, r, ack)
<1>1. CASE i = 0
  <2>1. l = NoListener
    BY <1>1 DEF ListenerOf
  <2> HIDE DEF l
  <2>2. n.recv_len = 0 /\ n.start_r = 0 /\ n.end_r = 0
    BY <2>1 DEF NoListener, FreshNode, Half
  <2> QED BY <2>2 DEF l, Empty
<1>2. CASE i # 0
  <2>1. l = socklist[i] /\ i \in DOMAIN socklist /\ l \in SockNode /\ l.status = "LISTENING"
    BY <1>2, ListenerLookup DEF ListenerOf
  <2>2. Empty(l)
    BY <2>1 DEF StreamOK, NodesStream, NodeStream, Up
  <2> HIDE DEF l
  <2>3. n.recv_len = l.recv_len /\ n.start_r = l.start_r /\ n.end_r = l.end_r
    BY <2>1 DEF Half, SockNode, NodeOf
  <2> QED BY <2>2, <2>3 DEF l, Empty
<1> QED BY <1>1, <1>2

LEMMA SynStream ==
  ASSUME Typed, Distinct, ConnOK, StreamOK, NEW c \in Conns, Syn(c)
  PROVE  StreamOK'
<1> DEFINE ack == Head(toHost[c]).seq + 1
           n == Half(ListenerOf(c[2]), c[1], ack)
<1>1. /\ socklist' = socklist /\ peer' = peer /\ Delivers(c) /\ readBytes' = readBytes
      /\ \/ Fits(c) /\ backlog_list' = Append(backlog_list, n)
         \/ backlog_list' = backlog_list
  BY SynCases DEF apps
<1>2. /\ peer[c].st = "SYN_SENT"
      /\ toHost'[c] = <<>> /\ \A d \in Conns : d # c => toHost'[d] = toHost[d]
      /\ \A i \in DOMAIN socklist : socklist[i].dest # c[1]
      /\ \A j \in DOMAIN backlog_list : Live(backlog_list[j]) => backlog_list[j].dest # c[1]
  BY SynArrives
<1>3. ack \in Int /\ c[1] \in Remotes
  <2>1. Head(toHost[c]) \in ShortSegments
    BY <1>1, ArrivingFacts
  <2> QED BY <2>1, SegmentFields, ConnFacts
<1> HIDE DEF ack
<1>4. n \in HalfNode /\ Empty(n) /\ (Fits(c) /\ Live(n) => Conn(n) = c)
  <2>1. Fits(c) /\ Live(n) => Conn(n) = c
    BY <1>3, SynHalf
  <2> QED BY <1>3, <2>1, HalfType, SynHalfStream
<1> HIDE DEF n
<1>5. ~Past(peer[c])
  BY <1>2 DEF Past
<1>6. WireStream(c, peer[c], toHost'[c], readBytes') /\ NoneRead(readBytes', c)
  <2>1. WireStream(c, peer[c], toHost[c], readBytes)
    BY DEF StreamOK, WiresStream
  <2>2. DOMAIN toHost'[c] = {}
    BY <1>2
  <2> QED BY <1>1, <1>5, <2>1, <2>2 DEF WireStream
<1>7. \A d \in Conns : d # c => toHost'[d] = toHost[d] /\ Unread(d)
  BY <1>1, <1>2 DEF Unread
<1>8. \A j \in DOMAIN socklist' : /\ Conn(socklist'[j]) # c
                                  /\ \E k \in DOMAIN socklist : socklist'[j] = socklist[k]
  BY <1>1, <1>2, ConnParts
<1>9. ASSUME NEW j \in DOMAIN backlog_list'
      PROVE  LET e == backlog_list'[j]
             IN  \/ Conn(e) = c /\ HalfStream(e, peer[c], toHost'[c], readBytes')
                 \/ ~Live(e) /\ Empty(e)
                 \/ /\ ~Live(e) \/ Conn(e) # c
                    /\ \E k \in DOMAIN backlog_list : e = backlog_list[k]
  <2>1. \/ j \in DOMAIN backlog_list /\ backlog_list'[j] = backlog_list[j]
        \/ Fits(c) /\ backlog_list'[j] = n
    <3>1. backlog_list \in Seq(HalfNode)
      BY DEF Typed, KernelType
    <3> QED BY <1>1, <1>4, <1>9, <3>1, AppendElements
  <2>2. ASSUME Conn(n) = c PROVE HalfStream(n, peer[c], toHost'[c], readBytes')
    BY <1>4, <1>5, <1>6, <2>2 DEF HalfStream
  <2>3. ASSUME j \in DOMAIN backlog_list, Live(backlog_list[j])
        PROVE  Conn(backlog_list[j]) # c
    BY <1>2, <2>3, ConnParts
  <2> QED BY <1>4, <2>1, <2>2, <2>3
<1> QED BY <1>1, <1>6, <1>7, <1>8, <1>9, HostStream

\* The socket that has dialled holds nothing, and nothing of its connection has
\* been read.
LEMMA SynAckStream ==
  ASSUME Typed, Distinct, ConnOK, SeqOK, StreamOK, NEW c \in Conns, SynAck(c)
  PROVE  StreamOK'
<1> DEFINE m == Head(toHost[c])
           A == {Answer(socklist[i].uuid, 0) : i \in Mine(c)}
<1>1. /\ toHost'[c] = <<>> /\ \A d \in Conns : d # c => toHost'[d] = toHost[d]
      /\ \A i \in Mine(c) : Conn(socklist[i]) = c
  BY SynAckArrives
<1>2. /\ socklist' = [i \in DOMAIN socklist |-> IF i \in Mine(c) THEN Opened(i, m) ELSE socklist[i]]
      /\ Delivers(c) /\ backlog_list' = backlog_list /\ peer' = peer
      /\ m.flags = "SYNACK" /\ Reply(A, calls)
  BY SynAckCases
<1>3. /\ 1 \in DOMAIN toHost[c] /\ toHost[c][1] = m
  <2>1. toHost[c] \in Seq(ShortSegments) /\ toHost[c] # <<>>
    BY <1>2 DEF Typed, NetType, Delivers
  <2> QED BY <2>1
<1>4. m.seq = 0
  <2>1. InSeq(c, peer[c], toHost[c])
    BY DEF SeqOK, WiresSeq
  <2> HIDE DEF m
  <2> QED BY <1>2, <1>3, <2>1 DEF InSeq
<1> HIDE DEF m
<1>5. c \notin Incoming
  <2>1. WireOK(c, toHost[c], toPeer[c], peer[c], socklist)
    BY DEF ConnOK, WiresOK
  <2>2. c[1] \in Servers
    BY <1>2, <1>3, <2>1 DEF WireOK
  <2> QED BY <2>2, RemoteConn
<1>6. GivesNone
  <2>1. \A i \in DOMAIN socklist : socklist[i].uuid \in Ids
    BY ListElements, NodeFields DEF SockNode
  <2>2. A \in SUBSET AnswerRecs
    BY <2>1, AnswerType, Empties DEF Mine
  <2>3. \A a \in A : NotRead(a, calls)
    BY AnswersNotRead
  <2>4. calls \in [Pids -> CallRecs]
    BY DEF Typed, AppsType
  <2> HIDE DEF A
  <2> QED BY <1>2, <2>2, <2>3, <2>4, ReplyGives
<1>7. \A d \in Conns : Unread(d)
  BY <1>6 DEF GivesNone, Unread
<1>8. WireStream(c, peer[c], toHost'[c], readBytes')
  <2>1. WireStream(c, peer[c], toHost[c], readBytes)
    BY DEF StreamOK, WiresStream
  <2>2. DOMAIN toHost'[c] = {}
    BY <1>1
  <2> QED BY <1>7, <2>1, <2>2 DEF WireStream, Unread, NoneRead
<1>9. ASSUME NEW j \in DOMAIN socklist' PROVE NodeStream(socklist'[j], readBytes')
  <2> DEFINE n == socklist[j]
             x == socklist'[j]
  <2>0. j \in DOMAIN socklist /\ n \in SockNode
    BY <1>2, <1>9, ListElements
  <2>1. CASE j \in Mine(c)
    <3>1. x = Opened(j, m) /\ n.status = "SYN_SENT"
      BY <1>2, <2>1 DEF Mine, Expecting
    <3>2. Conn(n) = c
      BY <1>1, <2>1
    <3>3. NodeStream(n, readBytes) /\ n.dest # NoRemote
      <4>1. n.dest = c[1]
        BY <3>2, ConnParts
      <4> QED BY <2>0, <4>1, RemoteConn DEF StreamOK, NodesStream
    <3>4. /\ x.status = "ESTAB" /\ x.owner = n.owner /\ SameBuffer(x, n) /\ x.ack = m.seq + 1
          /\ Conn(x) = Conn(n) /\ n.owner \in Pids
      BY <2>0, <3>1, NodeFields DEF Opened, SockNode, NodeOf, SameBuffer, Conn
    <3> HIDE DEF x, n
    <3>5. Empty(n) /\ NoneRead(readBytes, c)
      BY <3>1, <3>2, <3>3 DEF NodeStream, Up
    <3>6. readBytes'[x.owner][c] = <<>>
      BY <1>7, <3>4, <3>5 DEF Unread, NoneRead
    <3>7. Ordered(n, <<>>, 1)
      BY <2>0, <3>5, EmptyOrdered DEF SockNode
    <3>8. Ordered(x, <<>>, x.ack)
      <4>1. x.ack = 1
        BY <1>4, <3>4
      <4> QED BY <3>4, <3>7, <4>1, SameOrdered
    <3> QED BY <3>2, <3>4, <3>6, <3>8 DEF NodeStream, Up, x
  <2>2. CASE j \notin Mine(c)
    <3>1. x = n
      BY <1>2, <2>0, <2>2
    <3>2. n.dest = NoRemote \/ Unread(Conn(n))
      BY <1>7, <2>0 DEF ConnOK, NodesOK, NodeOK
    <3> QED BY <2>0, <3>1, <3>2, OldStream
  <2> QED BY <2>1, <2>2
<1>10. ASSUME NEW j \in DOMAIN backlog_list'
       PROVE  LET e == backlog_list'[j]
              IN  /\ ~Live(e) \/ Conn(e) # c
                  /\ \E k \in DOMAIN backlog_list : e = backlog_list[k]
  <2>1. j \in DOMAIN backlog_list /\ backlog_list'[j] = backlog_list[j]
    BY <1>2, <1>10
  <2>2. Live(backlog_list[j]) => Conn(backlog_list[j]) \in Incoming
    BY <2>1 DEF ConnOK, HalvesOK, HalfOK
  <2> QED BY <1>5, <2>1, <2>2
<1>11. \A d \in Conns : d # c => toHost'[d] = toHost[d] /\ Unread(d)
  BY <1>1, <1>7
<1> QED BY <1>2, <1>8, <1>9, <1>10, <1>11, HostStream

LEMMA FinStream ==
  ASSUME Typed, Distinct, ConnOK, SeqOK, StreamOK, NEW c \in Conns, Fin(c)
  PROVE  StreamOK'
<1> DEFINE m == Head(toHost[c])
           i == FinAt(c)
           n == socklist[i]
           f == Finished(n, m)
<1>1. /\ Delivers(c) /\ m.flags = "FIN" /\ backlog_list' = backlog_list /\ peer' = peer
      /\ \/ /\ i # 0 /\ n.status \in {"ESTAB", "FIN_WAIT_1", "FIN_WAIT_2"}
            /\ socklist' = [socklist EXCEPT ![i] = f]
            /\ Reply(FinAnswers(n), calls)
         \/ socklist' = socklist /\ readBytes' = readBytes
  BY FinCases DEF apps
<1>2. Past(peer[c])
  BY <1>1, ArrivesClear
<1>3. /\ m \in ShortSegments /\ \A d \in Conns : d # c => toHost'[d] = toHost[d]
      /\ toHost'[c] = Tail(toHost[c]) /\ toHost[c] \in Seq(ShortSegments) /\ toHost[c] # <<>>
      /\ m = toHost[c][1]
  BY <1>1, ArrivingFacts DEF Typed, NetType, Delivers
<1>4. WireStream(c, peer[c], toHost'[c], readBytes')
  <2>1. WireStream(c, peer[c], toHost[c], readBytes)
    BY DEF StreamOK, WiresStream
  <2> QED BY <1>2, <1>3, <2>1, TailStream
<1>5. ASSUME NEW j \in DOMAIN backlog_list, Conn(backlog_list[j]) = c, readBytes' = readBytes,
             Live(backlog_list[j])
      PROVE  HalfStream(backlog_list[j], peer[c], toHost'[c], readBytes')
  <2>1. HalfStream(backlog_list[j], peer[c], toHost[c], readBytes)
    BY <1>5 DEF StreamOK, HalvesStream
  <2>2. NoneRead(readBytes', c)
    BY <1>5, <2>1 DEF HalfStream
  <2> DEFINE e == backlog_list[j]
             t == peer[c]
             in == toHost[c]
             rb == readBytes
  <2>3. /\ in \in Seq(ShortSegments) /\ in # <<>> /\ Past(t) /\ HalfStream(e, t, in, rb)
        /\ in[1].flags # "ACK"
    BY <1>1, <1>2, <1>3, <2>1
  <2> HIDE DEF e, t, in, rb
  <2>4. \A rb2 : NoneRead(rb2, Conn(e)) => HalfStream(e, t, Tail(in), rb2)
    BY <2>3, TailHalf
  <2> QED BY <1>3, <1>5, <2>2, <2>4 DEF e, t, in
<1>6. CASE socklist' = socklist /\ readBytes' = readBytes
  <2>1. \A j \in DOMAIN socklist' : NodeStream(socklist'[j], readBytes')
    BY <1>6 DEF StreamOK, NodesStream
  <2>2. \A d \in Conns : d # c => toHost'[d] = toHost[d] /\ Unread(d)
    BY <1>3, <1>6 DEF Unread
  <2> HIDE DEF m, i, n, f
  <2>3. \A j \in DOMAIN backlog_list' :
          LET e == backlog_list'[j]
          IN  \/ Conn(e) = c /\ HalfStream(e, peer[c], toHost'[c], readBytes')
              \/ ~Live(e) /\ Empty(e)
              \/ /\ ~Live(e) \/ Conn(e) # c
                 /\ \E k \in DOMAIN backlog_list : e = backlog_list[k]
    BY <1>1, <1>5, <1>6
  <2> QED BY <1>1, <1>4, <2>1, <2>2, <2>3, HostStream
<1>7. CASE /\ i # 0 /\ n.status \in {"ESTAB", "FIN_WAIT_1", "FIN_WAIT_2"}
           /\ socklist' = [socklist EXCEPT ![i] = f]
           /\ Reply(FinAnswers(n), calls)
  <2>1. i \in DOMAIN socklist /\ n \in SockNode /\ n.dest = c[1]
    BY <1>7, FinAtLookup
  <2> HIDE DEF i
  <2>2. OneConn(n, peer)
    BY <2>1 DEF SeqOK, ConnsOne
  <2> HIDE DEF n
  <2>3. Conn(n) = c
    BY <1>2, <2>1, <2>2, OneRemote
  <2>4. /\ f \in SockNode /\ SameSocket(f, n)
        /\ f.status \in {"CLOSE_WAIT", "CLOSING", "TIMED_WAIT"}
        /\ FinAnswers(n) \in SUBSET AnswerRecs
    BY <1>3, <1>7, <2>1, FinPartTypes
  <2>5. \A a \in FinAnswers(n) : a.from = NoConn \/ a.from = Conn(n)
    BY <1>3, <1>7, <2>1, FinishedReads
  <2> HIDE DEF f
  <2>6. \A d \in Conns : d # c => Unread(d)
    BY <1>7, <2>3, <2>4, <2>5, ReplyElsewhere
  <2>7. NodeStream(f, readBytes')
    BY <2>4 DEF NodeStream, Up
  <2>8. Conn(f) = c /\ f.dest = socklist[i].dest
    BY <2>3, <2>4 DEF Conn, SameSocket, n
  <2>9. /\ \A j \in DOMAIN socklist :
             j # i => socklist[j].dest # f.dest \/ socklist[j].dest = NoRemote
        /\ \A j \in DOMAIN backlog_list :
             Live(backlog_list[j]) => backlog_list[j].dest # f.dest
    BY <2>1, <2>8, OtherRemotes
  <2>10. /\ Conn(f) \in Conns => WireStream(Conn(f), peer[Conn(f)], toHost'[Conn(f)], readBytes')
         /\ \A d \in Conns : d # Conn(f) => toHost'[d] = toHost[d] /\ Unread(d)
    BY <1>3, <1>4, <2>6, <2>8
  <2> HIDE DEF m
  <2> QED BY <1>1, <1>7, <2>1, <2>4, <2>7, <2>9, <2>10, OneNodeStream
<1> QED BY <1>1, <1>6, <1>7

\* An acknowledgement leaves the buffer.
LEMMA AckedSame ==
  ASSUME NEW n \in SockNode, NEW m \in ShortSegments
  PROVE  SameBuffer(AckedNode(n, m), n) /\ AckedNode(n, m).ack = m.seq
<1> DEFINE g == Grown(n, m)
           s == Resumed(n, m).node
           f == Filled(n, m)
           x == AckedNode(n, m)
<1> HIDE DEF g, s, f, x
<1>1. g \in SockNode /\ s \in SockNode
  BY GrownType, ResumedType DEF g, s
<1>2. SameBuffer(g, n) /\ g.ack = m.seq
  BY DEF g, Grown, SockNode, NodeOf, SameBuffer
<1>3. SameBuffer(s, g) /\ s.ack = g.ack
  <2>1. /\ send_segments(g, 2).node \in SockNode /\ send_segments(g, 2).out \in Seq(Segments)
        /\ \E e \in Index, q \in Int, b \in BOOLEAN :
             send_segments(g, 2).node = Sent(g, e, q, b)
    BY <1>1, SendSegmentsType DEF SockNode
  <2>2. PICK e \in Index, q \in Int, b \in BOOLEAN :
          send_segments(g, 2).node = Sent(g, e, q, b)
    BY <2>1
  <2>3. s = Sent(g, e, q, b)
    BY <2>2 DEF s, Resumed, g
  <2> QED BY <1>1, <2>3 DEF Sent, SockNode, NodeOf, SameBuffer
<1>4. SameBuffer(f, s) /\ f.ack = s.ack /\ DOMAIN f = DOMAIN s
  BY <1>1 DEF Filled, SockNode, NodeOf, SameBuffer, s, f
<1>5. CASE n.sending
  <2>1. x = [f EXCEPT !.write_uuid = None]
    BY <1>5 DEF AckedNode, f, x
  <2>2. SameBuffer(x, f) /\ x.ack = f.ack
    BY <1>1, <1>4, <2>1 DEF SockNode, NodeOf, SameBuffer
  <2>3. SameBuffer(x, n) /\ x.ack = m.seq
    BY <1>2, <1>3, <1>4, <2>2 DEF SameBuffer
  <2> QED BY <2>3 DEF x
<1>6. CASE ~n.sending
  BY <1>2, <1>6 DEF AckedNode, g, x
<1> QED BY <1>5, <1>6 DEF x

\* A data segment that comes next: the node goes on with the stream, less what
\* it answers a read.
LEMMA LeftStream ==
  ASSUME NEW n \in SockNode, NEW m \in ShortSegments, NEW bytes \in Bytes,
         Ordered(n, bytes, m.seq), Carries(m), n.recv_len + Len(m.data) <= BUFSIZE
  PROVE  LET s == Stored(n, m)
             x == Left(n, m)
         IN  /\ ~Satisfied(s) => Ordered(x, bytes, x.ack)
             /\ Satisfied(s) =>
                  Ordered(x, bytes \o Load(s.recv_buffer, s.start_r, n.read_len), x.ack)
<1> DEFINE s == Stored(n, m)
           x == Left(n, m)
           t == Consumed(s, n.read_len)
<1>1. s \in SockNode /\ s.recv_len = n.recv_len + Len(m.data) /\ s.read_len = n.read_len
  BY StoredType
<1>2. Ordered(s, bytes, s.ack)
  BY OrderedStored
<1>3. x = IF Satisfied(s) THEN [t EXCEPT !.read_uuid = None] ELSE s
  BY DEF Left
<1>4. s.recv_len <= BUFSIZE
  BY <1>1
<1> HIDE DEF s, x
<1>5. CASE Satisfied(s)
  <2>1. n.read_len \in 0..BUFSIZE /\ n.read_len <= s.recv_len
    BY <1>1, <1>5, NodeFields DEF Satisfied, SockNode
  <2>2. Ordered(t, bytes \o Load(s.recv_buffer, s.start_r, n.read_len), s.ack)
    BY <1>1, <1>2, <1>4, <2>1, OrderedConsumed DEF SockNode
  <2>3. t \in SockNode
    BY <1>1, <2>1, ConsumedType DEF SockNode
  <2>4. t.ack = s.ack
    BY <1>1 DEF Consumed, SockNode, NodeOf
  <2> HIDE DEF t
  <2>5. SameBuffer(x, t) /\ x.ack = t.ack
    BY <1>3, <1>5, <2>3 DEF SockNode, NodeOf, SameBuffer
  <2>6. Ordered(x, bytes \o Load(s.recv_buffer, s.start_r, n.read_len), x.ack)
    BY <2>2, <2>4, <2>5, SameOrdered
  <2> QED BY <1>5, <2>6 DEF s, x
<1>6. CASE ~Satisfied(s)
  BY <1>2, <1>3, <1>6 DEF s, x
<1> QED BY <1>5, <1>6

\* What the answers of an ACK give, when it is taken for no data of a node.
LEMMA AckGives ==
  ASSUME Typed, CallsOK, UsesOK, Distinct, ConnOK, SeqOK, NEW c \in Conns, Ack(c)
  PROVE  LET m == Head(toHost[c])
             B == Completed(c, m).answers
             R == AckResult(c, m).answers
         IN  /\ \A b \in B : b.from = NoConn /\ \E q : QueueUse(q, prog, calls) /\ b.id = q.uuid
             /\ \A b \in R : b.from = NoConn \/ b.from = c
             /\ (\A b \in R : NotRead(b, calls)) => GivesNone
             /\ \A d \in Conns : d # c => Unread(d)
<1> DEFINE m == Head(toHost[c])
           B == Completed(c, m).answers
           R == AckResult(c, m).answers
           A == B \cup R
<1>1. A \in SUBSET AnswerRecs /\ Reply(A, calls) /\ m \in ShortSegments
  BY AckAnswers
<1>2. \A b \in B : b.from = NoConn /\ \E q : QueueUse(q, prog, calls) /\ b.id = q.uuid
  <2> SUFFICES ASSUME NEW b \in B
               PROVE  b.from = NoConn /\ \E q : QueueUse(q, prog, calls) /\ b.id = q.uuid
    OBVIOUS
  <2>1. accept_queue # <<>> /\ b = Answer(Head(accept_queue).uuid, NewFd(c))
    BY <1>1, CompletedCases
  <2>2. b.id = Head(accept_queue).uuid /\ b.from = NoConn
    BY <2>1 DEF Answer
  <2>3. accept_queue \in Seq(QueueRecs)
    BY DEF Typed, KernelType
  <2>4. 1 \in DOMAIN accept_queue /\ Head(accept_queue) = accept_queue[1]
    BY <2>1, <2>3, TailElements
  <2>5. QueueUse(accept_queue[1], prog, calls)
    BY <2>4 DEF UsesOK, QueueUses
  <2> QED BY <2>2, <2>4, <2>5
<1>3. \A b \in R : b.from = NoConn \/ b.from = c
  <2>1. CASE AckedAt(c, m) = 0
    BY <2>1 DEF AckResult
  <2>2. CASE AckedAt(c, m) # 0
    <3> DEFINE n == Completed(c, m).sl[AckedAt(c, m)]
    <3>1. n \in SockNode /\ Conn(n) = c
      BY <2>2, AckTaken
    <3>2. R = AckOf(n, c, m).answers
      BY <2>2 DEF AckResult
    <3> HIDE DEF n, R, m
    <3>3. \A b \in AckOf(n, c, m).answers : b.from = NoConn \/ b.from = Conn(n)
      BY <1>1, <3>1, AckOfReads
    <3> QED BY <3>1, <3>2, <3>3
  <2> QED BY <2>1, <2>2
<1> HIDE DEF B, R
<1>4. (\A b \in R : NotRead(b, calls)) => GivesNone
  <2>1. \A b \in B : NotRead(b, calls)
    BY <1>2 DEF NotRead
  <2>2. calls \in [Pids -> CallRecs]
    BY DEF Typed, AppsType
  <2>3. (\A b \in R : NotRead(b, calls)) => \A b \in A : NotRead(b, calls)
    BY <2>1
  <2> HIDE DEF A
  <2> QED BY <1>1, <2>2, <2>3, ReplyGives
<1>5. \A a \in A : a.from = NoConn \/ a.from = c
  BY <1>2, <1>3
<1> HIDE DEF A
<1>6. \A d \in Conns : d # c => Unread(d)
  BY <1>1, <1>5, ReplyElsewhere
<1> QED BY <1>2, <1>3, <1>4, <1>6 DEF B, R

\* The read an ACK answers is the one its node waits for.
LEMMA AckGivesRead ==
  ASSUME Typed, CallsOK, UsesOK, Distinct, ConnOK, SeqOK, NEW c \in Conns, Ack(c),
         NEW n, NodeReads(n, calls), Awaited(n), n.owner \in Pids, NEW b,
         AckResult(c, Head(toHost[c])).answers = {b}, b.id = n.read_uuid
  PROVE  Gives(n.owner, b.from, b.data)
<1> DEFINE m == Head(toHost[c])
           B == Completed(c, m).answers
           A == B \cup {b}
<1>1. A \in SUBSET AnswerRecs /\ Reply(A, calls) /\ calls \in [Pids -> CallRecs]
  BY AckAnswers DEF Typed, AppsType
<1>2. \A a \in B : a.from = NoConn /\ \E q : QueueUse(q, prog, calls) /\ a.id = q.uuid
  BY AckGives
<1> HIDE DEF B
<1>3. \A a \in B : a.id # b.id /\ NotRead(a, calls)
  BY <1>2, ReadApart DEF NotRead
<1>4. /\ calls[n.owner] # Idle /\ calls[n.owner].id = b.id
      /\ calls[n.owner].op = "read"
  BY DEF NodeReads
<1>5. \A p \in Pids : p # n.owner /\ calls[p] # Idle => calls[p].id # b.id
  <2>1. \A p \in Pids : calls[p] # Idle => calls[p].id[1] = p
    BY DEF CallsOK
  <2> QED BY <1>4, <2>1
<1>6. \A a \in A : a = b \/ (a.id # b.id /\ NotRead(a, calls))
  BY <1>3
<1>7. b \in A
  OBVIOUS
<1> HIDE DEF A
<1> QED BY <1>1, <1>4, <1>5, <1>6, <1>7, ReplyGives

\* The socket a half-open connection becomes begins its stream with the ACK.
LEMMA NewSocketStream ==
  ASSUME Typed, Distinct, ConnOK, StreamOK, NEW c \in Conns, Past(peer[c]),
         toHost[c] \in Seq(ShortSegments), toHost[c] # <<>>, HalfOpen(c) # 0,
         NEW m \in ShortSegments, m = Head(toHost[c]), m.flags = "ACK"
  PROVE  LET x == NewSocket(c, m)
         IN  x.status = "ESTAB" /\ Ordered(x, <<>>, m.seq) /\ NoneRead(readBytes, c)
<1> DEFINE x == NewSocket(c, m)
           e == Entry(c)
<1>1. /\ HalfOpen(c) \in DOMAIN backlog_list /\ Live(e) /\ Conn(e) = c
      /\ e = backlog_list[HalfOpen(c)] /\ e \in HalfNode
  BY EntryConn, HalfOpenLookup DEF Entry
<1>2. SameBuffer(x, e) /\ x.status = "ESTAB"
  BY <1>1 DEF NewSocket, HalfNode, NodeOf, SameBuffer
<1>3. HalfStream(e, peer[c], toHost[c], readBytes)
  BY <1>1 DEF StreamOK, HalvesStream
<1> HIDE DEF x, e
<1>4. Empty(e) /\ NoneRead(readBytes, c) /\ HalfFirst(e, toHost[c])
  BY <1>1, <1>3 DEF HalfStream
<1>5. m.seq = 1
  <2>1. 1 \in DOMAIN toHost[c] /\ m = toHost[c][1]
    OBVIOUS
  <2>2. First(toHost[c][1]) \/ toHost[c][1].seq = 1
    BY <1>4, <2>1 DEF HalfFirst
  <2> QED BY <2>1, <2>2 DEF First
<1>6. Ordered(x, <<>>, m.seq)
  <2>1. Ordered(e, <<>>, 1)
    BY <1>1, <1>4, EmptyOrdered DEF HalfNode
  <2> QED BY <1>2, <1>5, <2>1, SameOrdered
<1> QED BY <1>2, <1>4, <1>6 DEF x

\* The node an ACK is taken for, before it is taken.
LEMMA TakenStream ==
  ASSUME Typed, Distinct, ConnOK, SeqOK, RoomOK, StreamOK, NEW c \in Conns, Ack(c),
         AckedAt(c, Head(toHost[c])) # 0
  PROVE  LET m == Head(toHost[c])
             n == Completed(c, m).sl[AckedAt(c, m)]
         IN  /\ n.status = "ESTAB" => Ordered(n, readBytes[n.owner][c], m.seq)
             /\ n.status = "ESTAB" /\ m.data # <<>> => n.recv_len + Len(m.data) <= BUFSIZE
             /\ ~Up(n.status) => Empty(n) /\ NoneRead(readBytes, c)
<1> DEFINE m == Head(toHost[c])
           i == AckedAt(c, m)
           sl == Completed(c, m).sl
           n == sl[i]
<1>1. Delivers(c) /\ m.flags = "ACK" /\ m \in ShortSegments
  BY AckCases, ArrivingFacts
<1>2. Past(peer[c])
  BY <1>1, ArrivesClear
<1>3. /\ n \in SockNode /\ Conn(n) = c
      /\ \/ \E k \in DOMAIN socklist : n = socklist[k]
         \/ HalfOpen(c) # 0 /\ n = NewSocket(c, m)
  BY AckTaken
<1>4. Ready(n, peer[c], toHost[c], toPeer[c])
  <2>1. i \in DOMAIN sl
    BY <1>1, AckedAtLookup
  <2> QED BY <1>1, <1>2, <1>3, <2>1, CompletedReady
<1>5. /\ peer[c] \in Peers /\ toHost[c] \in Seq(ShortSegments) /\ toHost[c] # <<>>
      /\ toPeer[c] \in Seq(Segments)
  BY <1>1 DEF Typed, NetType, Delivers
<1>6. n.owner \in Pids /\ n.recv_len \in Int /\ n.ack \in Int
  BY <1>3, NodeFields DEF SockNode
<1>7. \A a : Holds(a, n.recv_len, peer[c], toHost[c], toPeer[c]) =>
        m.seq = a /\ (m.data # <<>> => n.recv_len + Len(m.data) <= BUFSIZE)
  <2> SUFFICES ASSUME NEW a, Holds(a, n.recv_len, peer[c], toHost[c], toPeer[c])
               PROVE  m.seq = a /\ (m.data # <<>> => n.recv_len + Len(m.data) <= BUFSIZE)
    OBVIOUS
  <2> HIDE DEF n
  <2> DEFINE in == toHost[c]
             out == toPeer[c]
             t == peer[c]
             len == n.recv_len
  <2>1. /\ len \in Int /\ t \in Peers /\ in \in Seq(ShortSegments) /\ in # <<>>
        /\ out \in Seq(Segments) /\ Holds(a, len, t, in, out)
    BY <1>5, <1>6
  <2> HIDE DEF in, out, t, len
  <2>2. Head(in).seq = a /\ (Head(in).data # <<>> => len + Len(Head(in).data) <= BUFSIZE)
    BY <2>1, TakesRoom
  <2> QED BY <2>2 DEF in, len
<1>8. n.status = "ESTAB" /\ m.data # <<>> => n.recv_len + Len(m.data) <= BUFSIZE
  <2> HIDE DEF m, n
  <2> QED BY <1>4, <1>7 DEF Ready
<1> HIDE DEF i, sl, n
<1>9. CASE \E k \in DOMAIN socklist : n = socklist[k]
  <2>1. PICK k \in DOMAIN socklist : n = socklist[k]
    BY <1>9
  <2>2. NodeRoom(n, peer[c], toHost[c], toPeer[c]) /\ NodeStream(n, readBytes)
    BY <1>3, <2>1 DEF RoomOK, NodesRoom, StreamOK, NodesStream
  <2>3. n.dest # NoRemote
    BY <1>3, ConnParts, RemoteConn
  <2>4. n.status = "ESTAB" => m.seq = n.ack
    BY <1>7, <2>2 DEF NodeRoom
  <2> HIDE DEF m
  <2> QED BY <1>3, <1>8, <2>2, <2>3, <2>4 DEF NodeStream, m, n, sl, i
<1>10. CASE HalfOpen(c) # 0 /\ n = NewSocket(c, m)
  <2>1. n.status = "ESTAB" /\ Ordered(n, <<>>, m.seq) /\ NoneRead(readBytes, c)
    BY <1>1, <1>2, <1>5, <1>10, NewSocketStream
  <2>2. readBytes[n.owner][c] = <<>>
    BY <1>6, <2>1 DEF NoneRead
  <2>3. Up(n.status)
    BY <2>1 DEF Up
  <2> HIDE DEF m
  <2> QED BY <1>8, <2>1, <2>2, <2>3 DEF m, n, sl, i
<1> QED BY <1>3, <1>9, <1>10

\* What an ACK does to the stream of a node: the bytes it answers a read with
\* are the ones that the node held first.
LEMMA AckOfStream ==
  ASSUME NEW n \in SockNode, NEW m \in ShortSegments, NEW c, NEW bytes \in Bytes, Carries(m),
         n.status = "ESTAB" => Ordered(n, bytes, m.seq),
         n.status = "ESTAB" /\ m.data # <<>> => n.recv_len + Len(m.data) <= BUFSIZE
  PROVE  LET a == AckOf(n, c, m)
         IN  /\ n.status # "ESTAB" =>
                  /\ SameBuffer(a.node, n) /\ a.node.status # "ESTAB"
                  /\ Up(n.status) => Up(a.node.status)
                  /\ \A b \in a.answers : b.from = NoConn
             /\ n.status = "ESTAB" =>
                  /\ a.node.status = "ESTAB"
                  /\ \/ /\ \A b \in a.answers : b.from = NoConn
                        /\ Ordered(a.node, bytes, a.node.ack)
                     \/ \E b : /\ a.answers = {b} /\ b.id = n.read_uuid /\ n.read_uuid[1] >= 0
                               /\ b.from = Conn(n) /\ b.data \in Bytes
                               /\ n.read_len = 0 => b.data = <<>>
                               /\ Ordered(a.node, bytes \o b.data, a.node.ack)
<1> DEFINE a == AckOf(n, c, m)
<1>1. a.node.status = CASE n.status = "FIN_WAIT_1" -> "FIN_WAIT_2"
                        [] n.status = "CLOSING" -> "TIMED_WAIT"
                        [] OTHER -> n.status
  BY AckOfFacts
<1>2. CASE n.status = "ESTAB" /\ m.data # <<>>
  <2> DEFINE s == Stored(n, m)
             b == ReadAnswer(n.read_uuid, s, n.read_len)
             x == Left(n, m)
  <2>1. a.node = x /\ a.answers = ReadAnswers(n, m)
    BY <1>2, ReceiveFacts DEF AckOf
  <2>2. /\ ~Satisfied(s) => Ordered(x, bytes, x.ack)
        /\ Satisfied(s) => Ordered(x, bytes \o Load(s.recv_buffer, s.start_r, n.read_len), x.ack)
    BY <1>2, LeftStream
  <2>3. s \in SockNode /\ SameSocket(s, n) /\ s.read_uuid = n.read_uuid
    BY StoredType
  <2>4. ReadAnswers(n, m) = IF Satisfied(s) THEN {b} ELSE {}
    BY DEF ReadAnswers
  <2>5. a.node.status = "ESTAB"
    BY <1>1, <1>2
  <2> HIDE DEF s, x, a
  <2>6. CASE ~Satisfied(s)
    BY <1>2, <2>1, <2>2, <2>4, <2>5, <2>6 DEF a
  <2>7. CASE Satisfied(s)
    <3>1. /\ b.id = n.read_uuid /\ b.from = Conn(s)
          /\ b.data = Load(s.recv_buffer, s.start_r, n.read_len)
      BY DEF ReadAnswer
    <3>2. n.read_uuid[1] >= 0
      BY <2>3, <2>7 DEF Satisfied
    <3>3. Conn(s) = Conn(n)
      BY <2>3 DEF SameSocket, Conn
    <3>4. s.recv_buffer \in Buffer /\ s.start_r \in Int /\ n.read_len \in Nat
      BY <2>3, NodeFields, IndexFacts DEF SockNode
    <3>5. b.data \in Bytes /\ (n.read_len = 0 => b.data = <<>>)
      BY <3>1, <3>4, LoadType, LoadNone
    <3> HIDE DEF b
    <3>6. a.answers = {b} /\ Ordered(a.node, bytes \o b.data, a.node.ack)
      BY <2>1, <2>2, <2>4, <2>7, <3>1
    <3> QED BY <1>2, <2>5, <3>1, <3>2, <3>3, <3>5, <3>6 DEF a
  <2> QED BY <2>6, <2>7
<1>3. CASE n.status = "ESTAB" /\ m.data = <<>>
  <2>1. a = Acked(n, m)
    BY <1>3 DEF AckOf
  <2> DEFINE x == AckedNode(n, m)
  <2>2. a.node = x
    BY <2>1, AckedFacts
  <2>3. Acked(n, m).answers = IF n.sending /\ n.write_uuid[1] > 0
                               THEN {Answer(n.write_uuid, MSS)} ELSE {}
    BY DEF Acked, AckedNode, Filled, Resumed, Grown
  <2>4. Answer(n.write_uuid, MSS).from = NoConn
    BY DEF Answer
  <2>5. SameBuffer(x, n) /\ x.ack = m.seq
    BY AckedSame
  <2>6. Ordered(x, bytes, x.ack)
    BY <1>3, <2>5, SameOrdered
  <2>7. a.node.status = "ESTAB"
    BY <1>1, <1>3
  <2> HIDE DEF a, x
  <2>8. \A b \in a.answers : b.from = NoConn
    BY <2>1, <2>3, <2>4
  <2> QED BY <1>3, <2>2, <2>6, <2>7, <2>8 DEF a
<1>4. CASE n.status # "ESTAB"
  <2>1. \E st, seq : a.node = Quiet(n, st, seq)
    BY <1>4 DEF AckOf, Quiet
  <2>2. \A b \in a.answers : b.from = NoConn
    BY <1>4 DEF AckOf, Answer
  <2>3. SameBuffer(a.node, n)
    <3>1. \A st, seq : SameBuffer(Quiet(n, st, seq), n)
      BY DEF Quiet, SockNode, NodeOf, SameBuffer
    <3> QED BY <2>1, <3>1
  <2> HIDE DEF a
  <2>4. a.node.status # "ESTAB" /\ (Up(n.status) => Up(a.node.status))
    <3>1. CASE n.status = "FIN_WAIT_1"
      BY <1>1, <3>1 DEF Up
    <3>2. CASE n.status = "CLOSING"
      BY <1>1, <3>2 DEF Up
    <3>3. CASE n.status \notin {"FIN_WAIT_1", "CLOSING"}
      BY <1>1, <1>4, <3>3
    <3> QED BY <3>1, <3>2, <3>3
  <2> QED BY <1>4, <2>2, <2>3, <2>4 DEF a
<1> QED BY <1>2, <1>3, <1>4

\* What the answers of an ACK give is what its node no longer holds.
LEMMA AckTakesStream ==
  ASSUME Typed, CallsOK, UsesOK, Distinct, ConnOK, SeqOK, RoomOK, ReadsOK, StreamOK,
         NEW c \in Conns, Ack(c), AckedAt(c, Head(toHost[c])) # 0
  PROVE  LET m == Head(toHost[c])
         IN  NodeStream(AckOf(Completed(c, m).sl[AckedAt(c, m)], c, m).node, readBytes')
<1> DEFINE m == Head(toHost[c])
           i == AckedAt(c, m)
           sl == Completed(c, m).sl
           n == sl[i]
           a == AckOf(n, c, m)
           x == a.node
           R == AckResult(c, m).answers
           bytes == readBytes[n.owner][c]
<1>1. Delivers(c) /\ m.flags = "ACK" /\ m \in ShortSegments
  BY AckCases, ArrivingFacts
<1>2. /\ n \in SockNode /\ Conn(n) = c
      /\ \/ \E k \in DOMAIN socklist : n = socklist[k]
         \/ HalfOpen(c) # 0 /\ n = NewSocket(c, m)
  BY AckTaken
<1>3. R = a.answers
  BY DEF AckResult
<1>4. /\ n.status = "ESTAB" => Ordered(n, bytes, m.seq)
      /\ n.status = "ESTAB" /\ m.data # <<>> => n.recv_len + Len(m.data) <= BUFSIZE
      /\ ~Up(n.status) => Empty(n) /\ NoneRead(readBytes, c)
  BY TakenStream
<1>5. n.owner \in Pids /\ n.read_uuid \in Ids
  BY <1>2, NodeFields DEF SockNode
<1>6. bytes \in Bytes
  BY <1>5 DEF Typed, AppsType
<1>7. Carries(m)
  <2>1. WireStream(c, peer[c], toHost[c], readBytes)
    BY DEF StreamOK, WiresStream
  <2>2. toHost[c] \in Seq(ShortSegments) /\ toHost[c] # <<>>
    BY <1>1 DEF Typed, NetType, Delivers
  <2>3. 1 \in DOMAIN toHost[c] /\ m = toHost[c][1]
    BY <2>2
  <2> HIDE DEF m
  <2> QED BY <2>1, <2>3 DEF WireStream
<1>8. NodeReads(n, calls)
  <2>1. HalfOpen(c) # 0 => NodeReads(NewSocket(c, m), calls)
    BY <1>1, NewSocketReads DEF NodeReads
  <2> HIDE DEF n
  <2> QED BY <1>2, <2>1 DEF ReadsOK, SockReads
<1>9. /\ (\A b \in R : NotRead(b, calls)) => GivesNone
      /\ \A b : R = {b} /\ Awaited(n) /\ b.id = n.read_uuid => Gives(n.owner, b.from, b.data)
  <2>1. (\A b \in R : NotRead(b, calls)) => GivesNone
    BY AckGives
  <2>2. ASSUME NEW b, R = {b}, Awaited(n), b.id = n.read_uuid
        PROVE  Gives(n.owner, b.from, b.data)
    <3> HIDE DEF n
    <3> QED BY <1>5, <1>8, <2>2, AckGivesRead
  <2> QED BY <2>1, <2>2
<1>10. x \in SockNode /\ SameSocket(x, n)
  BY <1>1, <1>2, AckOfFacts
<1>11. x.owner = n.owner /\ Conn(x) = c
  BY <1>2, <1>10 DEF SameSocket, Conn
<1> HIDE DEF n, R
<1>12. /\ n.status # "ESTAB" =>
            /\ SameBuffer(x, n) /\ x.status # "ESTAB"
            /\ Up(n.status) => Up(x.status)
            /\ \A b \in R : b.from = NoConn
       /\ n.status = "ESTAB" =>
            /\ x.status = "ESTAB"
            /\ \/ /\ \A b \in R : b.from = NoConn
                  /\ Ordered(x, bytes, x.ack)
               \/ \E b : /\ R = {b} /\ b.id = n.read_uuid /\ n.read_uuid[1] >= 0
                         /\ b.from = Conn(n) /\ b.data \in Bytes
                         /\ n.read_len = 0 => b.data = <<>>
                         /\ Ordered(x, bytes \o b.data, x.ack)
  <2> HIDE DEF m, bytes
  <2> QED BY <1>1, <1>2, <1>3, <1>4, <1>6, <1>7, AckOfStream
<1> HIDE DEF x, m, i, sl
<1>13. (\A b \in R : b.from = NoConn) => GivesNone
  BY <1>9 DEF NotRead
<1>14. GivesNone => /\ readBytes'[n.owner][c] = bytes
                    /\ NoneRead(readBytes, c) => NoneRead(readBytes', c)
  BY <1>5 DEF GivesNone, NoneRead
<1>15. CASE n.status # "ESTAB"
  <2>1. GivesNone /\ x.status # "ESTAB" /\ SameBuffer(x, n)
    BY <1>12, <1>13, <1>15
  <2>2. ASSUME ~Up(x.status) PROVE Empty(x) /\ NoneRead(readBytes', c)
    <3>1. Empty(n) /\ NoneRead(readBytes, c)
      BY <1>4, <1>12, <1>15, <2>2
    <3> QED BY <1>14, <2>1, <3>1, SameOrdered
  <2> QED BY <1>11, <2>1, <2>2 DEF NodeStream, x, a, n, sl, i, m
<1>16. ASSUME x.status = "ESTAB", Ordered(x, readBytes'[n.owner][c], x.ack)
       PROVE  NodeStream(x, readBytes')
  BY <1>11, <1>16 DEF NodeStream, Up
<1>17. CASE n.status = "ESTAB" /\ (\A b \in R : b.from = NoConn) /\ Ordered(x, bytes, x.ack)
  <2>1. NodeStream(x, readBytes')
    BY <1>12, <1>13, <1>14, <1>16, <1>17
  <2> QED BY <2>1 DEF x, a, n, sl, i, m
<1>18. ASSUME n.status = "ESTAB", NEW b, R = {b}, b.id = n.read_uuid, n.read_uuid[1] >= 0,
              b.from = Conn(n), b.data \in Bytes, n.read_len = 0 => b.data = <<>>,
              Ordered(x, bytes \o b.data, x.ack)
       PROVE  NodeStream(x, readBytes')
  <2>1. n.read_uuid[1] \in Int
    BY <1>5, IdFacts
  <2>2. CASE Awaited(n)
    <3>1. Gives(n.owner, c, b.data)
      BY <1>2, <1>9, <1>18, <2>2
    <3>2. readBytes'[n.owner][c] = bytes \o b.data
      BY <1>5, <3>1 DEF Gives
    <3> QED BY <1>12, <1>16, <1>18, <3>2
  <2>3. CASE ~Awaited(n)
    <3>1. n.read_uuid[1] = 0
      BY <1>18, <2>1, <2>3 DEF Awaited
    <3>2. b.data = <<>>
      BY <1>8, <1>18, <3>1 DEF NodeReads, Zeroed
    <3>3. bytes \o b.data = bytes
      BY <1>6, <3>2, BytesEmpty
    <3>4. \A p \in Pids : calls[p] # Idle => calls[p].id[1] # 0
      <4>1. \A p \in Pids : calls[p] # Idle => calls[p].id[1] = p
        BY DEF CallsOK
      <4>2. 0 \notin Pids
        BY PidsAssumption
      <4> QED BY <4>1, <4>2
    <3>5. \A p \in Pids : calls[p] # Idle /\ calls[p].id = b.id => FALSE
      BY <1>18, <3>1, <3>4
    <3>6. GivesNone
      BY <1>9, <1>18, <3>5 DEF NotRead
    <3>7. Ordered(x, readBytes'[n.owner][c], x.ack)
      BY <1>14, <1>18, <3>3, <3>6
    <3> QED BY <1>12, <1>16, <1>18, <3>7
  <2> QED BY <2>2, <2>3
<1>19. NodeStream(x, readBytes')
  BY <1>12, <1>15, <1>17, <1>18 DEF x, a, n, sl, i, m
<1> QED BY <1>19 DEF x, a, n, sl, i, m

\* An ACK that finds no half-open connection is of a remote without data, when
\* the handshake is under way.
LEMMA HalfLost ==
  ASSUME Typed, Distinct, Listened, ConnOK, SeqOK, NEW c \in Conns, Ack(c),
         NEW j \in DOMAIN backlog_list', Live(backlog_list'[j]), Conn(backlog_list'[j]) = c
  PROVE  PeerBytes[backlog_list'[j].dest] = 0
<1> DEFINE m == Head(toHost[c])
<1>1. /\ Delivers(c) /\ m.flags = "ACK" /\ backlog_list' = Completed(c, m).bl
      /\ m \in ShortSegments
  BY AckCases, ArrivingFacts
<1>2. toHost[c] # <<>>
  BY <1>1 DEF Delivers
<1>3. backlog_list \in Seq(HalfNode)
  BY DEF Typed, KernelType
<1> SUFFICES ASSUME PeerBytes[backlog_list'[j].dest] # 0 PROVE FALSE
  OBVIOUS
<1>4. PICK k \in DOMAIN backlog_list : backlog_list'[j] = backlog_list[k]
  BY AckHalf
<1> DEFINE e == backlog_list[k]
<1>5. e.dest = c[1] /\ e.srcport = c[2] /\ Live(e) /\ Conn(e) = c
  BY <1>4, ConnParts
<1>6. e.sockfd = HalfFd(c)
  <2>1. e.sockfd # -2 /\ PeerBytes[e.dest] # 0
    BY <1>4, <1>5 DEF Live
  <2> HIDE DEF e
  <2> QED BY <1>1, <1>2, <1>5, <2>1 DEF Listened, HalfFd, e
<1>7. Matches(e, c[1])
  BY <1>5 DEF Matches
<1>8. HalfOpen(c) # 0
  <2> DEFINE S == {i \in DOMAIN backlog_list : /\ backlog_list[i].sockfd = HalfFd(c)
                                               /\ Matches(backlog_list[i], c[1])}
  <2>1. S \in SUBSET DOMAIN backlog_list /\ HalfOpen(c) = Least(S)
    BY DEF HalfOpen, HalfFd
  <2>2. k \in S
    BY <1>6, <1>7
  <2> HIDE DEF S
  <2> QED BY <1>3, <2>1, <2>2, LeastPosition
<1>9. /\ HalfOpen(c) \in DOMAIN backlog_list
      /\ Live(backlog_list[HalfOpen(c)]) /\ backlog_list[HalfOpen(c)].dest = c[1]
  BY <1>8, EntryConn DEF Entry
<1>10. HalvesApart(backlog_list)
  BY DEF ConnOK, Apart
<1>11. backlog_list' = Take(backlog_list, HalfOpen(c))
  <2> HIDE DEF m
  <2> QED BY <1>1, <1>8, CompletedCases
<1>12. PICK l \in DOMAIN backlog_list :
         l # HalfOpen(c) /\ backlog_list'[j] = backlog_list[l]
  BY <1>9, <1>10, <1>11, TakeHalves
<1>13. Live(backlog_list[l]) /\ backlog_list[l].dest = c[1]
  BY <1>4, <1>5, <1>12
<1> QED BY <1>9, <1>10, <1>12, <1>13 DEF HalvesApart

LEMMA AckStream ==
  ASSUME Typed, CallsOK, UsesOK, Distinct, Listened, ConnOK, SeqOK, RoomOK, ReadsOK, StreamOK,
         NEW c \in Conns, Ack(c)
  PROVE  StreamOK'
<1> DEFINE m == Head(toHost[c])
<1>1. Delivers(c) /\ m.flags = "ACK" /\ peer' = peer
  BY AckCases
<1>2. Past(peer[c])
  BY <1>1, ArrivesClear
<1>3. /\ \A d \in Conns : d # c => toHost'[d] = toHost[d] /\ Unread(d)
      /\ toHost'[c] = Tail(toHost[c]) /\ toHost[c] \in Seq(ShortSegments) /\ toHost[c] # <<>>
  BY <1>1, ArrivingFacts, AckGives DEF Typed, NetType, Delivers
<1>4. WireStream(c, peer[c], toHost'[c], readBytes')
  <2>1. WireStream(c, peer[c], toHost[c], readBytes)
    BY DEF StreamOK, WiresStream
  <2> QED BY <1>2, <1>3, <2>1, TailStream
<1>5. ASSUME NEW j \in DOMAIN socklist'
      PROVE  LET x == socklist'[j]
             IN  \/ NodeStream(x, readBytes')
                 \/ /\ x.dest = NoRemote \/ Conn(x) # c
                    /\ \E k \in DOMAIN socklist : x = socklist[k]
  <2>1. \/ Conn(socklist'[j]) # c /\ \E k \in DOMAIN socklist : socklist'[j] = socklist[k]
        \/ /\ AckedAt(c, m) # 0
           /\ socklist'[j] = AckOf(Completed(c, m).sl[AckedAt(c, m)], c, m).node
    BY AckLeaves
  <2>2. AckedAt(c, m) # 0 =>
          NodeStream(AckOf(Completed(c, m).sl[AckedAt(c, m)], c, m).node, readBytes')
    BY AckTakesStream
  <2> HIDE DEF m
  <2> QED BY <2>1, <2>2
<1>6. ASSUME NEW j \in DOMAIN backlog_list', Live(backlog_list'[j]), Conn(backlog_list'[j]) = c
      PROVE  HalfStream(backlog_list'[j], peer[c], toHost'[c], readBytes')
  <2> DEFINE e == backlog_list'[j]
             t == peer[c]
             in == toHost[c]
             rb == readBytes
  <2>1. \E k \in DOMAIN backlog_list : e = backlog_list[k]
    BY AckHalf
  <2>2. HalfStream(e, t, in, rb)
    BY <1>6, <2>1 DEF StreamOK, HalvesStream
  <2>3. AckedAt(c, m) = 0
    BY <1>6, AckHalf
  <2>4. GivesNone
    <3>1. AckResult(c, m).answers = {}
      BY <2>3 DEF AckResult
    <3> QED BY <3>1, AckGives
  <2>5. NoneRead(rb, c) => NoneRead(readBytes', c)
    BY <2>4 DEF GivesNone, NoneRead
  <2>6. /\ in \in Seq(ShortSegments) /\ in # <<>> /\ Past(t) /\ PeerBytes[e.dest] = 0
        /\ Conn(e) = c /\ Live(e)
    BY <1>2, <1>3, <1>6, HalfLost
  <2> HIDE DEF e, t, in, rb, m
  <2>7. \A rb2 : NoneRead(rb2, Conn(e)) => HalfStream(e, t, Tail(in), rb2)
    BY <2>2, <2>6, TailHalf
  <2>8. NoneRead(rb, c)
    BY <2>2, <2>6 DEF HalfStream
  <2> QED BY <1>3, <2>5, <2>6, <2>7, <2>8 DEF e, t, in
<1>7. ASSUME NEW j \in DOMAIN backlog_list'
      PROVE  LET e == backlog_list'[j]
             IN  \/ Conn(e) = c /\ HalfStream(e, peer[c], toHost'[c], readBytes')
                 \/ ~Live(e) /\ Empty(e)
                 \/ /\ ~Live(e) \/ Conn(e) # c
                    /\ \E k \in DOMAIN backlog_list : e = backlog_list[k]
  <2>1. \E k \in DOMAIN backlog_list : backlog_list'[j] = backlog_list[k]
    BY AckHalf
  <2> QED BY <1>6, <2>1
<1> HIDE DEF m
<1> QED BY <1>1, <1>3, <1>4, <1>5, <1>7, HostStream

\* Every step keeps the streams.
LEMMA StepStream ==
  ASSUME Typed, CallsOK, UsesOK, Orderly, Listened, ConnOK, SeqOK, RoomOK, ReadsOK, StreamOK,
         [Next]_vars
  PROVE  StreamOK'
<1>1. Distinct
  BY DEF Orderly
<1>2. ASSUME NEW p \in Pids, Syscall(p) PROVE StreamOK'
  BY <1>2, SyscallStream
<1>3. ASSUME NEW c \in Conns, packetArrived(c) PROVE StreamOK'
  BY <1>1, <1>3, SynStream, SynAckStream, AckStream, FinStream DEF packetArrived
<1>4. ASSUME NEW c \in Conns, Remote(c) PROVE StreamOK'
  BY <1>1, <1>4, RemoteStreams
<1>5. CASE UNCHANGED vars
  <2>1. /\ socklist' = socklist /\ backlog_list' = backlog_list /\ readBytes' = readBytes
        /\ peer' = peer /\ toHost' = toHost
    BY <1>5 DEF vars, kernel, apps
  <2> QED BY <2>1 DEF StreamOK, NodesStream, HalvesStream, WiresStream
<1> QED BY <1>2, <1>3, <1>4, <1>5 DEF Next

LEMMA InitStream == Init => StreamOK
<1> SUFFICES ASSUME Init PROVE StreamOK
  OBVIOUS
<1>1. /\ socklist = <<>> /\ backlog_list = <<>>
      /\ readBytes = [p \in Pids |-> [c \in Conns |-> <<>>]]
      /\ \A c \in Conns : toHost[c] = <<>>
  BY DEF Init
<1>2. ASSUME NEW c \in Conns PROVE WireStream(c, peer[c], toHost[c], readBytes)
  <2>1. /\ peer[c].n = 0 /\ peer[c].st \in {"CLOSED", "DONE"}
        /\ Counted(peer[c])
    BY DEF Init, Closed, Past, Counted
  <2>2. NoneRead(readBytes, c)
    BY <1>1, <1>2 DEF NoneRead
  <2>3. \A k \in DOMAIN toHost[c] : Carries(toHost[c][k])
    BY <1>1, <1>2
  <2> QED BY <2>1, <2>2, <2>3 DEF WireStream
<1> QED BY <1>1, <1>2 DEF StreamOK, NodesStream, HalvesStream, WiresStream

\* The streams are what a connected socket promises.
LEMMA StreamInOrder ==
  ASSUME Typed, StreamOK
  PROVE  ReceivedInOrder
<1> SUFFICES ASSUME NEW i \in DOMAIN socklist, socklist[i].status = "ESTAB"
             PROVE  LET n == socklist[i]
                        all == readBytes[n.owner][Conn(n)]
                                 \o Load(n.recv_buffer, n.start_r, n.recv_len)
                    IN  /\ all = [k \in 1..Len(all) |-> k]
                        /\ n.ack = Len(all) + 1
  BY DEF ReceivedInOrder
<1> DEFINE n == socklist[i]
           all == readBytes[n.owner][Conn(n)] \o Load(n.recv_buffer, n.start_r, n.recv_len)
<1>1. Ordered(n, readBytes[n.owner][Conn(n)], n.ack)
  BY DEF StreamOK, NodesStream, NodeStream
<1>2. n \in SockNode
  BY ListElements
<1>3. n.ack \in Int
  BY <1>2, NodeFields DEF SockNode
<1> HIDE DEF n
<1>4. all = Count(n.ack - 1) /\ n.ack - 1 \in Nat
  BY <1>1, <1>3 DEF Ordered
<1>5. Len(all) = n.ack - 1
  BY <1>4, CountType
<1> HIDE DEF all
<1>6. all = [k \in 1..Len(all) |-> k] /\ n.ack = Len(all) + 1
  BY <1>3, <1>4, <1>5 DEF Count
<1> QED BY <1>6 DEF n, all

\* What read has returned to the owner of a connected socket and what its ring
\* buffer still holds are together the stream of the remote from its first
\* byte, and exactly what the socket acknowledges: no byte is lost, repeated or
\* moved, wherever the ring wraps, whether read finds its bytes buffered or an
\* arrival answers the blocked call, and also for the data that may follow the
\* handshake's last acknowledgement, whose segment turns the half-open entry
\* into the socket.  Of processes that keep to the Contract.
THEOREM TcpReceivedInOrder == Spec /\ []Contract => []ReceivedInOrder
<1> DEFINE Inv == /\ Typed /\ CallsOK /\ UsesOK /\ ConnOK /\ SeqOK /\ RoomOK
                  /\ ReadsOK /\ StreamOK
<1>1. Init => Inv
  BY InitTyped, InitCalls, InitUses, InitConn, InitSeq, InitRoom, InitReads, InitStream
<1>2. Inv /\ Contract /\ [Next]_vars => Inv'
  <2>1. Contract => Orderly /\ Listened
    BY DEF Contract
  <2> QED BY <2>1, NextTyped, NextCalls, NextUses, NextConn, StepSeq, StepRoom, StepReads,
             StepStream
<1>3. Inv => ReceivedInOrder
  BY StreamInOrder
<1> QED BY <1>1, <1>2, <1>3, PTL DEF Spec

=============================================================================

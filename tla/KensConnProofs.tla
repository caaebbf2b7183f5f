--------------------------- MODULE KensConnProofs ---------------------------
(***************************************************************************)
(* The connections of a host of KENS and the handshake that opens them,    *)
(* for processes that use their sockets as Orderly says.                   *)
(***************************************************************************)
EXTENDS KensTcpProofs

-----------------------------------------------------------------------------
(* The invariant: what the nodes, the half-open connections and the two    *)
(* channels of a connection have to do with each other.                    *)

Up(st) == st \notin {"LISTENING", "CLOSED", "SYN_SENT"}
Past(t) == t.st \notin {"CLOSED", "SYN_SENT"}
Live(e) == e.sockfd # -2

Dialled(sl, c) == \E i \in DOMAIN sl : Conn(sl[i]) = c /\ sl[i].status = "SYN_SENT"

NodeOK(n, pr) ==
  /\ n.dest # NoRemote => /\ Conn(n) \in Conns /\ n.status \notin {"LISTENING", "CLOSED"}
                          /\ n.status = "SYN_SENT" => n.dest \in Servers
                          /\ Up(n.status) => Past(pr[Conn(n)])
  /\ n.dest = NoRemote => ~Up(n.status) /\ n.srcport \notin Ephemeral
  /\ n.backlog > 0 => n.srcport # 0
HalfOK(e, pr, out) ==
  Live(e) => /\ Conn(e) \in Incoming /\ e.srcport \notin Ephemeral
             /\ pr[Conn(e)].st # "CLOSED"
             /\ pr[Conn(e)].st = "SYN_SENT" => out[Conn(e)] # <<>>

NodesApart(sl) == \A i, j \in DOMAIN sl :
  sl[i].dest = sl[j].dest /\ sl[i].dest # NoRemote => i = j
HalvesApart(bl) == \A i, j \in DOMAIN bl :
  Live(bl[i]) /\ Live(bl[j]) /\ bl[i].dest = bl[j].dest => i = j
ListsApart(sl, bl) == \A i \in DOMAIN sl : \A j \in DOMAIN bl :
  Live(bl[j]) => sl[i].dest # bl[j].dest
PortsApart(sl) == \A i, j \in DOMAIN sl :
  sl[i].srcport = sl[j].srcport /\ sl[i].srcport \in Ephemeral => i = j

Alone_(in, out) == out = <<>> /\ Len(in) = 1
WireOK(c, in, out, t, sl) ==
  /\ \A k \in DOMAIN in :
       /\ in[k].flags = "SYN" => c \in Incoming /\ t.st = "SYN_SENT" /\ Alone_(in, out)
       /\ in[k].flags = "SYNACK" => /\ c[1] \in Servers /\ t.st = "SYN_RCVD"
                                    /\ Alone_(in, out) /\ Dialled(sl, c)
       /\ in[k].flags \in {"ACK", "FIN"} => Past(t)
  /\ t.st = "CLOSED" /\ out # <<>> => Dialled(sl, c) /\ Len(out) = 1 /\ out[1].flags = "SYN"
  /\ t.st = "SYN_SENT" => c \in Incoming /\ \A k \in DOMAIN out : out[k].flags = "SYNACK"

NodesOK == \A i \in DOMAIN socklist : NodeOK(socklist[i], peer)
HalvesOK == \A i \in DOMAIN backlog_list : HalfOK(backlog_list[i], peer, toPeer)
Apart == /\ NodesApart(socklist) /\ HalvesApart(backlog_list)
         /\ ListsApart(socklist, backlog_list) /\ PortsApart(socklist)
WiresOK == \A c \in Conns : WireOK(c, toHost[c], toPeer[c], peer[c], socklist)
ConnOK == NodesOK /\ HalvesOK /\ Apart /\ WiresOK

-----------------------------------------------------------------------------
(* What the invariant gives.                                               *)

\* A connection is told by its remote if the remote is a client, and has a port
\* that connect draws if it is a server.
LEMMA RemoteConn ==
  ASSUME Distinct, NEW c \in Conns
  PROVE  /\ c \in Incoming \/ (c[1] \in Servers /\ c[2] \in Ephemeral)
         /\ c \in Incoming => c[1] \notin Servers
         /\ \A d \in Incoming : d[1] = c[1] => d = c
         /\ c[1] # NoRemote
<1>1. c \in Incoming \/ (c[1] \in Servers /\ c[2] \in Ephemeral)
  BY DEF Conns
<1>2. c \in Incoming => c[1] \notin Servers
  BY DEF Distinct
<1>3. ASSUME NEW d \in Incoming, d[1] = c[1] PROVE d = c
  BY <1>1, <1>3 DEF Distinct
<1>4. c[1] # NoRemote
  BY ConnFacts, EndpointsAssumption
<1> QED BY <1>1, <1>2, <1>3, <1>4

LEMMA ConnParts == \A n : Conn(n)[1] = n.dest /\ Conn(n)[2] = n.srcport
BY DEF Conn

\* The channels of a connection: what arrives is an acknowledgement or a FIN.
Clear(in) == \A k \in DOMAIN in : in[k].flags \in {"ACK", "FIN"}

LEMMA WirePast ==
  ASSUME NEW c, NEW in, NEW out, NEW t, NEW sl, Past(t), Clear(in)
  PROVE  WireOK(c, in, out, t, sl)
BY DEF WireOK, Past, Clear

LEMMA WireDialled ==
  ASSUME NEW c, NEW in, NEW out, NEW t, NEW sl, NEW sl2, WireOK(c, in, out, t, sl),
         Dialled(sl, c) => Dialled(sl2, c)
  PROVE  WireOK(c, in, out, t, sl2)
BY DEF WireOK

\* The channels of a socket past the handshake.
LEMMA UpClear ==
  ASSUME Typed, ConnOK, NEW i \in DOMAIN socklist, Up(socklist[i].status)
  PROVE  LET d == Conn(socklist[i])
         IN  d \in Conns /\ Past(peer[d]) /\ Clear(toHost[d])
<1> DEFINE n == socklist[i]
           d == Conn(n)
<1>1. n.dest # NoRemote /\ d \in Conns /\ Past(peer[d])
  BY DEF ConnOK, NodesOK, NodeOK
<1>2. ~Dialled(socklist, d)
  <2> SUFFICES ASSUME NEW j \in DOMAIN socklist, Conn(socklist[j]) = d,
                      socklist[j].status = "SYN_SENT"
               PROVE  FALSE
    BY DEF Dialled
  <2>1. socklist[j].dest = n.dest
    BY DEF Conn
  <2>2. i = j
    BY <1>1, <2>1 DEF ConnOK, Apart, NodesApart
  <2> QED BY <2>2 DEF Up
<1>3. WireOK(d, toHost[d], toPeer[d], peer[d], socklist)
  BY <1>1 DEF ConnOK, WiresOK
<1>4. ASSUME NEW k \in DOMAIN toHost[d] PROVE toHost[d][k].flags \in {"ACK", "FIN"}
  <2>1. toHost[d][k].flags \in {"SYN", "SYNACK", "ACK", "FIN"}
    <3>1. toHost[d] \in Seq(ShortSegments)
      BY <1>1 DEF Typed, NetType
    <3>2. toHost[d][k] \in ShortSegments
      BY <3>1
    <3> QED BY <3>2, SegmentFields
  <2> QED BY <1>1, <1>2, <1>3, <2>1 DEF WireOK, Past
<1> QED BY <1>1, <1>4 DEF Clear

\* An acknowledgement or a FIN arrives on channels that have no other kind.
LEMMA ArrivesClear ==
  ASSUME Typed, ConnOK, NEW c \in Conns, Delivers(c), Head(toHost[c]).flags \in {"ACK", "FIN"}
  PROVE  Past(peer[c]) /\ Clear(toHost[c]) /\ Clear(toHost'[c])
<1>1. toHost[c] \in Seq(ShortSegments) /\ toHost[c] # <<>>
  BY DEF Typed, NetType, Delivers
<1>2. 1 \in DOMAIN toHost[c] /\ toHost[c][1].flags \in {"ACK", "FIN"}
  BY <1>1
<1>3. WireOK(c, toHost[c], toPeer[c], peer[c], socklist)
  BY DEF ConnOK, WiresOK
<1>4. Past(peer[c])
  BY <1>2, <1>3 DEF WireOK
<1>5. ASSUME NEW k \in DOMAIN toHost[c] PROVE toHost[c][k].flags \in {"ACK", "FIN"}
  <2>1. toHost[c][k].flags \in {"SYN", "SYNACK", "ACK", "FIN"}
    <3>1. toHost[c][k] \in ShortSegments
      BY <1>1
    <3> QED BY <3>1, SegmentFields
  <2>2. toHost[c][k].flags = "SYN" => peer[c].st = "SYN_SENT"
    BY <1>3 DEF WireOK
  <2>3. toHost[c][k].flags = "SYNACK" => Len(toHost[c]) = 1
    BY <1>3 DEF WireOK, Alone_
  <2>4. Len(toHost[c]) = 1 => k = 1
    BY <1>1
  <2> QED BY <1>2, <1>4, <2>1, <2>2, <2>3, <2>4 DEF Past
<1>6. toHost'[c] = Tail(toHost[c])
  BY ArrivingFacts
<1>7. ASSUME NEW k \in DOMAIN toHost'[c] PROVE toHost'[c][k].flags \in {"ACK", "FIN"}
  <2>1. k + 1 \in DOMAIN toHost[c] /\ toHost'[c][k] = toHost[c][k+1]
    BY <1>1, <1>6, TailElements
  <2> QED BY <1>5, <2>1
<1> QED BY <1>4, <1>5, <1>7 DEF Clear

-----------------------------------------------------------------------------
(* Runs of segments.                                                       *)

\* Where the k-th segment of s starts, if the first one starts at a: segments
\* follow each other if each starts there, and they run to b if the next one
\* would start at b.
Start(a, s, k) == IF k = 1 THEN a ELSE s[k-1].seq + SeqLen(s[k-1])
Chain(a, s) == \A k \in DOMAIN s : s[k].seq = Start(a, s, k)
Run(a, s, b) == Chain(a, s) /\ b = Start(a, s, Len(s) + 1)

LEMMA SeqLenType ==
  ASSUME NEW m \in Segments
  PROVE  /\ SeqLen(m) \in Nat /\ m.seq \in Int
         /\ m.flags = "ACK" => SeqLen(m) = Len(m.data)
         /\ m.flags \in {"SYN", "SYNACK", "FIN"} => SeqLen(m) = Len(m.data) + 1
BY DEF Segments, SeqLen, Bytes

LEMMA RunEmpty == \A a : Run(a, <<>>, a)
BY DEF Run, Chain, Start

LEMMA RunOne ==
  ASSUME NEW m \in Segments
  PROVE  Run(m.seq, <<m>>, m.seq + SeqLen(m))
BY DEF Run, Chain, Start

\* A run continues another one.
LEMMA RunAppend ==
  ASSUME NEW a, NEW b, NEW d, NEW s \in Seq(Segments), NEW u \in Seq(Segments),
         Run(a, s, b), Run(b, u, d)
  PROVE  Run(a, s \o u, d)
<1> DEFINE w == s \o u
<1>1. /\ Len(s) \in Nat /\ Len(u) \in Nat /\ Len(w) = Len(s) + Len(u)
      /\ DOMAIN s = 1..Len(s) /\ DOMAIN u = 1..Len(u) /\ DOMAIN w = 1..Len(s) + Len(u)
      /\ \A k \in 1..Len(s) : w[k] = s[k]
      /\ \A j \in 1..Len(u) : w[Len(s)+j] = u[j]
  OBVIOUS
<1> HIDE DEF w
<1>2. \A k \in 1..Len(s)+1 : Start(a, w, k) = Start(a, s, k)
  BY <1>1 DEF Start
<1>3. ASSUME NEW j \in 1..Len(u)+1 PROVE Start(a, w, Len(s)+j) = Start(b, u, j)
  <2>1. CASE j = 1
    BY <1>1, <1>2, <2>1 DEF Run, Start
  <2>2. CASE j # 1
    <3>1. j - 1 \in 1..Len(u) /\ Len(s) + j - 1 = Len(s) + (j-1) /\ Len(s) + j # 1
      BY <1>1, <2>2
    <3>2. w[Len(s)+j-1] = u[j-1]
      BY <1>1, <3>1
    <3> QED BY <2>2, <3>1, <3>2 DEF Start
  <2> QED BY <2>1, <2>2
<1>4. ASSUME NEW k \in DOMAIN w PROVE w[k].seq = Start(a, w, k)
  <2>1. CASE k \in 1..Len(s)
    BY <1>1, <1>2, <2>1 DEF Run, Chain
  <2>2. CASE k \notin 1..Len(s)
    <3>1. k - Len(s) \in 1..Len(u) /\ k = Len(s) + (k - Len(s))
      BY <1>1, <2>2
    <3>2. w[k] = u[k - Len(s)] /\ Start(a, w, k) = Start(b, u, k - Len(s))
      BY <1>1, <1>3, <3>1
    <3> QED BY <1>1, <3>1, <3>2 DEF Run, Chain
  <2> QED BY <2>1, <2>2
<1>5. d = Start(a, w, Len(w) + 1)
  <2>1. Len(u) + 1 \in 1..Len(u)+1 /\ Len(w) + 1 = Len(s) + (Len(u) + 1)
    BY <1>1
  <2> QED BY <1>3, <2>1 DEF Run
<1> QED BY <1>4, <1>5 DEF Run, Chain, w

\* What is left of a run when its first segment is taken.
LEMMA RunTail ==
  ASSUME NEW a, NEW b, NEW s \in Seq(Segments), s # <<>>, Run(a, s, b)
  PROVE  Head(s).seq = a /\ Run(a + SeqLen(Head(s)), Tail(s), b)
<1>1. /\ Len(s) \in Nat \ {0} /\ DOMAIN s = 1..Len(s) /\ Head(s) = s[1]
      /\ Len(Tail(s)) = Len(s) - 1 /\ DOMAIN Tail(s) = 1..Len(s)-1
      /\ \A k \in 1..Len(s)-1 : Tail(s)[k] = s[k+1]
  OBVIOUS
<1>2. Head(s).seq = a
  <2>1. 1 \in DOMAIN s
    BY <1>1
  <2>2. s[1].seq = Start(a, s, 1)
    BY <2>1 DEF Run, Chain
  <2> QED BY <1>1, <2>2 DEF Start
<1> DEFINE f == a + SeqLen(Head(s))
<1>3. ASSUME NEW k \in 1..Len(s) PROVE Start(f, Tail(s), k) = Start(a, s, k+1)
  <2>1. CASE k = 1
    BY <1>1, <1>2, <2>1 DEF Start
  <2>2. CASE k # 1
    <3>1. k - 1 \in 1..Len(s)-1 /\ k + 1 # 1 /\ k + 1 - 1 = k /\ k - 1 + 1 = k
      BY <1>1, <2>2
    <3>2. Tail(s)[k-1] = s[k]
      BY <1>1, <3>1
    <3> QED BY <2>2, <3>1, <3>2 DEF Start
  <2> QED BY <2>1, <2>2
<1>4. ASSUME NEW k \in DOMAIN Tail(s) PROVE Tail(s)[k].seq = Start(f, Tail(s), k)
  <2>1. k \in 1..Len(s) /\ k+1 \in DOMAIN s /\ Tail(s)[k] = s[k+1]
    BY <1>1
  <2> QED BY <1>3, <2>1 DEF Run, Chain
<1>5. b = Start(f, Tail(s), Len(Tail(s)) + 1)
  <2>1. Len(s) \in 1..Len(s) /\ Len(Tail(s)) + 1 = Len(s)
    BY <1>1
  <2> QED BY <1>3, <2>1 DEF Run
<1> QED BY <1>2, <1>4, <1>5 DEF Run, Chain

LEMMA ChainTail ==
  ASSUME NEW a, NEW s \in Seq(Segments), s # <<>>, Chain(a, s)
  PROVE  Head(s).seq = a /\ Chain(a + SeqLen(Head(s)), Tail(s))
<1>1. Run(a, s, Start(a, s, Len(s) + 1))
  BY DEF Run
<1> QED BY <1>1, RunTail DEF Run

\* The segments that send_segments sends run to the number the node goes on with.
LEMMA SentRun ==
  ASSUME NEW O, NEW D, NEW n \in NodeOf(O, D), NEW seg \in Nat
  PROVE  LET s == send_segments(n, seg)
         IN  /\ Run(n.seq, s.out, s.node.seq)
             /\ \A k \in DOMAIN s.out : s.out[k].flags = "ACK"
<1> DEFINE room == BUFSIZE - n.send_len
           len == IF room \in 0..MSS THEN room ELSE MSS
           ends(j) == \/ n.send_len >= BUFSIZE
                      \/ n.send_len = 0
                      \/ (n.end_s + j*len) % BUFSIZE = n.start_s
           stops == {j \in 1..seg : j = seg \/ ends(j)}
           k == IF n.send_len = BUFSIZE THEN 0 ELSE Least(stops)
           e == (n.end_s + k*len) % BUFSIZE
           q == n.seq + k*len
           b == n.sending /\ ~(k > 0 /\ n.send_len >= BUFSIZE)
           o(j) == Segment("ACK", n.seq + (j-1)*len, n.ack, Window(n),
                           Load(n.send_buffer, n.end_s + (j-1)*len, len))
<1>1. len \in Nat
  BY NodeFields, IndexFacts
<1>2. k \in Nat
  <2>1. stops \in SUBSET Nat
    OBVIOUS
  <2> HIDE DEF stops
  <2>2. Least(stops) = 0 \/ Least(stops) \in stops
    BY ONLY <2>1, LeastIn
  <2>3. \A j \in stops : j \in Nat
    BY <2>1
  <2> QED BY <2>2, <2>3
<1>3. send_segments(n, seg) = [node |-> [n EXCEPT !.end_s = e, !.seq = q, !.sending = b],
                               out |-> [j \in 1..k |-> o(j)]]
  BY DEF send_segments
<1> HIDE DEF len, k, e, b
<1>4. /\ send_segments(n, seg).out = [j \in 1..k |-> o(j)]
      /\ send_segments(n, seg).node.seq = q
  <2> HIDE DEF o, q
  <2>1. /\ send_segments(n, seg).out = [j \in 1..k |-> o(j)]
        /\ send_segments(n, seg).node = Sent(n, e, q, b)
    BY <1>3 DEF Sent
  <2>2. Sent(n, e, q, b).seq = q
    BY DEF Sent, NodeOf
  <2> QED BY <2>1, <2>2
<1>5. n.seq \in Int /\ n.end_s \in Int /\ n.send_buffer \in Buffer
  BY NodeFields, IndexFacts
<1>6. ASSUME NEW j \in 1..k
      PROVE  /\ o(j).flags = "ACK" /\ o(j).seq = n.seq + (j-1)*len
             /\ SeqLen(o(j)) = len
  <2>1. n.end_s + (j-1)*len \in Int
    BY <1>1, <1>2, <1>5
  <2>2. Len(Load(n.send_buffer, n.end_s + (j-1)*len, len)) = len
    BY <1>1, <1>5, <2>1, LoadType
  <2> QED BY <1>1, <2>2 DEF Segment, SeqLen
<1> DEFINE s == [j \in 1..k |-> o(j)]
<1>7. /\ DOMAIN s = 1..k /\ Len(s) = k
      /\ \A j \in 1..k : /\ s[j].flags = "ACK" /\ s[j].seq = n.seq + (j-1)*len
                         /\ SeqLen(s[j]) = len
  BY <1>2, <1>6
<1> HIDE DEF s
<1>8. ASSUME NEW j \in 1..k+1 PROVE Start(n.seq, s, j) = n.seq + (j-1)*len
  <2>1. CASE j = 1
    BY <1>1, <1>5, <2>1 DEF Start
  <2>2. CASE j # 1
    <3>1. j-1 \in 1..k
      BY <1>2, <2>2
    <3>2. Start(n.seq, s, j) = n.seq + ((j-1)-1)*len + len
      BY <1>7, <2>2, <3>1 DEF Start
    <3>3. ((j-1)-1)*len + len = (j-1)*len
      BY <1>1, <3>1
    <3>4. ((j-1)-1)*len \in Int /\ (j-1)*len \in Int
      BY <1>1, <3>1
    <3> QED BY <1>1, <1>5, <3>2, <3>3, <3>4
  <2> QED BY <2>1, <2>2
<1>9. Chain(n.seq, s)
  BY <1>2, <1>7, <1>8 DEF Chain
<1>10. q = Start(n.seq, s, Len(s) + 1)
  <2>1. k + 1 \in 1..k+1 /\ (k + 1) - 1 = k
    BY <1>2
  <2> QED BY <1>7, <1>8, <2>1
<1> HIDE DEF q
<1>11. Run(n.seq, s, q)
  BY <1>9, <1>10 DEF Run
<1> QED BY <1>4, <1>7, <1>11 DEF s

\* The number a node goes on with: its FIN counts, though seq does not yet.
Talks(st) == st \in {"ESTAB", "CLOSE_WAIT"}
NextSeq(n) == IF n.status \in {"FIN_WAIT_1", "FIN_WAIT_2", "LAST_ACK"} THEN n.seq + 1 ELSE n.seq
HasFin(out) == \E k \in DOMAIN out : out[k].flags = "FIN"

\* Node n, which posts out, becomes m.  Only a node that has not sent its FIN
\* sends what has a length, and the FIN comes last.
Sends(m, n, out) ==
  /\ Up(m.status) => Up(n.status) /\ Run(NextSeq(n), out, NextSeq(m))
  /\ \A k \in DOMAIN out : /\ out[k].flags \in {"ACK", "FIN"}
                           /\ SeqLen(out[k]) # 0 => Talks(n.status)
                           /\ out[k].flags = "FIN" => k = Len(out) /\ out[k].data = <<>>
  /\ Talks(m.status) => Talks(n.status) /\ ~HasFin(out)

LEMMA SameSends ==
  ASSUME NEW m, NEW n, m.status = n.status, m.seq = n.seq
  PROVE  Sends(m, n, <<>>)
<1>1. NextSeq(m) = NextSeq(n)
  BY DEF NextSeq
<1>2. Run(NextSeq(n), <<>>, NextSeq(m))
  BY <1>1, RunEmpty
<1> QED BY <1>2 DEF Sends, HasFin

\* A node that sends data.
LEMMA SentSends ==
  ASSUME NEW m, NEW n, NEW out, n.status = "ESTAB", m.status = "ESTAB",
         Run(n.seq, out, m.seq), \A k \in DOMAIN out : out[k].flags = "ACK"
  PROVE  Sends(m, n, out)
BY DEF Sends, NextSeq, Talks, HasFin, Up

\* The number behind the last byte a node has room for.  Node n, which posts
\* out, becomes m: it has room for no less, and that is what it tells.
Edge(n) == n.ack + BUFSIZE - n.recv_len
Widens(m, n, out) ==
  /\ m.recv_len <= n.recv_len
  /\ ~Up(m.status) => ~Up(n.status)
  /\ m.status = "ESTAB" =>
       /\ n.status = "ESTAB" /\ m.ack = n.ack
       /\ \A k \in DOMAIN out : out[k].flags = "ACK" => out[k].ack + out[k].win <= Edge(m)

LEMMA SameWidens ==
  ASSUME NEW m, NEW n, m.status = n.status, m.ack = n.ack, m.recv_len <= n.recv_len
  PROVE  Widens(m, n, <<>>)
BY DEF Widens

\* What send_segments tells is the room of the node.
LEMMA SentTells ==
  ASSUME NEW O, NEW D, NEW n \in NodeOf(O, D), NEW seg
  PROVE  LET s == send_segments(n, seg)
         IN  /\ \A k \in DOMAIN s.out : s.out[k].ack + s.out[k].win = Edge(n)
             /\ s.node.ack = n.ack /\ s.node.recv_len = n.recv_len
<1> DEFINE room == BUFSIZE - n.send_len
           len == IF room \in 0..MSS THEN room ELSE MSS
           ends(j) == \/ n.send_len >= BUFSIZE
                      \/ n.send_len = 0
                      \/ (n.end_s + j*len) % BUFSIZE = n.start_s
           stops == {j \in 1..seg : j = seg \/ ends(j)}
           k == IF n.send_len = BUFSIZE THEN 0 ELSE Least(stops)
           e == (n.end_s + k*len) % BUFSIZE
           q == n.seq + k*len
           b == n.sending /\ ~(k > 0 /\ n.send_len >= BUFSIZE)
           o(j) == Segment("ACK", n.seq + (j-1)*len, n.ack, Window(n),
                           Load(n.send_buffer, n.end_s + (j-1)*len, len))
<1>1. send_segments(n, seg) = [node |-> [n EXCEPT !.end_s = e, !.seq = q, !.sending = b],
                               out |-> [j \in 1..k |-> o(j)]]
  BY DEF send_segments
<1>2. n.ack \in Int /\ n.recv_len \in Nat /\ BUFSIZE \in Nat
  BY NodeFields, IndexFacts
<1>3. \A j : o(j).ack = n.ack /\ o(j).win = Window(n)
  BY DEF Segment
<1>4. n.ack + Window(n) = Edge(n)
  BY <1>2 DEF Window, Edge
<1> HIDE DEF k, e, q, b, o
<1>5. /\ send_segments(n, seg).out = [j \in 1..k |-> o(j)]
      /\ send_segments(n, seg).node = Sent(n, e, q, b)
  BY <1>1 DEF Sent
<1>6. Sent(n, e, q, b).ack = n.ack /\ Sent(n, e, q, b).recv_len = n.recv_len
  BY DEF Sent, NodeOf
<1> QED BY <1>3, <1>4, <1>5, <1>6

-----------------------------------------------------------------------------
(* The calls.                                                              *)

\* What a call does to a node: nothing to the connection, bind or listen on a
\* socket without one, or connect.
Keeps(m, n) == /\ m.dest = n.dest /\ m.srcport = n.srcport /\ m.backlog = n.backlog
               /\ m.status = n.status \/ (Up(n.status) /\ Up(m.status))
Plain(m, n) == /\ n.dest = NoRemote /\ m.dest = NoRemote /\ ~Up(m.status)
               /\ m.srcport \notin Ephemeral /\ m.srcport # 0 /\ m.recv_len = n.recv_len
Dials(m, n) ==
  /\ n.dest = NoRemote /\ m.dest \in Servers /\ m.srcport \in allocate_port(socklist)
  /\ m.status = "SYN_SENT" /\ m.backlog = n.backlog /\ m.srcport # 0
  /\ m.recv_len = n.recv_len
  /\ \A q \in Ephemeral : peer[<<m.dest, q>>] = Closed
  /\ \A j \in DOMAIN socklist : socklist[j].dest # m.dest
SynSegment == Segment("SYN", 0, 0, BUFSIZE, <<>>)

CallMoves(p) ==
  \/ socklist' = socklist /\ toPeer' = toPeer
  \/ CreatesOne(p) /\ toPeer' = toPeer
  \/ \E i \in DOMAIN socklist : \E m \in SockNode :
       /\ socklist' = [socklist EXCEPT ![i] = m]
       /\ \/ /\ Keeps(m, socklist[i])
             /\ \/ /\ toPeer' = toPeer /\ Sends(m, socklist[i], <<>>)
                   /\ Widens(m, socklist[i], <<>>)
                \/ /\ Up(socklist[i].status)
                   /\ \E out \in Seq(Segments) : /\ Post(Conn(socklist[i]), out)
                                                 /\ Sends(m, socklist[i], out)
                                                 /\ Widens(m, socklist[i], out)
          \/ Plain(m, socklist[i]) /\ toPeer' = toPeer
          \/ Dials(m, socklist[i]) /\ Post(Conn(m), <<SynSegment>>)

LEMMA SameKeeps ==
  ASSUME NEW m, NEW n, SameSocket(m, n), m.status = n.status
  PROVE  Keeps(m, n)
BY DEF Keeps, SameSocket

LEMMA OrderlyNode ==
  ASSUME Typed, Orderly, NEW p \in Pids, Runs(p), NEW op, Enter(p, op), op # "socket",
         Node(p) # 0
  PROVE  LET n == socklist[Node(p)]
             k == Next_(p)
         IN  /\ op = "bind" => Unused(n) /\ k.port \notin Ephemeral /\ k.port # 0
             /\ op = "listen" => n.dest = NoRemote /\ n.srcport # 0
             /\ op = "connect" =>
                  /\ Unused(n) /\ k.to \in Servers
                  /\ \A q \in Ephemeral : peer[<<k.to, q>>] = Closed
                  /\ \A i \in DOMAIN socklist : socklist[i].dest # k.to
<1>1. On(p) # -1 /\ calls[p] = Idle /\ prog[p] # <<>> /\ Next_(p).op = op
  BY DEF Enter, Runs
<1> QED BY <1>1, Zenon DEF Orderly

LEMMA BindMoves ==
  ASSUME Typed, Orderly, ConnOK, NEW p \in Pids, Bind(p)
  PROVE  CallMoves(p)
<1>1. toPeer' = toPeer /\ Enter(p, "bind") /\ Runs(p)
  BY DEF Bind, Enter
<1>2. CASE socklist' = socklist
  BY <1>1, <1>2 DEF CallMoves
<1>3. CASE /\ Node(p) # 0 /\ Bound(p) \in SockNode
           /\ Bound(p).srcport = Next_(p).port
           /\ Bound(p).status = socklist[Node(p)].status
           /\ Bound(p).dest = socklist[Node(p)].dest
           /\ socklist' = [socklist EXCEPT ![Node(p)] = Bound(p)]
  <2>1. Node(p) \in DOMAIN socklist /\ socklist[Node(p)] \in SockNode
    BY <1>3, NodeLookup
  <2>5. Bound(p).recv_len = socklist[Node(p)].recv_len
    BY <2>1 DEF Bound, SockNode, NodeOf
  <2>2. /\ socklist[Node(p)].dest = NoRemote
        /\ Next_(p).port \notin Ephemeral /\ Next_(p).port # 0
    BY <1>1, <1>3, OrderlyNode DEF Unused
  <2>3. ~Up(socklist[Node(p)].status)
    BY <2>1, <2>2 DEF ConnOK, NodesOK, NodeOK
  <2>4. Plain(Bound(p), socklist[Node(p)])
    BY <1>3, <2>2, <2>3, <2>5 DEF Plain
  <2> QED BY <1>1, <1>3, <2>1, <2>4 DEF CallMoves
<1> QED BY <1>2, <1>3, BindCases

LEMMA ListenMoves ==
  ASSUME Typed, Orderly, ConnOK, NEW p \in Pids, Listen(p)
  PROVE  CallMoves(p)
<1>1. toPeer' = toPeer /\ Enter(p, "listen") /\ Runs(p) /\ Node(p) # 0
  BY DEF Listen, Enter
<1>2. /\ Listening(p) \in SockNode
      /\ Listening(p).status = "LISTENING"
      /\ Listening(p).srcport = socklist[Node(p)].srcport
      /\ Listening(p).dest = socklist[Node(p)].dest
      /\ socklist' = [socklist EXCEPT ![Node(p)] = Listening(p)]
  BY ListenCases
<1>3. Node(p) \in DOMAIN socklist /\ socklist[Node(p)] \in SockNode
  BY <1>1, NodeLookup
<1>7. Listening(p).recv_len = socklist[Node(p)].recv_len
  BY <1>3 DEF Listening, SockNode, NodeOf
<1>4. socklist[Node(p)].dest = NoRemote /\ socklist[Node(p)].srcport # 0
  BY <1>1, OrderlyNode
<1>5. socklist[Node(p)].srcport \notin Ephemeral
  BY <1>3, <1>4 DEF ConnOK, NodesOK, NodeOK
<1>6. Plain(Listening(p), socklist[Node(p)])
  BY <1>2, <1>4, <1>5, <1>7 DEF Plain, Up
<1> QED BY <1>1, <1>2, <1>3, <1>6 DEF CallMoves

LEMMA ConnectMoves ==
  ASSUME Typed, Orderly, ConnOK, NEW p \in Pids, Connect(p)
  PROVE  CallMoves(p)
<1>1. Enter(p, "connect") /\ Runs(p) /\ Node(p) # 0
  BY DEF Connect, Enter
<1>2. PICK port \in allocate_port(socklist) :
        /\ Connecting(p, port) \in SockNode
        /\ Connecting(p, port).srcport = port /\ Connecting(p, port).dest = Next_(p).to
        /\ Connecting(p, port).status = "SYN_SENT"
        /\ socklist' = [socklist EXCEPT ![Node(p)] = Connecting(p, port)]
        /\ Post(<<Next_(p).to, port>>, <<Segment("SYN", 0, 0, BUFSIZE, <<>>)>>)
  BY ConnectCases
<1>3. Node(p) \in DOMAIN socklist /\ socklist[Node(p)] \in SockNode
  BY <1>1, NodeLookup
<1>4. /\ Connecting(p, port).backlog = socklist[Node(p)].backlog
      /\ Connecting(p, port).recv_len = socklist[Node(p)].recv_len
  BY <1>3 DEF Connecting, SockNode, NodeOf
<1>5. port # 0
  BY EndpointsAssumption DEF allocate_port
<1>6. /\ socklist[Node(p)].dest = NoRemote /\ Next_(p).to \in Servers
      /\ \A q \in Ephemeral : peer[<<Next_(p).to, q>>] = Closed
      /\ \A i \in DOMAIN socklist : socklist[i].dest # Next_(p).to
  BY <1>1, OrderlyNode DEF Unused
<1>7. Dials(Connecting(p, port), socklist[Node(p)])
  BY <1>2, <1>4, <1>5, <1>6 DEF Dials
<1>8. Post(Conn(Connecting(p, port)), <<SynSegment>>)
  BY <1>2 DEF Conn, SynSegment
<1> QED BY <1>2, <1>3, <1>7, <1>8 DEF CallMoves

LEMMA AcceptMoves ==
  ASSUME Typed, NEW p \in Pids, Accept(p)
  PROVE  CallMoves(p)
<1>1. toPeer' = toPeer
  BY DEF Accept
<1>2. CASE Found(p) = 0
  <2>1. socklist' = socklist
    BY <1>2, AcceptCases
  <2> QED BY <1>1, <2>1 DEF CallMoves
<1>3. CASE Found(p) # 0
  <2>1. /\ Found(p) \in DOMAIN socklist /\ Taken(p) \in SockNode
        /\ socklist' = [socklist EXCEPT ![Found(p)] = Taken(p)]
        /\ Keeps(Taken(p), socklist[Found(p)])
    BY <1>3, TakenFacts DEF Keeps
  <2>2. /\ Taken(p).seq = socklist[Found(p)].seq
        /\ Taken(p).ack = socklist[Found(p)].ack
        /\ Taken(p).recv_len = socklist[Found(p)].recv_len
        /\ socklist[Found(p)].recv_len \in Nat
    BY <1>3, TakenFacts DEF Taken, SockNode, NodeOf
  <2>3. Sends(Taken(p), socklist[Found(p)], <<>>)
    BY <1>3, <2>2, TakenFacts, SameSends
  <2>4. Widens(Taken(p), socklist[Found(p)], <<>>)
    BY <1>3, <2>2, TakenFacts, SameWidens
  <2> QED BY <1>1, <2>1, <2>3, <2>4 DEF CallMoves
<1> QED BY <1>2, <1>3

LEMMA ReadMoves ==
  ASSUME Typed, NEW p \in Pids, Read(p)
  PROVE  CallMoves(p)
<1> DEFINE n == socklist[Node(p)]
           c == Consumed(n, Next_(p).n)
<1>1. toPeer' = toPeer
  BY DEF Read
<1>2. Node(p) \in DOMAIN socklist
  BY ReadCases, NodeLookup
<1>3. \/ socklist' = socklist
      \/ \E m \in {ReadWaits(p), c} : /\ m \in SockNode /\ SameSocket(m, n)
                                      /\ m.status = n.status /\ m.seq = n.seq
                                      /\ m.ack = n.ack /\ m.recv_len <= n.recv_len
                                      /\ socklist' = [socklist EXCEPT ![Node(p)] = m]
  <2>1. n \in SockNode /\ Next_(p).n \in 0..BUFSIZE
    BY ReadCases, NodeLookup
  <2>2. n.recv_len \in Nat /\ n.recv_len - Next_(p).n <= n.recv_len
    BY <2>1, NodeFields, IndexFacts DEF SockNode
  <2>3. n.recv_len <= n.recv_len
    BY <2>2
  <2> HIDE DEF n, c
  <2> QED BY <2>2, <2>3, ReadCases DEF n, c
<1> HIDE DEF c
<1>4. CASE socklist' = socklist
  BY <1>1, <1>4 DEF CallMoves
<1>5. ASSUME NEW m, m \in SockNode, SameSocket(m, n), m.status = n.status,
             m.seq = n.seq, m.ack = n.ack, m.recv_len <= n.recv_len,
             socklist' = [socklist EXCEPT ![Node(p)] = m]
      PROVE  CallMoves(p)
  <2>1. Keeps(m, n) /\ Sends(m, n, <<>>) /\ Widens(m, n, <<>>)
    BY <1>5, SameKeeps, SameSends, SameWidens
  <2> QED BY <1>1, <1>2, <1>5, <2>1 DEF CallMoves
<1> QED BY <1>3, <1>4, <1>5

LEMMA WriteSeqs ==
  ASSUME Typed, NEW p \in Pids, Write(p)
  PROVE  LET n == socklist[Node(p)]
         IN  /\ WriteNode(p).seq = n.seq /\ WriteWaits(p).seq = n.seq
             /\ Run(n.seq, WriteSent(p).out, WriteSent(p).node.seq)
             /\ \A k \in DOMAIN WriteSent(p).out : WriteSent(p).out[k].flags = "ACK"
             /\ Widens(WriteNode(p), n, <<>>) /\ Widens(WriteWaits(p), n, <<>>)
             /\ n.status = "ESTAB" => Widens(WriteSent(p).node, n, WriteSent(p).out)
<1> DEFINE n == socklist[Node(p)]
           w == [WriteNode(p) EXCEPT !.sending = TRUE]
<1>1. n \in SockNode /\ WriteNode(p) \in SockNode /\ n.cwnd \div MSS \in Nat
  <2>1. n \in SockNode /\ WriteNode(p) \in SockNode
    BY WritePartTypes
  <2>2. n.cwnd \in Nat
    BY <2>1, NodeFields DEF SockNode
  <2> QED BY <2>1, <2>2, IndexFacts
<1>2. WriteNode(p).seq = n.seq /\ WriteWaits(p).seq = n.seq
  BY <1>1 DEF WriteNode, WriteWaits, SockNode, NodeOf
<1>6. WriteNode(p).ack = n.ack /\ WriteWaits(p).ack = n.ack /\ n.recv_len \in Nat
  BY <1>1 DEF WriteNode, WriteWaits, SockNode, NodeOf
<1>3. /\ w \in SockNode /\ w.seq = WriteNode(p).seq
      /\ w.ack = WriteNode(p).ack /\ w.recv_len = WriteNode(p).recv_len
  BY <1>1 DEF SockNode, NodeOf
<1> HIDE DEF w
<1>4. LET s == send_segments(w, n.cwnd \div MSS)
      IN  /\ Run(w.seq, s.out, s.node.seq)
          /\ \A k \in DOMAIN s.out : s.out[k].flags = "ACK"
  BY <1>1, <1>3, SentRun DEF SockNode
<1>5. WriteSent(p) = send_segments(w, n.cwnd \div MSS)
  BY DEF WriteSent, w
<1>7. Widens(WriteNode(p), n, <<>>) /\ Widens(WriteWaits(p), n, <<>>)
  BY <1>6, WriteFields, SameWidens
<1>8. ASSUME n.status = "ESTAB" PROVE Widens(WriteSent(p).node, n, WriteSent(p).out)
  <2> DEFINE s == WriteSent(p)
  <2>1. /\ \A k \in DOMAIN s.out : s.out[k].ack + s.out[k].win = Edge(w)
        /\ s.node.ack = n.ack /\ s.node.recv_len = n.recv_len
    BY <1>2, <1>3, <1>5, <1>6, SentTells, WriteFields DEF SockNode
  <2>2. Edge(w) = Edge(s.node) /\ s.node \in SockNode
    BY <1>3, <1>6, <2>1, WriteFields, WritePartTypes DEF Edge
  <2>3. Edge(s.node) \in Int
    BY <2>2, NodeFields, IndexFacts DEF SockNode, Edge
  <2> HIDE DEF s
  <2>4. \A k \in DOMAIN s.out : s.out[k].ack + s.out[k].win <= Edge(s.node)
    BY <2>1, <2>2, <2>3
  <2>5. s.node.status = "ESTAB"
    BY <1>8, WriteFields DEF s
  <2> QED BY <1>6, <1>8, <2>1, <2>4, <2>5 DEF Widens, Up, s
<1> QED BY <1>2, <1>3, <1>4, <1>5, <1>7, <1>8

LEMMA WriteMoves ==
  ASSUME Typed, NEW p \in Pids, Write(p)
  PROVE  CallMoves(p)
<1> DEFINE n == socklist[Node(p)]
           out == IF n.sending THEN <<>> ELSE WriteSent(p).out
           w == IF n.sending THEN WriteNode(p) ELSE WriteSent(p).node
<1>1. /\ Node(p) \in DOMAIN socklist
      /\ WriteNode(p) \in SockNode /\ WriteWaits(p) \in SockNode
      /\ WriteSent(p).node \in SockNode /\ WriteSent(p).out \in Seq(Segments)
  BY WritePartTypes
<1>2. Keeps(WriteNode(p), n) /\ Keeps(WriteWaits(p), n) /\ Keeps(WriteSent(p).node, n)
  BY WriteFields, SameKeeps
<1>8. /\ WriteNode(p).seq = n.seq /\ WriteWaits(p).seq = n.seq
      /\ Run(n.seq, WriteSent(p).out, WriteSent(p).node.seq)
      /\ \A k \in DOMAIN WriteSent(p).out : WriteSent(p).out[k].flags = "ACK"
  BY WriteSeqs
<1>10. /\ n.status = "ESTAB" => Widens(w, n, out)
       /\ Widens(WriteWaits(p), n, <<>>)
  BY WriteSeqs
<1>9. /\ n.status = "ESTAB" => Sends(w, n, out)
      /\ Sends(WriteWaits(p), n, <<>>)
  <2>1. Sends(WriteWaits(p), n, <<>>) /\ Sends(WriteNode(p), n, <<>>)
    BY <1>8, WriteFields, SameSends
  <2>2. n.status = "ESTAB" => Sends(WriteSent(p).node, n, WriteSent(p).out)
    BY <1>8, WriteFields, SentSends
  <2> QED BY <2>1, <2>2
<1>3. w \in SockNode /\ Keeps(w, n) /\ out \in Seq(Segments)
  BY <1>1, <1>2, Empties
<1>4. \/ /\ n.status = "ESTAB" /\ socklist' = [socklist EXCEPT ![Node(p)] = w]
         /\ Post(<<n.dest, n.srcport>>, out)
      \/ socklist' = [socklist EXCEPT ![Node(p)] = WriteWaits(p)] /\ toPeer' = toPeer
      \/ socklist' = socklist /\ toPeer' = toPeer
  BY WriteCases
<1> HIDE DEF out, w
<1>5. CASE /\ n.status = "ESTAB" /\ socklist' = [socklist EXCEPT ![Node(p)] = w]
           /\ Post(<<n.dest, n.srcport>>, out)
  <2>1. Up(n.status) /\ Post(Conn(n), out)
    BY <1>5 DEF Up, Conn
  <2> QED BY <1>1, <1>3, <1>5, <1>9, <1>10, <2>1 DEF CallMoves
<1>6. CASE socklist' = [socklist EXCEPT ![Node(p)] = WriteWaits(p)] /\ toPeer' = toPeer
  BY <1>1, <1>2, <1>6, <1>9, <1>10 DEF CallMoves
<1>7. CASE socklist' = socklist /\ toPeer' = toPeer
  BY <1>7 DEF CallMoves
<1> QED BY <1>4, <1>5, <1>6, <1>7

LEMMA CloseSends ==
  ASSUME Typed, NEW p \in Pids, Close(p)
  PROVE  LET n == socklist[Node(p)]
         IN  /\ n.status = "ESTAB" =>
                  Sends(ActiveClosed(p), n, Append(CloseSent(p).out, Fin_(CloseSent(p).node.seq)))
             /\ n.status = "CLOSE_WAIT" => Sends(PassiveClosed(p), n, <<Fin_(n.seq)>>)
             /\ Sends(Unbound(p), n, <<>>)
             /\ n.status = "ESTAB" => \A new : Widens(ActiveClosed(p), n, new)
             /\ n.status = "CLOSE_WAIT" => \A new : Widens(PassiveClosed(p), n, new)
             /\ Widens(Unbound(p), n, <<>>)
<1> DEFINE n == socklist[Node(p)]
           q == CloseSent(p).node.seq
           out == CloseSent(p).out
<1>1. /\ n \in SockNode /\ CloseSent(p).node \in SockNode /\ out \in Seq(Segments)
      /\ Fin_(q) \in Segments /\ Fin_(n.seq) \in Segments
  BY ClosePartTypes
<1>2. \A x : Fin_(x).seq = x /\ Fin_(x).flags = "FIN" /\ Fin_(x).data = <<>>
  BY DEF Fin_, Segment
<1>3. /\ SeqLen(Fin_(q)) = 1 /\ SeqLen(Fin_(n.seq)) = 1
      /\ Run(q, <<Fin_(q)>>, q + 1) /\ Run(n.seq, <<Fin_(n.seq)>>, n.seq + 1)
  <2>1. SeqLen(Fin_(q)) = 1 /\ SeqLen(Fin_(n.seq)) = 1
    BY EmptyBytes DEF SeqLen, Fin_, Segment
  <2>2. /\ Run(Fin_(q).seq, <<Fin_(q)>>, Fin_(q).seq + SeqLen(Fin_(q)))
        /\ Run(Fin_(n.seq).seq, <<Fin_(n.seq)>>, Fin_(n.seq).seq + SeqLen(Fin_(n.seq)))
    BY <1>1, RunOne
  <2> QED BY <1>2, <2>1, <2>2
<1>4. /\ Run(n.seq, out, q) /\ \A k \in DOMAIN out : out[k].flags = "ACK"
  <2>1. BUFSIZE \div MSS \in Nat
    BY IndexFacts
  <2> QED BY <1>1, <2>1, SentRun DEF CloseSent, SockNode
<1>5. /\ ActiveClosed(p).seq = q /\ ActiveClosed(p).status = "FIN_WAIT_1"
      /\ PassiveClosed(p).seq = n.seq /\ PassiveClosed(p).status = "LAST_ACK"
      /\ Unbound(p).seq = n.seq /\ Unbound(p).status = n.status
  BY <1>1 DEF ActiveClosed, PassiveClosed, Unbound, SockNode, NodeOf
<1> DEFINE active == Append(out, Fin_(q))
<1> HIDE DEF q, out
<1>6. ASSUME n.status = "ESTAB" PROVE Sends(ActiveClosed(p), n, active)
  <2>1. Run(n.seq, out \o <<Fin_(q)>>, q + 1)
    <3>1. <<Fin_(q)>> \in Seq(Segments)
      BY <1>1
    <3> QED BY <1>1, <1>3, <1>4, <3>1, RunAppend
  <2>2. active = out \o <<Fin_(q)>> /\ Len(active) = Len(out) + 1
    BY <1>1
  <2>3. \A k \in DOMAIN active : \/ k \in DOMAIN out /\ active[k] = out[k]
                                 \/ k = Len(active) /\ active[k] = Fin_(q)
    BY <1>1
  <2> HIDE DEF active
  <2>4. \A k \in DOMAIN active : /\ active[k].flags \in {"ACK", "FIN"}
                                 /\ active[k].flags = "FIN" => /\ k = Len(active)
                                                              /\ active[k].data = <<>>
    BY <1>2, <1>4, <2>3
  <2>5. NextSeq(ActiveClosed(p)) = q + 1 /\ NextSeq(n) = n.seq
    BY <1>5, <1>6 DEF NextSeq
  <2>6. Run(NextSeq(n), active, NextSeq(ActiveClosed(p)))
    BY <2>1, <2>2, <2>5
  <2> QED BY <1>5, <1>6, <2>4, <2>6 DEF Sends, Talks, Up
<1>7. ASSUME n.status = "CLOSE_WAIT" PROVE Sends(PassiveClosed(p), n, <<Fin_(n.seq)>>)
  <2>1. NextSeq(PassiveClosed(p)) = n.seq + 1 /\ NextSeq(n) = n.seq
    BY <1>5, <1>7 DEF NextSeq
  <2>2. Run(NextSeq(n), <<Fin_(n.seq)>>, NextSeq(PassiveClosed(p)))
    BY <1>3, <2>1
  <2>3. \A k \in DOMAIN <<Fin_(n.seq)>> : k = 1 /\ <<Fin_(n.seq)>>[k] = Fin_(n.seq)
    OBVIOUS
  <2> QED BY <1>2, <1>5, <1>7, <2>2, <2>3 DEF Sends, Talks, Up
<1>8. Sends(Unbound(p), n, <<>>)
  BY <1>5, SameSends
<1>9. /\ n.status = "ESTAB" => \A new : Widens(ActiveClosed(p), n, new)
      /\ n.status = "CLOSE_WAIT" => \A new : Widens(PassiveClosed(p), n, new)
      /\ Widens(Unbound(p), n, <<>>)
  <2>1. Unbound(p).ack = n.ack /\ n.recv_len \in Nat
    BY <1>1 DEF Unbound, SockNode, NodeOf
  <2>2. /\ ActiveClosed(p).recv_len = n.recv_len /\ PassiveClosed(p).recv_len = n.recv_len
        /\ Unbound(p).recv_len = n.recv_len
    BY CloseFields
  <2>3. Widens(Unbound(p), n, <<>>)
    BY <1>5, <2>1, <2>2, SameWidens
  <2> QED BY <1>5, <2>1, <2>2, <2>3 DEF Widens, Up
<1> QED BY <1>6, <1>7, <1>8, <1>9 DEF q, out

LEMMA CloseMoves ==
  ASSUME Typed, NEW p \in Pids, Close(p)
  PROVE  CallMoves(p)
<1> DEFINE n == socklist[Node(p)]
           active == Append(CloseSent(p).out, Fin_(CloseSent(p).node.seq))
           passive == <<Fin_(n.seq)>>
<1>1. /\ Node(p) \in DOMAIN socklist
      /\ ActiveClosed(p) \in SockNode /\ PassiveClosed(p) \in SockNode
      /\ Unbound(p) \in SockNode
      /\ CloseSent(p).out \in Seq(Segments)
      /\ Fin_(CloseSent(p).node.seq) \in Segments /\ Fin_(n.seq) \in Segments
  BY ClosePartTypes
<1>2. active \in Seq(Segments) /\ passive \in Seq(Segments)
  BY <1>1
<1>3. /\ SameButId(ActiveClosed(p), n) /\ ActiveClosed(p).status = "FIN_WAIT_1"
      /\ SameButId(PassiveClosed(p), n) /\ PassiveClosed(p).status = "LAST_ACK"
      /\ SameSocket(Unbound(p), n) /\ Unbound(p).status = n.status
  BY CloseFields
<1>4. \/ /\ n.status = "ESTAB" /\ socklist' = [socklist EXCEPT ![Node(p)] = ActiveClosed(p)]
         /\ Post(<<n.dest, n.srcport>>, active)
      \/ /\ n.status = "CLOSE_WAIT"
         /\ socklist' = [socklist EXCEPT ![Node(p)] = PassiveClosed(p)]
         /\ Post(<<n.dest, n.srcport>>, passive)
      \/ socklist' = [socklist EXCEPT ![Node(p)] = Unbound(p)] /\ toPeer' = toPeer
  BY CloseCases
<1> HIDE DEF active, passive
<1>5. CASE /\ n.status = "ESTAB" /\ socklist' = [socklist EXCEPT ![Node(p)] = ActiveClosed(p)]
           /\ Post(<<n.dest, n.srcport>>, active)
  <2>1. Up(n.status) /\ Post(Conn(n), active) /\ Keeps(ActiveClosed(p), n)
    BY <1>3, <1>5 DEF Up, Conn, Keeps, SameButId
  <2>2. Sends(ActiveClosed(p), n, active) /\ Widens(ActiveClosed(p), n, active)
    BY <1>5, CloseSends DEF active
  <2> QED BY <1>1, <1>2, <1>5, <2>1, <2>2 DEF CallMoves
<1>6. CASE /\ n.status = "CLOSE_WAIT"
           /\ socklist' = [socklist EXCEPT ![Node(p)] = PassiveClosed(p)]
           /\ Post(<<n.dest, n.srcport>>, passive)
  <2>1. Up(n.status) /\ Post(Conn(n), passive) /\ Keeps(PassiveClosed(p), n)
    BY <1>3, <1>6 DEF Up, Conn, Keeps, SameButId
  <2>2. Sends(PassiveClosed(p), n, passive) /\ Widens(PassiveClosed(p), n, passive)
    BY <1>6, CloseSends DEF passive
  <2> QED BY <1>1, <1>2, <1>6, <2>1, <2>2 DEF CallMoves
<1>7. CASE socklist' = [socklist EXCEPT ![Node(p)] = Unbound(p)] /\ toPeer' = toPeer
  <2>1. Keeps(Unbound(p), n)
    BY <1>3, SameKeeps
  <2>2. Sends(Unbound(p), n, <<>>) /\ Widens(Unbound(p), n, <<>>)
    BY CloseSends
  <2> QED BY <1>1, <1>7, <2>1, <2>2 DEF CallMoves
<1> QED BY <1>4, <1>5, <1>6, <1>7

LEMMA SyscallMoves ==
  ASSUME Typed, Orderly, ConnOK, NEW p \in Pids, Syscall(p)
  PROVE  CallMoves(p) /\ UNCHANGED <<backlog_list, toHost, peer>>
<1>1. CASE Socket(p)
  <2>1. socklist' = socklist \/ CreatesOne(p)
    BY <1>1, SocketTable
  <2> QED BY <1>1, <2>1 DEF CallMoves, Socket
<1>2. CASE Skip(p)
  BY <1>2 DEF CallMoves, Skip, kernel
<1>3. CASE Bind(p)
  BY <1>3, BindMoves DEF Bind
<1>4. CASE Listen(p)
  BY <1>4, ListenMoves DEF Listen
<1>5. CASE Connect(p)
  BY <1>5, ConnectMoves DEF Connect
<1>6. CASE Accept(p)
  BY <1>6, AcceptMoves DEF Accept
<1>7. CASE Read(p)
  BY <1>7, ReadMoves DEF Read
<1>8. CASE Write(p)
  BY <1>8, WriteMoves DEF Write
<1>9. CASE Close(p)
  BY <1>9, CloseMoves DEF Close
<1> QED BY <1>1, <1>2, <1>3, <1>4, <1>5, <1>6, <1>7, <1>8, <1>9 DEF Syscall

\* Where a segment is posted.
LEMMA PostAt ==
  ASSUME Typed, NEW c, NEW out \in Seq(Segments), Post(c, out)
  PROVE  /\ \A d \in Conns : d # c => toPeer'[d] = toPeer[d]
         /\ c \in Conns => toPeer'[c] = toPeer[c] \o out
         /\ \A d \in Conns : toPeer[d] # <<>> => toPeer'[d] # <<>>
<1>1. toPeer \in [Conns -> Seq(Segments)]
  BY DEF Typed, NetType
<1>2. toPeer' = IF c \in Conns THEN [toPeer EXCEPT ![c] = toPeer[c] \o out] ELSE toPeer
  BY DEF Post
<1>3. ASSUME NEW d \in Conns, d # c PROVE toPeer'[d] = toPeer[d]
  BY <1>1, <1>2, <1>3
<1>4. ASSUME c \in Conns PROVE toPeer'[c] = toPeer[c] \o out
  BY <1>1, <1>2, <1>4
<1>5. ASSUME NEW d \in Conns, toPeer[d] # <<>> PROVE toPeer'[d] # <<>>
  <2>1. CASE d # c
    BY <1>3, <1>5, <2>1
  <2>2. CASE d = c
    <3>1. toPeer[c] \in Seq(Segments) /\ toPeer'[c] = toPeer[c] \o out
      BY <1>1, <1>4, <1>5, <2>2
    <3>2. toPeer[c] # <<>>
      BY <1>5, <2>2
    <3>3. toPeer[c] \o out # <<>>
      BY <3>1, <3>2
    <3> QED BY <2>2, <3>1, <3>3
  <2> QED BY <2>1, <2>2
<1> QED BY <1>3, <1>4, <1>5

\* Half-open connections keep what holds of them while what is posted grows.
LEMMA HalvesKept ==
  ASSUME HalvesOK, NEW pr, NEW out, pr = peer,
         \A d \in Conns : toPeer[d] # <<>> => out[d] # <<>>
  PROVE  \A i \in DOMAIN backlog_list : HalfOK(backlog_list[i], pr, out)
BY DEF HalvesOK, HalfOK, Conns

LEMMA LiveRemote ==
  ASSUME Distinct, HalvesOK, NEW j \in DOMAIN backlog_list, Live(backlog_list[j])
  PROVE  /\ backlog_list[j].dest \in Remotes \ Servers /\ backlog_list[j].dest # NoRemote
         /\ Conn(backlog_list[j]) \in Incoming
<1>1. Conn(backlog_list[j]) \in Incoming
  BY DEF HalvesOK, HalfOK
<1>2. Conn(backlog_list[j]) \in Conns
  BY <1>1 DEF Conns
<1> QED BY <1>1, <1>2, ConnFacts, RemoteConn, ConnParts

\* One node of the table is changed, in its connection or not.
LEMMA TableKept ==
  ASSUME Typed, Distinct, ConnOK, NEW i \in DOMAIN socklist, NEW m \in SockNode,
         socklist' = [socklist EXCEPT ![i] = m], peer' = peer, backlog_list' = backlog_list,
         Keeps(m, socklist[i]) \/ Plain(m, socklist[i]) \/ Dials(m, socklist[i])
  PROVE  NodesOK' /\ Apart'
<1> DEFINE n == socklist[i]
<1>1. DOMAIN socklist' = DOMAIN socklist
  BY ListElements
<1>2. \A j \in DOMAIN socklist : socklist'[j] = IF j = i THEN m ELSE socklist[j]
  BY ListElements
<1>3. NodeOK(n, peer)
  BY DEF ConnOK, NodesOK
<1>4. NodeOK(m, peer)
  <2>1. CASE Keeps(m, n)
    <3>1. Conn(m) = Conn(n)
      BY <2>1 DEF Keeps, Conn
    <3>2. m.dest = n.dest /\ m.srcport = n.srcport /\ m.backlog = n.backlog
      BY <2>1 DEF Keeps
    <3>3. m.status = n.status \/ (Up(n.status) /\ Up(m.status))
      BY <2>1 DEF Keeps
    <3> QED BY <1>3, <3>1, <3>2, <3>3 DEF NodeOK, Up
  <2>2. CASE Plain(m, n)
    BY <2>2 DEF Plain, NodeOK
  <2>3. CASE Dials(m, n)
    <3>1. Conn(m) \in Conns /\ m.dest \in Servers /\ m.status = "SYN_SENT" /\ m.srcport # 0
      BY <2>3 DEF Dials, Conn, Conns, allocate_port
    <3>2. m.dest # NoRemote
      BY <3>1, EndpointsAssumption
    <3> QED BY <3>1, <3>2 DEF NodeOK, Up
  <2> QED BY <2>1, <2>2, <2>3
<1>5. NodesOK'
  <2>1. \A j \in DOMAIN socklist' : NodeOK(socklist'[j], peer')
    BY <1>1, <1>2, <1>4 DEF ConnOK, NodesOK
  <2> QED BY <2>1 DEF NodesOK
<1>6. \/ m.dest = n.dest \/ m.dest = NoRemote
      \/ m.dest \in Servers /\ \A j \in DOMAIN socklist : socklist[j].dest # m.dest
  BY DEF Keeps, Plain, Dials
<1>7. \/ m.srcport = n.srcport \/ m.srcport \notin Ephemeral
      \/ \A j \in DOMAIN socklist : socklist[j].srcport # m.srcport
  BY DEF Keeps, Plain, Dials, allocate_port
<1>8. NodesApart(socklist) /\ PortsApart(socklist) /\ HalvesApart(backlog_list)
      /\ ListsApart(socklist, backlog_list)
  BY DEF ConnOK, Apart
<1> HIDE DEF n
<1>9. NodesApart(socklist')
  BY <1>1, <1>2, <1>6, <1>8 DEF NodesApart, n
<1>10. PortsApart(socklist')
  BY <1>1, <1>2, <1>7, <1>8 DEF PortsApart, n
<1>11. ListsApart(socklist', backlog_list')
  <2>1. ASSUME NEW j \in DOMAIN backlog_list, Live(backlog_list[j])
        PROVE  m.dest # backlog_list[j].dest
    <3>1. n.dest # backlog_list[j].dest
      BY <1>8, <2>1 DEF ListsApart, n
    <3>2. backlog_list[j].dest \notin Servers /\ backlog_list[j].dest # NoRemote
      BY <2>1, LiveRemote DEF ConnOK
    <3> QED BY <1>6, <3>1, <3>2
  <2> QED BY <1>1, <1>2, <1>8, <2>1 DEF ListsApart
<1> QED BY <1>5, <1>8, <1>9, <1>10, <1>11 DEF Apart

\* A socket call adds a socket without a connection.
LEMMA TableGrown ==
  ASSUME Typed, Distinct, ConnOK, NEW p \in Pids, CreatesOne(p), peer' = peer,
         backlog_list' = backlog_list
  PROVE  /\ NodesOK' /\ Apart'
         /\ \A c \in Conns : Dialled(socklist, c) => Dialled(socklist', c)
<1>1. PICK st \in FreshStatus :
        /\ FreshNode(p, Create(p, fds), st) \in SockNode
        /\ socklist' = <<FreshNode(p, Create(p, fds), st)>> \o socklist
  BY DEF CreatesOne
<1> DEFINE m == FreshNode(p, Create(p, fds), st)
<1>2. /\ m.dest = NoRemote /\ m.srcport = 0 /\ m.backlog = 0 /\ m.status = st
  BY DEF FreshNode
<1>3. m \in SockNode /\ socklist' = <<m>> \o socklist
  BY <1>1
<1> HIDE DEF m
<1>4. /\ \A i \in DOMAIN socklist : i + 1 \in DOMAIN socklist' /\ socklist'[i+1] = socklist[i]
      /\ \A i \in DOMAIN socklist' :
           i = 1 \/ (i - 1 \in DOMAIN socklist /\ socklist'[i] = socklist[i-1])
      /\ socklist'[1] = m
  BY <1>3, ConsOthers
<1>5. DOMAIN socklist' \subseteq Nat
  BY <1>3, ListElements, ConsSeq DEF Typed, KernelType
<1>6. ~Up(m.status) /\ 0 \notin Ephemeral
  BY <1>2, EndpointsAssumption DEF Distinct, Up
<1>7. NodeOK(m, peer)
  BY <1>2, <1>6 DEF NodeOK
<1>8. NodesOK'
  <2>1. \A j \in DOMAIN socklist' : NodeOK(socklist'[j], peer')
    BY <1>4, <1>7 DEF ConnOK, NodesOK
  <2> QED BY <2>1 DEF NodesOK
<1>9. NodesApart(socklist) /\ PortsApart(socklist) /\ HalvesApart(backlog_list)
      /\ ListsApart(socklist, backlog_list)
  BY DEF ConnOK, Apart
<1>10. NodesApart(socklist')
  <2> SUFFICES ASSUME NEW i \in DOMAIN socklist', NEW j \in DOMAIN socklist',
                      socklist'[i].dest = socklist'[j].dest, socklist'[i].dest # NoRemote
               PROVE  i = j
    BY DEF NodesApart
  <2>1. i # 1 /\ j # 1
    BY <1>2, <1>4
  <2>2. i - 1 = j - 1
    BY <1>4, <1>9, <2>1 DEF NodesApart
  <2> QED BY <1>5, <2>2
<1>11. PortsApart(socklist')
  <2> SUFFICES ASSUME NEW i \in DOMAIN socklist', NEW j \in DOMAIN socklist',
                      socklist'[i].srcport = socklist'[j].srcport,
                      socklist'[i].srcport \in Ephemeral
               PROVE  i = j
    BY DEF PortsApart
  <2>1. i # 1 /\ j # 1
    BY <1>2, <1>4, <1>6
  <2>2. i - 1 = j - 1
    BY <1>4, <1>9, <2>1 DEF PortsApart
  <2> QED BY <1>5, <2>2
<1>12. ListsApart(socklist', backlog_list')
  <2> SUFFICES ASSUME NEW i \in DOMAIN socklist', NEW j \in DOMAIN backlog_list,
                      Live(backlog_list[j])
               PROVE  socklist'[i].dest # backlog_list[j].dest
    BY DEF ListsApart
  <2>1. backlog_list[j].dest # NoRemote
    BY LiveRemote DEF ConnOK
  <2> QED BY <1>2, <1>4, <1>9, <2>1 DEF ListsApart
<1>13. \A c \in Conns : Dialled(socklist, c) => Dialled(socklist', c)
  BY <1>4 DEF Dialled
<1> QED BY <1>8, <1>9, <1>10, <1>11, <1>12, <1>13 DEF Apart

\* A socket that waits for the answer to its SYN still does.
LEMMA DialledKept ==
  ASSUME Typed, ConnOK, NEW i \in DOMAIN socklist, NEW m,
         socklist' = [socklist EXCEPT ![i] = m],
         Keeps(m, socklist[i]) \/ Plain(m, socklist[i]) \/ Dials(m, socklist[i]),
         NEW c \in Conns, Dialled(socklist, c)
  PROVE  Dialled(socklist', c)
<1>1. PICK k \in DOMAIN socklist : Conn(socklist[k]) = c /\ socklist[k].status = "SYN_SENT"
  BY DEF Dialled
<1>2. k \in DOMAIN socklist' /\ socklist'[k] = IF k = i THEN m ELSE socklist[k]
  BY ListElements
<1>3. CASE k # i
  BY <1>1, <1>2, <1>3 DEF Dialled
<1>4. CASE k = i
  <2>1. socklist[i].dest # NoRemote
    BY <1>1, <1>4, ConnFacts, ConnParts, EndpointsAssumption
  <2>2. Keeps(m, socklist[i])
    BY <2>1 DEF Plain, Dials
  <2>3. Conn(m) = c /\ m.status = "SYN_SENT"
    BY <1>1, <1>4, <2>2 DEF Keeps, Conn, Up
  <2> QED BY <1>2, <1>4, <2>3 DEF Dialled
<1> QED BY <1>3, <1>4

\* The channels of a connection that is being opened.
LEMMA DialsWire ==
  ASSUME Typed, ConnOK, NEW i \in DOMAIN socklist, NEW m \in SockNode,
         socklist' = [socklist EXCEPT ![i] = m], Dials(m, socklist[i]),
         Post(Conn(m), <<SynSegment>>)
  PROVE  LET c == Conn(m)
         IN  WireOK(c, toHost[c], toPeer'[c], peer[c], socklist')
<1> DEFINE c == Conn(m)
<1>1. c \in Conns /\ peer[c] = Closed /\ c[1] = m.dest
  BY DEF Dials, Conn, Conns, allocate_port
<1>2. ~Dialled(socklist, c)
  BY ConnParts DEF Dialled, Dials
<1>3. peer[c].st = "CLOSED"
  BY <1>1 DEF Closed
<1>4. WireOK(c, toHost[c], toPeer[c], peer[c], socklist)
  BY <1>1 DEF ConnOK, WiresOK
<1>5. toPeer[c] = <<>>
  BY <1>2, <1>3, <1>4 DEF WireOK
<1>6. SynSegment \in Segments /\ SynSegment.flags = "SYN"
  <2>1. SynSegment.flags = "SYN"
    BY DEF SynSegment, Segment
  <2>2. SynSegment \in Segments
    BY SegmentType, Empties, IndexFacts DEF SynSegment
  <2> QED BY <2>1, <2>2
<1>7. toPeer'[c] = <<SynSegment>>
  <2>1. <<SynSegment>> \in Seq(Segments)
    BY <1>6
  <2>2. toPeer'[c] = toPeer[c] \o <<SynSegment>>
    BY <1>1, <2>1, PostAt
  <2> QED BY <1>5, <2>2
<1>8. Dialled(socklist', c)
  <2>1. i \in DOMAIN socklist' /\ socklist'[i] = m
    BY ListElements
  <2> QED BY <2>1 DEF Dialled, Dials
<1>9. Len(toPeer'[c]) = 1 /\ toPeer'[c][1].flags = "SYN"
  BY <1>6, <1>7
<1> QED BY <1>3, <1>4, <1>8, <1>9 DEF WireOK, Past

LEMMA SyscallConn ==
  ASSUME Typed, Orderly, ConnOK, NEW p \in Pids, Syscall(p)
  PROVE  ConnOK'
<1>1. CallMoves(p) /\ backlog_list' = backlog_list /\ toHost' = toHost /\ peer' = peer
  BY SyscallMoves
<1>2. Distinct
  BY DEF Orderly
<1>3. \A c \in Conns : WireOK(c, toHost[c], toPeer[c], peer[c], socklist)
  BY DEF ConnOK, WiresOK
<1>4. CASE socklist' = socklist /\ toPeer' = toPeer
  BY <1>1, <1>4 DEF ConnOK, NodesOK, HalvesOK, Apart, WiresOK
<1>5. CASE CreatesOne(p) /\ toPeer' = toPeer
  <2>1. /\ NodesOK' /\ Apart'
        /\ \A c \in Conns : Dialled(socklist, c) => Dialled(socklist', c)
    BY <1>1, <1>2, <1>5, TableGrown
  <2>2. HalvesOK'
    BY <1>1, <1>5 DEF ConnOK, HalvesOK
  <2>3. \A c \in Conns : WireOK(c, toHost'[c], toPeer'[c], peer'[c], socklist')
    BY <1>1, <1>3, <1>5, <2>1, WireDialled
  <2> QED BY <2>1, <2>2, <2>3 DEF ConnOK, WiresOK
<1>6. ASSUME NEW i \in DOMAIN socklist, NEW m \in SockNode,
             socklist' = [socklist EXCEPT ![i] = m],
             \/ /\ Keeps(m, socklist[i])
                /\ \/ toPeer' = toPeer /\ Sends(m, socklist[i], <<>>)
                   \/ /\ Up(socklist[i].status)
                      /\ \E out \in Seq(Segments) : /\ Post(Conn(socklist[i]), out)
                                                    /\ Sends(m, socklist[i], out)
             \/ Plain(m, socklist[i]) /\ toPeer' = toPeer
             \/ Dials(m, socklist[i]) /\ Post(Conn(m), <<SynSegment>>)
      PROVE  ConnOK'
  <2>1. NodesOK' /\ Apart'
    BY <1>1, <1>2, <1>6, TableKept
  <2>2. \A c \in Conns : Dialled(socklist, c) => Dialled(socklist', c)
    BY <1>6, DialledKept
  <2>3. <<SynSegment>> \in Seq(Segments)
    BY SegmentType, Empties, IndexFacts DEF SynSegment
  <2>4. \A d \in Conns : toPeer[d] # <<>> => toPeer'[d] # <<>>
    BY <1>6, <2>3, PostAt
  <2>5. HalvesOK'
    <3>1. \A j \in DOMAIN backlog_list : HalfOK(backlog_list[j], peer', toPeer')
      BY <1>1, <2>4, HalvesKept DEF ConnOK
    <3> QED BY <1>1, <3>1 DEF HalvesOK
  <2>6. ASSUME NEW c \in Conns PROVE WireOK(c, toHost[c], toPeer'[c], peer[c], socklist')
    <3>1. CASE toPeer'[c] = toPeer[c]
      BY <1>3, <2>2, <3>1, WireDialled
    <3>2. CASE toPeer'[c] # toPeer[c] /\ Dials(m, socklist[i]) /\ Post(Conn(m), <<SynSegment>>)
      <4>1. c = Conn(m)
        BY <2>3, <3>2, PostAt
      <4> QED BY <1>6, <3>2, <4>1, DialsWire
    <3>3. CASE /\ toPeer'[c] # toPeer[c] /\ Up(socklist[i].status)
               /\ \E out \in Seq(Segments) : Post(Conn(socklist[i]), out)
      <4>1. c = Conn(socklist[i])
        BY <3>3, PostAt
      <4> QED BY <3>3, <4>1, UpClear, WirePast
    <3> QED BY <1>6, <3>1, <3>2, <3>3
  <2>7. WiresOK'
    BY <1>1, <2>6 DEF WiresOK
  <2> QED BY <2>1, <2>5, <2>7 DEF ConnOK
<1> QED BY <1>1, <1>4, <1>5, <1>6 DEF CallMoves

-----------------------------------------------------------------------------
(* The remote ends.                                                        *)

\* What state a remote is in tells of its channels.
LEMMA WireFacts ==
  ASSUME Typed, Distinct, ConnOK, NEW c \in Conns
  PROVE  LET t == peer[c]
             in == toHost[c]
             out == toPeer[c]
         IN  /\ in \in Seq(ShortSegments) /\ out \in Seq(Segments) /\ t \in Peers
             /\ Past(t) /\ (out # <<>> \/ t.st # "SYN_RCVD") => Clear(in)
             /\ t.st = "CLOSED" => /\ in = <<>>
                                   /\ c \in Incoming => out = <<>>
                                   /\ out # <<>> => /\ Dialled(socklist, c) /\ Len(out) = 1
                                                    /\ Head(out).flags = "SYN"
             /\ t.st = "SYN_SENT" => /\ c \in Incoming
                                     /\ out # <<>> => in = <<>> /\ Head(out).flags = "SYNACK"
<1> DEFINE t == peer[c]
           in == toHost[c]
           out == toPeer[c]
<1>1. in \in Seq(ShortSegments) /\ out \in Seq(Segments) /\ t \in Peers
  BY DEF Typed, NetType
<1>2. WireOK(c, in, out, t, socklist)
  BY DEF ConnOK, WiresOK
<1>3. Dialled(socklist, c) => c[1] \in Servers
  <2> SUFFICES ASSUME NEW i \in DOMAIN socklist, Conn(socklist[i]) = c,
                      socklist[i].status = "SYN_SENT"
               PROVE  c[1] \in Servers
    BY DEF Dialled
  <2>1. socklist[i].dest = c[1] /\ c[1] # NoRemote
    BY ConnParts, RemoteConn
  <2> QED BY <2>1 DEF ConnOK, NodesOK, NodeOK
<1> HIDE DEF t, in, out
<1>4. \A k \in DOMAIN in : in[k].flags \in {"SYN", "SYNACK", "ACK", "FIN"}
  <2>1. \A k \in DOMAIN in : in[k] \in ShortSegments
    BY <1>1
  <2> QED BY <2>1, SegmentFields
<1>5. ASSUME Past(t), out # <<>> \/ t.st # "SYN_RCVD" PROVE Clear(in)
  <2> SUFFICES ASSUME NEW k \in DOMAIN in PROVE in[k].flags \in {"ACK", "FIN"}
    BY DEF Clear
  <2>1. in[k].flags = "SYN" => t.st = "SYN_SENT"
    BY <1>2 DEF WireOK
  <2>2. in[k].flags = "SYNACK" => out = <<>> /\ t.st = "SYN_RCVD"
    BY <1>2 DEF WireOK, Alone_
  <2> QED BY <1>4, <1>5, <2>1, <2>2 DEF Past
<1>6. ASSUME ~Past(t), t.st = "CLOSED" \/ out # <<>> PROVE in = <<>>
  <2>1. ASSUME NEW k \in DOMAIN in PROVE FALSE
    <3>1. in[k].flags = "SYN" => t.st = "SYN_SENT" /\ out = <<>>
      BY <1>2 DEF WireOK, Alone_
    <3>2. in[k].flags = "SYNACK" => t.st = "SYN_RCVD"
      BY <1>2 DEF WireOK
    <3>3. in[k].flags \in {"ACK", "FIN"} => Past(t)
      BY <1>2 DEF WireOK
    <3> QED BY <1>4, <1>6, <3>1, <3>2, <3>3 DEF Past
  <2> QED BY <1>1, <2>1
<1>7. ASSUME t.st = "CLOSED"
      PROVE  /\ c \in Incoming => out = <<>>
             /\ out # <<>> => /\ Dialled(socklist, c) /\ Len(out) = 1
                              /\ Head(out).flags = "SYN"
  <2>1. out # <<>> => Dialled(socklist, c) /\ Len(out) = 1 /\ out[1].flags = "SYN"
    BY <1>2, <1>7 DEF WireOK
  <2>2. c \in Incoming => out = <<>>
    BY <1>3, <2>1, RemoteConn
  <2>3. out # <<>> => Head(out) = out[1]
    BY <1>1
  <2> QED BY <2>1, <2>2, <2>3
<1>8. ASSUME t.st = "SYN_SENT"
      PROVE  /\ c \in Incoming
             /\ out # <<>> => in = <<>> /\ Head(out).flags = "SYNACK"
  <2>1. c \in Incoming /\ \A k \in DOMAIN out : out[k].flags = "SYNACK"
    BY <1>2, <1>8 DEF WireOK
  <2>2. out # <<>> => 1 \in DOMAIN out /\ Head(out) = out[1]
    BY <1>1
  <2> QED BY <1>6, <1>8, <2>1, <2>2 DEF Past
<1> QED BY <1>1, <1>5, <1>6, <1>7, <1>8 DEF t, in, out, Past

LEMMA ClearAppend ==
  ASSUME NEW in \in Seq(ShortSegments), NEW m \in ShortSegments, Clear(in),
         m.flags \in {"ACK", "FIN"}
  PROVE  Clear(in \o <<m>>)
<1> SUFFICES ASSUME NEW k \in DOMAIN (in \o <<m>>)
             PROVE  (in \o <<m>>)[k].flags \in {"ACK", "FIN"}
  BY DEF Clear
<1>1. \/ k \in DOMAIN in /\ (in \o <<m>>)[k] = in[k]
      \/ (in \o <<m>>)[k] = m
  OBVIOUS
<1> QED BY <1>1 DEF Clear

\* A step of a remote changes its end of its connection and the channels of it.
\* A half-open connection goes on being one, and so does one past the handshake.
RemoteStep(c) ==
  /\ UNCHANGED kernel
  /\ \A d \in Conns : d # c => /\ toHost'[d] = toHost[d] /\ toPeer'[d] = toPeer[d]
                               /\ peer'[d] = peer[d]
  /\ Past(peer[c]) => Past(peer'[c])
  /\ peer[c].st # "CLOSED" => peer'[c].st # "CLOSED"
  /\ peer[c].st = "SYN_SENT" /\ peer'[c].st = "SYN_SENT" => toPeer'[c] = toPeer[c]
  /\ WireOK(c, toHost'[c], toPeer'[c], peer'[c], socklist)

LEMMA RemoteStepConn ==
  ASSUME Typed, Distinct, ConnOK, NEW c \in Conns, RemoteStep(c)
  PROVE  ConnOK'
<1>1. socklist' = socklist /\ backlog_list' = backlog_list
  BY DEF RemoteStep, kernel
<1>2. \A d \in Conns : Past(peer[d]) => Past(peer'[d])
  BY DEF RemoteStep
<1>3. NodesOK'
  <2> SUFFICES ASSUME NEW i \in DOMAIN socklist PROVE NodeOK(socklist[i], peer')
    BY <1>1 DEF NodesOK
  <2>1. NodeOK(socklist[i], peer)
    BY DEF ConnOK, NodesOK
  <2> QED BY <1>2, <2>1 DEF NodeOK
<1>4. HalvesOK'
  <2> SUFFICES ASSUME NEW j \in DOMAIN backlog_list
               PROVE  HalfOK(backlog_list[j], peer', toPeer')
    BY <1>1 DEF HalvesOK
  <2> DEFINE d == Conn(backlog_list[j])
  <2> SUFFICES ASSUME Live(backlog_list[j])
               PROVE  /\ d \in Incoming /\ backlog_list[j].srcport \notin Ephemeral
                      /\ peer'[d].st # "CLOSED"
                      /\ peer'[d].st = "SYN_SENT" => toPeer'[d] # <<>>
    BY DEF HalfOK
  <2>1. /\ d \in Incoming /\ backlog_list[j].srcport \notin Ephemeral
        /\ peer[d].st # "CLOSED"
        /\ peer[d].st = "SYN_SENT" => toPeer[d] # <<>>
    BY DEF ConnOK, HalvesOK, HalfOK
  <2>2. d \in Conns
    BY <2>1 DEF Conns
  <2> HIDE DEF d
  <2>3. CASE d # c
    BY <2>1, <2>2, <2>3 DEF RemoteStep
  <2>4. CASE d = c
    <3>1. peer'[c].st = "SYN_SENT" => peer[c].st = "SYN_SENT"
      BY <2>1, <2>4 DEF RemoteStep, Past
    <3> QED BY <2>1, <2>4, <3>1 DEF RemoteStep
  <2> QED BY <2>3, <2>4
<1>5. WiresOK'
  <2>1. ASSUME NEW d \in Conns PROVE WireOK(d, toHost'[d], toPeer'[d], peer'[d], socklist)
    <3>1. WireOK(d, toHost[d], toPeer[d], peer[d], socklist)
      BY DEF ConnOK, WiresOK
    <3> QED BY <3>1 DEF RemoteStep
  <2> QED BY <1>1, <2>1 DEF WiresOK
<1>6. Apart'
  BY <1>1 DEF ConnOK, Apart
<1> QED BY <1>3, <1>4, <1>5, <1>6 DEF ConnOK

\* A SYN alone on the channels of a client that has sent it.
LEMMA KnockWire ==
  ASSUME NEW c \in Incoming, NEW m, m.flags = "SYN", NEW t, t.st = "SYN_SENT", NEW sl
  PROVE  WireOK(c, <<m>>, <<>>, t, sl)
<1>1. Len(<<m>>) = 1 /\ DOMAIN <<m>> = {1} /\ <<m>>[1] = m
  OBVIOUS
<1> QED BY <1>1 DEF WireOK, Alone_

LEMMA PeerOpenConn ==
  ASSUME Typed, Distinct, ConnOK, NEW c \in Conns, PeerOpen(c)
  PROVE  RemoteStep(c)
<1> DEFINE m == Speak("SYN", peer[c], <<>>)
<1>1. c \in Incoming /\ peer[c].st = "CLOSED" /\ toPeer' = toPeer /\ UNCHANGED kernel
  BY DEF PeerOpen
<1>2. peer \in [Conns -> Peers]
  BY DEF Typed, NetType
<1>3. peer' = [peer EXCEPT ![c] = [peer[c] EXCEPT !.st = "SYN_SENT", !.snd = 1]]
  BY <1>2 DEF PeerOpen
<1>4. peer'[c].st = "SYN_SENT" /\ \A d \in Conns : d # c => peer'[d] = peer[d]
  <2>1. peer'[c] = [peer[c] EXCEPT !.st = "SYN_SENT", !.snd = 1]
    BY <1>2, <1>3
  <2>2. peer'[c].st = "SYN_SENT"
    BY <1>2, <2>1 DEF Peers
  <2> QED BY <1>2, <1>3, <2>2
<1>5. toHost[c] = <<>> /\ toPeer[c] = <<>>
  BY <1>1, WireFacts
<1>6. m \in ShortSegments /\ <<m>> \in Seq(ShortSegments) /\ m.flags = "SYN"
  <2>1. peer[c].snd \in Int /\ peer[c].rcv \in Int
    BY <1>2, PeerFields
  <2> QED BY <2>1, SpeakType, EmptyBytes DEF Speak, Segment
<1>7. Tell(c, <<m>>)
  BY DEF PeerOpen
<1> HIDE DEF m
<1>8. toHost'[c] = toHost[c] \o <<m>> /\ \A d \in Conns : d # c => toHost'[d] = toHost[d]
  BY <1>6, <1>7, TellType DEF Typed
<1>9. toHost'[c] = <<m>>
  BY <1>5, <1>6, <1>8
<1>10. WireOK(c, toHost'[c], toPeer'[c], peer'[c], socklist)
  BY <1>1, <1>4, <1>5, <1>6, <1>9, KnockWire
<1> QED BY <1>1, <1>4, <1>8, <1>10 DEF RemoteStep, Past

LEMMA PeerRetryConn ==
  ASSUME Typed, Distinct, ConnOK, NEW c \in Conns, PeerRetry(c)
  PROVE  RemoteStep(c)
<1> DEFINE x == [peer[c] EXCEPT !.snd = 0]
           m == Speak("SYN", x, <<>>)
<1>1. /\ peer[c].st = "SYN_SENT" /\ toHost[c] = <<>> /\ toPeer[c] = <<>>
      /\ toPeer' = toPeer /\ peer' = peer /\ UNCHANGED kernel
  BY DEF PeerRetry
<1>2. c \in Incoming
  BY <1>1, WireFacts
<1>3. x.snd \in Int /\ x.rcv \in Int
  BY DEF Typed, NetType, Peers
<1> HIDE DEF x
<1>4. m \in ShortSegments /\ <<m>> \in Seq(ShortSegments) /\ m.flags = "SYN"
  BY <1>3, SpeakType, EmptyBytes DEF Speak, Segment
<1>5. Tell(c, <<m>>)
  BY DEF PeerRetry, x
<1> HIDE DEF m
<1>6. toHost'[c] = toHost[c] \o <<m>> /\ \A d \in Conns : d # c => toHost'[d] = toHost[d]
  BY <1>4, <1>5, TellType DEF Typed
<1>7. toHost'[c] = <<m>>
  BY <1>1, <1>4, <1>6
<1>8. WireOK(c, toHost'[c], toPeer'[c], peer'[c], socklist)
  BY <1>1, <1>2, <1>4, <1>7, KnockWire
<1> QED BY <1>1, <1>6, <1>8 DEF RemoteStep

\* A remote past the handshake says no more of it.
LEMMA PastStep ==
  ASSUME Typed, Distinct, ConnOK, NEW c \in Conns, UNCHANGED kernel,
         \A d \in Conns : d # c => /\ toHost'[d] = toHost[d] /\ toPeer'[d] = toPeer[d]
                                   /\ peer'[d] = peer[d],
         Past(peer'[c]), Clear(toHost'[c])
  PROVE  RemoteStep(c)
BY WirePast DEF RemoteStep, Past

LEMMA PeerSendConn ==
  ASSUME Typed, Distinct, ConnOK, NEW c \in Conns, PeerSend(c)
  PROVE  RemoteStep(c)
<1> DEFINE t == peer[c]
<1>1. peer \in [Conns -> Peers] /\ t \in Peers
  BY DEF Typed, NetType
<1>2. t.st \in {"ESTAB", "CLOSE_WAIT"} /\ toPeer' = toPeer /\ UNCHANGED kernel
  BY DEF PeerSend
<1>3. PICK len \in PeerSizes :
        /\ peer' = [peer EXCEPT ![c].snd = @ + len, ![c].n = @ + len]
        /\ Tell(c, <<Speak("ACK", t, PeerBytesSent(t, len))>>)
  BY DEF PeerSend, PeerBytesSent
<1>4. len \in Nat /\ len <= BUFSIZE
  BY EndpointsAssumption, IndexFacts
<1>5. t.snd \in Int /\ t.rcv \in Int /\ t.n \in Nat
  BY <1>1, PeerFields
<1>6. PeerBytesSent(t, len) \in Bytes /\ Len(PeerBytesSent(t, len)) = len
  BY <1>4, <1>5 DEF PeerBytesSent, Bytes
<1> DEFINE m == Speak("ACK", t, PeerBytesSent(t, len))
<1>7. m \in ShortSegments /\ <<m>> \in Seq(ShortSegments) /\ m.flags = "ACK"
  <2>1. m.flags = "ACK"
    BY DEF Speak, Segment
  <2> QED BY <1>4, <1>5, <1>6, <2>1, SpeakType
<1>8. Tell(c, <<m>>)
  BY <1>3
<1> HIDE DEF m
<1>9. toHost'[c] = toHost[c] \o <<m>> /\ \A d \in Conns : d # c => toHost'[d] = toHost[d]
  BY <1>7, <1>8, TellType DEF Typed
<1>10. Clear(toHost[c]) /\ toHost[c] \in Seq(ShortSegments)
  BY <1>2, WireFacts DEF Past
<1>11. Clear(toHost'[c])
  BY <1>7, <1>9, <1>10, ClearAppend
<1>12. peer'[c].st = t.st /\ \A d \in Conns : d # c => peer'[d] = peer[d]
  <2>1. peer'[c].st = t.st
    BY <1>1, <1>3 DEF Peers
  <2> QED BY <1>1, <1>3, <2>1
<1>13. Past(peer'[c])
  BY <1>2, <1>12 DEF Past
<1> QED BY <1>2, <1>9, <1>11, <1>12, <1>13, PastStep

LEMMA PeerCloseConn ==
  ASSUME Typed, Distinct, ConnOK, NEW c \in Conns, PeerClose(c)
  PROVE  RemoteStep(c)
<1> DEFINE t == peer[c]
           m == Speak("FIN", t, <<>>)
           st == IF t.st = "ESTAB" THEN "FIN_WAIT_1" ELSE "LAST_ACK"
<1>1. peer \in [Conns -> Peers] /\ t \in Peers
  BY DEF Typed, NetType
<1>2. t.st \in {"ESTAB", "CLOSE_WAIT"} /\ toPeer' = toPeer /\ UNCHANGED kernel
  BY DEF PeerClose
<1>3. peer' = [peer EXCEPT ![c] = [t EXCEPT !.snd = t.snd + 1, !.st = st]]
  BY <1>1 DEF PeerClose
<1>4. t.snd \in Int /\ t.rcv \in Int
  BY <1>1, PeerFields
<1>5. m \in ShortSegments /\ <<m>> \in Seq(ShortSegments) /\ m.flags = "FIN"
  BY <1>4, SpeakType, EmptyBytes DEF Speak, Segment
<1>6. Tell(c, <<m>>)
  BY DEF PeerClose
<1>7. Past([st |-> st])
  BY DEF Past
<1> HIDE DEF m, st
<1>8. toHost'[c] = toHost[c] \o <<m>> /\ \A d \in Conns : d # c => toHost'[d] = toHost[d]
  BY <1>5, <1>6, TellType DEF Typed
<1>9. Clear(toHost[c]) /\ toHost[c] \in Seq(ShortSegments)
  BY <1>2, WireFacts DEF Past
<1>10. Clear(toHost'[c])
  BY <1>5, <1>8, <1>9, ClearAppend
<1>11. peer'[c].st = st /\ \A d \in Conns : d # c => peer'[d] = peer[d]
  <2>1. peer'[c].st = st
    BY <1>1, <1>3 DEF Peers
  <2> QED BY <1>1, <1>3, <2>1
<1>12. Past(peer'[c])
  BY <1>7, <1>11 DEF Past
<1> QED BY <1>2, <1>8, <1>10, <1>11, <1>12, PastStep

\* What a remote past the handshake hears, it answers by an acknowledgement.
LEMMA HeardPast ==
  ASSUME NEW c, NEW t \in Peers, NEW m \in Segments, Past(t)
  PROVE  LET h == Heard(c, t, m)
         IN  /\ Past(h.t)
             /\ h.out = <<>> \/ \E s \in ShortSegments : h.out = <<s>> /\ s.flags = "ACK"
<1> DEFINE h == Heard(c, t, m)
<1>1. \A u \in Peers : LET s == Speak("ACK", u, <<>>)
                       IN  s \in ShortSegments /\ s.flags = "ACK"
  <2> SUFFICES ASSUME NEW u \in Peers
               PROVE  Speak("ACK", u, <<>>) \in ShortSegments
                      /\ Speak("ACK", u, <<>>).flags = "ACK"
    OBVIOUS
  <2>1. Speak("ACK", u, <<>>).flags = "ACK"
    BY DEF Speak, Segment
  <2> QED BY <2>1, PeerFields, SpeakType, EmptyBytes
<1>2. Past(Seen(t, m))
  <2> DEFINE st == IF m.ack # t.snd THEN t.st
                   ELSE CASE t.st = "SYN_RCVD" -> "ESTAB"
                          [] t.st = "FIN_WAIT_1" -> "FIN_WAIT_2"
                          [] t.st = "CLOSING" -> "TIMED_WAIT"
                          [] t.st = "LAST_ACK" -> "DONE"
                          [] OTHER -> t.st
  <2>1. st \notin {"CLOSED", "SYN_SENT"}
    BY DEF Past
  <2>2. Seen(t, m) = [t EXCEPT !.una = m.ack, !.win = m.win, !.st = st]
    BY DEF Seen
  <2> HIDE DEF st
  <2>3. Seen(t, m).st = st
    BY <2>2 DEF Peers
  <2> QED BY <2>1, <2>3 DEF Past
<1>3. Past(Got(t, m))
  <2> DEFINE s == Seen(t, m)
  <2>1. s \in Peers /\ Past(s)
    BY <1>2, HeardPartTypes
  <2> HIDE DEF s
  <2>2. Got(t, m) = IF m.seq # t.rcv THEN t
                    ELSE [s EXCEPT !.rcv = @ + Len(m.data), !.got = @ \o m.data]
    BY DEF Got, s
  <2>3. [s EXCEPT !.rcv = @ + Len(m.data), !.got = @ \o m.data].st = s.st
    BY <2>1 DEF Peers
  <2> QED BY <2>1, <2>2, <2>3 DEF Past
<1>4. ASSUME t.st \in OpenStates PROVE Past(HeardFin(t))
  <2>1. HeardFin(t).st = CASE t.st = "ESTAB" -> "CLOSE_WAIT"
                           [] t.st = "FIN_WAIT_1" -> "CLOSING"
                           [] t.st = "FIN_WAIT_2" -> "TIMED_WAIT"
    BY DEF HeardFin, Peers
  <2> QED BY <1>4, <2>1 DEF OpenStates, Past
<1>5. /\ Seen(t, m) \in Peers /\ Got(t, m) \in Peers
      /\ t.st \in OpenStates => HeardFin(t) \in Peers
  BY HeardPartTypes
<1> HIDE DEF h
<1>6. \/ h.t = Seen(t, m) /\ h.out = <<>>
      \/ h.t = Got(t, m) /\ h.out = <<Speak("ACK", Got(t, m), <<>>)>>
      \/ t.st \in OpenStates /\ h.t = HeardFin(t) /\ h.out = <<Speak("ACK", HeardFin(t), <<>>)>>
      \/ h.t = t /\ h.out = <<>>
  <2>1. t.st # "CLOSED" /\ t.st # "SYN_SENT"
    BY DEF Past
  <2>2. CASE m.flags = "ACK" /\ m.data = <<>> /\ m.ack > 0
    BY <2>2 DEF Heard, Seen, h
  <2>3. CASE m.flags = "ACK" /\ m.data # <<>> /\ t.st \in OpenStates
    BY <2>3 DEF Heard, Seen, Got, OpenStates, h
  <2>4. CASE m.flags = "FIN" /\ t.st \in OpenStates /\ m.seq = t.rcv
    BY <2>4 DEF Heard, HeardFin, OpenStates, h
  <2>5. CASE /\ ~(m.flags = "ACK" /\ m.data = <<>> /\ m.ack > 0)
             /\ ~(m.flags = "ACK" /\ m.data # <<>> /\ t.st \in OpenStates)
             /\ ~(m.flags = "FIN" /\ t.st \in OpenStates /\ m.seq = t.rcv)
    BY <2>1, <2>5 DEF Heard, OpenStates, h
  <2> QED BY <2>2, <2>3, <2>4, <2>5
<1>7. Past(h.t) /\ (h.out = <<>> \/ \E s \in ShortSegments : h.out = <<s>> /\ s.flags = "ACK")
  BY <1>1, <1>2, <1>3, <1>4, <1>5, <1>6
<1> QED BY <1>7 DEF h

LEMMA PeerReceiveConn ==
  ASSUME Typed, Distinct, ConnOK, NEW c \in Conns, PeerReceive(c)
  PROVE  RemoteStep(c)
<1> DEFINE t == peer[c]
           m == Head(toPeer[c])
           h == Heard(c, t, m)
<1>1. /\ toPeer \in [Conns -> Seq(Segments)] /\ toPeer[c] # <<>>
      /\ peer \in [Conns -> Peers] /\ t \in Peers
      /\ toPeer' = [toPeer EXCEPT ![c] = Tail(toPeer[c])]
      /\ peer' = [peer EXCEPT ![c] = h.t]
      /\ Tell(c, h.out) /\ UNCHANGED kernel
  BY DEF PeerReceive, Hears, Typed, NetType
<1>2. m \in Segments /\ toHost[c] \in Seq(ShortSegments)
  BY <1>1 DEF Typed, NetType
<1>3. h.t \in Peers /\ h.out \in Seq(ShortSegments)
  BY <1>1, <1>2, HeardType
<1>4. toHost'[c] = toHost[c] \o h.out /\ \A d \in Conns : d # c => toHost'[d] = toHost[d]
  BY <1>1, <1>3, TellType DEF Typed
<1>5. /\ peer'[c] = h.t /\ toPeer'[c] = Tail(toPeer[c])
      /\ \A d \in Conns : d # c => peer'[d] = peer[d] /\ toPeer'[d] = toPeer[d]
  BY <1>1
<1>6. CASE Past(t)
  <2>1. Clear(toHost[c])
    BY <1>1, <1>6, WireFacts
  <2>2. Past(h.t) /\ (h.out = <<>> \/ \E s \in ShortSegments : h.out = <<s>> /\ s.flags = "ACK")
    BY <1>1, <1>2, <1>6, HeardPast
  <2> HIDE DEF h
  <2>3. Clear(toHost[c] \o h.out)
    <3>1. h.out = <<>> => toHost[c] \o h.out = toHost[c]
      BY <1>2
    <3> QED BY <1>2, <2>1, <2>2, <3>1, ClearAppend
  <2> QED BY <1>1, <1>4, <1>5, <2>2, <2>3, PastStep
<1>7. CASE t.st = "SYN_SENT"
  <2>1. toHost[c] = <<>> /\ m.flags = "SYNACK"
    BY <1>1, <1>7, WireFacts
  <2>2. h.t = Connected(t, m) /\ h.out = <<Speak("ACK", Connected(t, m), <<>>)>>
    <3> HIDE DEF h, t, m
    <3> QED BY <1>7, <2>1 DEF Heard, Connected, h
  <2>3. Connected(t, m).st = "ESTAB" /\ Connected(t, m) \in Peers
    <3>1. Connected(t, m).st = "ESTAB"
      BY <1>1 DEF Connected, Peers
    <3> QED BY <1>1, <1>2, <3>1, HeardPartTypes
  <2> DEFINE s == Speak("ACK", Connected(t, m), <<>>)
  <2>4. s.flags = "ACK"
    BY DEF Speak, Segment
  <2> HIDE DEF h, s
  <2>5. toHost'[c] = <<s>>
    BY <1>3, <1>4, <2>1, <2>2 DEF s
  <2>6. Clear(toHost'[c])
    BY <2>4, <2>5 DEF Clear
  <2>7. Past(peer'[c])
    BY <1>5, <2>2, <2>3 DEF Past
  <2> QED BY <1>1, <1>4, <1>5, <2>6, <2>7, PastStep
<1>8. CASE t.st = "CLOSED"
  <2>1. /\ toHost[c] = <<>> /\ c \notin Incoming /\ m.flags = "SYN"
        /\ Dialled(socklist, c) /\ Len(toPeer[c]) = 1
    BY <1>1, <1>8, WireFacts
  <2>2. c[1] \in Servers
    BY <2>1, RemoteConn
  <2> DEFINE a == Answered(t, m)
             s == Speak("SYNACK", [a EXCEPT !.snd = 0], <<>>)
  <2>3. h.t = a /\ h.out = <<s>>
    <3> HIDE DEF h, t, m
    <3> QED BY <1>8, <2>1, <2>2 DEF Heard, Answered, h, a, s
  <2>4. a.st = "SYN_RCVD"
    BY <1>1 DEF Answered, Peers
  <2>5. s.flags = "SYNACK"
    BY DEF Speak, Segment
  <2> HIDE DEF h, a, s
  <2>6. toHost'[c] = <<s>>
    BY <1>3, <1>4, <2>1, <2>3
  <2>7. toPeer'[c] = <<>> /\ peer'[c] = a
    BY <1>1, <1>5, <2>1, <2>3
  <2>8. Len(<<s>>) = 1 /\ DOMAIN <<s>> = {1} /\ <<s>>[1] = s
    OBVIOUS
  <2>9. WireOK(c, <<s>>, <<>>, a, socklist)
    BY <2>1, <2>2, <2>4, <2>5, <2>8 DEF WireOK, Alone_
  <2> QED BY <1>1, <1>4, <1>5, <1>8, <2>4, <2>6, <2>7, <2>9 DEF RemoteStep, Past
<1> QED BY <1>6, <1>7, <1>8 DEF Past

LEMMA RemoteConnOK ==
  ASSUME Typed, Distinct, ConnOK, NEW c \in Conns, Remote(c)
  PROVE  ConnOK'
<1>1. PeerOpen(c) \/ PeerRetry(c) \/ PeerSend(c) \/ PeerClose(c) \/ PeerReceive(c)
  BY DEF Remote
<1>2. RemoteStep(c)
  BY <1>1, PeerOpenConn, PeerRetryConn, PeerSendConn, PeerCloseConn, PeerReceiveConn
<1> QED BY <1>2, RemoteStepConn

-----------------------------------------------------------------------------
(* Segments arrive.                                                        *)

\* A table whose nodes come, one each, from nodes of another with the same
\* remote and port keeps them apart.
LEMMA ApartComesFrom ==
  ASSUME NEW table, NEW sl, NEW bl, ComesFrom(table, sl),
         NodesApart(sl), PortsApart(sl), ListsApart(sl, bl)
  PROVE  NodesApart(table) /\ PortsApart(table) /\ ListsApart(table, bl)
<1>1. PICK f \in [DOMAIN table -> DOMAIN sl] :
        /\ \A j \in DOMAIN table : Evolves(table[j], sl[f[j]])
        /\ \A j, k \in DOMAIN table : f[j] = f[k] => j = k
  BY DEF ComesFrom
<1>2. \A j \in DOMAIN table : /\ table[j].dest = sl[f[j]].dest
                              /\ table[j].srcport = sl[f[j]].srcport
                              /\ f[j] \in DOMAIN sl
  BY <1>1 DEF Evolves, SameSocket
<1>3. NodesApart(table)
  BY <1>1, <1>2 DEF NodesApart
<1>4. PortsApart(table)
  BY <1>1, <1>2 DEF PortsApart
<1>5. ListsApart(table, bl)
  BY <1>2 DEF ListsApart
<1> QED BY <1>3, <1>4, <1>5

LEMMA TailOfOne ==
  ASSUME NEW S, NEW s \in Seq(S), Len(s) = 1
  PROVE  Tail(s) = <<>>
<1>1. \A t \in Seq(S) : Len(t) = 0 => t = <<>>
  OBVIOUS
<1>2. Tail(s) \in Seq(S) /\ Len(Tail(s)) = 0
  OBVIOUS
<1> QED BY <1>1, <1>2

\* The SYN of a client is alone on its channels, and nothing of its connection
\* is in the host yet.
LEMMA SynArrives ==
  ASSUME Typed, Distinct, ConnOK, NEW c \in Conns, Syn(c)
  PROVE  /\ c \in Incoming /\ peer[c].st = "SYN_SENT" /\ toPeer[c] = <<>>
         /\ toHost'[c] = <<>> /\ \A d \in Conns : d # c => toHost'[d] = toHost[d]
         /\ \A i \in DOMAIN socklist : socklist[i].dest # c[1]
         /\ \A j \in DOMAIN backlog_list : Live(backlog_list[j]) => backlog_list[j].dest # c[1]
<1>1. Delivers(c) /\ Head(toHost[c]).flags = "SYN"
  BY SynCases
<1>2. /\ Len(toHost[c]) > 0 /\ toHost'[c] = Tail(toHost[c])
      /\ \A d \in Conns : d # c => toHost'[d] = toHost[d]
  BY <1>1, ArrivingFacts
<1>3. toHost[c] \in Seq(ShortSegments)
  BY DEF Typed, NetType
<1>4. 1 \in DOMAIN toHost[c] /\ toHost[c][1].flags = "SYN"
  BY <1>1, <1>2, <1>3
<1>5. c \in Incoming /\ peer[c].st = "SYN_SENT" /\ toPeer[c] = <<>> /\ Len(toHost[c]) = 1
  BY <1>4 DEF ConnOK, WiresOK, WireOK, Alone_
<1>6. toHost'[c] = <<>>
  BY <1>2, <1>3, <1>5, TailOfOne
<1>7. ASSUME NEW i \in DOMAIN socklist, socklist[i].dest = c[1] PROVE FALSE
  <2>1. socklist[i].dest # NoRemote /\ socklist[i].dest \notin Servers
    BY <1>5, <1>7, RemoteConn
  <2>2. Conn(socklist[i]) \in Conns /\ Up(socklist[i].status) /\ Past(peer[Conn(socklist[i])])
    BY <2>1 DEF ConnOK, NodesOK, NodeOK, Up
  <2>3. Conn(socklist[i]) = c
    BY <1>5, <1>7, <2>2, RemoteConn, ConnParts
  <2> QED BY <1>5, <2>2, <2>3 DEF Past
<1>8. ASSUME NEW j \in DOMAIN backlog_list, Live(backlog_list[j]), backlog_list[j].dest = c[1]
      PROVE  FALSE
  <2>1. /\ Conn(backlog_list[j]) \in Incoming
        /\ peer[Conn(backlog_list[j])].st = "SYN_SENT" => toPeer[Conn(backlog_list[j])] # <<>>
    BY <1>8 DEF ConnOK, HalvesOK, HalfOK
  <2>2. Conn(backlog_list[j]) = c
    BY <1>8, <2>1, RemoteConn, ConnParts
  <2> QED BY <1>5, <2>1, <2>2
<1> QED BY <1>2, <1>5, <1>6, <1>7, <1>8

\* A half-open connection is that of a socket bound to the port of the SYN.
LEMMA SynHalf ==
  ASSUME Typed, Distinct, ConnOK, NEW c \in Conns, Syn(c), Fits(c), NEW ack \in Int,
         Live(Half(ListenerOf(c[2]), c[1], ack))
  PROVE  LET n == Half(ListenerOf(c[2]), c[1], ack)
         IN  Conn(n) = c /\ n.srcport \notin Ephemeral
<1> DEFINE i == Listener(socklist, c[2])
           l == ListenerOf(c[2])
           n == Half(l, c[1], ack)
<1>1. c[1] \in Remotes /\ c = <<c[1], c[2]>> /\ -1 \in Int /\ -2 \in Int
  BY ConnFacts
<1>2. i # 0
  <2> SUFFICES ASSUME i = 0 PROVE FALSE
    OBVIOUS
  <2>1. n.sockfd = l.sockfd
    BY <1>1, HalfOfListener
  <2>2. l.sockfd = -2
    BY DEF ListenerOf, NoListener, FreshNode
  <2> QED BY <2>1, <2>2 DEF Live
<1>3. /\ l = socklist[i] /\ i \in DOMAIN socklist /\ l \in SockNode
      /\ l.srcport \in {c[2], 0} /\ l.status = "LISTENING"
  BY <1>2, ListenerLookup DEF ListenerOf
<1>4. NodeOK(l, peer)
  BY <1>3 DEF ConnOK, NodesOK
<1>5. l.srcport \notin Ephemeral
  BY <1>3, <1>4 DEF NodeOK
<1>6. l.backlog > 0
  <2>1. Room(backlog_list, l)
    BY <1>2, <1>3 DEF Fits
  <2>2. num_of_nodes(backlog_list, l.sockfd, l.owner) \in Nat
    BY CountNodes DEF Typed, KernelType
  <2>3. l.backlog \in Nat
    BY <1>3, NodeFields DEF SockNode
  <2> QED BY <2>1, <2>2, <2>3 DEF Room
<1>7. l.srcport = c[2]
  BY <1>3, <1>4, <1>6 DEF NodeOK
<1>8. n.dest = c[1] /\ n.srcport = l.srcport
  BY <1>1, <1>3, HalfFields DEF SockNode
<1> HIDE DEF n, l
<1>9. Conn(n) = c /\ n.srcport \notin Ephemeral
  BY <1>1, <1>5, <1>7, <1>8 DEF Conn
<1> QED BY <1>9 DEF n, l

LEMMA SynConn ==
  ASSUME Typed, Distinct, ConnOK, NEW c \in Conns, Syn(c)
  PROVE  ConnOK'
<1> DEFINE n == Half(ListenerOf(c[2]), c[1], Head(toHost[c]).seq + 1)
           s == Segment("SYNACK", 0, n.ack, BUFSIZE, <<>>)
<1>1. /\ socklist' = socklist /\ peer' = peer
      /\ \/ Fits(c) /\ backlog_list' = Append(backlog_list, n) /\ Post(c, <<s>>)
         \/ backlog_list' = backlog_list /\ toPeer' = toPeer
  BY SynCases
<1>2. /\ c \in Incoming /\ peer[c].st = "SYN_SENT" /\ toPeer[c] = <<>>
      /\ toHost'[c] = <<>> /\ \A d \in Conns : d # c => toHost'[d] = toHost[d]
      /\ \A i \in DOMAIN socklist : socklist[i].dest # c[1]
      /\ \A j \in DOMAIN backlog_list : Live(backlog_list[j]) => backlog_list[j].dest # c[1]
  BY SynArrives
<1>3. NodesOK'
  BY <1>1 DEF ConnOK, NodesOK
<1>4. ASSUME NEW out, \A k \in DOMAIN out : out[k].flags = "SYNACK"
      PROVE  WireOK(c, toHost'[c], out, peer[c], socklist)
  BY <1>2, <1>4 DEF WireOK
<1>5. \A d \in Conns : WireOK(d, toHost[d], toPeer[d], peer[d], socklist)
  BY DEF ConnOK, WiresOK
<1>6. CASE backlog_list' = backlog_list /\ toPeer' = toPeer
  <2>1. HalvesOK' /\ Apart'
    BY <1>1, <1>6 DEF ConnOK, HalvesOK, Apart
  <2>2. WireOK(c, toHost'[c], toPeer[c], peer[c], socklist)
    BY <1>2, <1>4
  <2>3. WiresOK'
    BY <1>1, <1>2, <1>5, <1>6, <2>2 DEF WiresOK
  <2> QED BY <1>3, <2>1, <2>3 DEF ConnOK
<1>7. CASE Fits(c) /\ backlog_list' = Append(backlog_list, n) /\ Post(c, <<s>>)
  <2>1. Head(toHost[c]) \in ShortSegments /\ Head(toHost[c]).seq \in Int
    BY SynCases, ArrivingFacts, SegmentFields
  <2>2. Head(toHost[c]).seq + 1 \in Int /\ c[1] \in Remotes
    BY <2>1, ConnFacts
  <2>3. n \in HalfNode
    BY <2>2, HalfType
  <2>4. Live(n) => Conn(n) = c /\ n.srcport \notin Ephemeral
    BY <1>7, <2>2, SynHalf
  <2>5. n.ack \in Int
    BY <2>3, NodeFields DEF HalfNode
  <2> HIDE DEF n
  <2>6. s \in Segments /\ <<s>> \in Seq(Segments) /\ s.flags = "SYNACK"
    <3>1. s.flags = "SYNACK"
      BY DEF Segment
    <3> QED BY <2>5, <3>1, SegmentType, Empties, IndexFacts
  <2> HIDE DEF s
  <2>7. /\ \A d \in Conns : d # c => toPeer'[d] = toPeer[d]
        /\ toPeer'[c] = toPeer[c] \o <<s>>
        /\ \A d \in Conns : toPeer[d] # <<>> => toPeer'[d] # <<>>
    BY <1>7, <2>6, PostAt
  <2>8. toPeer'[c] = <<s>>
    BY <1>2, <2>6, <2>7
  <2>9. WiresOK'
    <3>1. \A k \in DOMAIN <<s>> : <<s>>[k].flags = "SYNACK"
      BY <2>6
    <3>2. WireOK(c, toHost'[c], toPeer'[c], peer[c], socklist)
      BY <1>4, <2>8, <3>1
    <3> QED BY <1>1, <1>2, <1>5, <2>7, <3>2 DEF WiresOK
  <2>10. /\ \A j \in DOMAIN backlog_list' :
              \/ j \in DOMAIN backlog_list /\ backlog_list'[j] = backlog_list[j]
              \/ j = Len(backlog_list) + 1 /\ backlog_list'[j] = n
    BY <1>7, <2>3, AppendElements DEF Typed, KernelType
  <2>11. HalvesOK'
    <3>1. \A j \in DOMAIN backlog_list : HalfOK(backlog_list[j], peer, toPeer')
      BY <2>7, HalvesKept DEF ConnOK
    <3>2. toPeer'[c] # <<>>
      BY <2>8
    <3>3. HalfOK(n, peer, toPeer')
      BY <1>2, <2>4, <3>2 DEF HalfOK
    <3> QED BY <1>1, <2>10, <3>1, <3>3 DEF HalvesOK
  <2>12. Live(n) => n.dest = c[1]
    BY <2>4, ConnParts
  <2>13. NodesApart(socklist) /\ PortsApart(socklist) /\ HalvesApart(backlog_list)
         /\ ListsApart(socklist, backlog_list)
    BY DEF ConnOK, Apart
  <2>14. HalvesApart(backlog_list')
    BY <1>2, <2>10, <2>12, <2>13 DEF HalvesApart
  <2>15. ListsApart(socklist, backlog_list')
    BY <1>2, <2>10, <2>12, <2>13 DEF ListsApart
  <2>16. Apart'
    BY <1>1, <2>13, <2>14, <2>15 DEF Apart
  <2> QED BY <1>3, <2>9, <2>11, <2>16 DEF ConnOK
<1> QED BY <1>1, <1>6, <1>7


\* The sockets a SYN+ACK opens are the one that has dialled its connection.
LEMMA SynAckArrives ==
  ASSUME Typed, Distinct, ConnOK, NEW c \in Conns, SynAck(c)
  PROVE  /\ peer[c].st = "SYN_RCVD" /\ toHost'[c] = <<>>
         /\ \A d \in Conns : d # c => toHost'[d] = toHost[d]
         /\ \A i \in Mine(c) : Conn(socklist[i]) = c
<1>1. Delivers(c) /\ Head(toHost[c]).flags = "SYNACK"
  BY SynAckCases
<1>2. /\ Len(toHost[c]) > 0 /\ toHost'[c] = Tail(toHost[c])
      /\ \A d \in Conns : d # c => toHost'[d] = toHost[d]
  BY <1>1, ArrivingFacts
<1>3. toHost[c] \in Seq(ShortSegments)
  BY DEF Typed, NetType
<1>4. 1 \in DOMAIN toHost[c] /\ toHost[c][1].flags = "SYNACK"
  BY <1>1, <1>2, <1>3
<1>5. /\ c[1] \in Servers /\ peer[c].st = "SYN_RCVD" /\ Len(toHost[c]) = 1
      /\ Dialled(socklist, c)
  BY <1>4 DEF ConnOK, WiresOK, WireOK, Alone_
<1>6. toHost'[c] = <<>>
  BY <1>2, <1>3, <1>5, TailOfOne
<1>7. c[2] \in Ephemeral
  BY <1>5, RemoteConn
<1>8. ASSUME NEW i \in Mine(c) PROVE Conn(socklist[i]) = c
  <2>1. PICK k \in DOMAIN socklist : Conn(socklist[k]) = c
    BY <1>5 DEF Dialled
  <2>2. i \in DOMAIN socklist /\ socklist[i].srcport = c[2]
    BY DEF Mine, Expecting
  <2>3. socklist[k].srcport = c[2]
    BY <2>1, ConnParts
  <2>4. i = k
    BY <1>7, <2>2, <2>3 DEF ConnOK, Apart, PortsApart
  <2> QED BY <2>1, <2>4
<1> QED BY <1>2, <1>5, <1>6, <1>8

LEMMA SynAckConn ==
  ASSUME Typed, Distinct, ConnOK, NEW c \in Conns, SynAck(c)
  PROVE  ConnOK'
<1> DEFINE m == Head(toHost[c])
           seg == Segment("ACK", m.ack, m.seq + 1, BUFSIZE, <<>>)
           out == [k \in 1..Cardinality(Mine(c)) |-> seg]
<1>1. /\ peer[c].st = "SYN_RCVD" /\ toHost'[c] = <<>>
      /\ \A d \in Conns : d # c => toHost'[d] = toHost[d]
      /\ \A i \in Mine(c) : Conn(socklist[i]) = c
  BY SynAckArrives
<1>2. /\ socklist' = [i \in DOMAIN socklist |-> IF i \in Mine(c) THEN Opened(i, m) ELSE socklist[i]]
      /\ Post(c, out) /\ Delivers(c) /\ backlog_list' = backlog_list /\ peer' = peer
  BY SynAckCases
<1>3. ASSUME NEW i \in Mine(c)
      PROVE  SameSocket(Opened(i, m), socklist[i]) /\ Opened(i, m).status = "ESTAB"
  <2>1. SameSocket(Opened(i, m), socklist[i])
    BY OpenedEvolves DEF Evolves
  <2>2. socklist[i] \in SockNode
    BY ListElements DEF Mine
  <2>3. Opened(i, m).status = "ESTAB"
    BY <2>2 DEF Opened, SockNode, NodeOf
  <2> QED BY <2>1, <2>3
<1>4. m.ack \in Int /\ m.seq + 1 \in Int
  <2>1. m \in ShortSegments
    BY <1>2, ArrivingFacts
  <2>2. m.ack \in Int /\ m.seq \in Int
    BY <2>1, SegmentFields
  <2> QED BY <2>2
<1>5. seg \in Segments
  BY <1>4, SegmentType, IndexFacts, Empties
<1>6. Cardinality(Mine(c)) \in Nat
  <2>1. DOMAIN socklist = 1..Len(socklist) /\ Len(socklist) \in Nat
    BY DEF Typed, KernelType
  <2>2. IsFiniteSet(1..Len(socklist))
    BY <2>1, FS_Interval
  <2>3. Mine(c) \subseteq 1..Len(socklist)
    BY <2>1 DEF Mine
  <2> QED BY <2>2, <2>3, FS_Subset, FS_CardinalityType
<1> HIDE DEF seg, m
<1>7. out \in Seq(Segments)
  BY <1>5, <1>6
<1> HIDE DEF out
<1>8. /\ \A d \in Conns : d # c => toPeer'[d] = toPeer[d]
      /\ \A d \in Conns : toPeer[d] # <<>> => toPeer'[d] # <<>>
  BY <1>2, <1>7, PostAt
<1>9. DOMAIN socklist' = DOMAIN socklist
  BY <1>2
<1>10. ASSUME NEW i \in DOMAIN socklist, i \notin Mine(c) PROVE socklist'[i] = socklist[i]
  BY <1>2, <1>10
<1>11. ASSUME NEW i \in Mine(c) PROVE socklist'[i] = Opened(i, m) /\ i \in DOMAIN socklist
  BY <1>2, <1>11 DEF Mine
<1>12. NodesOK'
  <2>1. ASSUME NEW i \in DOMAIN socklist PROVE NodeOK(socklist'[i], peer)
    <3> DEFINE n == socklist[i]
    <3>1. NodeOK(n, peer)
      BY DEF ConnOK, NodesOK
    <3>2. CASE i \notin Mine(c)
      BY <1>10, <3>1, <3>2
    <3>3. CASE i \in Mine(c)
      <4> DEFINE o == socklist'[i]
      <4>1. SameSocket(o, n) /\ o.status = "ESTAB"
        BY <1>3, <1>11, <3>3
      <4>2. Conn(n) = c /\ n.dest # NoRemote
        BY <1>1, <3>3, ConnParts, RemoteConn
      <4> HIDE DEF o, n
      <4>3. Conn(o) = c /\ o.dest # NoRemote /\ o.srcport = n.srcport /\ o.backlog = n.backlog
        BY <4>1, <4>2 DEF SameSocket, Conn
      <4>4. Past(peer[c])
        BY <1>1 DEF Past
      <4>5. n.backlog > 0 => n.srcport # 0
        BY <3>1 DEF NodeOK, n
      <4> QED BY <4>1, <4>3, <4>4, <4>5 DEF NodeOK, o
    <3> QED BY <3>2, <3>3
  <2> QED BY <1>2, <1>9, <2>1 DEF NodesOK
<1>13. Apart'
  <2>1. ComesFrom(socklist', socklist)
    BY SynAckTable
  <2> QED BY <1>2, <2>1, ApartComesFrom DEF ConnOK, Apart
<1>14. HalvesOK'
  <2>1. \A j \in DOMAIN backlog_list : HalfOK(backlog_list[j], peer', toPeer')
    BY <1>2, <1>8, HalvesKept DEF ConnOK
  <2> QED BY <1>2, <2>1 DEF HalvesOK
<1>15. ASSUME NEW d \in Conns PROVE WireOK(d, toHost'[d], toPeer'[d], peer[d], socklist')
  <2>1. CASE d = c
    <3>1. Past(peer[d]) /\ Clear(toHost'[d])
      BY <1>1, <2>1 DEF Past, Clear
    <3> QED BY <3>1, WirePast
  <2>2. CASE d # c
    <3>1. WireOK(d, toHost[d], toPeer[d], peer[d], socklist)
      BY DEF ConnOK, WiresOK
    <3>2. ASSUME Dialled(socklist, d) PROVE Dialled(socklist', d)
      <4>1. PICK i \in DOMAIN socklist : Conn(socklist[i]) = d /\ socklist[i].status = "SYN_SENT"
        BY <3>2 DEF Dialled
      <4>2. socklist'[i] = socklist[i]
        BY <1>1, <1>10, <2>2, <4>1
      <4> QED BY <1>9, <4>1, <4>2 DEF Dialled
    <3>3. toHost'[d] = toHost[d] /\ toPeer'[d] = toPeer[d]
      BY <1>1, <1>8, <2>2
    <3> QED BY <3>1, <3>2, <3>3, WireDialled
  <2> QED BY <2>1, <2>2
<1>16. WiresOK'
  BY <1>2, <1>15 DEF WiresOK
<1> QED BY <1>12, <1>13, <1>14, <1>16 DEF ConnOK

\* A FIN.
LEMMA FinConn ==
  ASSUME Typed, Distinct, ConnOK, NEW c \in Conns, Fin(c)
  PROVE  ConnOK'
<1> DEFINE m == Head(toHost[c])
           i == FinAt(c)
           n == socklist[i]
           seg == Segment("ACK", FinSeq(n), m.seq + 1, BUFSIZE, <<>>)
<1>1. /\ Delivers(c) /\ m.flags = "FIN" /\ backlog_list' = backlog_list /\ peer' = peer
      /\ \/ /\ i # 0 /\ n.status \in {"ESTAB", "FIN_WAIT_1", "FIN_WAIT_2"}
            /\ socklist' = [socklist EXCEPT ![i] = Finished(n, m)]
            /\ Post(c, <<seg>>)
         \/ socklist' = socklist /\ toPeer' = toPeer
  BY FinCases
<1>2. Past(peer[c]) /\ Clear(toHost'[c])
  BY <1>1, ArrivesClear
<1>3. m \in ShortSegments /\ \A d \in Conns : d # c => toHost'[d] = toHost[d]
  BY <1>1, ArrivingFacts
<1>4. \A d \in Conns : WireOK(d, toHost[d], toPeer[d], peer[d], socklist)
  BY DEF ConnOK, WiresOK
<1>5. WireOK(c, toHost'[c], toPeer'[c], peer[c], socklist')
  BY <1>2, WirePast
<1>6. CASE socklist' = socklist /\ toPeer' = toPeer
  <2>1. WiresOK'
    BY <1>1, <1>3, <1>4, <1>5, <1>6 DEF WiresOK
  <2> QED BY <1>1, <1>6, <2>1 DEF ConnOK, NodesOK, HalvesOK, Apart
<1>7. CASE /\ i # 0 /\ n.status \in {"ESTAB", "FIN_WAIT_1", "FIN_WAIT_2"}
           /\ socklist' = [socklist EXCEPT ![i] = Finished(n, m)]
           /\ Post(c, <<seg>>)
  <2>1. i \in DOMAIN socklist /\ n \in SockNode
    BY <1>7, FinAtLookup
  <2> HIDE DEF n
  <2>2. /\ Finished(n, m) \in SockNode /\ SameSocket(Finished(n, m), n)
        /\ Finished(n, m).status \in {"CLOSE_WAIT", "CLOSING", "TIMED_WAIT"}
        /\ FinSeq(n) \in Int
    BY <1>3, <1>7, <2>1, FinPartTypes
  <2>3. Keeps(Finished(n, m), n)
    <3>1. Up(n.status) /\ Up(Finished(n, m).status)
      BY <1>7, <2>2 DEF Up
    <3> QED BY <2>2, <3>1 DEF Keeps, SameSocket
  <2> DEFINE f == Finished(n, m)
  <2>4. f \in SockNode /\ Keeps(f, socklist[i]) /\ socklist' = [socklist EXCEPT ![i] = f]
    BY <1>7, <2>2, <2>3 DEF n
  <2> HIDE DEF f, i
  <2>5. NodesOK' /\ Apart'
    BY <1>1, <2>1, <2>4, TableKept
  <2>6. \A d \in Conns : Dialled(socklist, d) => Dialled(socklist', d)
    BY <2>1, <2>4, DialledKept
  <2>7. m.seq \in Int
    BY <1>3, SegmentFields
  <2>8. m.seq + 1 \in Int
    BY <2>7
  <2> HIDE DEF m
  <2>9. seg \in Segments
    BY <2>2, <2>8, SegmentType, IndexFacts, Empties
  <2> HIDE DEF seg
  <2>10. <<seg>> \in Seq(Segments)
    BY <2>9
  <2>11. /\ \A d \in Conns : d # c => toPeer'[d] = toPeer[d]
         /\ \A d \in Conns : toPeer[d] # <<>> => toPeer'[d] # <<>>
    BY <1>7, <2>10, PostAt
  <2>12. HalvesOK'
    <3>1. \A j \in DOMAIN backlog_list : HalfOK(backlog_list[j], peer', toPeer')
      BY <1>1, <2>11, HalvesKept DEF ConnOK
    <3> QED BY <1>1, <3>1 DEF HalvesOK
  <2>13. ASSUME NEW d \in Conns PROVE WireOK(d, toHost'[d], toPeer'[d], peer[d], socklist')
    <3>1. CASE d # c
      <4>1. toHost'[d] = toHost[d] /\ toPeer'[d] = toPeer[d]
        BY <1>3, <2>11, <3>1
      <4> QED BY <1>4, <2>6, <4>1, WireDialled
    <3> QED BY <1>5, <3>1
  <2>14. WiresOK'
    BY <1>1, <2>13 DEF WiresOK
  <2> QED BY <2>5, <2>12, <2>14 DEF ConnOK
<1> QED BY <1>1, <1>6, <1>7


\* The half-open connection an ACK completes is that of the ACK.
LEMMA EntryConn ==
  ASSUME Typed, Distinct, ConnOK, NEW c \in Conns, HalfOpen(c) # 0
  PROVE  /\ HalfOpen(c) \in DOMAIN backlog_list /\ Live(Entry(c)) /\ Entry(c).dest = c[1]
         /\ Conn(Entry(c)) = c /\ Entry(c).srcport \notin Ephemeral /\ Entry(c).srcport # 0
<1> DEFINE e == Entry(c)
<1>1. /\ HalfOpen(c) \in DOMAIN backlog_list /\ e = backlog_list[HalfOpen(c)]
      /\ e.sockfd \in Descriptors /\ Matches(e, c[1])
  BY HalfOpenLookup DEF Entry
<1>2. Live(e)
  <2>1. -2 \notin Descriptors
    BY MaxFdAssumption DEF Descriptors
  <2> QED BY <1>1, <2>1 DEF Live
<1>3. Conn(e) \in Incoming /\ e.srcport \notin Ephemeral
  BY <1>1, <1>2 DEF ConnOK, HalvesOK, HalfOK
<1> HIDE DEF e
<1>4. Conn(e) \in Conns /\ e.dest \in Remotes /\ e.srcport # 0
  <2>1. Conn(e) \in Conns
    BY <1>3 DEF Conns
  <2>2. Conn(e)[1] \in Remotes /\ Conn(e)[2] \in Nat \ {0}
    BY <2>1, ConnFacts
  <2> QED BY <2>1, <2>2, ConnParts
<1>5. e.dest = c[1]
  <2>1. RemotePort[e.dest] = RemotePort[c[1]]
    BY <1>1, <1>4 DEF Matches
  <2>2. c[1] \in Remotes
    BY ConnFacts
  <2> QED BY <1>4, <2>1, <2>2 DEF Distinct
<1>6. Conn(e) = c
  BY <1>3, <1>5, ConnParts, RemoteConn
<1> QED BY <1>1, <1>2, <1>3, <1>4, <1>5, <1>6 DEF e

LEMMA TakeHalves ==
  ASSUME Typed, HalvesApart(backlog_list), NEW i \in DOMAIN backlog_list
  PROVE  LET bl == Take(backlog_list, i)
         IN  /\ HalvesApart(bl)
             /\ \A j \in DOMAIN bl : \E k \in DOMAIN backlog_list :
                  k # i /\ bl[j] = backlog_list[k]
<1> DEFINE bl == Take(backlog_list, i)
<1>1. backlog_list \in Seq(HalfNode)
  BY DEF Typed, KernelType
<1>2. /\ \A j \in DOMAIN bl :
           \/ j \in DOMAIN backlog_list /\ j < i /\ bl[j] = backlog_list[j]
           \/ j+1 \in DOMAIN backlog_list /\ j+1 > i /\ bl[j] = backlog_list[j+1]
      /\ DOMAIN bl \subseteq Nat
  BY <1>1, TakeElements
<1>3. i \in Nat
  BY <1>1
<1> HIDE DEF bl
<1>4. ASSUME NEW j \in DOMAIN bl
      PROVE  \E k \in DOMAIN backlog_list : k # i /\ bl[j] = backlog_list[k]
  <2>1. j \in Nat
    BY <1>2
  <2>2. j < i => j # i
    BY <1>3, <2>1
  <2>3. j+1 > i => j+1 # i
    BY <1>3, <2>1
  <2> QED BY <1>2, <2>2, <2>3
<1>5. ASSUME NEW j \in DOMAIN bl, NEW k \in DOMAIN bl, Live(bl[j]), Live(bl[k]),
             bl[j].dest = bl[k].dest
      PROVE  j = k
  <2> DEFINE at(x, y) == \/ y = x /\ y < i /\ y \in DOMAIN backlog_list /\ bl[x] = backlog_list[y]
                         \/ y = x+1 /\ y > i /\ y \in DOMAIN backlog_list /\ bl[x] = backlog_list[y]
  <2>1. PICK x : at(j, x)
    BY <1>2
  <2>2. PICK y : at(k, y)
    BY <1>2
  <2>3. x = y
    BY <1>5, <2>1, <2>2 DEF HalvesApart
  <2>4. j \in Nat /\ k \in Nat
    BY <1>2
  <2> QED BY <1>3, <2>1, <2>2, <2>3, <2>4
<1> QED BY <1>4, <1>5 DEF HalvesApart, bl

\* The first half of an ACK keeps the nodes and the half-open connections as
\* they were, and the new socket is of a remote that has none.
OpensOK(sl, bl) ==
  /\ \A i \in DOMAIN sl : NodeOK(sl[i], peer)
  /\ NodesApart(sl) /\ PortsApart(sl) /\ ListsApart(sl, bl) /\ HalvesApart(bl)
  /\ \A j \in DOMAIN bl : HalfOK(bl[j], peer, toPeer)
  /\ \A i \in DOMAIN sl : Up(sl[i].status) => Past(peer[Conn(sl[i])]) /\ Clear(toHost[Conn(sl[i])])

LEMMA OpensNew ==
  ASSUME Typed, Distinct, ConnOK, NEW c \in Conns, NEW m \in ShortSegments,
         Past(peer[c]), Clear(toHost[c]), NewlyOpen(c)
  PROVE  OpensOK(Completed(c, m).sl, Take(backlog_list, HalfOpen(c)))
<1> DEFINE sl == Completed(c, m).sl
           bl == Take(backlog_list, HalfOpen(c))
           n == NewSocket(c, m)
<1>1. /\ HalfOpen(c) # 0 /\ sl[1] = n /\ DOMAIN sl \subseteq Nat
      /\ \A k \in DOMAIN sl : k = 1 \/ (k-1 \in DOMAIN socklist /\ sl[k] = socklist[k-1])
  BY CompletedTable
<1>2. /\ HalfOpen(c) \in DOMAIN backlog_list /\ Live(Entry(c)) /\ Entry(c).dest = c[1]
      /\ Conn(Entry(c)) = c /\ Entry(c).srcport \notin Ephemeral /\ Entry(c).srcport # 0
      /\ Entry(c) = backlog_list[HalfOpen(c)]
  BY <1>1, EntryConn DEF Entry
<1>3. n.status = "ESTAB" /\ n.dest = Entry(c).dest /\ n.srcport = Entry(c).srcport
  BY <1>1, NewSocketType
<1> HIDE DEF n, sl
<1>4. Conn(n) = c
  BY <1>2, <1>3 DEF Conn
<1>5. NodeOK(n, peer)
  <2>1. n.dest # NoRemote /\ n.srcport # 0
    BY <1>2, <1>3, RemoteConn
  <2> QED BY <1>3, <1>4, <2>1 DEF NodeOK, Up
<1>6. NodesApart(socklist) /\ PortsApart(socklist) /\ HalvesApart(backlog_list)
      /\ ListsApart(socklist, backlog_list)
  BY DEF ConnOK, Apart
<1>7. /\ HalvesApart(bl)
      /\ \A j \in DOMAIN bl : \E k \in DOMAIN backlog_list :
           k # HalfOpen(c) /\ bl[j] = backlog_list[k]
  BY <1>2, <1>6, TakeHalves
<1> HIDE DEF bl
<1>8. \A i \in DOMAIN sl : NodeOK(sl[i], peer)
  BY <1>1, <1>5 DEF ConnOK, NodesOK
<1>9. \A k \in DOMAIN socklist : socklist[k].dest # n.dest
  BY <1>2, <1>3, <1>6 DEF ListsApart
<1>10. NodesApart(sl)
  <2> SUFFICES ASSUME NEW i \in DOMAIN sl, NEW j \in DOMAIN sl,
                      sl[i].dest = sl[j].dest, sl[i].dest # NoRemote
               PROVE  i = j
    BY DEF NodesApart
  <2>1. i = 1 <=> j = 1
    BY <1>1, <1>9
  <2>2. i # 1 => i - 1 = j - 1
    BY <1>1, <1>6, <2>1 DEF NodesApart
  <2>3. i \in Nat /\ j \in Nat
    BY <1>1
  <2> QED BY <2>1, <2>2, <2>3
<1>11. PortsApart(sl)
  <2> SUFFICES ASSUME NEW i \in DOMAIN sl, NEW j \in DOMAIN sl,
                      sl[i].srcport = sl[j].srcport, sl[i].srcport \in Ephemeral
               PROVE  i = j
    BY DEF PortsApart
  <2>1. i # 1 /\ j # 1
    BY <1>1, <1>2, <1>3
  <2>2. i - 1 = j - 1
    BY <1>1, <1>6, <2>1 DEF PortsApart
  <2>3. i \in Nat /\ j \in Nat
    BY <1>1
  <2> QED BY <2>2, <2>3
<1>12. ListsApart(sl, bl)
  <2> SUFFICES ASSUME NEW i \in DOMAIN sl, NEW j \in DOMAIN bl, Live(bl[j])
               PROVE  sl[i].dest # bl[j].dest
    BY DEF ListsApart
  <2>1. PICK k \in DOMAIN backlog_list : k # HalfOpen(c) /\ bl[j] = backlog_list[k]
    BY <1>7
  <2>2. CASE i = 1
    BY <1>1, <1>2, <1>3, <1>6, <2>1, <2>2 DEF HalvesApart
  <2>3. CASE i # 1
    BY <1>1, <1>6, <2>1, <2>3 DEF ListsApart
  <2> QED BY <2>2, <2>3
<1>13. \A j \in DOMAIN bl : HalfOK(bl[j], peer, toPeer)
  BY <1>7 DEF ConnOK, HalvesOK
<1>14. ASSUME NEW i \in DOMAIN sl, Up(sl[i].status)
       PROVE  Past(peer[Conn(sl[i])]) /\ Clear(toHost[Conn(sl[i])])
  BY <1>1, <1>4, <1>14, UpClear
<1>15. OpensOK(sl, bl)
  BY <1>7, <1>8, <1>10, <1>11, <1>12, <1>13, <1>14 DEF OpensOK
<1> QED BY <1>15 DEF sl, bl

LEMMA CompletedConn ==
  ASSUME Typed, Distinct, ConnOK, NEW c \in Conns, NEW m \in ShortSegments,
         Past(peer[c]), Clear(toHost[c])
  PROVE  OpensOK(Completed(c, m).sl, Completed(c, m).bl)
<1> DEFINE h == Completed(c, m)
<1>1. NodesApart(socklist) /\ PortsApart(socklist) /\ HalvesApart(backlog_list)
      /\ ListsApart(socklist, backlog_list)
  BY DEF ConnOK, Apart
<1>2. /\ \A i \in DOMAIN socklist : NodeOK(socklist[i], peer)
      /\ \A j \in DOMAIN backlog_list : HalfOK(backlog_list[j], peer, toPeer)
      /\ \A i \in DOMAIN socklist : Up(socklist[i].status) =>
           Past(peer[Conn(socklist[i])]) /\ Clear(toHost[Conn(socklist[i])])
  BY UpClear DEF ConnOK, NodesOK, HalvesOK
<1>3. CASE HalfOpen(c) = 0
  <2>1. h.sl = socklist /\ h.bl = backlog_list
    BY <1>3, CompletedCases
  <2> HIDE DEF h
  <2>2. OpensOK(socklist, backlog_list)
    BY <1>1, <1>2 DEF OpensOK
  <2>3. OpensOK(h.sl, h.bl)
    BY <2>1, <2>2
  <2> QED BY <2>3 DEF h
<1>4. CASE HalfOpen(c) # 0 /\ ~NewlyOpen(c)
  <2> DEFINE bl == Take(backlog_list, HalfOpen(c))
  <2>1. h.bl = bl
    BY <1>4, CompletedCases
  <2>2. h.sl = socklist
    BY <1>4, CompletedTable
  <2>3. HalfOpen(c) \in DOMAIN backlog_list
    BY <1>4, EntryConn
  <2>4. /\ HalvesApart(bl)
        /\ \A j \in DOMAIN bl : \E k \in DOMAIN backlog_list :
             k # HalfOpen(c) /\ bl[j] = backlog_list[k]
    BY <1>1, <2>3, TakeHalves
  <2> HIDE DEF h, bl
  <2>5. ListsApart(socklist, bl)
    BY <1>1, <2>4 DEF ListsApart
  <2>6. \A j \in DOMAIN bl : HalfOK(bl[j], peer, toPeer)
    BY <1>2, <2>4
  <2>7. OpensOK(socklist, bl)
    BY <1>1, <1>2, <2>4, <2>5, <2>6 DEF OpensOK
  <2>8. OpensOK(h.sl, h.bl)
    BY <2>1, <2>2, <2>7
  <2> QED BY <2>8 DEF h
<1>5. CASE NewlyOpen(c)
  <2>1. HalfOpen(c) # 0
    BY <1>5 DEF NewlyOpen
  <2>2. h.bl = Take(backlog_list, HalfOpen(c))
    BY <2>1, CompletedCases
  <2>3. OpensOK(h.sl, Take(backlog_list, HalfOpen(c)))
    BY <1>5, OpensNew
  <2> HIDE DEF h
  <2>4. OpensOK(h.sl, h.bl)
    BY <2>2, <2>3
  <2> QED BY <2>4 DEF h
<1> QED BY <1>3, <1>4, <1>5


\* The second half keeps the connection of every node.
LEMMA AckedKeeps ==
  ASSUME NEW n \in SockNode, NEW m \in ShortSegments, NEW c
  PROVE  /\ Keeps(AckOf(n, c, m).node, n)
         /\ n.status = "SYN_SENT" => AckOf(n, c, m).node.status = "SYN_SENT"
         /\ Conn(AckOf(n, c, m).node) = Conn(n)
         /\ \/ AckOf(n, c, m).to = c
            \/ AckOf(n, c, m).to = Conn(n) /\ Up(n.status)
<1> DEFINE a == AckOf(n, c, m)
<1>1. /\ SameSocket(a.node, n)
      /\ a.node.status = CASE n.status = "FIN_WAIT_1" -> "FIN_WAIT_2"
                           [] n.status = "CLOSING" -> "TIMED_WAIT"
                           [] OTHER -> n.status
  BY AckOfFacts
<1>2. a.to = c \/ (a.to = Conn(n) /\ n.status = "ESTAB")
  <2>1. CASE n.status = "ESTAB" /\ m.data # <<>>
    <3>1. a = Receive(n, c, m)
      BY <2>1 DEF AckOf
    <3>2. Receive(n, c, m).to = c
      BY DEF Receive
    <3> HIDE DEF a
    <3> QED BY <3>1, <3>2
  <2>2. CASE n.status = "ESTAB" /\ m.data = <<>>
    <3>1. a = Acked(n, m)
      BY <2>2 DEF AckOf
    <3>2. Acked(n, m).to = Conn(n)
      BY DEF Acked, Conn
    <3> HIDE DEF a
    <3> QED BY <2>2, <3>1, <3>2
  <2>3. CASE n.status # "ESTAB"
    BY <2>3 DEF AckOf
  <2> QED BY <2>1, <2>2, <2>3
<1> HIDE DEF a
<1>3. Conn(a.node) = Conn(n)
  BY <1>1 DEF Conn, SameSocket
<1>4. a.node.status = n.status \/ (Up(n.status) /\ Up(a.node.status))
  BY <1>1 DEF Up
<1>5. Keeps(a.node, n)
  BY <1>1, <1>4 DEF Keeps, SameSocket
<1>6. n.status = "SYN_SENT" => a.node.status = "SYN_SENT"
  BY <1>1
<1>7. n.status = "ESTAB" => Up(n.status)
  BY DEF Up
<1> QED BY <1>2, <1>3, <1>5, <1>6, <1>7 DEF a

LEMMA KeepsOK ==
  ASSUME NEW m, NEW n, NEW pr, NodeOK(n, pr), Keeps(m, n)
  PROVE  NodeOK(m, pr)
<1>1. Conn(m) = Conn(n)
  BY DEF Keeps, Conn
<1>2. m.dest = n.dest /\ m.srcport = n.srcport /\ m.backlog = n.backlog
  BY DEF Keeps
<1>3. m.status = n.status \/ (Up(n.status) /\ Up(m.status))
  BY DEF Keeps
<1> QED BY <1>1, <1>2, <1>3 DEF NodeOK, Up

\* Every node of the table after an ACK is one its first half left.
LEMMA AckNodes ==
  ASSUME Typed, NEW c \in Conns, Ack(c), NEW j \in DOMAIN socklist'
  PROVE  \E k \in DOMAIN Completed(c, Head(toHost[c])).sl :
           Keeps(socklist'[j], Completed(c, Head(toHost[c])).sl[k])
<1> DEFINE m == Head(toHost[c])
           sl == Completed(c, m).sl
           i == AckedAt(c, m)
           n == AckOf(sl[i], c, m).node
<1>1. m \in ShortSegments
  BY AckCases, ArrivingFacts
<1>2. sl \in Seq(SockNode)
  BY <1>1, CompletedType
<1>3. i # 0 => i \in DOMAIN sl /\ sl[i] \in SockNode
  BY <1>1, AckedAtLookup
<1>4. i # 0 => Keeps(n, sl[i])
  BY <1>1, <1>3, AckedKeeps
<1>5. \/ i = 0 /\ socklist' = sl
      \/ i # 0 /\ socklist' = Take(sl, i)
      \/ i # 0 /\ socklist' = [sl EXCEPT ![i] = n]
  BY AckCases
<1>6. \A x : Keeps(x, x)
  BY DEF Keeps
<1> HIDE DEF n, i, sl
<1>7. CASE i = 0 /\ socklist' = sl
  BY <1>6, <1>7 DEF sl, m
<1>8. CASE i # 0 /\ socklist' = Take(sl, i)
  <2>1. i \in DOMAIN sl
    BY <1>3, <1>8
  <2>2. \E k \in DOMAIN sl : socklist'[j] = sl[k]
    BY <1>2, <1>8, <2>1, TakeElements
  <2> QED BY <1>6, <2>2 DEF sl, m
<1>9. CASE i # 0 /\ socklist' = [sl EXCEPT ![i] = n]
  <2>1. j \in DOMAIN sl /\ socklist'[j] = IF j = i THEN n ELSE sl[j]
    BY <1>9
  <2>2. Keeps(socklist'[j], sl[j])
    BY <1>4, <1>6, <1>9, <2>1
  <2> QED BY <2>1, <2>2 DEF sl, m
<1> QED BY <1>5, <1>7, <1>8, <1>9

\* A socket that waits for the answer to its SYN still does after an ACK.
LEMMA AckDialled ==
  ASSUME Typed, NEW c \in Conns, Ack(c), NEW d, Dialled(socklist, d)
  PROVE  Dialled(socklist', d)
<1> DEFINE m == Head(toHost[c])
           sl == Completed(c, m).sl
<1>1. m \in ShortSegments
  BY AckCases, ArrivingFacts
<1>2. PICK i \in DOMAIN socklist : Conn(socklist[i]) = d /\ socklist[i].status = "SYN_SENT"
  BY DEF Dialled
<1>3. PICK k \in DOMAIN sl : sl[k] = socklist[i]
  BY <1>1, CompletedKeeps
<1>4. /\ sl[k] \in SockNode
      /\ k # AckedAt(c, m) => \E j \in DOMAIN socklist' : socklist'[j] = sl[k]
      /\ k = AckedAt(c, m) /\ sl[k].status # "LAST_ACK" =>
           \E j \in DOMAIN socklist' : socklist'[j] = AckOf(sl[k], c, m).node
  BY AckKeeps
<1>5. Conn(sl[k]) = d /\ sl[k].status = "SYN_SENT"
  BY <1>2, <1>3
<1>6. /\ Conn(AckOf(sl[k], c, m).node) = d
      /\ AckOf(sl[k], c, m).node.status = "SYN_SENT"
  BY <1>1, <1>4, <1>5, AckedKeeps
<1> HIDE DEF sl, m
<1> QED BY <1>4, <1>5, <1>6 DEF Dialled

\* Where an ACK makes the host send.
LEMMA AckPosts ==
  ASSUME Typed, NEW c \in Conns, Ack(c)
  PROVE  LET m == Head(toHost[c])
             sl == Completed(c, m).sl
         IN  \E to : \E out \in Seq(Segments) :
               /\ Post(to, out)
               /\ to = c \/ \E i \in DOMAIN sl : to = Conn(sl[i]) /\ Up(sl[i].status)
<1> DEFINE m == Head(toHost[c])
           sl == Completed(c, m).sl
           i == AckedAt(c, m)
           a == AckResult(c, m)
<1>1. m \in ShortSegments
  BY AckCases, ArrivingFacts
<1>2. Post(a.to, a.out)
  BY AckCases
<1>3. i # 0 => i \in DOMAIN sl /\ sl[i] \in SockNode
  BY <1>1, AckedAtLookup
<1>4. CASE i = 0
  <2>1. a.to = c /\ a.out = <<>>
    BY <1>4 DEF AckResult
  <2> HIDE DEF a, sl
  <2> QED BY <1>2, <2>1, Empties
<1>5. CASE i # 0
  <2>1. a = AckOf(sl[i], c, m)
    BY <1>5 DEF AckResult
  <2>2. AckOf(sl[i], c, m).out \in Seq(Segments)
    BY <1>1, <1>3, <1>5, AckOfFacts
  <2>3. \/ AckOf(sl[i], c, m).to = c
        \/ AckOf(sl[i], c, m).to = Conn(sl[i]) /\ Up(sl[i].status)
    BY <1>1, <1>3, <1>5, AckedKeeps
  <2> HIDE DEF a, sl, i, m
  <2>4. a.out \in Seq(Segments) /\ (a.to = c \/ (a.to = Conn(sl[i]) /\ Up(sl[i].status)))
    BY <2>1, <2>2, <2>3
  <2>5. \E to : \E out \in Seq(Segments) :
               /\ Post(to, out)
               /\ to = c \/ \E k \in DOMAIN sl : to = Conn(sl[k]) /\ Up(sl[k].status)
    BY <1>2, <1>3, <1>5, <2>4
  <2> QED BY <2>5 DEF sl, m
<1> QED BY <1>4, <1>5

LEMMA AckConn ==
  ASSUME Typed, Distinct, ConnOK, NEW c \in Conns, Ack(c)
  PROVE  ConnOK'
<1> DEFINE m == Head(toHost[c])
           sl == Completed(c, m).sl
           bl == Completed(c, m).bl
<1>1. Delivers(c) /\ m.flags = "ACK" /\ backlog_list' = bl /\ peer' = peer
  BY AckCases
<1>2. m \in ShortSegments /\ \A d \in Conns : d # c => toHost'[d] = toHost[d]
  BY <1>1, ArrivingFacts
<1>3. Past(peer[c]) /\ Clear(toHost[c]) /\ Clear(toHost'[c])
  BY <1>1, ArrivesClear
<1>4. OpensOK(sl, bl)
  BY <1>2, <1>3, CompletedConn
<1>5. ComesFrom(socklist', sl)
  BY AckTable
<1>6. \A j \in DOMAIN socklist' : \E k \in DOMAIN sl : Keeps(socklist'[j], sl[k])
  BY AckNodes
<1>7. \A d \in Conns : Dialled(socklist, d) => Dialled(socklist', d)
  BY AckDialled
<1>8. PICK to : \E out \in Seq(Segments) :
        /\ Post(to, out)
        /\ to = c \/ \E i \in DOMAIN sl : to = Conn(sl[i]) /\ Up(sl[i].status)
  BY AckPosts
<1>9. PICK out \in Seq(Segments) :
        /\ Post(to, out)
        /\ to = c \/ \E i \in DOMAIN sl : to = Conn(sl[i]) /\ Up(sl[i].status)
  BY <1>8
<1> HIDE DEF sl, bl, m
<1>10. /\ \A d \in Conns : d # to => toPeer'[d] = toPeer[d]
       /\ \A d \in Conns : toPeer[d] # <<>> => toPeer'[d] # <<>>
  BY <1>9, PostAt
<1>11. NodesOK'
  <2>1. \A j \in DOMAIN socklist' : NodeOK(socklist'[j], peer)
    BY <1>4, <1>6, KeepsOK DEF OpensOK
  <2> QED BY <1>1, <2>1 DEF NodesOK
<1>12. Apart'
  <2>1. NodesApart(socklist') /\ PortsApart(socklist') /\ ListsApart(socklist', bl)
    BY <1>4, <1>5, ApartComesFrom DEF OpensOK
  <2> QED BY <1>1, <1>4, <2>1 DEF Apart, OpensOK
<1>13. HalvesOK'
  <2>1. \A j \in DOMAIN bl : HalfOK(bl[j], peer, toPeer)
    BY <1>4 DEF OpensOK
  <2>2. \A j \in DOMAIN bl : HalfOK(bl[j], peer, toPeer')
    BY <1>10, <2>1 DEF HalfOK, Conns
  <2> QED BY <1>1, <2>2 DEF HalvesOK
<1>14. ASSUME NEW d \in Conns PROVE WireOK(d, toHost'[d], toPeer'[d], peer[d], socklist')
  <2>1. CASE d = c
    BY <1>3, <2>1, WirePast
  <2>2. CASE d # c /\ d = to
    <3>1. Past(peer[d]) /\ Clear(toHost[d])
      BY <1>4, <1>9, <2>2 DEF OpensOK
    <3>2. toHost'[d] = toHost[d]
      BY <1>2, <2>2
    <3> QED BY <3>1, <3>2, WirePast
  <2>3. CASE d # c /\ d # to
    <3>1. WireOK(d, toHost[d], toPeer[d], peer[d], socklist)
      BY DEF ConnOK, WiresOK
    <3>2. toHost'[d] = toHost[d] /\ toPeer'[d] = toPeer[d]
      BY <1>2, <1>10, <2>3
    <3> QED BY <1>7, <3>1, <3>2, WireDialled
  <2> QED BY <2>1, <2>2, <2>3
<1>15. WiresOK'
  BY <1>1, <1>14 DEF WiresOK
<1> QED BY <1>11, <1>12, <1>13, <1>15 DEF ConnOK

-----------------------------------------------------------------------------
(* The handshake.                                                          *)

LEMMA NextConn == Typed /\ Orderly /\ ConnOK /\ [Next]_vars => ConnOK'
<1> SUFFICES ASSUME Typed, Orderly, ConnOK, [Next]_vars PROVE ConnOK'
  OBVIOUS
<1>1. Distinct
  BY DEF Orderly
<1>2. ASSUME NEW p \in Pids, Syscall(p) PROVE ConnOK'
  BY <1>2, SyscallConn
<1>3. ASSUME NEW c \in Conns, packetArrived(c) PROVE ConnOK'
  BY <1>1, <1>3, SynConn, SynAckConn, AckConn, FinConn DEF packetArrived
<1>4. ASSUME NEW c \in Conns, Remote(c) PROVE ConnOK'
  BY <1>1, <1>4, RemoteConnOK
<1>5. CASE UNCHANGED vars
  BY <1>5 DEF vars, kernel, ConnOK, NodesOK, HalvesOK, Apart, WiresOK
<1> QED BY <1>2, <1>3, <1>4, <1>5 DEF Next

LEMMA InitConn == Init => ConnOK
<1> SUFFICES ASSUME Init PROVE ConnOK
  OBVIOUS
<1>1. DOMAIN socklist = {} /\ DOMAIN backlog_list = {}
  BY DEF Init
<1>2. NodesOK /\ HalvesOK /\ Apart
  BY <1>1 DEF NodesOK, HalvesOK, Apart, NodesApart, HalvesApart, ListsApart, PortsApart
<1>3. ASSUME NEW c \in Conns
      PROVE  WireOK(c, toHost[c], toPeer[c], peer[c], socklist)
  <2>1. toHost[c] = <<>> /\ toPeer[c] = <<>> /\ DOMAIN toHost[c] = {}
    BY DEF Init
  <2>2. PICK s \in Scenarios :
          peer = [d \in Conns |-> IF d \in Incoming \ s.clients
                                  THEN [Closed EXCEPT !.st = "DONE"] ELSE Closed]
    BY DEF Init
  <2>3. peer[c] \in {[Closed EXCEPT !.st = "DONE"], Closed}
    BY <2>2
  <2>4. peer[c].st # "SYN_SENT"
    BY <2>3 DEF Closed
  <2> QED BY <2>1, <2>4 DEF WireOK
<1> QED BY <1>2, <1>3 DEF ConnOK, WiresOK

LEMMA ConnAgrees == ConnOK => HandshakeAgreed
<1> SUFFICES ASSUME ConnOK, NEW i \in DOMAIN socklist, Up(socklist[i].status)
             PROVE  /\ Past(peer[Conn(socklist[i])])
                    /\ \A j \in DOMAIN socklist :
                         j # i => Conn(socklist[j]) # Conn(socklist[i])
                    /\ \A j \in DOMAIN backlog_list :
                         Live(backlog_list[j]) => backlog_list[j].dest # socklist[i].dest
  BY DEF HandshakeAgreed, Up, Past, Live
<1>1. socklist[i].dest # NoRemote /\ Past(peer[Conn(socklist[i])])
  BY DEF ConnOK, NodesOK, NodeOK
<1>2. ASSUME NEW j \in DOMAIN socklist, j # i PROVE Conn(socklist[j]) # Conn(socklist[i])
  <2>1. socklist[j].dest # socklist[i].dest
    BY <1>1, <1>2 DEF ConnOK, Apart, NodesApart
  <2> QED BY <2>1, ConnParts
<1>3. \A j \in DOMAIN backlog_list :
        Live(backlog_list[j]) => backlog_list[j].dest # socklist[i].dest
  BY DEF ConnOK, Apart, ListsApart
<1> QED BY <1>1, <1>2, <1>3

\* The two ends of a connection agree that it is open: a socket past the
\* handshake is the only one of its connection, no half-open connection of its
\* remote is left beside it, and the remote has answered or sent the last
\* segment of the handshake, whatever calls, remotes and arrivals interleave.
\* Of processes that use their sockets as Orderly says: outside of it connect,
\* bind and Matches mix connections up.
THEOREM TcpHandshakeAgreed == Spec /\ []Orderly => []HandshakeAgreed
<1> DEFINE Inv == Typed /\ ConnOK
<1>1. Init => Inv
  BY InitTyped, InitConn
<1>2. Inv /\ Orderly /\ [Next]_vars => Inv'
  BY NextTyped, NextConn
<1>3. Inv => HandshakeAgreed
  BY ConnAgrees
<1> QED BY <1>1, <1>2, <1>3, PTL DEF Spec

-----------------------------------------------------------------------------
(* The sequence.                                                           *)

\* A remote that has heard the FIN of the host.
Ended(t) == t.st \in {"CLOSE_WAIT", "LAST_ACK", "CLOSING", "TIMED_WAIT", "DONE"}

\* What is under way to remote t runs from what it has received to the number
\* node n goes on with, and n has not sent its FIN if it may still send data.
NodeSeq(n, t, out) ==
  Up(n.status) => /\ Run(t.rcv, out, NextSeq(n))
                  /\ t.st = "SYN_RCVD" => out # <<>>
                  /\ Talks(n.status) => ~Ended(t) /\ ~HasFin(out)

\* A half-open connection whose remote has heard the SYNACK: the number that
\* every segment acknowledges is the one the new socket goes on with.
HalfSeq(t, in, out) ==
  Past(t) => /\ out = <<>> /\ t.rcv = 1 /\ ~Ended(t) /\ t.st # "SYN_RCVD"
             /\ \A k \in DOMAIN in : in[k].ack = 1

\* What is under way to remote t is what t takes: in sequence, nothing with a
\* length behind a FIN, and the acknowledgement of its SYNACK first.
OutSeq(t, out) ==
  /\ Chain(t.rcv, out)
  /\ ~Past(t) => t.rcv = 0
  /\ t.st = "SYN_SENT" => Len(out) <= 1
  /\ Past(t) => \A k \in DOMAIN out : out[k].flags \in {"ACK", "FIN"}
  /\ \A k \in DOMAIN out : out[k].flags # "ACK" => out[k].data = <<>>
  /\ t.st = "SYN_RCVD" /\ out # <<>> => /\ out[1].flags = "ACK" /\ out[1].data = <<>>
                                        /\ out[1].ack = 1
  /\ Ended(t) => \A k \in DOMAIN out : SeqLen(out[k]) = 0
  /\ \A k, l \in DOMAIN out : out[k].flags = "FIN" /\ k < l => SeqLen(out[l]) = 0
InSeq(c, t, in) ==
  /\ t.st = "SYN_RCVD" => c[1] \in Servers /\ t.snd = 1 /\ t.rcv = 1
  /\ t.st = "CLOSED" => t.snd = 0
  /\ \A k \in DOMAIN in : /\ in[k].flags = "SYN" => in[k].seq = 0
                          /\ in[k].flags = "SYNACK" => in[k].seq = 0 /\ in[k].ack = 1

\* A socket has the only connection to its remote.
OneConn(n, pr) == \A d \in Conns : d[1] = n.dest /\ d # Conn(n) => pr[d].st = "CLOSED"

NodesSeq == \A i \in DOMAIN socklist :
              LET c == Conn(socklist[i]) IN NodeSeq(socklist[i], peer[c], toPeer[c])
HalvesSeq == \A j \in DOMAIN backlog_list : Live(backlog_list[j]) =>
               LET c == Conn(backlog_list[j]) IN HalfSeq(peer[c], toHost[c], toPeer[c])
WiresSeq == \A c \in Conns : OutSeq(peer[c], toPeer[c]) /\ InSeq(c, peer[c], toHost[c])
ConnsOne == \A i \in DOMAIN socklist : OneConn(socklist[i], peer)
SeqOK == NodesSeq /\ HalvesSeq /\ WiresSeq /\ ConnsOne

LEMMA ConcatElements ==
  ASSUME NEW s \in Seq(Segments), NEW u \in Seq(Segments)
  PROVE  /\ \A k \in DOMAIN (s \o u) :
              \/ k \in DOMAIN s /\ (s \o u)[k] = s[k]
              \/ k - Len(s) \in DOMAIN u /\ (s \o u)[k] = u[k - Len(s)] /\ k \notin DOMAIN s
         /\ Len(s \o u) = Len(s) + Len(u) /\ Len(s) \in Nat /\ Len(u) \in Nat
         /\ DOMAIN s = 1..Len(s) /\ DOMAIN u = 1..Len(u)
         /\ s # <<>> => s \o u # <<>> /\ (s \o u)[1] = s[1]
OBVIOUS

\* What a node posts goes on where the channel ends.
LEMMA HostSends ==
  ASSUME NEW t, Past(t), NEW out \in Seq(Segments), NEW new \in Seq(Segments),
         OutSeq(t, out), NEW m, NEW n, NodeSeq(n, t, out), Up(n.status), Up(m.status),
         Sends(m, n, new)
  PROVE  NodeSeq(m, t, out \o new) /\ OutSeq(t, out \o new)
<1> DEFINE all == out \o new
<1>1. /\ Run(t.rcv, out, NextSeq(n)) /\ Run(NextSeq(n), new, NextSeq(m))
      /\ Talks(n.status) => ~Ended(t) /\ ~HasFin(out)
      /\ t.st = "SYN_RCVD" => out # <<>>
  BY DEF NodeSeq, Sends
<1>2. Run(t.rcv, all, NextSeq(m))
  BY <1>1, RunAppend
<1>3. /\ \A k \in DOMAIN all :
           \/ k \in DOMAIN out /\ all[k] = out[k]
           \/ k - Len(out) \in DOMAIN new /\ all[k] = new[k - Len(out)] /\ k \notin DOMAIN out
      /\ Len(all) = Len(out) + Len(new) /\ Len(out) \in Nat /\ Len(new) \in Nat
      /\ DOMAIN out = 1..Len(out) /\ DOMAIN new = 1..Len(new)
      /\ out # <<>> => all # <<>> /\ all[1] = out[1]
  BY ConcatElements
<1>4. /\ Chain(t.rcv, out)
      /\ \A k \in DOMAIN out : /\ out[k].flags \in {"ACK", "FIN"}
                               /\ out[k].flags # "ACK" => out[k].data = <<>>
      /\ t.st = "SYN_RCVD" => out[1].flags = "ACK" /\ out[1].data = <<>> /\ out[1].ack = 1
      /\ Ended(t) => \A k \in DOMAIN out : SeqLen(out[k]) = 0
      /\ \A k, l \in DOMAIN out : out[k].flags = "FIN" /\ k < l => SeqLen(out[l]) = 0
  BY <1>1 DEF OutSeq
<1>5. /\ \A k \in DOMAIN new : /\ new[k].flags \in {"ACK", "FIN"}
                               /\ SeqLen(new[k]) # 0 => Talks(n.status)
                               /\ new[k].flags = "FIN" => k = Len(new) /\ new[k].data = <<>>
      /\ Talks(m.status) => Talks(n.status) /\ ~HasFin(new)
  BY DEF Sends
<1> HIDE DEF all
<1>6. NodeSeq(m, t, all)
  <2>1. Talks(m.status) => ~HasFin(all)
    BY <1>1, <1>3, <1>5 DEF HasFin
  <2> QED BY <1>1, <1>2, <1>3, <1>5, <2>1 DEF NodeSeq
<1>7. \A k \in DOMAIN all : /\ all[k].flags \in {"ACK", "FIN"}
                            /\ all[k].flags # "ACK" => all[k].data = <<>>
  BY <1>3, <1>4, <1>5
<1>8. Ended(t) => \A k \in DOMAIN all : SeqLen(all[k]) = 0
  BY <1>1, <1>3, <1>4, <1>5
<1>9. ASSUME NEW k \in DOMAIN all, NEW l \in DOMAIN all, all[k].flags = "FIN", k < l
      PROVE  SeqLen(all[l]) = 0
  <2>1. CASE l \in DOMAIN out /\ all[l] = out[l]
    <3>1. k \in DOMAIN out /\ all[k] = out[k]
      BY <1>3, <1>9, <2>1
    <3> QED BY <1>4, <1>9, <2>1, <3>1
  <2>2. CASE l - Len(out) \in DOMAIN new /\ all[l] = new[l - Len(out)]
    <3>1. CASE k \in DOMAIN out /\ all[k] = out[k]
      <4>1. ~Talks(n.status)
        BY <1>1, <1>9, <3>1 DEF HasFin
      <4> QED BY <1>5, <2>2, <4>1
    <3>2. CASE k - Len(out) \in DOMAIN new /\ all[k] = new[k - Len(out)]
      <4>1. k - Len(out) = Len(new)
        BY <1>5, <1>9, <3>2
      <4>2. k \in Int /\ l \in Int /\ l - Len(out) <= Len(new)
        BY <1>3, <2>2, <3>2
      <4> QED BY <1>3, <1>9, <4>1, <4>2
    <3> QED BY <1>3, <3>1, <3>2
  <2> QED BY <1>3, <2>1, <2>2
<1>10. OutSeq(t, all)
  BY <1>1, <1>2, <1>3, <1>4, <1>7, <1>8, <1>9 DEF OutSeq, Run, Past
<1> QED BY <1>6, <1>10 DEF all

LEMMA SilentSeq ==
  ASSUME NEW m, NEW n, NEW t, NEW out, NodeSeq(n, t, out), Sends(m, n, <<>>)
  PROVE  NodeSeq(m, t, out)
<1>1. CASE ~Up(m.status)
  BY <1>1 DEF NodeSeq
<1>2. CASE Up(m.status)
  <2>1. Up(n.status) /\ NextSeq(m) = NextSeq(n) /\ (Talks(m.status) => Talks(n.status))
    BY <1>2 DEF Sends, Run, Start
  <2> QED BY <1>2, <2>1 DEF NodeSeq
<1> QED BY <1>1, <1>2

LEMMA OneKept ==
  ASSUME NEW m, NEW n, NEW pr, OneConn(n, pr), Conn(m) = Conn(n)
  PROVE  OneConn(m, pr)
BY ConnParts DEF OneConn

\* A step of the host that posts on one connection at most.
LEMMA HostSeq ==
  ASSUME Typed, ConnOK, SeqOK, peer' = peer, NEW c,
         \A d \in Conns : d # c => toPeer'[d] = toPeer[d] /\ toHost'[d] = toHost[d],
         c \in Conns => OutSeq(peer[c], toPeer'[c]) /\ InSeq(c, peer[c], toHost'[c]),
         \A j \in DOMAIN socklist' :
           LET m == socklist'[j]
           IN  /\ Up(m.status) =>
                    \/ Conn(m) = c /\ NodeSeq(m, peer[c], toPeer'[c])
                    \/ Conn(m) # c /\ \E k \in DOMAIN socklist :
                         Conn(m) = Conn(socklist[k]) /\ Sends(m, socklist[k], <<>>)
               /\ OneConn(m, peer) \/ \E k \in DOMAIN socklist : Conn(m) = Conn(socklist[k]),
         \A j \in DOMAIN backlog_list' : Live(backlog_list'[j]) =>
           \/ Conn(backlog_list'[j]) = c /\ HalfSeq(peer[c], toHost'[c], toPeer'[c])
           \/ Conn(backlog_list'[j]) # c /\ \E k \in DOMAIN backlog_list :
                backlog_list'[j] = backlog_list[k]
  PROVE  SeqOK'
<1>1. ASSUME NEW j \in DOMAIN socklist'
      PROVE  NodeSeq(socklist'[j], peer'[Conn(socklist'[j])], toPeer'[Conn(socklist'[j])])
  <2> DEFINE m == socklist'[j]
  <2>1. CASE ~Up(m.status)
    BY <2>1 DEF NodeSeq
  <2>2. CASE Conn(m) = c /\ NodeSeq(m, peer[c], toPeer'[c])
    BY <2>2
  <2>3. ASSUME Up(m.status), Conn(m) # c, NEW k \in DOMAIN socklist,
               Conn(m) = Conn(socklist[k]), Sends(m, socklist[k], <<>>)
        PROVE  NodeSeq(m, peer'[Conn(m)], toPeer'[Conn(m)])
    <3>1. Up(socklist[k].status)
      BY <2>3 DEF Sends
    <3>2. Conn(m) \in Conns
      BY <2>3, <3>1, UpClear
    <3>3. toPeer'[Conn(m)] = toPeer[Conn(m)] /\ peer'[Conn(m)] = peer[Conn(m)]
      BY <2>3, <3>2
    <3>4. NodeSeq(socklist[k], peer[Conn(m)], toPeer[Conn(m)])
      BY <2>3 DEF SeqOK, NodesSeq
    <3>5. NodeSeq(m, peer[Conn(m)], toPeer[Conn(m)])
      BY <2>3, <3>4, SilentSeq
    <3> QED BY <3>3, <3>5
  <2> QED BY <2>1, <2>2, <2>3
<1>2. ASSUME NEW j \in DOMAIN backlog_list', Live(backlog_list'[j])
      PROVE  LET d == Conn(backlog_list'[j])
             IN  HalfSeq(peer'[d], toHost'[d], toPeer'[d])
  <2> DEFINE d == Conn(backlog_list'[j])
  <2>1. CASE d = c /\ HalfSeq(peer[c], toHost'[c], toPeer'[c])
    BY <2>1
  <2>2. ASSUME d # c, NEW k \in DOMAIN backlog_list, backlog_list'[j] = backlog_list[k]
        PROVE  HalfSeq(peer'[d], toHost'[d], toPeer'[d])
    <3>1. d \in Conns
      BY <1>2, <2>2 DEF ConnOK, HalvesOK, HalfOK, Conns
    <3>2. HalfSeq(peer[d], toHost[d], toPeer[d])
      BY <1>2, <2>2 DEF SeqOK, HalvesSeq
    <3> QED BY <2>2, <3>1, <3>2
  <2> QED BY <1>2, <2>1, <2>2
<1>3. ASSUME NEW d \in Conns
      PROVE  OutSeq(peer'[d], toPeer'[d]) /\ InSeq(d, peer'[d], toHost'[d])
  <2>1. OutSeq(peer[d], toPeer[d]) /\ InSeq(d, peer[d], toHost[d])
    BY DEF SeqOK, WiresSeq
  <2> QED BY <2>1
<1>4. ASSUME NEW j \in DOMAIN socklist' PROVE OneConn(socklist'[j], peer')
  <2>1. CASE OneConn(socklist'[j], peer)
    BY <2>1
  <2>2. ASSUME NEW k \in DOMAIN socklist, Conn(socklist'[j]) = Conn(socklist[k])
        PROVE  OneConn(socklist'[j], peer)
    <3>1. OneConn(socklist[k], peer)
      BY DEF SeqOK, ConnsOne
    <3> QED BY <2>2, <3>1, OneKept
  <2> QED BY <2>1, <2>2
<1>5. NodesSeq'
  BY <1>1 DEF NodesSeq
<1>6. HalvesSeq'
  BY <1>2 DEF HalvesSeq
<1>7. WiresSeq'
  BY <1>3 DEF WiresSeq
<1>8. ConnsOne'
  BY <1>4 DEF ConnsOne
<1> QED BY <1>5, <1>6, <1>7, <1>8 DEF SeqOK

\* A step of the host that changes one node and posts on its connection.
LEMMA OneNodeSeq ==
  ASSUME Typed, ConnOK, SeqOK, NEW i \in DOMAIN socklist, NEW m \in SockNode,
         socklist' = [socklist EXCEPT ![i] = m], backlog_list' = backlog_list, peer' = peer,
         \A d \in Conns : d # Conn(m) => toPeer'[d] = toPeer[d] /\ toHost'[d] = toHost[d],
         Conn(m) \in Conns => /\ OutSeq(peer[Conn(m)], toPeer'[Conn(m)])
                              /\ InSeq(Conn(m), peer[Conn(m)], toHost'[Conn(m)]),
         NodeSeq(m, peer[Conn(m)], toPeer'[Conn(m)]), OneConn(m, peer),
         \A j \in DOMAIN socklist :
           j # i => socklist[j].dest # m.dest \/ socklist[j].dest = NoRemote,
         \A j \in DOMAIN backlog_list :
           Live(backlog_list[j]) => backlog_list[j].dest # m.dest
  PROVE  SeqOK'
<1> DEFINE c == Conn(m)
<1>1. /\ DOMAIN socklist' = DOMAIN socklist
      /\ \A j \in DOMAIN socklist : socklist'[j] = IF j = i THEN m ELSE socklist[j]
  OBVIOUS
<1>2. ASSUME NEW j \in DOMAIN socklist'
      PROVE  LET x == socklist'[j]
             IN  /\ Up(x.status) =>
                      \/ Conn(x) = c /\ NodeSeq(x, peer[c], toPeer'[c])
                      \/ Conn(x) # c /\ \E k \in DOMAIN socklist :
                           Conn(x) = Conn(socklist[k]) /\ Sends(x, socklist[k], <<>>)
                 /\ OneConn(x, peer) \/ \E k \in DOMAIN socklist : Conn(x) = Conn(socklist[k])
  <2>1. CASE j = i
    BY <1>1, <2>1
  <2>2. CASE j # i
    <3>1. j \in DOMAIN socklist /\ socklist'[j] = socklist[j]
      BY <1>1, <2>2
    <3>2. Sends(socklist'[j], socklist[j], <<>>)
      BY <3>1, SameSends
    <3>3. ASSUME Up(socklist[j].status) PROVE Conn(socklist[j]) # c
      <4>1. socklist[j].dest # NoRemote
        BY <3>1, <3>3 DEF ConnOK, NodesOK, NodeOK
      <4> QED BY <2>2, <3>1, <4>1, ConnParts
    <3> QED BY <3>1, <3>2, <3>3
  <2> QED BY <2>1, <2>2
<1>3. ASSUME NEW j \in DOMAIN backlog_list', Live(backlog_list'[j])
      PROVE  Conn(backlog_list'[j]) # c /\ \E k \in DOMAIN backlog_list :
                                              backlog_list'[j] = backlog_list[k]
  BY <1>3, ConnParts
<1>4. \A d \in Conns : d # c => toPeer'[d] = toPeer[d] /\ toHost'[d] = toHost[d]
  OBVIOUS
<1>5. c \in Conns => OutSeq(peer[c], toPeer'[c]) /\ InSeq(c, peer[c], toHost'[c])
  OBVIOUS
<1> HIDE DEF c
<1> QED BY <1>2, <1>3, <1>4, <1>5, HostSeq

LEMMA OtherRemotes ==
  ASSUME Typed, ConnOK, NEW i \in DOMAIN socklist, NEW m, m.dest = socklist[i].dest
  PROVE  /\ \A j \in DOMAIN socklist :
              j # i => socklist[j].dest # m.dest \/ socklist[j].dest = NoRemote
         /\ \A j \in DOMAIN backlog_list :
              Live(backlog_list[j]) => backlog_list[j].dest # m.dest
<1>1. NodesApart(socklist) /\ ListsApart(socklist, backlog_list)
  BY DEF ConnOK, Apart
<1> QED BY <1>1 DEF NodesApart, ListsApart

LEMMA DialsSeq ==
  ASSUME Typed, Distinct, ConnOK, SeqOK, NEW i \in DOMAIN socklist, NEW m \in SockNode,
         socklist' = [socklist EXCEPT ![i] = m], backlog_list' = backlog_list, peer' = peer,
         toHost' = toHost, Dials(m, socklist[i]), Post(Conn(m), <<SynSegment>>)
  PROVE  SeqOK'
<1> DEFINE c == Conn(m)
<1>1. /\ m.dest \in Servers /\ m.srcport \in Ephemeral /\ m.status = "SYN_SENT"
      /\ \A q \in Ephemeral : peer[<<m.dest, q>>] = Closed
      /\ \A j \in DOMAIN socklist : socklist[j].dest # m.dest
  BY DEF Dials, allocate_port
<1>2. c \in Conns /\ peer[c] = Closed
  BY <1>1 DEF Conn, Conns
<1>3. toPeer[c] = <<>>
  <2>1. peer[c].st = "CLOSED"
    BY <1>2 DEF Closed
  <2>2. toPeer[c] # <<>> => Dialled(socklist, c)
    BY <1>2, <2>1, WireFacts
  <2> QED BY <1>1, <2>2, ConnParts DEF Dialled
<1>4. <<SynSegment>> \in Seq(Segments) /\ SynSegment.seq = 0 /\ SynSegment.data = <<>>
  BY SegmentType, Empties, IndexFacts DEF SynSegment, Segment
<1>5. /\ toPeer'[c] = <<SynSegment>>
      /\ \A d \in Conns : d # c => toPeer'[d] = toPeer[d]
  <2>1. toPeer'[c] = toPeer[c] \o <<SynSegment>>
    BY <1>2, <1>4, PostAt
  <2>2. <<>> \o <<SynSegment>> = <<SynSegment>>
    OBVIOUS
  <2>3. \A d \in Conns : d # c => toPeer'[d] = toPeer[d]
    BY <1>4, PostAt
  <2> QED BY <1>3, <2>1, <2>2, <2>3
<1>6. OutSeq(peer[c], toPeer'[c]) /\ InSeq(c, peer[c], toHost'[c])
  <2>1. InSeq(c, peer[c], toHost[c])
    BY <1>2 DEF SeqOK, WiresSeq
  <2>2. peer[c].st = "CLOSED" /\ peer[c].rcv = 0
    BY <1>2 DEF Closed
  <2>3. \A k \in DOMAIN <<SynSegment>> : k = 1 /\ <<SynSegment>>[k] = SynSegment
    OBVIOUS
  <2>4. Chain(0, <<SynSegment>>)
    BY <1>4, <2>3 DEF Chain, Start
  <2>5. OutSeq(peer[c], <<SynSegment>>)
    BY <1>4, <2>2, <2>3, <2>4 DEF OutSeq, Past, Ended
  <2> QED BY <1>5, <2>1, <2>5
<1>7. NodeSeq(m, peer[c], toPeer'[c])
  BY <1>1 DEF NodeSeq, Up
<1>8. ASSUME NEW d \in Conns, d[1] = m.dest PROVE peer[d].st = "CLOSED"
  <2>1. d = <<m.dest, d[2]>> /\ d[2] \in Ephemeral
    BY <1>1, <1>8, RemoteConn, ConnFacts
  <2> QED BY <1>1, <2>1 DEF Closed
<1>9. OneConn(m, peer)
  BY <1>8 DEF OneConn
<1>10. \A j \in DOMAIN backlog_list : Live(backlog_list[j]) => backlog_list[j].dest # m.dest
  BY <1>1, LiveRemote DEF ConnOK
<1>11. \A d \in Conns : d # c => toPeer'[d] = toPeer[d] /\ toHost'[d] = toHost[d]
  BY <1>5
<1>12. \A j \in DOMAIN socklist : j # i => socklist[j].dest # m.dest \/ socklist[j].dest = NoRemote
  BY <1>1
<1> HIDE DEF c
<1> QED BY <1>6, <1>7, <1>9, <1>10, <1>11, <1>12, OneNodeSeq DEF c

\* A call leaves every connection in sequence.
LEMMA SyscallSeq ==
  ASSUME Typed, Orderly, ConnOK, SeqOK, NEW p \in Pids, Syscall(p)
  PROVE  SeqOK'
<1>1. CallMoves(p) /\ backlog_list' = backlog_list /\ toHost' = toHost /\ peer' = peer
  BY SyscallMoves
<1>2. Distinct
  BY DEF Orderly
<1>3. CASE socklist' = socklist /\ toPeer' = toPeer
  BY <1>1, <1>3 DEF SeqOK, NodesSeq, HalvesSeq, WiresSeq, ConnsOne
<1>4. CASE CreatesOne(p) /\ toPeer' = toPeer
  <2>1. PICK st \in FreshStatus : /\ FreshNode(p, Create(p, fds), st) \in SockNode
                                  /\ socklist' = <<FreshNode(p, Create(p, fds), st)>> \o socklist
    BY <1>4 DEF CreatesOne
  <2> DEFINE m == FreshNode(p, Create(p, fds), st)
  <2>2. ~Up(m.status) /\ m.dest = NoRemote
    BY <1>2 DEF FreshNode, Distinct, Up
  <2>3. \A j \in DOMAIN socklist' :
          socklist'[j] = m \/ \E k \in DOMAIN socklist : socklist'[j] = socklist[k]
    BY <2>1, ConsOthers
  <2>4. OneConn(m, peer)
    BY <1>2, <2>2, RemoteConn DEF OneConn
  <2> HIDE DEF m
  <2>5. NodesSeq'
    <3>1. \A d : NodeSeq(m, peer[d], toPeer[d])
      BY <2>2 DEF NodeSeq
    <3> QED BY <1>1, <1>4, <2>3, <3>1 DEF SeqOK, NodesSeq
  <2>6. ConnsOne'
    BY <1>1, <2>3, <2>4 DEF SeqOK, ConnsOne
  <2>7. HalvesSeq' /\ WiresSeq'
    BY <1>1, <1>4 DEF SeqOK, HalvesSeq, WiresSeq
  <2> QED BY <2>5, <2>6, <2>7 DEF SeqOK
<1>5. ASSUME NEW i \in DOMAIN socklist, NEW m \in SockNode,
             socklist' = [socklist EXCEPT ![i] = m]
      PROVE  /\ Keeps(m, socklist[i]) /\ toPeer' = toPeer /\ Sends(m, socklist[i], <<>>) => SeqOK'
             /\ Plain(m, socklist[i]) /\ toPeer' = toPeer => SeqOK'
             /\ \A out \in Seq(Segments) :
                  /\ Keeps(m, socklist[i]) /\ Up(socklist[i].status)
                  /\ Post(Conn(socklist[i]), out) /\ Sends(m, socklist[i], out)
                  => SeqOK'
  <2> DEFINE n == socklist[i]
             c == Conn(m)
  <2>1. NodeSeq(n, peer[Conn(n)], toPeer[Conn(n)]) /\ OneConn(n, peer)
    BY DEF SeqOK, NodesSeq, ConnsOne
  <2>2. c \in Conns => OutSeq(peer[c], toPeer[c]) /\ InSeq(c, peer[c], toHost[c])
    BY DEF SeqOK, WiresSeq
  <2>3. CASE Keeps(m, n) /\ toPeer' = toPeer /\ Sends(m, n, <<>>)
    <3>1. m.dest = n.dest /\ c = Conn(n)
      BY <2>3 DEF Keeps, Conn
    <3>2. NodeSeq(m, peer[c], toPeer[c]) /\ OneConn(m, peer)
      BY <2>1, <2>3, <3>1, SilentSeq, OneKept
    <3>3. /\ \A j \in DOMAIN socklist :
               j # i => socklist[j].dest # m.dest \/ socklist[j].dest = NoRemote
          /\ \A j \in DOMAIN backlog_list :
               Live(backlog_list[j]) => backlog_list[j].dest # m.dest
      BY <3>1, OtherRemotes
    <3> HIDE DEF c
    <3> QED BY <1>1, <1>5, <2>2, <2>3, <3>2, <3>3, OneNodeSeq DEF c
  <2>4. CASE Plain(m, n) /\ toPeer' = toPeer
    <3>1. m.dest = NoRemote /\ m.dest = n.dest /\ ~Up(m.status)
      BY <2>4 DEF Plain
    <3>2. NodeSeq(m, peer[c], toPeer[c]) /\ OneConn(m, peer)
      BY <1>2, <3>1, RemoteConn DEF NodeSeq, OneConn
    <3>3. /\ \A j \in DOMAIN socklist :
               j # i => socklist[j].dest # m.dest \/ socklist[j].dest = NoRemote
          /\ \A j \in DOMAIN backlog_list :
               Live(backlog_list[j]) => backlog_list[j].dest # m.dest
      BY <3>1, OtherRemotes
    <3> HIDE DEF c
    <3> QED BY <1>1, <1>5, <2>2, <2>4, <3>2, <3>3, OneNodeSeq DEF c
  <2>5. ASSUME NEW out \in Seq(Segments), Keeps(m, n), Up(n.status), Post(Conn(n), out),
               Sends(m, n, out)
        PROVE  SeqOK'
    <3>1. m.dest = n.dest /\ c = Conn(n) /\ Up(m.status)
      BY <2>5 DEF Keeps, Conn
    <3>2. c \in Conns /\ Past(peer[c]) /\ toPeer[c] \in Seq(Segments)
      <4>1. c \in Conns /\ Past(peer[c])
        BY <2>5, <3>1, UpClear
      <4> QED BY <4>1 DEF Typed, NetType
    <3>3. /\ toPeer'[c] = toPeer[c] \o out
          /\ \A d \in Conns : d # c => toPeer'[d] = toPeer[d]
      BY <2>5, <3>1, <3>2, PostAt
    <3>4. NodeSeq(m, peer[c], toPeer'[c]) /\ OutSeq(peer[c], toPeer'[c])
      BY <2>1, <2>2, <2>5, <3>1, <3>2, <3>3, HostSends
    <3>5. OneConn(m, peer)
      BY <2>1, <3>1, OneKept
    <3>6. /\ \A j \in DOMAIN socklist :
               j # i => socklist[j].dest # m.dest \/ socklist[j].dest = NoRemote
          /\ \A j \in DOMAIN backlog_list :
               Live(backlog_list[j]) => backlog_list[j].dest # m.dest
      BY <3>1, OtherRemotes
    <3> HIDE DEF c
    <3> QED BY <1>1, <1>5, <2>2, <3>2, <3>3, <3>4, <3>5, <3>6, OneNodeSeq DEF c
  <2> QED BY <2>3, <2>4, <2>5
<1>6. ASSUME NEW i \in DOMAIN socklist, NEW m \in SockNode,
             socklist' = [socklist EXCEPT ![i] = m],
             Dials(m, socklist[i]) /\ Post(Conn(m), <<SynSegment>>)
      PROVE  SeqOK'
  BY <1>1, <1>2, <1>6, DialsSeq
<1> QED BY <1>1, <1>3, <1>4, <1>5, <1>6 DEF CallMoves

\* A step of a remote.
LEMMA RemoteSeqStep ==
  ASSUME Typed, Distinct, ConnOK, SeqOK, NEW c \in Conns, UNCHANGED kernel,
         \A d \in Conns : d # c => /\ toHost'[d] = toHost[d] /\ toPeer'[d] = toPeer[d]
                                   /\ peer'[d] = peer[d],
         OutSeq(peer'[c], toPeer'[c]), InSeq(c, peer'[c], toHost'[c]),
         \A i \in DOMAIN socklist :
           Conn(socklist[i]) = c => NodeSeq(socklist[i], peer'[c], toPeer'[c]),
         c \in Incoming /\ HalfSeq(peer[c], toHost[c], toPeer[c]) =>
           HalfSeq(peer'[c], toHost'[c], toPeer'[c]),
         peer[c].st = "CLOSED" => \/ peer'[c].st = "CLOSED" \/ c \in Incoming
                                  \/ Dialled(socklist, c)
  PROVE  SeqOK'
<1>1. socklist' = socklist /\ backlog_list' = backlog_list
  BY DEF kernel
<1>2. ASSUME NEW i \in DOMAIN socklist
      PROVE  LET d == Conn(socklist[i]) IN NodeSeq(socklist[i], peer'[d], toPeer'[d])
  <2> DEFINE n == socklist[i]
             d == Conn(n)
  <2>1. CASE ~Up(n.status)
    BY <2>1 DEF NodeSeq
  <2>2. CASE Up(n.status) /\ d # c
    <3>1. d \in Conns
      BY <2>2, UpClear
    <3>2. NodeSeq(n, peer[d], toPeer[d])
      BY DEF SeqOK, NodesSeq
    <3> QED BY <2>2, <3>1, <3>2
  <2>3. CASE d = c
    BY <2>3
  <2> QED BY <2>1, <2>2, <2>3
<1>3. ASSUME NEW j \in DOMAIN backlog_list, Live(backlog_list[j])
      PROVE  LET d == Conn(backlog_list[j]) IN HalfSeq(peer'[d], toHost'[d], toPeer'[d])
  <2> DEFINE d == Conn(backlog_list[j])
  <2>1. d \in Incoming /\ d \in Conns
    BY <1>3 DEF ConnOK, HalvesOK, HalfOK, Conns
  <2>2. HalfSeq(peer[d], toHost[d], toPeer[d])
    BY <1>3 DEF SeqOK, HalvesSeq
  <2>3. CASE d = c
    BY <2>1, <2>2, <2>3
  <2>4. CASE d # c
    BY <2>1, <2>2, <2>4
  <2> QED BY <2>3, <2>4
<1>4. ASSUME NEW d \in Conns
      PROVE  OutSeq(peer'[d], toPeer'[d]) /\ InSeq(d, peer'[d], toHost'[d])
  <2>1. OutSeq(peer[d], toPeer[d]) /\ InSeq(d, peer[d], toHost[d])
    BY DEF SeqOK, WiresSeq
  <2> QED BY <2>1
<1>5. ASSUME NEW i \in DOMAIN socklist, NEW d \in Conns, d[1] = socklist[i].dest,
             d # Conn(socklist[i])
      PROVE  peer'[d].st = "CLOSED"
  <2>1. peer[d].st = "CLOSED"
    BY <1>5 DEF SeqOK, ConnsOne, OneConn
  <2>2. d \notin Incoming
    <3> SUFFICES ASSUME d \in Incoming PROVE FALSE
      OBVIOUS
    <3>1. socklist[i].dest # NoRemote /\ d[1] \notin Servers
      BY <1>5, RemoteConn
    <3>2. Conn(socklist[i]) \in Conns
      BY <3>1 DEF ConnOK, NodesOK, NodeOK
    <3>3. Conn(socklist[i])[1] = d[1]
      BY <1>5, ConnParts
    <3>4. Conn(socklist[i]) \in Incoming
      BY <3>1, <3>2, <3>3, RemoteConn
    <3> QED BY <1>5, <3>3, <3>4, RemoteConn
  <2>3. ~Dialled(socklist, d)
    <3> SUFFICES ASSUME NEW j \in DOMAIN socklist, Conn(socklist[j]) = d PROVE FALSE
      BY DEF Dialled
    <3>1. socklist[j].dest = socklist[i].dest /\ socklist[i].dest # NoRemote
      BY <1>5, ConnParts, RemoteConn
    <3>2. j = i
      BY <3>1 DEF ConnOK, Apart, NodesApart
    <3> QED BY <1>5, <3>2
  <2> QED BY <2>1, <2>2, <2>3
<1>6. NodesSeq'
  BY <1>1, <1>2 DEF NodesSeq
<1>7. HalvesSeq'
  BY <1>1, <1>3 DEF HalvesSeq
<1>8. WiresSeq'
  BY <1>4 DEF WiresSeq
<1>9. ConnsOne'
  BY <1>1, <1>5 DEF ConnsOne, OneConn
<1> QED BY <1>6, <1>7, <1>8, <1>9 DEF SeqOK

LEMMA TellsElements ==
  ASSUME NEW S, NEW in \in Seq(S), NEW s \in S
  PROVE  \A k \in DOMAIN (in \o <<s>>) :
           \/ k \in DOMAIN in /\ (in \o <<s>>)[k] = in[k]
           \/ (in \o <<s>>)[k] = s
OBVIOUS

\* A remote that opens, sends or closes, and takes nothing from its channel.
LEMMA SpeaksSeq ==
  ASSUME Typed, Distinct, ConnOK, SeqOK, NEW c \in Conns, UNCHANGED kernel, toPeer' = toPeer,
         \A d \in Conns : d # c => toHost'[d] = toHost[d] /\ peer'[d] = peer[d],
         NEW s \in ShortSegments, toHost'[c] = toHost[c] \o <<s>>,
         s.flags = "SYN" => s.seq = 0, s.flags # "SYNACK",
         Past(peer[c]) => s.ack = peer[c].rcv,
         peer'[c].rcv = peer[c].rcv, peer'[c].st \notin {"CLOSED", "SYN_RCVD"},
         Past(peer'[c]) <=> Past(peer[c]), Ended(peer'[c]) <=> Ended(peer[c]),
         peer'[c].st = "SYN_SENT" => peer[c].st = "SYN_SENT" \/ toPeer[c] = <<>>,
         peer[c].st = "CLOSED" => c \in Incoming
  PROVE  SeqOK'
<1> DEFINE t == peer[c]
           t2 == peer'[c]
           out == toPeer[c]
           in == toHost[c]
           in2 == toHost'[c]
<1>1. OutSeq(t, out) /\ InSeq(c, t, in)
  BY DEF SeqOK, WiresSeq
<1>2. in \in Seq(ShortSegments) /\ out \in Seq(Segments)
  BY DEF Typed, NetType
<1>3. \A k \in DOMAIN in2 : in2[k] = s \/ \E l \in DOMAIN in : in2[k] = in[l]
  BY <1>2, TellsElements
<1>4. OutSeq(t2, out)
  <2>1. t2.st = "SYN_SENT" => Len(out) <= 1
    BY <1>1 DEF OutSeq
  <2> QED BY <1>1, <2>1 DEF OutSeq
<1>5. InSeq(c, t2, in2)
  <2>1. \A k \in DOMAIN in : /\ in[k].flags = "SYN" => in[k].seq = 0
                             /\ in[k].flags = "SYNACK" => in[k].seq = 0 /\ in[k].ack = 1
    BY <1>1 DEF InSeq
  <2> QED BY <1>3, <2>1 DEF InSeq
<1>6. ASSUME NEW i \in DOMAIN socklist, Conn(socklist[i]) = c
      PROVE  NodeSeq(socklist[i], t2, out)
  <2>1. NodeSeq(socklist[i], t, out)
    BY <1>6 DEF SeqOK, NodesSeq
  <2> QED BY <2>1 DEF NodeSeq
<1>7. HalfSeq(t, in, out) => HalfSeq(t2, in2, out)
  BY <1>3 DEF HalfSeq
<1> HIDE DEF t, t2, out, in, in2
<1>8. OutSeq(peer'[c], toPeer'[c]) /\ InSeq(c, peer'[c], toHost'[c])
  BY <1>4, <1>5 DEF t2, in2, out
<1>9. \A i \in DOMAIN socklist :
        Conn(socklist[i]) = c => NodeSeq(socklist[i], peer'[c], toPeer'[c])
  BY <1>6 DEF t2, out
<1>10. HalfSeq(peer[c], toHost[c], toPeer[c]) => HalfSeq(peer'[c], toHost'[c], toPeer'[c])
  BY <1>7 DEF t, t2, in, in2, out
<1> QED BY <1>8, <1>9, <1>10, RemoteSeqStep

LEMMA SpeakFields ==
  \A flags, t, bytes : LET s == Speak(flags, t, bytes)
                       IN  /\ s.flags = flags /\ s.seq = t.snd /\ s.ack = t.rcv
                           /\ s.data = bytes
BY DEF Speak, Segment

LEMMA PeerOpenSeq ==
  ASSUME Typed, Distinct, ConnOK, SeqOK, NEW c \in Conns, PeerOpen(c)
  PROVE  SeqOK'
<1> DEFINE s == Speak("SYN", peer[c], <<>>)
<1>1. c \in Incoming /\ peer[c].st = "CLOSED" /\ toPeer' = toPeer /\ UNCHANGED kernel
  BY DEF PeerOpen
<1>2. peer \in [Conns -> Peers]
  BY DEF Typed, NetType
<1>3. /\ peer' = [peer EXCEPT ![c] = [peer[c] EXCEPT !.st = "SYN_SENT", !.snd = 1]]
      /\ Tell(c, <<s>>)
  BY <1>2 DEF PeerOpen
<1>4. /\ peer'[c].st = "SYN_SENT" /\ peer'[c].rcv = peer[c].rcv
      /\ \A d \in Conns : d # c => peer'[d] = peer[d]
  <2>1. peer'[c] = [peer[c] EXCEPT !.st = "SYN_SENT", !.snd = 1]
    BY <1>2, <1>3
  <2>2. peer'[c].st = "SYN_SENT" /\ peer'[c].rcv = peer[c].rcv
    BY <1>2, <2>1 DEF Peers
  <2> QED BY <1>2, <1>3, <2>2
<1>5. toPeer[c] = <<>>
  BY <1>1, WireFacts
<1>6. s \in ShortSegments /\ <<s>> \in Seq(ShortSegments)
  <2>1. peer[c].snd \in Int /\ peer[c].rcv \in Int
    BY <1>2, PeerFields
  <2> QED BY <2>1, SpeakType, EmptyBytes
<1>7. s.flags = "SYN" /\ s.seq = 0
  <2>1. peer[c].snd = 0
    BY <1>1 DEF SeqOK, WiresSeq, InSeq
  <2> QED BY <2>1, SpeakFields
<1> HIDE DEF s
<1>8. toHost'[c] = toHost[c] \o <<s>> /\ \A d \in Conns : d # c => toHost'[d] = toHost[d]
  BY <1>3, <1>6, TellType DEF Typed
<1>9. /\ peer'[c].st \notin {"CLOSED", "SYN_RCVD"} /\ ~Past(peer'[c]) /\ ~Past(peer[c])
      /\ ~Ended(peer'[c]) /\ ~Ended(peer[c])
  BY <1>1, <1>4 DEF Past, Ended
<1> QED BY <1>1, <1>4, <1>5, <1>6, <1>7, <1>8, <1>9, SpeaksSeq

LEMMA PeerRetrySeq ==
  ASSUME Typed, Distinct, ConnOK, SeqOK, NEW c \in Conns, PeerRetry(c)
  PROVE  SeqOK'
<1> DEFINE x == [peer[c] EXCEPT !.snd = 0]
           s == Speak("SYN", x, <<>>)
<1>1. /\ peer[c].st = "SYN_SENT" /\ toHost[c] = <<>> /\ toPeer[c] = <<>>
      /\ toPeer' = toPeer /\ peer' = peer /\ UNCHANGED kernel
  BY DEF PeerRetry
<1>2. x.snd = 0 /\ x.rcv \in Int
  BY DEF Typed, NetType, Peers
<1> HIDE DEF x
<1>3. s \in ShortSegments /\ <<s>> \in Seq(ShortSegments) /\ s.flags = "SYN" /\ s.seq = 0
  BY <1>2, SpeakType, SpeakFields, EmptyBytes
<1>4. Tell(c, <<s>>)
  BY DEF PeerRetry, x
<1> HIDE DEF s
<1>5. toHost'[c] = toHost[c] \o <<s>> /\ \A d \in Conns : d # c => toHost'[d] = toHost[d]
  BY <1>3, <1>4, TellType DEF Typed
<1>6. peer'[c].st \notin {"CLOSED", "SYN_RCVD"} /\ ~Past(peer'[c]) /\ peer[c].st # "CLOSED"
  BY <1>1 DEF Past
<1> QED BY <1>1, <1>3, <1>5, <1>6, SpeaksSeq

LEMMA PeerSendSeq ==
  ASSUME Typed, Distinct, ConnOK, SeqOK, NEW c \in Conns, PeerSend(c)
  PROVE  SeqOK'
<1> DEFINE t == peer[c]
<1>1. peer \in [Conns -> Peers] /\ t \in Peers
  BY DEF Typed, NetType
<1>2. t.st \in {"ESTAB", "CLOSE_WAIT"} /\ toPeer' = toPeer /\ UNCHANGED kernel
  BY DEF PeerSend
<1>3. PICK len \in PeerSizes :
        /\ peer' = [peer EXCEPT ![c].snd = @ + len, ![c].n = @ + len]
        /\ Tell(c, <<Speak("ACK", t, PeerBytesSent(t, len))>>)
  BY DEF PeerSend, PeerBytesSent
<1>4. len \in Nat /\ len <= BUFSIZE
  BY EndpointsAssumption, IndexFacts
<1>5. t.snd \in Int /\ t.rcv \in Int /\ t.n \in Nat
  BY <1>1, PeerFields
<1>6. PeerBytesSent(t, len) \in Bytes /\ Len(PeerBytesSent(t, len)) = len
  BY <1>4, <1>5 DEF PeerBytesSent, Bytes
<1> DEFINE s == Speak("ACK", t, PeerBytesSent(t, len))
<1>7. s \in ShortSegments /\ <<s>> \in Seq(ShortSegments) /\ s.flags = "ACK" /\ s.ack = t.rcv
  BY <1>4, <1>5, <1>6, SpeakType, SpeakFields
<1>8. Tell(c, <<s>>)
  BY <1>3
<1> HIDE DEF s
<1>9. toHost'[c] = toHost[c] \o <<s>> /\ \A d \in Conns : d # c => toHost'[d] = toHost[d]
  BY <1>7, <1>8, TellType DEF Typed
<1>10. /\ peer'[c].st = t.st /\ peer'[c].rcv = t.rcv
       /\ \A d \in Conns : d # c => peer'[d] = peer[d]
  <2>1. peer'[c].st = t.st /\ peer'[c].rcv = t.rcv
    BY <1>1, <1>3 DEF Peers
  <2> QED BY <1>1, <1>3, <2>1
<1>11. /\ peer'[c].st \notin {"CLOSED", "SYN_RCVD", "SYN_SENT"} /\ t.st # "CLOSED"
       /\ Past(peer'[c]) /\ Past(t) /\ (Ended(peer'[c]) <=> Ended(t))
  BY <1>2, <1>10 DEF Past, Ended
<1>12. s.flags # "SYN" /\ s.flags # "SYNACK"
  BY <1>7
<1> QED BY <1>2, <1>7, <1>9, <1>10, <1>11, <1>12, SpeaksSeq

LEMMA PeerCloseSeq ==
  ASSUME Typed, Distinct, ConnOK, SeqOK, NEW c \in Conns, PeerClose(c)
  PROVE  SeqOK'
<1> DEFINE t == peer[c]
           s == Speak("FIN", t, <<>>)
           st == IF t.st = "ESTAB" THEN "FIN_WAIT_1" ELSE "LAST_ACK"
<1>1. peer \in [Conns -> Peers] /\ t \in Peers
  BY DEF Typed, NetType
<1>2. t.st \in {"ESTAB", "CLOSE_WAIT"} /\ toPeer' = toPeer /\ UNCHANGED kernel
  BY DEF PeerClose
<1>3. peer' = [peer EXCEPT ![c] = [t EXCEPT !.snd = t.snd + 1, !.st = st]]
  BY <1>1 DEF PeerClose
<1>4. t.snd \in Int /\ t.rcv \in Int
  BY <1>1, PeerFields
<1>5. s \in ShortSegments /\ <<s>> \in Seq(ShortSegments) /\ s.flags = "FIN" /\ s.ack = t.rcv
  BY <1>4, SpeakType, SpeakFields, EmptyBytes
<1>6. Tell(c, <<s>>)
  BY DEF PeerClose
<1>7. st \notin {"CLOSED", "SYN_SENT", "SYN_RCVD"} /\ (Ended([st |-> st]) <=> Ended(t))
  BY <1>2 DEF Ended
<1> HIDE DEF s, st
<1>8. toHost'[c] = toHost[c] \o <<s>> /\ \A d \in Conns : d # c => toHost'[d] = toHost[d]
  BY <1>5, <1>6, TellType DEF Typed
<1>9. /\ peer'[c].st = st /\ peer'[c].rcv = t.rcv
      /\ \A d \in Conns : d # c => peer'[d] = peer[d]
  <2>1. peer'[c].st = st /\ peer'[c].rcv = t.rcv
    BY <1>1, <1>3 DEF Peers
  <2> QED BY <1>1, <1>3, <2>1
<1>10. /\ peer'[c].st \notin {"CLOSED", "SYN_RCVD", "SYN_SENT"} /\ t.st # "CLOSED"
       /\ Past(peer'[c]) /\ Past(t)
  BY <1>2, <1>7, <1>9 DEF Past
<1>11. Ended(peer'[c]) <=> Ended(t)
  BY <1>7, <1>9 DEF Ended
<1>12. s.flags # "SYN" /\ s.flags # "SYNACK"
  BY <1>5
<1> QED BY <1>2, <1>5, <1>8, <1>9, <1>10, <1>11, <1>12, SpeaksSeq

\* The first segment a remote past the handshake takes.
LEMMA FirstSeq ==
  ASSUME NEW t, NEW out \in Seq(Segments), out # <<>>, OutSeq(t, out)
  PROVE  LET m == Head(out)
         IN  /\ m \in Segments /\ m.seq = t.rcv /\ Chain(t.rcv + SeqLen(m), Tail(out))
             /\ m.flags # "ACK" => m.data = <<>>
             /\ Past(t) => m.flags \in {"ACK", "FIN"}
             /\ t.st = "SYN_RCVD" => m.flags = "ACK" /\ m.data = <<>> /\ m.ack = 1
             /\ Ended(t) => SeqLen(m) = 0
<1>1. 1 \in DOMAIN out /\ Head(out) = out[1] /\ out[1] \in Segments
  OBVIOUS
<1>2. Head(out).seq = t.rcv /\ Chain(t.rcv + SeqLen(Head(out)), Tail(out))
  BY ChainTail DEF OutSeq
<1> QED BY <1>1, <1>2 DEF OutSeq

\* Remote t becomes u by segment m: it has heard the FIN by then, or m is it.
Ends(u, t, m) == Ended(u) <=> (Ended(t) \/ m.flags = "FIN")

\* What a remote past the handshake receives and becomes.
LEMMA HeardSeq ==
  ASSUME NEW c, NEW t \in Peers, Past(t), t.st = "SYN_RCVD" => t.snd = 1,
         NEW out \in Seq(Segments), out # <<>>, OutSeq(t, out)
  PROVE  /\ Heard(c, t, Head(out)).t.rcv = t.rcv + SeqLen(Head(out))
         /\ Heard(c, t, Head(out)).t.st # "SYN_RCVD"
         /\ Ends(Heard(c, t, Head(out)).t, t, Head(out))
<1> DEFINE m == Head(out)
           h == Heard(c, t, m)
<1>1. /\ m \in Segments /\ m.seq = t.rcv /\ m.flags \in {"ACK", "FIN"}
      /\ m.flags # "ACK" => m.data = <<>>
      /\ t.st = "SYN_RCVD" => m.flags = "ACK" /\ m.data = <<>> /\ m.ack = 1
      /\ Ended(t) => SeqLen(m) = 0
  BY FirstSeq
<1>2. /\ t.rcv \in Int /\ m.data \in Bytes /\ Len(m.data) \in Nat /\ Len(<<>>) = 0
      /\ t.st \in PeerStates
  <2>1. t.rcv \in Int /\ t.st \in PeerStates
    BY PeerFields
  <2> HIDE DEF m
  <2>2. m.data \in Bytes
    BY <1>1 DEF Segments
  <2>3. Len(m.data) \in Nat
    BY <2>2 DEF Bytes
  <2> QED BY <2>1, <2>2, <2>3, EmptyBytes
<1> HIDE DEF m, h
<1>3. /\ m.flags = "ACK" => SeqLen(m) = Len(m.data)
      /\ m.flags = "FIN" => SeqLen(m) = 1
  <2>1. m.flags = "FIN" => SeqLen(m) = Len(m.data) + 1
    BY <1>1, SeqLenType
  <2> QED BY <1>1, <1>2, <2>1, SeqLenType
<1>4. m.data # <<>> => Len(m.data) # 0
  BY <1>2 DEF Bytes
<1>5. /\ Seen(t, m).rcv = t.rcv
      /\ t.st = "SYN_RCVD" => Seen(t, m).st = "ESTAB"
      /\ t.st # "SYN_RCVD" => Seen(t, m).st # "SYN_RCVD"
      /\ Ended(Seen(t, m)) <=> Ended(t)
  <2> DEFINE st == IF m.ack # t.snd THEN t.st
                   ELSE CASE t.st = "SYN_RCVD" -> "ESTAB"
                          [] t.st = "FIN_WAIT_1" -> "FIN_WAIT_2"
                          [] t.st = "CLOSING" -> "TIMED_WAIT"
                          [] t.st = "LAST_ACK" -> "DONE"
                          [] OTHER -> t.st
  <2>1. Seen(t, m) = [t EXCEPT !.una = m.ack, !.win = m.win, !.st = st]
    BY DEF Seen
  <2>2. /\ t.st = "SYN_RCVD" => st = "ESTAB"
        /\ t.st # "SYN_RCVD" => st # "SYN_RCVD"
    BY <1>1
  <2>3. Ended([st |-> st]) <=> Ended(t)
    BY <1>1 DEF Ended
  <2> HIDE DEF st
  <2>4. Seen(t, m).rcv = t.rcv /\ Seen(t, m).st = st
    BY <2>1 DEF Peers
  <2> QED BY <2>2, <2>3, <2>4 DEF Ended
<1>6. /\ Got(t, m).rcv = t.rcv + Len(m.data) /\ Got(t, m).st = Seen(t, m).st
  <2> DEFINE s == Seen(t, m)
  <2>1. s \in Peers /\ s.rcv = t.rcv
    BY <1>1, <1>5, HeardPartTypes
  <2> HIDE DEF s
  <2>2. Got(t, m) = [s EXCEPT !.rcv = @ + Len(m.data), !.got = @ \o m.data]
    BY <1>1 DEF Got, s
  <2>3. Got(t, m).rcv = s.rcv + Len(m.data) /\ Got(t, m).st = s.st
    BY <2>1, <2>2 DEF Peers
  <2> QED BY <2>1, <2>3 DEF s
<1>7. ASSUME t.st \in OpenStates
      PROVE  HeardFin(t).rcv = t.rcv + 1 /\ HeardFin(t).st # "SYN_RCVD" /\ Ended(HeardFin(t))
  <2> DEFINE x == CASE t.st = "ESTAB" -> "CLOSE_WAIT"
                    [] t.st = "FIN_WAIT_1" -> "CLOSING"
                    [] t.st = "FIN_WAIT_2" -> "TIMED_WAIT"
  <2>1. x \in {"CLOSE_WAIT", "CLOSING", "TIMED_WAIT"}
    BY <1>7 DEF OpenStates
  <2>2. HeardFin(t) = [t EXCEPT !.rcv = t.rcv + 1, !.st = x]
    BY DEF HeardFin
  <2> HIDE DEF x
  <2>3. HeardFin(t).rcv = t.rcv + 1 /\ HeardFin(t).st = x
    BY <2>2 DEF Peers
  <2> QED BY <2>1, <2>3 DEF Ended
<1>8. t.st \notin OpenStates /\ ~Ended(t) => t.st = "SYN_RCVD"
  BY <1>2 DEF OpenStates, Ended, PeerStates, Statuses, Past
<1>9. CASE m.flags = "ACK" /\ m.data = <<>> /\ m.ack > 0
  <2>1. h.t = Seen(t, m)
    BY <1>9 DEF Heard, Seen, h
  <2>2. t.rcv = t.rcv + SeqLen(m)
    BY <1>2, <1>3, <1>9
  <2> QED BY <1>5, <1>9, <2>1, <2>2 DEF m, h, Ends
<1>10. CASE m.flags = "ACK" /\ m.data # <<>> /\ t.st \in OpenStates
  <2>1. h.t = Got(t, m)
    BY <1>10 DEF Heard, Seen, Got, OpenStates, h
  <2>2. t.st # "SYN_RCVD"
    BY <1>10 DEF OpenStates
  <2>3. Ended(Got(t, m)) <=> Ended(t)
    BY <1>5, <1>6 DEF Ended
  <2> QED BY <1>3, <1>5, <1>6, <1>10, <2>1, <2>2, <2>3 DEF m, h, Ends
<1>11. CASE m.flags = "FIN" /\ t.st \in OpenStates
  <2>1. h.t = HeardFin(t)
    BY <1>1, <1>11 DEF Heard, HeardFin, OpenStates, h
  <2> QED BY <1>3, <1>7, <1>11, <2>1 DEF m, h, Ends
<1>12. CASE /\ ~(m.flags = "ACK" /\ m.data = <<>> /\ m.ack > 0)
            /\ ~(m.flags = "ACK" /\ m.data # <<>> /\ t.st \in OpenStates)
            /\ ~(m.flags = "FIN" /\ t.st \in OpenStates)
  <2>1. t.st # "CLOSED" /\ t.st # "SYN_SENT"
    BY DEF Past
  <2>2. h.t = t
    BY <1>12, <2>1 DEF Heard, OpenStates, h
  <2>3. t.st # "SYN_RCVD"
    BY <1>1, <1>12
  <2>4. m.flags # "FIN" /\ SeqLen(m) = 0
    BY <1>1, <1>2, <1>3, <1>4, <1>8, <1>12, <2>3
  <2> QED BY <1>2, <2>2, <2>3, <2>4 DEF m, h, Ends
<1> QED BY <1>9, <1>10, <1>11, <1>12

\* What is left for a remote past the handshake when it takes a segment.
LEMMA TakenSeq ==
  ASSUME NEW t, NEW u, NEW out \in Seq(Segments), out # <<>>, OutSeq(t, out), Past(t), Past(u),
         u.rcv = t.rcv + SeqLen(Head(out)), u.st # "SYN_RCVD",
         Ends(u, t, Head(out))
  PROVE  /\ OutSeq(u, Tail(out))
         /\ \A n : NodeSeq(n, t, out) => NodeSeq(n, u, Tail(out))
<1> DEFINE m == Head(out)
           rest == Tail(out)
<1>1. /\ Len(out) \in Nat \ {0} /\ DOMAIN out = 1..Len(out) /\ m = out[1]
      /\ DOMAIN rest = 1..Len(out)-1 /\ \A k \in DOMAIN rest : rest[k] = out[k+1]
  OBVIOUS
<1>2. \A k \in DOMAIN rest : k + 1 \in DOMAIN out /\ rest[k] = out[k+1]
  BY <1>1
<1>0. Ended(u) <=> (Ended(t) \/ m.flags = "FIN")
  BY DEF Ends
<1>3. Chain(u.rcv, rest)
  BY FirstSeq
<1> HIDE DEF rest
<1>4. /\ \A k \in DOMAIN out : /\ out[k].flags \in {"ACK", "FIN"}
                               /\ out[k].flags # "ACK" => out[k].data = <<>>
      /\ Ended(t) => \A k \in DOMAIN out : SeqLen(out[k]) = 0
      /\ \A k, l \in DOMAIN out : out[k].flags = "FIN" /\ k < l => SeqLen(out[l]) = 0
  BY DEF OutSeq
<1>5. \A k \in DOMAIN rest : /\ rest[k].flags \in {"ACK", "FIN"}
                             /\ rest[k].flags # "ACK" => rest[k].data = <<>>
  BY <1>2, <1>4
<1>6. ASSUME Ended(u), NEW k \in DOMAIN rest PROVE SeqLen(rest[k]) = 0
  <2>1. 1 \in DOMAIN out /\ 1 < k + 1
    BY <1>1, <1>6
  <2>2. CASE Ended(t)
    BY <1>2, <1>4, <2>2
  <2>3. CASE m.flags = "FIN"
    BY <1>1, <1>2, <1>4, <2>1, <2>3
  <2> QED BY <1>0, <1>6, <2>2, <2>3
<1>7. ASSUME NEW k \in DOMAIN rest, NEW l \in DOMAIN rest, rest[k].flags = "FIN", k < l
      PROVE  SeqLen(rest[l]) = 0
  <2>1. k + 1 < l + 1
    BY <1>1, <1>7
  <2> QED BY <1>2, <1>4, <1>7, <2>1
<1>8. OutSeq(u, rest)
  BY <1>3, <1>5, <1>6, <1>7 DEF OutSeq, Past
<1>9. ASSUME NEW n, NodeSeq(n, t, out), Up(n.status) PROVE NodeSeq(n, u, rest)
  <2>1. Run(t.rcv, out, NextSeq(n)) /\ (Talks(n.status) => ~Ended(t) /\ ~HasFin(out))
    BY <1>9 DEF NodeSeq
  <2>2. Run(u.rcv, rest, NextSeq(n))
    BY <2>1, RunTail DEF rest
  <2>3. HasFin(rest) \/ m.flags = "FIN" => HasFin(out)
    BY <1>1, <1>2 DEF HasFin
  <2> QED BY <1>0, <2>1, <2>2, <2>3 DEF NodeSeq
<1>10. \A n : NodeSeq(n, t, out) => NodeSeq(n, u, rest)
  BY <1>9 DEF NodeSeq
<1> QED BY <1>8, <1>10 DEF rest

LEMMA PeerReceiveSeq ==
  ASSUME Typed, Distinct, ConnOK, SeqOK, NEW c \in Conns, PeerReceive(c)
  PROVE  SeqOK'
<1> DEFINE t == peer[c]
           out == toPeer[c]
           in == toHost[c]
           m == Head(out)
           h == Heard(c, t, m)
<1>1. /\ toPeer \in [Conns -> Seq(Segments)] /\ out # <<>> /\ out \in Seq(Segments)
      /\ peer \in [Conns -> Peers] /\ t \in Peers
      /\ toPeer' = [toPeer EXCEPT ![c] = Tail(out)]
      /\ peer' = [peer EXCEPT ![c] = h.t]
      /\ Tell(c, h.out) /\ UNCHANGED kernel
  BY DEF PeerReceive, Hears, Typed, NetType
<1>2. m \in Segments /\ in \in Seq(ShortSegments)
  BY <1>1 DEF Typed, NetType
<1>3. h.t \in Peers /\ h.out \in Seq(ShortSegments)
  BY <1>1, <1>2, HeardType
<1>4. toHost'[c] = in \o h.out /\ \A d \in Conns : d # c => toHost'[d] = toHost[d]
  BY <1>1, <1>3, TellType DEF Typed
<1>5. /\ peer'[c] = h.t /\ toPeer'[c] = Tail(out)
      /\ \A d \in Conns : d # c => peer'[d] = peer[d] /\ toPeer'[d] = toPeer[d]
  BY <1>1
<1>6. OutSeq(t, out) /\ InSeq(c, t, in)
  BY DEF SeqOK, WiresSeq
<1>7. /\ m.seq = t.rcv /\ Chain(t.rcv + SeqLen(m), Tail(out))
      /\ m.flags # "ACK" => m.data = <<>>
  BY <1>1, <1>6, FirstSeq
<1>8. \A i \in DOMAIN socklist : Conn(socklist[i]) = c => NodeSeq(socklist[i], t, out)
  BY DEF SeqOK, NodesSeq
<1>9. CASE Past(t)
  <2>1. Past(h.t) /\ (h.out = <<>> \/ \E s \in ShortSegments : h.out = <<s>> /\ s.flags = "ACK")
    BY <1>1, <1>2, <1>9, HeardPast
  <2>2. t.st = "SYN_RCVD" => t.snd = 1
    BY <1>6 DEF InSeq
  <2>3. /\ h.t.rcv = t.rcv + SeqLen(m) /\ h.t.st # "SYN_RCVD"
        /\ Ends(h.t, t, m)
    <3>1. /\ t \in Peers /\ Past(t) /\ (t.st = "SYN_RCVD" => t.snd = 1)
          /\ out \in Seq(Segments) /\ out # <<>> /\ OutSeq(t, out)
      BY <1>1, <1>6, <1>9, <2>2
    <3> HIDE DEF t, out
    <3>2. h.t.rcv = t.rcv + SeqLen(m)
      BY <3>1, HeardSeq
    <3>3. h.t.st # "SYN_RCVD"
      BY <3>1, HeardSeq
    <3>4. Ends(h.t, t, m)
      BY <3>1, HeardSeq
    <3> QED BY <3>2, <3>3, <3>4
  <2> HIDE DEF h
  <2>4. OutSeq(h.t, Tail(out)) /\ \A n : NodeSeq(n, t, out) => NodeSeq(n, h.t, Tail(out))
    BY <1>1, <1>6, <1>9, <2>1, <2>3, TakenSeq
  <2>5. ASSUME NEW k \in DOMAIN toHost'[c]
        PROVE  \/ toHost'[c][k].flags = "ACK" \/ \E l \in DOMAIN in : toHost'[c][k] = in[l]
    <3>1. CASE h.out = <<>>
      BY <1>2, <1>4, <2>5, <3>1
    <3>2. ASSUME NEW s \in ShortSegments, h.out = <<s>>, s.flags = "ACK"
          PROVE  toHost'[c][k].flags = "ACK" \/ \E l \in DOMAIN in : toHost'[c][k] = in[l]
      <4>1. k \in DOMAIN (in \o <<s>>) /\ toHost'[c][k] = (in \o <<s>>)[k]
        BY <1>4, <2>5, <3>2
      <4> HIDE DEF in
      <4>2. (k \in DOMAIN in /\ (in \o <<s>>)[k] = in[k]) \/ (in \o <<s>>)[k] = s
        BY <1>2, <4>1, TellsElements
      <4> QED BY <3>2, <4>1, <4>2
    <3> QED BY <2>1, <3>1, <3>2
  <2>6. InSeq(c, h.t, toHost'[c])
    <3>1. \A k \in DOMAIN in : /\ in[k].flags = "SYN" => in[k].seq = 0
                               /\ in[k].flags = "SYNACK" => in[k].seq = 0 /\ in[k].ack = 1
      BY <1>6 DEF InSeq
    <3> QED BY <2>1, <2>3, <2>5, <3>1 DEF InSeq, Past
  <2>7. ~HalfSeq(t, in, out)
    BY <1>1, <1>9 DEF HalfSeq
  <2>8. t.st # "CLOSED"
    BY <1>9 DEF Past
  <2>9. \A i \in DOMAIN socklist :
          Conn(socklist[i]) = c => NodeSeq(socklist[i], peer'[c], toPeer'[c])
    BY <1>5, <1>8, <2>4
  <2>10. OutSeq(peer'[c], toPeer'[c]) /\ InSeq(c, peer'[c], toHost'[c])
    BY <1>5, <2>4, <2>6
  <2> QED BY <1>1, <1>4, <1>5, <2>7, <2>8, <2>9, <2>10, RemoteSeqStep
<1>10. ASSUME ~Past(t)
       PROVE  \A i \in DOMAIN socklist : Conn(socklist[i]) = c => ~Up(socklist[i].status)
  BY <1>10, UpClear
<1>11. CASE t.st = "SYN_SENT"
  <2>1. in = <<>> /\ m.flags = "SYNACK" /\ ~Past(t)
    BY <1>1, <1>11, WireFacts DEF Past
  <2>2. h.t = Connected(t, m) /\ h.out = <<Speak("ACK", Connected(t, m), <<>>)>>
    <3> HIDE DEF h, t, m
    <3> QED BY <1>11, <2>1 DEF Heard, Connected, h
  <2> DEFINE s == Speak("ACK", Connected(t, m), <<>>)
  <2>3. t.rcv = 0 /\ m.seq = 0
    BY <1>6, <1>7, <2>1 DEF OutSeq
  <2>14. Len(out) <= 1
    BY <1>6, <1>11 DEF OutSeq
  <2>4. Connected(t, m).st = "ESTAB" /\ Connected(t, m).rcv = 1
    BY <1>1, <2>3 DEF Connected, Peers
  <2>5. s.flags = "ACK" /\ s.ack = 1
    BY <2>4, SpeakFields
  <2>6. Tail(out) = <<>>
    <3> HIDE DEF out
    <3>1. Len(out) \in Nat /\ Len(out) # 0
      BY <1>1
    <3>2. Len(out) = 1
      BY <2>14, <3>1
    <3> QED BY <1>1, <3>2, TailOfOne
  <2> HIDE DEF h, s
  <2>7. toHost'[c] = <<s>> /\ peer'[c].st = "ESTAB" /\ peer'[c].rcv = 1 /\ toPeer'[c] = <<>>
    BY <1>3, <1>4, <1>5, <2>1, <2>2, <2>4, <2>6 DEF s
  <2>8. \A k \in DOMAIN <<s>> : <<s>>[k] = s
    OBVIOUS
  <2>9. OutSeq(peer'[c], <<>>)
    BY <2>7 DEF OutSeq, Chain, Past, Ended
  <2>10. InSeq(c, peer'[c], <<s>>) /\ HalfSeq(peer'[c], <<s>>, <<>>)
    <3>1. peer'[c].st \notin {"SYN_RCVD", "CLOSED"} /\ s.flags \notin {"SYN", "SYNACK"}
      BY <2>5, <2>7
    <3>2. InSeq(c, peer'[c], <<s>>)
      BY <2>8, <3>1 DEF InSeq
    <3> QED BY <2>5, <2>7, <2>8, <3>1, <3>2 DEF HalfSeq, Ended
  <2>11. \A i \in DOMAIN socklist :
           Conn(socklist[i]) = c => NodeSeq(socklist[i], peer'[c], toPeer'[c])
    BY <1>10, <2>1 DEF NodeSeq
  <2>12. OutSeq(peer'[c], toPeer'[c]) /\ InSeq(c, peer'[c], toHost'[c])
         /\ HalfSeq(peer'[c], toHost'[c], toPeer'[c])
    BY <2>7, <2>9, <2>10
  <2>13. t.st # "CLOSED"
    BY <1>11
  <2> QED BY <1>1, <1>4, <1>5, <2>11, <2>12, <2>13, RemoteSeqStep
<1>12. CASE t.st = "CLOSED"
  <2>1. /\ in = <<>> /\ c \notin Incoming /\ m.flags = "SYN"
        /\ Dialled(socklist, c) /\ Len(out) = 1 /\ ~Past(t)
    BY <1>1, <1>12, WireFacts DEF Past
  <2>2. c[1] \in Servers
    BY <2>1, RemoteConn
  <2> DEFINE a == Answered(t, m)
             x == [a EXCEPT !.snd = 0]
             s == Speak("SYNACK", x, <<>>)
  <2>3. h.t = a /\ h.out = <<s>>
    <3> HIDE DEF h, t, m
    <3> QED BY <1>12, <2>1, <2>2 DEF Heard, Answered, h, a, s, x
  <2>4. t.rcv = 0 /\ m.seq = 0
    BY <1>6, <1>7, <2>1 DEF OutSeq
  <2>5. a.st = "SYN_RCVD" /\ a.snd = 1 /\ a.rcv = 1 /\ x.snd = 0 /\ x.rcv = 1
    BY <1>1, <2>4 DEF Answered, Peers
  <2> HIDE DEF x
  <2>6. s.flags = "SYNACK" /\ s.seq = 0 /\ s.ack = 1
    BY <2>5, SpeakFields
  <2>7. Tail(out) = <<>>
    BY <1>1, <2>1, TailOfOne
  <2> HIDE DEF h, a, s
  <2>8. toHost'[c] = <<s>> /\ toPeer'[c] = <<>> /\ peer'[c] = a
    BY <1>3, <1>4, <1>5, <2>1, <2>3, <2>7
  <2>9. \A k \in DOMAIN <<s>> : <<s>>[k] = s
    OBVIOUS
  <2>10. OutSeq(a, <<>>)
    BY <2>5 DEF OutSeq, Chain, Past, Ended
  <2>11. InSeq(c, a, <<s>>)
    <3>1. s.flags # "SYN" /\ a.st # "CLOSED"
      BY <2>5, <2>6
    <3> QED BY <2>2, <2>5, <2>6, <2>9, <3>1 DEF InSeq
  <2>12. \A i \in DOMAIN socklist :
           Conn(socklist[i]) = c => NodeSeq(socklist[i], peer'[c], toPeer'[c])
    BY <1>10, <2>1 DEF NodeSeq
  <2>13. OutSeq(peer'[c], toPeer'[c]) /\ InSeq(c, peer'[c], toHost'[c])
    BY <2>8, <2>10, <2>11
  <2> QED BY <1>1, <1>4, <1>5, <2>1, <2>12, <2>13, RemoteSeqStep
<1> QED BY <1>9, <1>11, <1>12 DEF Past

\* A remote leaves every connection in sequence.
LEMMA RemoteSeq ==
  ASSUME Typed, Distinct, ConnOK, SeqOK, NEW c \in Conns, Remote(c)
  PROVE  SeqOK'
<1>1. PeerOpen(c) \/ PeerRetry(c) \/ PeerSend(c) \/ PeerClose(c) \/ PeerReceive(c)
  BY DEF Remote
<1> QED BY <1>1, PeerOpenSeq, PeerRetrySeq, PeerSendSeq, PeerCloseSeq, PeerReceiveSeq

-----------------------------------------------------------------------------
(* Segments arrive.                                                        *)

LEMMA SynSeq ==
  ASSUME Typed, Distinct, ConnOK, SeqOK, NEW c \in Conns, Syn(c)
  PROVE  SeqOK'
<1> DEFINE t == peer[c]
           n == Half(ListenerOf(c[2]), c[1], Head(toHost[c]).seq + 1)
           s == Segment("SYNACK", 0, n.ack, BUFSIZE, <<>>)
<1>1. /\ socklist' = socklist /\ peer' = peer
      /\ \/ Fits(c) /\ backlog_list' = Append(backlog_list, n) /\ Post(c, <<s>>)
         \/ backlog_list' = backlog_list /\ toPeer' = toPeer
  BY SynCases
<1>2. /\ t.st = "SYN_SENT" /\ toPeer[c] = <<>>
      /\ toHost'[c] = <<>> /\ \A d \in Conns : d # c => toHost'[d] = toHost[d]
      /\ \A i \in DOMAIN socklist : socklist[i].dest # c[1]
      /\ \A j \in DOMAIN backlog_list : Live(backlog_list[j]) => backlog_list[j].dest # c[1]
  BY SynArrives
<1>3. OutSeq(t, toPeer[c]) /\ InSeq(c, t, toHost[c])
  BY DEF SeqOK, WiresSeq
<1>4. InSeq(c, t, toHost'[c])
  BY <1>2, <1>3 DEF InSeq
<1>5. ASSUME NEW j \in DOMAIN socklist'
      PROVE  LET x == socklist'[j]
             IN  /\ Up(x.status) =>
                      \/ Conn(x) = c /\ NodeSeq(x, peer[c], toPeer'[c])
                      \/ Conn(x) # c /\ \E k \in DOMAIN socklist :
                           Conn(x) = Conn(socklist[k]) /\ Sends(x, socklist[k], <<>>)
                 /\ OneConn(x, peer) \/ \E k \in DOMAIN socklist : Conn(x) = Conn(socklist[k])
  <2>1. j \in DOMAIN socklist /\ socklist'[j] = socklist[j]
    BY <1>1
  <2>2. Sends(socklist'[j], socklist[j], <<>>)
    BY <2>1, SameSends
  <2>3. Conn(socklist[j]) # c
    BY <1>2, <2>1, ConnParts
  <2> QED BY <2>1, <2>2, <2>3
<1>6. HalfSeq(peer[c], toHost'[c], toPeer'[c])
  BY <1>2 DEF HalfSeq, Past
<1>7. \A j \in DOMAIN backlog_list : Live(backlog_list[j]) => Conn(backlog_list[j]) # c
  BY <1>2, ConnParts
<1>8. CASE backlog_list' = backlog_list /\ toPeer' = toPeer
  BY <1>1, <1>2, <1>3, <1>4, <1>5, <1>7, <1>8, HostSeq
<1>9. CASE Fits(c) /\ backlog_list' = Append(backlog_list, n) /\ Post(c, <<s>>)
  <2>1. Head(toHost[c]) \in ShortSegments /\ Head(toHost[c]).seq \in Int
    BY SynCases, ArrivingFacts, SegmentFields
  <2>2. Head(toHost[c]).seq + 1 \in Int /\ c[1] \in Remotes
    BY <2>1, ConnFacts
  <2>3. n \in HalfNode
    BY <2>2, HalfType
  <2>4. Live(n) => Conn(n) = c
    BY <1>9, <2>2, SynHalf
  <2>5. n.ack \in Int
    BY <2>3, NodeFields DEF HalfNode
  <2> HIDE DEF n
  <2>6. s \in Segments /\ <<s>> \in Seq(Segments)
    BY <2>5, SegmentType, Empties, IndexFacts
  <2>7. s.flags = "SYNACK" /\ s.seq = 0 /\ s.data = <<>>
    BY DEF Segment
  <2> HIDE DEF s
  <2>8. /\ \A d \in Conns : d # c => toPeer'[d] = toPeer[d]
        /\ toPeer'[c] = toPeer[c] \o <<s>>
    BY <1>9, <2>6, PostAt
  <2>9. toPeer'[c] = <<s>>
    BY <1>2, <2>6, <2>8
  <2>10. OutSeq(t, <<s>>)
    <3>1. \A k \in DOMAIN <<s>> : k = 1 /\ <<s>>[k] = s
      OBVIOUS
    <3>2. t.rcv = 0 /\ ~Past(t) /\ ~Ended(t)
      BY <1>2, <1>3 DEF OutSeq, Past, Ended
    <3>3. Chain(0, <<s>>)
      BY <2>7, <3>1 DEF Chain, Start
    <3>4. Len(<<s>>) = 1
      OBVIOUS
    <3> QED BY <1>2, <2>7, <3>1, <3>2, <3>3, <3>4 DEF OutSeq
  <2>11. \A j \in DOMAIN backlog_list' :
           \/ j \in DOMAIN backlog_list /\ backlog_list'[j] = backlog_list[j]
           \/ j = Len(backlog_list) + 1 /\ backlog_list'[j] = n
    BY <1>9, <2>3, AppendElements DEF Typed, KernelType
  <2>12. \A j \in DOMAIN backlog_list' : Live(backlog_list'[j]) =>
           \/ Conn(backlog_list'[j]) = c /\ HalfSeq(peer[c], toHost'[c], toPeer'[c])
           \/ Conn(backlog_list'[j]) # c /\ \E k \in DOMAIN backlog_list :
                backlog_list'[j] = backlog_list[k]
    BY <1>6, <1>7, <2>4, <2>11
  <2>13. OutSeq(peer[c], toPeer'[c])
    BY <2>9, <2>10
  <2> QED BY <1>1, <1>2, <1>4, <1>5, <2>8, <2>12, <2>13, HostSeq
<1> QED BY <1>1, <1>8, <1>9

LEMMA SynAckSeq ==
  ASSUME Typed, Distinct, ConnOK, SeqOK, NEW c \in Conns, SynAck(c)
  PROVE  SeqOK'
<1> DEFINE t == peer[c]
           m == Head(toHost[c])
           seg == Segment("ACK", m.ack, m.seq + 1, BUFSIZE, <<>>)
           size == Cardinality(Mine(c))
           out == [k \in 1..size |-> seg]
<1>1. /\ t.st = "SYN_RCVD" /\ toHost'[c] = <<>>
      /\ \A d \in Conns : d # c => toHost'[d] = toHost[d]
      /\ \A i \in Mine(c) : Conn(socklist[i]) = c
  BY SynAckArrives
<1>2. /\ socklist' = [i \in DOMAIN socklist |-> IF i \in Mine(c) THEN Opened(i, m) ELSE socklist[i]]
      /\ Post(c, out) /\ Delivers(c) /\ backlog_list' = backlog_list /\ peer' = peer
      /\ m.flags = "SYNACK"
  BY SynAckCases
<1>3. /\ toHost[c] \in Seq(ShortSegments) /\ 1 \in DOMAIN toHost[c] /\ toHost[c][1] = m
      /\ m \in ShortSegments
  <2>1. toHost[c] \in Seq(ShortSegments) /\ toHost[c] # <<>>
    BY <1>2 DEF Typed, NetType, Delivers
  <2> QED BY <2>1
<1> HIDE DEF m
<1>4. /\ c[1] \in Servers /\ toPeer[c] = <<>> /\ Dialled(socklist, c)
  <2>1. WireOK(c, toHost[c], toPeer[c], t, socklist)
    BY DEF ConnOK, WiresOK
  <2> QED BY <1>2, <1>3, <2>1 DEF WireOK, Alone_
<1>5. OutSeq(t, toPeer[c]) /\ InSeq(c, t, toHost[c])
  BY DEF SeqOK, WiresSeq
<1>6. m.seq = 0 /\ m.ack = 1 /\ t.rcv = 1
  BY <1>1, <1>2, <1>3, <1>5 DEF InSeq
<1>7. InSeq(c, t, toHost'[c])
  BY <1>1, <1>5 DEF InSeq
<1>8. seg \in Segments /\ seg.flags = "ACK" /\ seg.seq = 1 /\ seg.ack = 1 /\ seg.data = <<>>
  <2>1. seg \in Segments
    BY <1>6, SegmentType, IndexFacts, Empties
  <2> QED BY <1>6, <2>1 DEF Segment
<1>9. size \in Nat /\ size # 0
  <2>1. DOMAIN socklist = 1..Len(socklist) /\ Len(socklist) \in Nat
    BY DEF Typed, KernelType
  <2>2. IsFiniteSet(1..Len(socklist))
    BY <2>1, FS_Interval
  <2>3. Mine(c) \subseteq 1..Len(socklist)
    BY <2>1 DEF Mine
  <2>4. IsFiniteSet(Mine(c))
    BY <2>2, <2>3, FS_Subset
  <2>5. Mine(c) # {}
    BY <1>4, ConnParts DEF Dialled, Mine, Expecting
  <2> QED BY <2>4, <2>5, FS_CardinalityType, FS_EmptySet
<1> HIDE DEF seg, size
<1>10. /\ out \in Seq(Segments) /\ out # <<>> /\ DOMAIN out = 1..size /\ Len(out) = size
       /\ \A k \in DOMAIN out : out[k] = seg
       /\ 1 \in DOMAIN out
  BY <1>8, <1>9
<1> HIDE DEF out
<1>11. SeqLen(seg) = 0
  BY <1>8, SeqLenType, EmptyBytes
<1>12. Run(1, out, 1)
  <2>1. ASSUME NEW k \in 1..size+1 PROVE Start(1, out, k) = 1
    <3>1. CASE k = 1
      BY <3>1 DEF Start
    <3>2. CASE k # 1
      <4>1. k - 1 \in DOMAIN out
        BY <1>9, <1>10, <3>2
      <4> QED BY <1>8, <1>10, <1>11, <3>2, <4>1 DEF Start
    <3> QED BY <3>1, <3>2
  <2>2. \A k \in DOMAIN out : k \in 1..size+1
    BY <1>9, <1>10
  <2>3. Len(out) + 1 \in 1..size+1
    BY <1>9, <1>10
  <2> QED BY <1>8, <1>10, <2>1, <2>2, <2>3 DEF Run, Chain
<1>13. OutSeq(t, out)
  <2>1. Chain(t.rcv, out)
    BY <1>6, <1>12 DEF Run
  <2>2. Past(t) /\ t.st # "SYN_SENT" /\ ~Ended(t)
    BY <1>1 DEF Past, Ended
  <2>3. \A k \in DOMAIN out : out[k].flags = "ACK"
    BY <1>8, <1>10
  <2>4. out[1].flags = "ACK" /\ out[1].data = <<>> /\ out[1].ack = 1
    BY <1>8, <1>10
  <2> QED BY <2>1, <2>2, <2>3, <2>4 DEF OutSeq
<1>14. /\ \A d \in Conns : d # c => toPeer'[d] = toPeer[d]
       /\ toPeer'[c] = out
  <2>1. /\ \A d \in Conns : d # c => toPeer'[d] = toPeer[d]
        /\ toPeer'[c] = toPeer[c] \o out
    BY <1>2, <1>10, PostAt
  <2>2. <<>> \o out = out
    BY <1>10
  <2> QED BY <1>4, <2>1, <2>2
<1>15. DOMAIN socklist' = DOMAIN socklist
  BY <1>2
<1>16. ASSUME NEW j \in DOMAIN socklist
       PROVE  LET x == socklist'[j]
              IN  /\ Conn(x) = Conn(socklist[j])
                  /\ Up(x.status) =>
                      \/ Conn(x) = c /\ NodeSeq(x, t, out)
                      \/ Conn(x) # c /\ Sends(x, socklist[j], <<>>)
  <2> DEFINE n == socklist[j]
             x == socklist'[j]
  <2>1. CASE j \in Mine(c)
    <3>1. x = Opened(j, m)
      BY <1>2, <2>1
    <3>2. Conn(n) = c
      BY <1>1, <2>1
    <3>3. n \in SockNode
      BY ListElements
    <3>4. x.dest = n.dest /\ x.srcport = n.srcport /\ x.status = "ESTAB" /\ x.seq = m.ack
      BY <3>1, <3>3 DEF Opened, SockNode, NodeOf
    <3> HIDE DEF x, n
    <3>5. Conn(x) = c
      BY <3>2, <3>4 DEF Conn
    <3>6. NextSeq(x) = 1
      BY <1>6, <3>4 DEF NextSeq
    <3>7. ~Ended(t) /\ ~HasFin(out)
      BY <1>1, <1>8, <1>10 DEF Ended, HasFin
    <3>8. NodeSeq(x, t, out)
      BY <1>6, <1>10, <1>12, <3>6, <3>7 DEF NodeSeq
    <3> QED BY <3>2, <3>5, <3>8 DEF x, n
  <2>2. CASE j \notin Mine(c)
    <3>1. x = n
      BY <1>2, <2>2
    <3>2. Sends(x, n, <<>>)
      BY <3>1, SameSends
    <3>3. ASSUME Up(n.status) PROVE Conn(n) # c
      <4>1. Clear(toHost[Conn(n)])
        BY <3>3, UpClear
      <4> QED BY <1>2, <1>3, <4>1 DEF Clear
    <3> QED BY <3>1, <3>2, <3>3
  <2> QED BY <2>1, <2>2
<1>17. ASSUME NEW j \in DOMAIN socklist'
       PROVE  LET x == socklist'[j]
              IN  /\ Up(x.status) =>
                       \/ Conn(x) = c /\ NodeSeq(x, peer[c], toPeer'[c])
                       \/ Conn(x) # c /\ \E k \in DOMAIN socklist :
                            Conn(x) = Conn(socklist[k]) /\ Sends(x, socklist[k], <<>>)
                  /\ OneConn(x, peer) \/ \E k \in DOMAIN socklist : Conn(x) = Conn(socklist[k])
  BY <1>14, <1>15, <1>16
<1>18. ASSUME NEW j \in DOMAIN backlog_list', Live(backlog_list'[j])
       PROVE  Conn(backlog_list'[j]) # c /\ \E k \in DOMAIN backlog_list :
                                                backlog_list'[j] = backlog_list[k]
  <2>1. Conn(backlog_list[j]) \in Incoming /\ Conn(backlog_list[j]) \in Conns
    BY <1>2, <1>18 DEF ConnOK, HalvesOK, HalfOK, Conns
  <2> QED BY <1>2, <1>4, <2>1, RemoteConn
<1>19. OutSeq(peer[c], toPeer'[c])
  BY <1>13, <1>14
<1> QED BY <1>1, <1>2, <1>7, <1>14, <1>17, <1>18, <1>19, HostSeq

\* Taking a segment of the remote leaves the others as they were.
LEMMA TailSeq ==
  ASSUME NEW c, NEW t, NEW in \in Seq(ShortSegments), in # <<>>
  PROVE  /\ InSeq(c, t, in) => InSeq(c, t, Tail(in))
         /\ \A out : HalfSeq(t, in, out) => HalfSeq(t, Tail(in), out)
<1> DEFINE rest == Tail(in)
<1>1. \A k \in DOMAIN rest : k + 1 \in DOMAIN in /\ rest[k] = in[k+1]
  BY TailElements
<1> HIDE DEF rest
<1>2. InSeq(c, t, in) => InSeq(c, t, rest)
  BY <1>1 DEF InSeq
<1>3. \A out : HalfSeq(t, in, out) => HalfSeq(t, rest, out)
  BY <1>1 DEF HalfSeq
<1> QED BY <1>2, <1>3 DEF rest

\* What a node of the remote of c is connected to, when the remote has opened c.
LEMMA OneRemote ==
  ASSUME Distinct, ConnOK, NEW c \in Conns, Past(peer[c]), NEW n, OneConn(n, peer),
         n.dest = c[1]
  PROVE  Conn(n) = c
BY DEF OneConn, Past

\* The answer to a FIN continues what the node has sent.
LEMMA FinSends ==
  ASSUME NEW n \in SockNode, NEW m \in ShortSegments,
         n.status \in {"ESTAB", "FIN_WAIT_1", "FIN_WAIT_2"}
  PROVE  Sends(Finished(n, m), n, <<Segment("ACK", FinSeq(n), m.seq + 1, BUFSIZE, <<>>)>>)
<1> DEFINE seg == Segment("ACK", FinSeq(n), m.seq + 1, BUFSIZE, <<>>)
           f == Finished(n, m)
<1>1. /\ FinSeq(n) \in Int /\ n.seq \in Int /\ m.seq + 1 \in Int
      /\ f.status = AfterFin(n.status) /\ f.status \in {"CLOSE_WAIT", "CLOSING", "TIMED_WAIT"}
  BY FinPartTypes, NodeFields, SegmentFields DEF SockNode
<1>2. f.seq = FinSeq(n)
  BY DEF Finished, SockNode, NodeOf
<1>3. seg \in Segments
  BY <1>1, SegmentType, IndexFacts, Empties
<1>4. seg.flags = "ACK" /\ seg.seq = FinSeq(n) /\ SeqLen(seg) = 0
  <2>1. seg.flags = "ACK" /\ seg.seq = FinSeq(n) /\ seg.data = <<>>
    BY DEF Segment
  <2> QED BY <1>3, <2>1, SeqLenType, EmptyBytes
<1> HIDE DEF seg, f
<1>5. Run(FinSeq(n), <<seg>>, FinSeq(n))
  <2>1. Run(seg.seq, <<seg>>, seg.seq + SeqLen(seg))
    BY <1>3, RunOne
  <2>2. FinSeq(n) + 0 = FinSeq(n)
    BY <1>1
  <2> QED BY <1>4, <2>1, <2>2
<1>6. NextSeq(f) = FinSeq(n)
  BY <1>1, <1>2 DEF NextSeq
<1>7. NextSeq(n) = FinSeq(n)
  BY <1>1 DEF NextSeq, FinSeq
<1>8. \A k \in DOMAIN <<seg>> : <<seg>>[k] = seg
  OBVIOUS
<1>9. Up(n.status) /\ (Talks(f.status) => Talks(n.status))
  BY <1>1 DEF Up, Talks, AfterFin
<1> QED BY <1>4, <1>5, <1>6, <1>7, <1>8, <1>9 DEF Sends, HasFin, seg, f

LEMMA FinSeqOK ==
  ASSUME Typed, Distinct, ConnOK, SeqOK, NEW c \in Conns, Fin(c)
  PROVE  SeqOK'
<1> DEFINE m == Head(toHost[c])
           i == FinAt(c)
           n == socklist[i]
           seg == Segment("ACK", FinSeq(n), m.seq + 1, BUFSIZE, <<>>)
           f == Finished(n, m)
<1>1. /\ Delivers(c) /\ m.flags = "FIN" /\ backlog_list' = backlog_list /\ peer' = peer
      /\ \/ /\ i # 0 /\ n.status \in {"ESTAB", "FIN_WAIT_1", "FIN_WAIT_2"}
            /\ socklist' = [socklist EXCEPT ![i] = f]
            /\ Post(c, <<seg>>)
         \/ socklist' = socklist /\ toPeer' = toPeer
  BY FinCases
<1>2. Past(peer[c])
  BY <1>1, ArrivesClear
<1>3. /\ m \in ShortSegments /\ \A d \in Conns : d # c => toHost'[d] = toHost[d]
      /\ toHost'[c] = Tail(toHost[c]) /\ toHost[c] \in Seq(ShortSegments) /\ toHost[c] # <<>>
  BY <1>1, ArrivingFacts DEF Typed, NetType, Delivers
<1>4. OutSeq(peer[c], toPeer[c]) /\ InSeq(c, peer[c], toHost[c])
  BY DEF SeqOK, WiresSeq
<1>5. /\ InSeq(c, peer[c], toHost'[c])
      /\ \A out : HalfSeq(peer[c], toHost[c], out) => HalfSeq(peer[c], toHost'[c], out)
  BY <1>3, <1>4, TailSeq
<1>6. CASE socklist' = socklist /\ toPeer' = toPeer
  <2>1. ASSUME NEW j \in DOMAIN socklist'
        PROVE  LET x == socklist'[j]
               IN  /\ Up(x.status) =>
                        \/ Conn(x) = c /\ NodeSeq(x, peer[c], toPeer'[c])
                        \/ Conn(x) # c /\ \E k \in DOMAIN socklist :
                             Conn(x) = Conn(socklist[k]) /\ Sends(x, socklist[k], <<>>)
                   /\ OneConn(x, peer) \/ \E k \in DOMAIN socklist : Conn(x) = Conn(socklist[k])
    <3>1. j \in DOMAIN socklist /\ socklist'[j] = socklist[j]
      BY <1>6
    <3>2. Sends(socklist'[j], socklist[j], <<>>)
      BY <3>1, SameSends
    <3>3. NodeSeq(socklist[j], peer[Conn(socklist[j])], toPeer[Conn(socklist[j])])
      BY <3>1 DEF SeqOK, NodesSeq
    <3> QED BY <1>6, <3>1, <3>2, <3>3
  <2>2. ASSUME NEW j \in DOMAIN backlog_list', Live(backlog_list'[j])
        PROVE  \/ Conn(backlog_list'[j]) = c /\ HalfSeq(peer[c], toHost'[c], toPeer'[c])
               \/ Conn(backlog_list'[j]) # c /\ \E k \in DOMAIN backlog_list :
                    backlog_list'[j] = backlog_list[k]
    <3>1. LET d == Conn(backlog_list[j]) IN HalfSeq(peer[d], toHost[d], toPeer[d])
      BY <1>1, <2>2 DEF SeqOK, HalvesSeq
    <3> QED BY <1>1, <1>5, <1>6, <2>2, <3>1
  <2> HIDE DEF m, i, n, seg, f
  <2> QED BY <1>1, <1>3, <1>4, <1>5, <1>6, <2>1, <2>2, HostSeq
<1>7. CASE /\ i # 0 /\ n.status \in {"ESTAB", "FIN_WAIT_1", "FIN_WAIT_2"}
           /\ socklist' = [socklist EXCEPT ![i] = f]
           /\ Post(c, <<seg>>)
  <2>1. i \in DOMAIN socklist /\ n \in SockNode /\ n.dest = c[1]
    BY <1>7, FinAtLookup
  <2> HIDE DEF i
  <2>2. NodeSeq(n, peer[Conn(n)], toPeer[Conn(n)]) /\ OneConn(n, peer)
    BY <2>1 DEF SeqOK, NodesSeq, ConnsOne
  <2> HIDE DEF n
  <2>3. Conn(n) = c
    BY <1>2, <2>1, <2>2, OneRemote
  <2>4. /\ f \in SockNode /\ SameSocket(f, n)
        /\ f.status \in {"CLOSE_WAIT", "CLOSING", "TIMED_WAIT"} /\ FinSeq(n) \in Int
    BY <1>3, <1>7, <2>1, FinPartTypes
  <2>5. Sends(f, n, <<seg>>)
    BY <1>3, <1>7, <2>1, FinSends
  <2>6. seg \in Segments
    <3>1. m.seq + 1 \in Int
      BY <1>3, SegmentFields
    <3> HIDE DEF m
    <3> QED BY <2>4, <3>1, SegmentType, IndexFacts, Empties
  <2> HIDE DEF seg, f, m
  <2>7. <<seg>> \in Seq(Segments)
    BY <2>6
  <2>8. /\ toPeer'[c] = toPeer[c] \o <<seg>> /\ toPeer[c] \in Seq(Segments)
        /\ \A d \in Conns : d # c => toPeer'[d] = toPeer[d]
    BY <1>7, <2>7, PostAt DEF Typed, NetType
  <2>9. Up(n.status) /\ Up(f.status) /\ NodeSeq(n, peer[c], toPeer[c])
    BY <1>7, <2>2, <2>3, <2>4 DEF Up
  <2>10. NodeSeq(f, peer[c], toPeer'[c]) /\ OutSeq(peer[c], toPeer'[c])
    BY <1>2, <1>4, <2>5, <2>7, <2>8, <2>9, HostSends
  <2>11. Conn(f) = c /\ f.dest = socklist[i].dest
    BY <2>3, <2>4 DEF Conn, SameSocket, n
  <2>12. OneConn(f, peer)
    BY <2>2, <2>3, <2>11, OneKept
  <2>13. /\ \A j \in DOMAIN socklist :
              j # i => socklist[j].dest # f.dest \/ socklist[j].dest = NoRemote
         /\ \A j \in DOMAIN backlog_list :
              Live(backlog_list[j]) => backlog_list[j].dest # f.dest
    BY <2>1, <2>11, OtherRemotes
  <2> QED BY <1>1, <1>3, <1>5, <1>7, <2>1, <2>4, <2>8, <2>10, <2>11, <2>12, <2>13, OneNodeSeq
<1> QED BY <1>1, <1>6, <1>7

-----------------------------------------------------------------------------
(* An acknowledgement.                                                     *)

\* The second half of an ACK continues what its node has sent, and a node that
\* is not connected sends nothing.
AcksWell(a, n) == /\ Sends(a.node, n, a.out)
                  /\ ~Up(n.status) \/ n.status = "LAST_ACK" => a.out = <<>>

LEMMA QuietSends ==
  ASSUME NEW n \in SockNode, NEW st, NEW seq,
         \/ st = n.status
         \/ n.status = "FIN_WAIT_1" /\ st = "FIN_WAIT_2"
         \/ n.status = "CLOSING" /\ st = "TIMED_WAIT"
  PROVE  Sends(Quiet(n, st, seq), n, <<>>)
<1>1. Quiet(n, st, seq).status = st /\ Quiet(n, st, seq).seq = n.seq
  BY DEF Quiet, SockNode, NodeOf
<1> DEFINE x == Quiet(n, st, seq)
<1> HIDE DEF x
<1>2. NextSeq(x) = NextSeq(n) /\ (Up(x.status) => Up(n.status))
      /\ (Talks(x.status) => Talks(n.status))
  BY <1>1 DEF x, NextSeq, Up, Talks
<1>3. Run(NextSeq(n), <<>>, NextSeq(x))
  BY <1>2, RunEmpty
<1> QED BY <1>2, <1>3 DEF Sends, HasFin, x

LEMMA ReceiveSends ==
  ASSUME NEW n \in SockNode, NEW m \in ShortSegments, NEW c, n.status = "ESTAB"
  PROVE  Sends(Receive(n, c, m).node, n, Receive(n, c, m).out)
<1> DEFINE x == Left(n, m)
           seg == Segment("ACK", x.seq, x.ack, Window(x), <<>>)
<1>1. Receive(n, c, m).node = x /\ Receive(n, c, m).out = <<seg>>
  BY ReceiveFacts
<1>2. x \in SockNode /\ x.status = "ESTAB"
  BY LeftType
<1>3. x.seq = n.seq
  <2>1. Stored(n, m).seq = n.seq /\ Stored(n, m) \in SockNode
    BY StoredType DEF Stored, SockNode, NodeOf
  <2> DEFINE s == Stored(n, m)
             t == Consumed(s, n.read_len)
  <2> HIDE DEF s
  <2>2. t.seq = n.seq /\ DOMAIN t = DOMAIN s
    BY <2>1 DEF Consumed, SockNode, NodeOf, s
  <2>3. x = IF Satisfied(s) THEN [t EXCEPT !.read_uuid = None] ELSE s
    BY DEF Left, s
  <2> HIDE DEF t, x
  <2>4. [t EXCEPT !.read_uuid = None].seq = t.seq
    BY <2>1, <2>2 DEF SockNode, NodeOf, s
  <2> QED BY <2>1, <2>2, <2>3, <2>4 DEF s
<1> HIDE DEF x
<1>4. seg \in Segments /\ seg.flags = "ACK" /\ seg.seq = n.seq /\ seg.data = <<>>
  <2>1. x.seq \in Int /\ x.ack \in Int /\ Window(x) \in Int
    BY <1>2, NodeFields, IndexFacts DEF SockNode, Window
  <2>2. seg \in Segments
    BY <2>1, SegmentType, Empties
  <2> QED BY <1>3, <2>2 DEF Segment
<1> HIDE DEF seg
<1>5. Run(n.seq, <<seg>>, x.seq)
  <2>1. SeqLen(seg) = 0 /\ n.seq \in Int
    BY <1>4, SeqLenType, EmptyBytes
  <2>2. Run(seg.seq, <<seg>>, seg.seq + SeqLen(seg))
    BY <1>4, RunOne
  <2>3. seg.seq + SeqLen(seg) = n.seq
    BY <1>4, <2>1
  <2> QED BY <1>3, <1>4, <2>2, <2>3
<1>6. \A k \in DOMAIN <<seg>> : <<seg>>[k].flags = "ACK"
  BY <1>4
<1> QED BY <1>1, <1>2, <1>5, <1>6, SentSends

LEMMA AckedSends ==
  ASSUME NEW n \in SockNode, NEW m \in ShortSegments, n.status = "ESTAB"
  PROVE  Sends(Acked(n, m).node, n, Acked(n, m).out)
<1> DEFINE g == Grown(n, m)
           r == Resumed(n, m)
           x == AckedNode(n, m)
<1>1. /\ Acked(n, m).node = x
      /\ Acked(n, m).out = IF n.sending THEN r.out ELSE <<>>
  BY AckedFacts DEF Acked, Resumed, Grown
<1>2. g \in SockNode /\ g.status = "ESTAB" /\ g.seq = n.seq
  <2>1. g.seq = n.seq
    BY DEF Grown, SockNode, NodeOf
  <2> QED BY <2>1, GrownType
<1> HIDE DEF g
<1>3. Run(n.seq, r.out, r.node.seq) /\ \A k \in DOMAIN r.out : r.out[k].flags = "ACK"
  <2>1. 2 \in Nat
    OBVIOUS
  <2> QED BY <1>2, <2>1, SentRun DEF Resumed, g, SockNode
<1>4. r.node \in SockNode /\ r.node.status = "ESTAB"
  BY ResumedType
<1> HIDE DEF r
<1>5. CASE n.sending
  <2> DEFINE y == Filled(n, m)
  <2>1. /\ y.seq = r.node.seq /\ y.status = "ESTAB" /\ DOMAIN y = DOMAIN r.node
    BY <1>4 DEF Filled, SockNode, NodeOf, r
  <2>2. x = [y EXCEPT !.write_uuid = None]
    BY <1>5 DEF AckedNode
  <2> HIDE DEF x, y
  <2>3. x.seq = r.node.seq /\ x.status = "ESTAB"
    BY <1>4, <2>1, <2>2 DEF SockNode, NodeOf
  <2> QED BY <1>1, <1>3, <1>5, <2>3, SentSends
<1>6. CASE ~n.sending
  <2>1. x = g /\ Acked(n, m).out = <<>>
    BY <1>1, <1>6 DEF AckedNode, g
  <2> QED BY <1>1, <1>2, <2>1, SameSends
<1> QED BY <1>5, <1>6

LEMMA AckOfSends ==
  ASSUME NEW n \in SockNode, NEW m \in ShortSegments, NEW c
  PROVE  AcksWell(AckOf(n, c, m), n)
<1> DEFINE a == AckOf(n, c, m)
           quiet(st, seq, answers) == [to |-> c, out |-> <<>>, answers |-> answers,
                                       node |-> Quiet(n, st, seq)]
           done == {Answer(n.uuid, 0)}
<1>1. a = CASE n.status = "ESTAB" /\ m.data # <<>> -> Receive(n, c, m)
            [] n.status = "ESTAB" /\ m.data = <<>> -> Acked(n, m)
            [] n.status = "FIN_WAIT_1" -> quiet("FIN_WAIT_2", m.seq + 1, {})
            [] n.status = "LAST_ACK" -> quiet("LAST_ACK", m.seq + 1, done)
            [] n.status = "CLOSING" -> quiet("TIMED_WAIT", m.seq, done)
            [] OTHER -> quiet(n.status, m.seq, {})
  BY DEF AckOf, Quiet
<1> HIDE DEF a
<1>2. CASE n.status = "ESTAB"
  <2>1. a \in {Receive(n, c, m), Acked(n, m)}
    BY <1>1, <1>2
  <2>2. Sends(a.node, n, a.out)
    BY <1>2, <2>1, ReceiveSends, AckedSends
  <2> QED BY <1>2, <2>2 DEF AcksWell, Up, a
<1>3. CASE n.status # "ESTAB"
  <2>1. \E st, seq : /\ a.out = <<>> /\ a.node = Quiet(n, st, seq)
                     /\ \/ st = n.status
                        \/ n.status = "FIN_WAIT_1" /\ st = "FIN_WAIT_2"
                        \/ n.status = "CLOSING" /\ st = "TIMED_WAIT"
    <3>1. CASE n.status = "FIN_WAIT_1"
      BY <1>1, <3>1
    <3>2. CASE n.status = "LAST_ACK"
      BY <1>1, <3>2
    <3>3. CASE n.status = "CLOSING"
      BY <1>1, <3>3
    <3>4. CASE n.status \notin {"ESTAB", "FIN_WAIT_1", "LAST_ACK", "CLOSING"}
      BY <1>1, <3>4
    <3> QED BY <1>3, <3>1, <3>2, <3>3, <3>4
  <2> QED BY <2>1, QuietSends DEF AcksWell, a
<1> QED BY <1>2, <1>3

\* The new socket of a connection goes on with number 1, and nothing is under
\* way to its remote.
LEMMA NewSocketSeq ==
  ASSUME Typed, Distinct, ConnOK, SeqOK, NEW c \in Conns, Delivers(c), Past(peer[c]),
         HalfOpen(c) # 0
  PROVE  LET n == NewSocket(c, Head(toHost[c]))
         IN  /\ Conn(n) = c /\ OneConn(n, peer)
             /\ NodeSeq(n, peer[c], toPeer[c])
<1> DEFINE m == Head(toHost[c])
           n == NewSocket(c, m)
<1>1. m \in ShortSegments /\ 1 \in DOMAIN toHost[c] /\ m = toHost[c][1]
  <2>1. toHost[c] \in Seq(ShortSegments) /\ toHost[c] # <<>>
    BY DEF Typed, NetType, Delivers
  <2> QED BY <2>1
<1>2. /\ HalfOpen(c) \in DOMAIN backlog_list /\ Live(Entry(c)) /\ Entry(c).dest = c[1]
      /\ Conn(Entry(c)) = c /\ Entry(c) = backlog_list[HalfOpen(c)] /\ Entry(c) \in HalfNode
  BY EntryConn, HalfOpenLookup DEF Entry
<1>3. n.status = "ESTAB" /\ n.dest = Entry(c).dest /\ n.srcport = Entry(c).srcport
  BY <1>1, NewSocketType
<1>4. n.seq = m.ack
  BY <1>2 DEF NewSocket, HalfNode, NodeOf
<1> HIDE DEF n, m
<1>5. Conn(n) = c
  BY <1>2, <1>3 DEF Conn
<1>6. HalfSeq(peer[c], toHost[c], toPeer[c])
  BY <1>2 DEF SeqOK, HalvesSeq
<1>7. /\ toPeer[c] = <<>> /\ peer[c].rcv = 1 /\ ~Ended(peer[c]) /\ peer[c].st # "SYN_RCVD"
      /\ m.ack = 1
  BY <1>1, <1>6 DEF HalfSeq
<1>8. NodeSeq(n, peer[c], toPeer[c])
  <2>1. NextSeq(n) = 1
    BY <1>3, <1>4, <1>7 DEF NextSeq
  <2>2. Run(1, <<>>, 1)
    BY RunEmpty
  <2> QED BY <1>7, <2>1, <2>2 DEF NodeSeq, HasFin
<1>9. c \in Incoming
  BY <1>2 DEF ConnOK, HalvesOK, HalfOK
<1>10. OneConn(n, peer)
  BY <1>2, <1>3, <1>5, <1>9, RemoteConn DEF OneConn
<1> QED BY <1>5, <1>8, <1>10 DEF n, m

\* The table of the first half of an ACK: nodes as they were, and nodes of the
\* connection that continue what is under way.
Continues(x, c) == /\ OneConn(x, peer)
                   /\ Conn(x) = c => NodeSeq(x, peer[c], toPeer[c])
                   /\ Conn(x) # c => \E k \in DOMAIN socklist : x = socklist[k]

LEMMA CompletedSeq ==
  ASSUME Typed, Distinct, ConnOK, SeqOK, NEW c \in Conns, Delivers(c), Past(peer[c]),
         NEW k \in DOMAIN Completed(c, Head(toHost[c])).sl
  PROVE  Continues(Completed(c, Head(toHost[c])).sl[k], c)
<1> DEFINE m == Head(toHost[c])
           sl == Completed(c, m).sl
<1>1. m \in ShortSegments
  BY ArrivingFacts
<1>2. \A j \in DOMAIN socklist : Continues(socklist[j], c)
  BY DEF SeqOK, NodesSeq, ConnsOne, Continues
<1>3. /\ ~NewlyOpen(c) => sl = socklist
      /\ NewlyOpen(c) =>
           /\ HalfOpen(c) # 0 /\ sl[1] = NewSocket(c, m)
           /\ \A l \in DOMAIN sl : l = 1 \/ (l-1 \in DOMAIN socklist /\ sl[l] = socklist[l-1])
  BY <1>1, CompletedTable
<1>4. HalfOpen(c) # 0 => Continues(NewSocket(c, m), c)
  BY NewSocketSeq DEF Continues
<1> HIDE DEF sl, m
<1>5. k \in DOMAIN sl
  BY DEF sl, m
<1>6. Continues(sl[k], c)
  BY <1>2, <1>3, <1>4, <1>5
<1> QED BY <1>6 DEF sl, m

\* What becomes of the nodes: the others stay, that of the connection goes on.
Stays(x, c) == /\ Conn(x) # c
               /\ \E k \in DOMAIN socklist : Conn(x) = Conn(socklist[k])
                                             /\ Sends(x, socklist[k], <<>>)
GoesOn(x, c, out) == Conn(x) = c /\ NodeSeq(x, peer[c], out) /\ OneConn(x, peer)

LEMMA AckOthers ==
  ASSUME Typed, Distinct, ConnOK, SeqOK, NEW c \in Conns, Ack(c),
         NEW k \in DOMAIN Completed(c, Head(toHost[c])).sl, k # AckedAt(c, Head(toHost[c]))
  PROVE  Stays(Completed(c, Head(toHost[c])).sl[k], c)
<1> DEFINE m == Head(toHost[c])
           sl == Completed(c, m).sl
           i == AckedAt(c, m)
<1>1. Delivers(c) /\ m.flags = "ACK" /\ m \in ShortSegments
  BY AckCases, ArrivingFacts
<1>2. Past(peer[c]) /\ Clear(toHost[c])
  BY <1>1, ArrivesClear
<1>3. \A j \in DOMAIN sl : NodeOK(sl[j], peer)
  BY <1>1, <1>2, CompletedConn DEF OpensOK
<1>4. NodesApart(sl)
  BY <1>1, <1>2, CompletedConn DEF OpensOK
<1>5. /\ i # 0 => i \in DOMAIN sl /\ sl[i].dest = c[1]
      /\ \A l \in DOMAIN sl : sl[l].dest = c[1] /\ sl[l].status # "LISTENING" => i # 0
  BY <1>1, AckedAtLookup
<1>6. Continues(sl[k], c)
  BY <1>1, <1>2, CompletedSeq
<1>7. k \in DOMAIN sl /\ k # i
  OBVIOUS
<1> HIDE DEF sl, i, m
<1>8. c[1] # NoRemote
  BY ConnFacts, RemoteConn
<1>9. sl[k].dest # c[1]
  BY <1>3, <1>4, <1>5, <1>7, <1>8 DEF NodesApart, NodeOK
<1>10. Conn(sl[k]) # c
  BY <1>9, ConnParts
<1>11. PICK j \in DOMAIN socklist : sl[k] = socklist[j]
  BY <1>6, <1>10 DEF Continues
<1>12. Sends(sl[k], socklist[j], <<>>)
  BY <1>11, SameSends
<1>13. Stays(sl[k], c)
  BY <1>10, <1>11, <1>12 DEF Stays
<1> QED BY <1>13 DEF sl, m

\* The node an ACK is taken for, and what it makes the host send.
LEMMA AckTakes ==
  ASSUME Typed, Distinct, ConnOK, SeqOK, NEW c \in Conns, Ack(c),
         AckedAt(c, Head(toHost[c])) # 0
  PROVE  LET m == Head(toHost[c])
             n == Completed(c, m).sl[AckedAt(c, m)]
         IN  /\ Conn(n) = c /\ n.dest = c[1]
             /\ OutSeq(peer[c], toPeer'[c])
             /\ \A d \in Conns : d # c => toPeer'[d] = toPeer[d]
             /\ n.status # "LAST_ACK" => GoesOn(AckOf(n, c, m).node, c, toPeer'[c])
<1> DEFINE m == Head(toHost[c])
           i == AckedAt(c, m)
           n == Completed(c, m).sl[i]
           a == AckOf(n, c, m)
<1>1. Delivers(c) /\ m.flags = "ACK" /\ m \in ShortSegments
  BY AckCases, ArrivingFacts
<1>2. Past(peer[c])
  BY <1>1, ArrivesClear
<1>3. i \in DOMAIN Completed(c, m).sl /\ n \in SockNode /\ n.dest = c[1]
  BY <1>1, AckedAtLookup
<1>4. Continues(n, c)
  BY <1>1, <1>2, <1>3, CompletedSeq
<1>5. Post(a.to, a.out)
  BY AckCases DEF AckResult
<1> HIDE DEF i, n
<1>6. OneConn(n, peer)
  BY <1>4 DEF Continues
<1>7. Conn(n) = c
  BY <1>2, <1>3, <1>6, OneRemote
<1>8. NodeSeq(n, peer[c], toPeer[c])
  BY <1>4, <1>7 DEF Continues
<1>9. AcksWell(a, n)
  BY <1>1, <1>3, AckOfSends
<1>10. Keeps(a.node, n) /\ Conn(a.node) = c /\ a.to = c
  BY <1>1, <1>3, <1>7, AckedKeeps
<1>11. a.out \in Seq(Segments)
  BY <1>1, <1>3, AckOfFacts
<1> HIDE DEF a, m
<1>12. OneConn(a.node, peer)
  BY <1>6, <1>7, <1>10, OneKept
<1>13. /\ toPeer'[c] = toPeer[c] \o a.out /\ toPeer[c] \in Seq(Segments)
       /\ \A d \in Conns : d # c => toPeer'[d] = toPeer[d]
  BY <1>5, <1>10, <1>11, PostAt DEF Typed, NetType
<1>14. OutSeq(peer[c], toPeer[c])
  BY DEF SeqOK, WiresSeq
<1>15. toPeer[c] \o <<>> = toPeer[c]
  BY <1>13
<1>16. CASE Up(n.status)
  <2>1. Up(a.node.status)
    BY <1>10, <1>16 DEF Keeps
  <2>2. Sends(a.node, n, a.out)
    BY <1>9 DEF AcksWell
  <2>3. NodeSeq(a.node, peer[c], toPeer'[c]) /\ OutSeq(peer[c], toPeer'[c])
    BY <1>2, <1>8, <1>11, <1>13, <1>14, <1>16, <2>1, <2>2, HostSends
  <2> QED BY <1>3, <1>7, <1>10, <1>12, <1>13, <2>3 DEF GoesOn, a, n, i, m
<1>17. CASE ~Up(n.status)
  <2>1. ~Up(a.node.status)
    BY <1>10, <1>17 DEF Keeps
  <2>2. toPeer'[c] = toPeer[c]
    BY <1>9, <1>13, <1>15, <1>17 DEF AcksWell
  <2>3. NodeSeq(a.node, peer[c], toPeer'[c]) /\ OutSeq(peer[c], toPeer'[c])
    BY <1>14, <2>1, <2>2 DEF NodeSeq
  <2> QED BY <1>3, <1>7, <1>10, <1>12, <1>13, <2>3 DEF GoesOn, a, n, i, m
<1> QED BY <1>16, <1>17

\* What an ACK makes of the table and of the channel, in either case.
LEMMA AckMakes ==
  ASSUME Typed, Distinct, ConnOK, SeqOK, NEW c \in Conns, Ack(c)
  PROVE  /\ \A d \in Conns : d # c => toPeer'[d] = toPeer[d]
         /\ OutSeq(peer[c], toPeer'[c])
         /\ \A j \in DOMAIN socklist' :
              Stays(socklist'[j], c) \/ GoesOn(socklist'[j], c, toPeer'[c])
         /\ AckedAt(c, Head(toHost[c])) = 0 => toPeer'[c] = toPeer[c]
<1> DEFINE m == Head(toHost[c])
           sl == Completed(c, m).sl
           i == AckedAt(c, m)
           n == AckOf(sl[i], c, m).node
           a == AckResult(c, m)
<1>1. m \in ShortSegments /\ sl \in Seq(SockNode)
  BY AckCases, ArrivingFacts, CompletedType
<1>2. /\ \/ i = 0 /\ socklist' = sl
         \/ /\ i # 0 /\ sl[i].status = "LAST_ACK"
            /\ socklist' = Take(sl, i)
         \/ /\ i # 0 /\ sl[i].status # "LAST_ACK"
            /\ socklist' = [sl EXCEPT ![i] = n]
      /\ Post(a.to, a.out)
  BY AckCases
<1>3. \A k \in DOMAIN sl : k # i => Stays(sl[k], c)
  BY AckOthers
<1>4. DOMAIN sl \subseteq Nat \ {0}
  BY <1>1
<1>5. CASE i = 0
  <2>1. a.to = c /\ a.out = <<>>
    BY <1>5 DEF AckResult
  <2> HIDE DEF a, n, sl, m
  <2>2. <<>> \in Seq(Segments) /\ toPeer[c] \in Seq(Segments)
    BY Empties DEF Typed, NetType
  <2>3. Post(c, <<>>)
    BY <1>2, <2>1
  <2>4. /\ toPeer'[c] = toPeer[c] \o <<>>
        /\ \A d \in Conns : d # c => toPeer'[d] = toPeer[d]
    BY <2>2, <2>3, PostAt
  <2>5. toPeer[c] \o <<>> = toPeer[c]
    BY <2>2
  <2>6. OutSeq(peer[c], toPeer[c])
    BY DEF SeqOK, WiresSeq
  <2>7. \A k \in DOMAIN sl : Stays(sl[k], c)
    BY <1>3, <1>4, <1>5
  <2> QED BY <1>2, <1>5, <2>4, <2>5, <2>6, <2>7 DEF m
<1>6. CASE i # 0
  <2>1. i \in DOMAIN sl
    BY <1>1, <1>6, AckedAtLookup
  <2>2. /\ \A d \in Conns : d # c => toPeer'[d] = toPeer[d]
        /\ OutSeq(peer[c], toPeer'[c])
        /\ sl[i].status # "LAST_ACK" => GoesOn(n, c, toPeer'[c])
    BY <1>6, AckTakes
  <2> HIDE DEF a, n, sl, i
  <2>3. CASE sl[i].status = "LAST_ACK" /\ socklist' = Take(sl, i)
    <3>1. ASSUME NEW j \in DOMAIN socklist' PROVE Stays(socklist'[j], c)
      <4>1. /\ \/ j \in DOMAIN sl /\ j < i /\ socklist'[j] = sl[j]
               \/ j+1 \in DOMAIN sl /\ j+1 > i /\ socklist'[j] = sl[j+1]
            /\ i \in Nat
        BY <1>1, <1>4, <2>1, <2>3, TakeElements
      <4>2. j \in DOMAIN sl /\ j < i => j # i
        BY <1>4, <4>1
      <4>3. j+1 \in DOMAIN sl /\ j+1 > i => j+1 # i
        BY <1>4, <4>1
      <4> QED BY <1>3, <4>1, <4>2, <4>3
    <3> QED BY <1>6, <2>2, <3>1 DEF i
  <2>4. CASE sl[i].status # "LAST_ACK" /\ socklist' = [sl EXCEPT ![i] = n]
    <3>1. ASSUME NEW j \in DOMAIN socklist'
          PROVE  Stays(socklist'[j], c) \/ GoesOn(socklist'[j], c, toPeer'[c])
      <4>1. j \in DOMAIN sl /\ socklist'[j] = IF j = i THEN n ELSE sl[j]
        BY <2>4
      <4> QED BY <1>3, <2>2, <2>4, <4>1
    <3> QED BY <1>6, <2>2, <3>1 DEF i
  <2> QED BY <1>2, <1>6, <2>3, <2>4
<1> QED BY <1>5, <1>6

LEMMA AckHalves ==
  ASSUME Typed, Distinct, ConnOK, SeqOK, NEW c \in Conns, Ack(c),
         NEW j \in DOMAIN backlog_list', Live(backlog_list'[j])
  PROVE  \/ Conn(backlog_list'[j]) = c /\ HalfSeq(peer[c], toHost'[c], toPeer'[c])
         \/ Conn(backlog_list'[j]) # c /\ \E k \in DOMAIN backlog_list :
              backlog_list'[j] = backlog_list[k]
<1> DEFINE m == Head(toHost[c])
           e == backlog_list'[j]
           sl == Completed(c, m).sl
           i == AckedAt(c, m)
<1>1. /\ Delivers(c) /\ m.flags = "ACK" /\ backlog_list' = Completed(c, m).bl
      /\ m \in ShortSegments
  BY AckCases, ArrivingFacts
<1>2. Past(peer[c]) /\ Clear(toHost[c])
  BY <1>1, ArrivesClear
<1>3. ListsApart(sl, backlog_list')
  BY <1>1, <1>2, CompletedConn DEF OpensOK
<1>4. PICK k \in DOMAIN backlog_list : e = backlog_list[k]
  <2>1. \/ backlog_list' = backlog_list
        \/ HalfOpen(c) # 0 /\ backlog_list' = Take(backlog_list, HalfOpen(c))
    BY <1>1, CompletedCases
  <2>2. HalfOpen(c) # 0 => HalfOpen(c) \in DOMAIN backlog_list
    BY EntryConn
  <2>3. HalvesApart(backlog_list)
    BY DEF ConnOK, Apart
  <2> QED BY <2>1, <2>2, <2>3, TakeHalves
<1>5. CASE Conn(e) = c
  <2>1. e.dest = c[1]
    BY <1>5, ConnParts
  <2>2. i = 0
    <3>1. i # 0 => i \in DOMAIN sl /\ sl[i].dest = c[1]
      BY <1>1, AckedAtLookup
    <3> HIDE DEF sl, i, m
    <3> QED BY <1>3, <2>1, <3>1 DEF ListsApart
  <2>3. toPeer'[c] = toPeer[c]
    BY <2>2, AckMakes
  <2>4. HalfSeq(peer[c], toHost[c], toPeer[c])
    BY <1>4, <1>5 DEF SeqOK, HalvesSeq
  <2>5. toHost'[c] = Tail(toHost[c]) /\ toHost[c] \in Seq(ShortSegments) /\ toHost[c] # <<>>
    BY <1>1, ArrivingFacts DEF Typed, NetType, Delivers
  <2>6. HalfSeq(peer[c], toHost'[c], toPeer[c])
    BY <2>4, <2>5, TailSeq
  <2> QED BY <1>5, <2>3, <2>6
<1>6. CASE Conn(e) # c
  BY <1>4, <1>6
<1> QED BY <1>5, <1>6

LEMMA AckSeqOK ==
  ASSUME Typed, Distinct, ConnOK, SeqOK, NEW c \in Conns, Ack(c)
  PROVE  SeqOK'
<1>1. /\ Delivers(c) /\ peer' = peer /\ \A d \in Conns : d # c => toHost'[d] = toHost[d]
      /\ toHost'[c] = Tail(toHost[c]) /\ toHost[c] \in Seq(ShortSegments) /\ toHost[c] # <<>>
  BY AckCases, ArrivingFacts DEF Typed, NetType, Delivers
<1>2. /\ \A d \in Conns : d # c => toPeer'[d] = toPeer[d]
      /\ OutSeq(peer[c], toPeer'[c])
      /\ \A j \in DOMAIN socklist' :
           Stays(socklist'[j], c) \/ GoesOn(socklist'[j], c, toPeer'[c])
  BY AckMakes
<1>3. InSeq(c, peer[c], toHost'[c])
  BY <1>1, TailSeq DEF SeqOK, WiresSeq
<1>4. ASSUME NEW j \in DOMAIN socklist'
      PROVE  LET x == socklist'[j]
             IN  /\ Up(x.status) =>
                      \/ Conn(x) = c /\ NodeSeq(x, peer[c], toPeer'[c])
                      \/ Conn(x) # c /\ \E k \in DOMAIN socklist :
                           Conn(x) = Conn(socklist[k]) /\ Sends(x, socklist[k], <<>>)
                 /\ OneConn(x, peer) \/ \E k \in DOMAIN socklist : Conn(x) = Conn(socklist[k])
  BY <1>2 DEF Stays, GoesOn
<1>5. \A j \in DOMAIN backlog_list' : Live(backlog_list'[j]) =>
        \/ Conn(backlog_list'[j]) = c /\ HalfSeq(peer[c], toHost'[c], toPeer'[c])
        \/ Conn(backlog_list'[j]) # c /\ \E k \in DOMAIN backlog_list :
             backlog_list'[j] = backlog_list[k]
  BY AckHalves
<1> QED BY <1>1, <1>2, <1>3, <1>4, <1>5, HostSeq

\* An arrival leaves every connection in sequence.
LEMMA ArrivalSeq ==
  ASSUME Typed, Distinct, ConnOK, SeqOK, NEW c \in Conns, packetArrived(c)
  PROVE  SeqOK'
BY SynSeq, SynAckSeq, AckSeqOK, FinSeqOK DEF packetArrived

-----------------------------------------------------------------------------
(* The sequence is kept.                                                   *)

LEMMA StepSeq == Typed /\ Orderly /\ ConnOK /\ SeqOK /\ [Next]_vars => SeqOK'
<1> SUFFICES ASSUME Typed, Orderly, ConnOK, SeqOK, [Next]_vars PROVE SeqOK'
  OBVIOUS
<1>1. Distinct
  BY DEF Orderly
<1>2. ASSUME NEW p \in Pids, Syscall(p) PROVE SeqOK'
  BY <1>2, SyscallSeq
<1>3. ASSUME NEW c \in Conns, packetArrived(c) PROVE SeqOK'
  BY <1>1, <1>3, ArrivalSeq
<1>4. ASSUME NEW c \in Conns, Remote(c) PROVE SeqOK'
  BY <1>1, <1>4, RemoteSeq
<1>5. CASE UNCHANGED vars
  BY <1>5 DEF vars, kernel, SeqOK, NodesSeq, HalvesSeq, WiresSeq, ConnsOne
<1> QED BY <1>2, <1>3, <1>4, <1>5 DEF Next

LEMMA InitSeq == Init => SeqOK
<1> SUFFICES ASSUME Init PROVE SeqOK
  OBVIOUS
<1>1. DOMAIN socklist = {} /\ DOMAIN backlog_list = {}
  BY DEF Init
<1>2. NodesSeq /\ HalvesSeq /\ ConnsOne
  BY <1>1 DEF NodesSeq, HalvesSeq, ConnsOne
<1>3. ASSUME NEW c \in Conns
      PROVE  OutSeq(peer[c], toPeer[c]) /\ InSeq(c, peer[c], toHost[c])
  <2>1. toHost[c] = <<>> /\ toPeer[c] = <<>> /\ DOMAIN <<>> = {} /\ Len(<<>>) = 0
    BY DEF Init
  <2>2. PICK s \in Scenarios :
          peer = [d \in Conns |-> IF d \in Incoming \ s.clients
                                  THEN [Closed EXCEPT !.st = "DONE"] ELSE Closed]
    BY DEF Init
  <2>3. peer[c] \in {[Closed EXCEPT !.st = "DONE"], Closed}
    BY <2>2
  <2>4. peer[c].st \in {"DONE", "CLOSED"} /\ peer[c].rcv = 0 /\ peer[c].snd = 0
    BY <2>3 DEF Closed
  <2>5. OutSeq(peer[c], <<>>)
    BY <2>1, <2>4 DEF OutSeq, Chain
  <2>6. InSeq(c, peer[c], <<>>)
    BY <2>1, <2>4 DEF InSeq
  <2> QED BY <2>1, <2>5, <2>6
<1> QED BY <1>2, <1>3 DEF SeqOK, WiresSeq

LEMMA SeqAgrees == SeqOK => InSequence
BY DEF SeqOK, WiresSeq, OutSeq, Chain, Start, InSequence

\* What the host has under way to a remote continues what the remote has
\* received without gap or overlap, through the handshake, data of several
\* segments, the FIN and the answers to the remote's own segments: no handler
\* sends with a number another one forgot to count.  The fact behind it is that
\* the run ends where the node goes on, a FIN that seq does not count yet
\* included.  Of processes that use their sockets as Orderly says.
THEOREM TcpInSequence == Spec /\ []Orderly => []InSequence
<1> DEFINE Inv == Typed /\ ConnOK /\ SeqOK
<1>1. Init => Inv
  BY InitTyped, InitConn, InitSeq
<1>2. Inv /\ Orderly /\ [Next]_vars => Inv'
  BY NextTyped, NextConn, StepSeq
<1>3. Inv => InSequence
  BY SeqAgrees
<1> QED BY <1>1, <1>2, <1>3, PTL DEF Spec

=============================================================================

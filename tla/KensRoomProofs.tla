--------------------------- MODULE KensRoomProofs ---------------------------
(***************************************************************************)
(* The room of the receive buffers of a host of KENS: what the remotes are *)
(* told of it and what they may have under way, for processes that use     *)
(* their sockets as Orderly says.                                          *)
(***************************************************************************)
EXTENDS KensConnProofs

\* All that remote t has been told, or will be when it takes out, lets it send
\* no byte behind number e, and it has sent none that is still under way.
Told(e, t, in, out) ==
  /\ t.una + t.win <= e
  /\ \A k \in DOMAIN out : out[k].flags = "ACK" => out[k].ack + out[k].win <= e
  /\ \A k \in DOMAIN in : in[k].data # <<>> => in[k].seq + Len(in[k].data) <= e

\* What arrives goes on at number a, and a node that holds len bytes already
\* has room for the rest of it.
Holds(a, len, t, in, out) == Run(a, in, t.snd) /\ Told(a + BUFSIZE - len, t, in, out)

\* A socket has room for what its remote may send.  One that is not connected
\* holds nothing; after the FIN of either end nothing more is stored.
NodeRoom(n, t, in, out) ==
  /\ n.recv_len <= BUFSIZE
  /\ ~Up(n.status) => n.recv_len = 0
  /\ n.status = "ESTAB" => Holds(n.ack, n.recv_len, t, in, out)

\* A half-open connection: its ack is not counted on when it is opened, but the
\* segment that opens it tells where the remote has got to.
HalfRoom(e, t, in, out) ==
  e.recv_len = 0 /\ (Past(t) => \E a \in Int : Holds(a, 0, t, in, out))

\* Before the handshake a remote knows of one buffer from number 0 on.
WireRoom(t, in, out) ==
  /\ ~Past(t) => t.una = 0 /\ t.win = BUFSIZE
  /\ t.st = "SYN_SENT" => t.snd = 1
  /\ \A k \in DOMAIN in : in[k].flags = "SYNACK" => t.una = 0 /\ t.win = BUFSIZE
  /\ \A k \in DOMAIN out : out[k].flags = "SYNACK" => out[k].ack = 1

NodesRoom == \A i \in DOMAIN socklist :
               LET c == Conn(socklist[i])
               IN  NodeRoom(socklist[i], peer[c], toHost[c], toPeer[c])
HalvesRoom == \A j \in DOMAIN backlog_list : Live(backlog_list[j]) =>
                LET c == Conn(backlog_list[j])
                IN  HalfRoom(backlog_list[j], peer[c], toHost[c], toPeer[c])
WiresRoom == \A c \in Conns : WireRoom(peer[c], toHost[c], toPeer[c])
RoomOK == NodesRoom /\ HalvesRoom /\ WiresRoom

\* What is posted tells no more than the room there is.
LEMMA PostsRoom ==
  ASSUME NEW a, NEW len, NEW t, NEW in, NEW out \in Seq(Segments), NEW new \in Seq(Segments),
         Holds(a, len, t, in, out),
         \A k \in DOMAIN new : new[k].flags = "ACK" =>
           new[k].ack + new[k].win <= a + BUFSIZE - len
  PROVE  Holds(a, len, t, in, out \o new)
<1> DEFINE all == out \o new
<1>1. \A k \in DOMAIN all : \/ k \in DOMAIN out /\ all[k] = out[k]
                            \/ k - Len(out) \in DOMAIN new /\ all[k] = new[k - Len(out)]
  BY ConcatElements
<1> HIDE DEF all
<1>2. Holds(a, len, t, in, all)
  BY <1>1 DEF Holds, Told
<1> QED BY <1>2 DEF all

\* More room, for less.
LEMMA MoreRoom ==
  ASSUME NEW a \in Int, NEW b \in Int, NEW len \in Int, NEW less \in Int, a - len <= b - less,
         NEW t \in Peers, NEW in \in Seq(ShortSegments), NEW rest, NEW out \in Seq(Segments),
         Holds(a, len, t, in, out), Run(b, rest, t.snd),
         \A k \in DOMAIN rest : \E l \in DOMAIN in : rest[k] = in[l]
  PROVE  Holds(b, less, t, rest, out)
<1> DEFINE e == a + BUFSIZE - len
           f == b + BUFSIZE - less
<1>1. e \in Int /\ f \in Int /\ e <= f
  BY IndexFacts
<1>2. Told(e, t, in, out)
  BY DEF Holds
<1> HIDE DEF e, f
<1>3. t.una + t.win <= f
  <2>1. t.una \in Int /\ t.win \in Int
    BY DEF Peers
  <2> QED BY <1>1, <1>2, <2>1 DEF Told
<1>4. ASSUME NEW k \in DOMAIN out, out[k].flags = "ACK" PROVE out[k].ack + out[k].win <= f
  <2>1. out[k] \in Segments
    OBVIOUS
  <2>2. out[k].ack \in Int /\ out[k].win \in Int
    BY <2>1 DEF Segments
  <2>3. out[k].ack + out[k].win <= e
    BY <1>2, <1>4 DEF Told
  <2> QED BY <1>1, <2>2, <2>3
<1>5. ASSUME NEW k \in DOMAIN rest, rest[k].data # <<>>
      PROVE  rest[k].seq + Len(rest[k].data) <= f
  <2>1. PICK l \in DOMAIN in : rest[k] = in[l]
    OBVIOUS
  <2>2. in[l] \in ShortSegments
    OBVIOUS
  <2>3. in[l].seq \in Int /\ Len(in[l].data) \in Int
    BY <2>2, SegmentFields
  <2>4. in[l].seq + Len(in[l].data) <= e
    BY <1>2, <1>5, <2>1 DEF Told
  <2> QED BY <1>1, <2>1, <2>3, <2>4
<1>6. Told(f, t, rest, out)
  BY <1>3, <1>4, <1>5 DEF Told
<1> QED BY <1>6 DEF Holds, f

\* The next segment fits, and then the rest.
LEMMA TakesRoom ==
  ASSUME NEW a, NEW len \in Int, NEW t \in Peers, NEW in \in Seq(ShortSegments), in # <<>>,
         NEW out \in Seq(Segments), Holds(a, len, t, in, out)
  PROVE  LET m == Head(in)
         IN  /\ m.seq = a /\ a \in Int /\ SeqLen(m) \in Nat
             /\ m.data # <<>> => len + Len(m.data) <= BUFSIZE
             /\ \A less \in Int : less <= len + SeqLen(m) =>
                  Holds(a + SeqLen(m), less, t, Tail(in), out)
<1> DEFINE m == Head(in)
           rest == Tail(in)
<1>1. /\ m \in ShortSegments /\ 1 \in DOMAIN in /\ m = in[1] /\ in \in Seq(Segments)
      /\ \A k \in DOMAIN rest : k + 1 \in DOMAIN in /\ rest[k] = in[k+1]
  <2>1. m \in ShortSegments /\ 1 \in DOMAIN in /\ m = in[1]
    OBVIOUS
  <2>2. in \in Seq(Segments)
    BY DEF ShortSegments
  <2> QED BY <2>1, <2>2, TailElements
<1>2. m.seq = a /\ Run(a + SeqLen(m), rest, t.snd)
  BY <1>1, RunTail DEF Holds
<1>3. m \in Segments /\ m.seq \in Int /\ Len(m.data) \in Int /\ SeqLen(m) \in Nat
  <2> HIDE DEF m
  <2> QED BY <1>1, SegmentFields, SeqLenType
<1>4. m.data # <<>> => len + Len(m.data) <= BUFSIZE
  <2>1. m.data # <<>> => a + Len(m.data) <= a + BUFSIZE - len
    BY <1>1, <1>2 DEF Holds, Told
  <2> QED BY <1>2, <1>3, <2>1, IndexFacts
<1> HIDE DEF m, rest
<1>5. ASSUME NEW less \in Int, less <= len + SeqLen(m)
      PROVE  Holds(a + SeqLen(m), less, t, rest, out)
  <2> DEFINE b == a + SeqLen(m)
  <2>1. a \in Int /\ b \in Int /\ a - len <= b - less
    BY <1>2, <1>3, <1>5
  <2>2. \A k \in DOMAIN rest : \E l \in DOMAIN in : rest[k] = in[l]
    BY <1>1
  <2>3. Run(b, rest, t.snd)
    BY <1>2
  <2> HIDE DEF b
  <2>4. Holds(b, less, t, rest, out)
    BY <2>1, <2>2, <2>3, MoreRoom
  <2> QED BY <2>4 DEF b
<1> QED BY <1>2, <1>3, <1>4, <1>5 DEF m, rest

\* What a node that widens its room, or keeps it, tells the remote is true.
LEMMA WidenRoom ==
  ASSUME NEW n \in SockNode, NEW m \in SockNode, NEW t, NEW in, NEW out, NEW new,
         m.status = "ESTAB" => /\ t \in Peers /\ in \in Seq(ShortSegments)
                               /\ out \in Seq(Segments) /\ new \in Seq(Segments),
         NodeRoom(n, t, in, out), Widens(m, n, new)
  PROVE  NodeRoom(m, t, in, out \o new)
<1>1. /\ m.recv_len \in Nat /\ n.recv_len \in Nat /\ m.ack \in Int /\ n.ack \in Int
      /\ BUFSIZE \in Nat
  BY NodeFields, IndexFacts DEF SockNode
<1>2. m.recv_len <= n.recv_len /\ (~Up(m.status) => ~Up(n.status))
  BY DEF Widens
<1>3. ASSUME m.status = "ESTAB" PROVE Holds(m.ack, m.recv_len, t, in, out \o new)
  <2>1. /\ n.status = "ESTAB" /\ m.ack = n.ack
        /\ \A k \in DOMAIN new : new[k].flags = "ACK" => new[k].ack + new[k].win <= Edge(m)
    BY <1>3 DEF Widens
  <2>2. Holds(n.ack, n.recv_len, t, in, out) /\ Run(m.ack, in, t.snd)
    BY <2>1 DEF NodeRoom, Holds
  <2>3. /\ n.ack - n.recv_len <= m.ack - m.recv_len
        /\ n.recv_len \in Int /\ m.recv_len \in Int
    BY <1>1, <1>2, <2>1
  <2>5. \A k \in DOMAIN in : \E l \in DOMAIN in : in[k] = in[l]
    OBVIOUS
  <2>6. t \in Peers /\ in \in Seq(ShortSegments) /\ out \in Seq(Segments)
    BY <1>3
  <2>4. Holds(m.ack, m.recv_len, t, in, out)
    BY <1>1, <2>2, <2>3, <2>5, <2>6, MoreRoom
  <2> QED BY <1>3, <2>1, <2>4, PostsRoom DEF Edge
<1> QED BY <1>1, <1>2, <1>3 DEF NodeRoom

LEMMA StillRoom ==
  ASSUME NEW n \in SockNode, NEW m \in SockNode, NEW t, NEW in, NEW out,
         m.status = "ESTAB" => /\ t \in Peers /\ in \in Seq(ShortSegments)
                               /\ out \in Seq(Segments),
         NodeRoom(n, t, in, out), Widens(m, n, <<>>)
  PROVE  NodeRoom(m, t, in, out)
<1>1. CASE m.status = "ESTAB"
  <2>1. <<>> \in Seq(Segments) /\ out \o <<>> = out
    BY <1>1, Empties
  <2> QED BY <1>1, <2>1, WidenRoom
<1>2. CASE m.status # "ESTAB"
  <2>1. m.recv_len \in Nat /\ n.recv_len \in Nat /\ BUFSIZE \in Nat
    BY NodeFields, IndexFacts DEF SockNode
  <2> QED BY <1>2, <2>1 DEF NodeRoom, Widens
<1> QED BY <1>1, <1>2

\* A socket that is not of connection c, or of none, stays as it was.
Remains(x, c) ==
  \/ ~Up(x.status) /\ x.recv_len = 0
  \/ Conn(x) # c /\ \E k \in DOMAIN socklist : Conn(x) = Conn(socklist[k])
                                              /\ Widens(x, socklist[k], <<>>)

\* A step of the host that takes and posts on one connection at most.
LEMMA HostRoom ==
  ASSUME Typed, ConnOK, RoomOK, peer' = peer, socklist' \in Seq(SockNode), NEW c,
         \A d \in Conns : d # c => toPeer'[d] = toPeer[d] /\ toHost'[d] = toHost[d],
         c \in Conns => WireRoom(peer[c], toHost'[c], toPeer'[c]),
         \A j \in DOMAIN socklist' :
           \/ Remains(socklist'[j], c)
           \/ /\ Conn(socklist'[j]) = c
              /\ NodeRoom(socklist'[j], peer[c], toHost'[c], toPeer'[c]),
         \A j \in DOMAIN backlog_list' : Live(backlog_list'[j]) =>
           \/ /\ Conn(backlog_list'[j]) = c
              /\ HalfRoom(backlog_list'[j], peer[c], toHost'[c], toPeer'[c])
           \/ Conn(backlog_list'[j]) # c /\ \E k \in DOMAIN backlog_list :
                backlog_list'[j] = backlog_list[k]
  PROVE  RoomOK'
<1>1. ASSUME NEW j \in DOMAIN socklist'
      PROVE  LET d == Conn(socklist'[j])
             IN  NodeRoom(socklist'[j], peer'[d], toHost'[d], toPeer'[d])
  <2> DEFINE x == socklist'[j]
             d == Conn(x)
  <2>1. CASE ~Up(x.status) /\ x.recv_len = 0
    BY <2>1, IndexFacts DEF NodeRoom, Up
  <2>2. CASE d = c /\ NodeRoom(x, peer[c], toHost'[c], toPeer'[c])
    BY <2>2
  <2>3. ASSUME d # c, NEW k \in DOMAIN socklist, d = Conn(socklist[k]),
               Widens(x, socklist[k], <<>>)
        PROVE  NodeRoom(x, peer'[d], toHost'[d], toPeer'[d])
    <3> DEFINE n == socklist[k]
    <3>1. x \in SockNode /\ n \in SockNode
      BY ListElements DEF Typed, KernelType
    <3>2. NodeRoom(n, peer[d], toHost[d], toPeer[d])
      BY <2>3 DEF RoomOK, NodesRoom
    <3>3. CASE x.status = "ESTAB"
      <4>1. Up(n.status)
        BY <2>3, <3>3 DEF Widens, Up
      <4>2. d \in Conns
        BY <2>3, <4>1, UpClear
      <4>3. /\ peer[d] \in Peers /\ toHost[d] \in Seq(ShortSegments)
            /\ toPeer[d] \in Seq(Segments)
        BY <4>2 DEF Typed, NetType
      <4>4. toPeer'[d] = toPeer[d] /\ toHost'[d] = toHost[d] /\ peer'[d] = peer[d]
        BY <2>3, <4>2
      <4> QED BY <2>3, <3>1, <3>2, <4>3, <4>4, StillRoom
    <3>4. CASE x.status # "ESTAB"
      <4>1. x.recv_len \in Nat /\ n.recv_len \in Nat /\ BUFSIZE \in Nat
        BY <3>1, NodeFields, IndexFacts DEF SockNode
      <4> HIDE DEF n, x
      <4> QED BY <2>3, <3>2, <3>4, <4>1 DEF NodeRoom, Widens, n
    <3> QED BY <3>3, <3>4
  <2> QED BY <2>1, <2>2, <2>3 DEF Remains
<1>2. ASSUME NEW j \in DOMAIN backlog_list', Live(backlog_list'[j])
      PROVE  LET d == Conn(backlog_list'[j])
             IN  HalfRoom(backlog_list'[j], peer'[d], toHost'[d], toPeer'[d])
  <2> DEFINE d == Conn(backlog_list'[j])
  <2>1. CASE d = c /\ HalfRoom(backlog_list'[j], peer[c], toHost'[c], toPeer'[c])
    BY <2>1
  <2>2. ASSUME d # c, NEW k \in DOMAIN backlog_list, backlog_list'[j] = backlog_list[k]
        PROVE  HalfRoom(backlog_list'[j], peer'[d], toHost'[d], toPeer'[d])
    <3>1. d \in Conns
      BY <1>2, <2>2 DEF ConnOK, HalvesOK, HalfOK, Conns
    <3>2. HalfRoom(backlog_list[k], peer[d], toHost[d], toPeer[d])
      BY <1>2, <2>2 DEF RoomOK, HalvesRoom
    <3> QED BY <2>2, <3>1, <3>2
  <2> QED BY <1>2, <2>1, <2>2
<1>3. ASSUME NEW d \in Conns PROVE WireRoom(peer'[d], toHost'[d], toPeer'[d])
  <2>1. WireRoom(peer[d], toHost[d], toPeer[d])
    BY DEF RoomOK, WiresRoom
  <2> QED BY <2>1
<1>4. NodesRoom'
  BY <1>1 DEF NodesRoom
<1>5. HalvesRoom'
  BY <1>2 DEF HalvesRoom
<1>6. WiresRoom'
  BY <1>3 DEF WiresRoom
<1> QED BY <1>4, <1>5, <1>6 DEF RoomOK

LEMMA SameRoom ==
  ASSUME NEW n \in SockNode
  PROVE  Widens(n, n, <<>>)
<1>1. n.recv_len <= n.recv_len
  BY NodeFields DEF SockNode
<1> QED BY <1>1, SameWidens

\* A step of the host that changes one node and posts on its connection.
LEMMA OneNodeRoom ==
  ASSUME Typed, ConnOK, RoomOK, NEW i \in DOMAIN socklist, NEW m \in SockNode,
         socklist' = [socklist EXCEPT ![i] = m], backlog_list' = backlog_list, peer' = peer,
         \A d \in Conns : d # Conn(m) => toPeer'[d] = toPeer[d] /\ toHost'[d] = toHost[d],
         Conn(m) \in Conns => WireRoom(peer[Conn(m)], toHost'[Conn(m)], toPeer'[Conn(m)]),
         NodeRoom(m, peer[Conn(m)], toHost'[Conn(m)], toPeer'[Conn(m)]),
         \A j \in DOMAIN socklist :
           j # i => socklist[j].dest # m.dest \/ socklist[j].dest = NoRemote,
         \A j \in DOMAIN backlog_list :
           Live(backlog_list[j]) => backlog_list[j].dest # m.dest
  PROVE  RoomOK'
<1> DEFINE c == Conn(m)
<1>1. /\ DOMAIN socklist' = DOMAIN socklist /\ socklist' \in Seq(SockNode)
      /\ \A j \in DOMAIN socklist : /\ socklist'[j] = IF j = i THEN m ELSE socklist[j]
                                    /\ socklist[j] \in SockNode
  BY ListElements DEF Typed, KernelType
<1>2. ASSUME NEW j \in DOMAIN socklist'
      PROVE  \/ Remains(socklist'[j], c)
             \/ /\ Conn(socklist'[j]) = c
                /\ NodeRoom(socklist'[j], peer[c], toHost'[c], toPeer'[c])
  <2>1. CASE j = i
    BY <1>1, <2>1
  <2>2. CASE j # i
    <3>1. j \in DOMAIN socklist /\ socklist'[j] = socklist[j] /\ socklist[j] \in SockNode
      BY <1>1, <2>2
    <3>2. Widens(socklist'[j], socklist[j], <<>>)
      BY <3>1, SameRoom
    <3>3. CASE Conn(socklist[j]) # c
      BY <3>1, <3>2, <3>3 DEF Remains
    <3>4. CASE Conn(socklist[j]) = c
      <4>1. socklist[j].dest = NoRemote
        BY <2>2, <3>1, <3>4, ConnParts
      <4>2. ~Up(socklist[j].status)
        BY <3>1, <4>1 DEF ConnOK, NodesOK, NodeOK
      <4>3. socklist[j].recv_len = 0
        BY <3>1, <4>2 DEF RoomOK, NodesRoom, NodeRoom
      <4> QED BY <3>1, <4>2, <4>3 DEF Remains
    <3> QED BY <3>3, <3>4
  <2> QED BY <2>1, <2>2
<1>3. ASSUME NEW j \in DOMAIN backlog_list', Live(backlog_list'[j])
      PROVE  Conn(backlog_list'[j]) # c /\ \E k \in DOMAIN backlog_list :
                                              backlog_list'[j] = backlog_list[k]
  BY <1>3, ConnParts
<1>4. \A d \in Conns : d # c => toPeer'[d] = toPeer[d] /\ toHost'[d] = toHost[d]
  OBVIOUS
<1>5. c \in Conns => WireRoom(peer[c], toHost'[c], toPeer'[c])
  OBVIOUS
<1> HIDE DEF c
<1> QED BY <1>1, <1>2, <1>3, <1>4, <1>5, HostRoom

\* What a node posts is no SYNACK.
LEMMA WirePosts ==
  ASSUME NEW t, NEW in, NEW out \in Seq(Segments), NEW new \in Seq(Segments),
         WireRoom(t, in, out), \A k \in DOMAIN new : new[k].flags # "SYNACK"
  PROVE  WireRoom(t, in, out \o new)
<1> DEFINE all == out \o new
<1>1. \A k \in DOMAIN all : \/ k \in DOMAIN out /\ all[k] = out[k]
                            \/ k - Len(out) \in DOMAIN new /\ all[k] = new[k - Len(out)]
  BY ConcatElements
<1> HIDE DEF all
<1>2. WireRoom(t, in, all)
  BY <1>1 DEF WireRoom
<1> QED BY <1>2 DEF all

LEMMA KeepsRoom ==
  ASSUME Typed, Distinct, ConnOK, RoomOK, NEW i \in DOMAIN socklist, NEW m \in SockNode,
         socklist' = [socklist EXCEPT ![i] = m], backlog_list' = backlog_list, peer' = peer,
         toHost' = toHost, Keeps(m, socklist[i]),
         \/ toPeer' = toPeer /\ Widens(m, socklist[i], <<>>)
         \/ /\ Up(socklist[i].status)
            /\ \E out \in Seq(Segments) : /\ Post(Conn(socklist[i]), out)
                                          /\ Sends(m, socklist[i], out)
                                          /\ Widens(m, socklist[i], out)
  PROVE  RoomOK'
<1> DEFINE n == socklist[i]
           c == Conn(m)
<1>1. m.dest = n.dest /\ c = Conn(n) /\ n \in SockNode
  BY ListElements DEF Keeps, Conn, Typed, KernelType
<1>2. NodeRoom(n, peer[c], toHost[c], toPeer[c])
  BY <1>1 DEF RoomOK, NodesRoom
<1>3. /\ \A j \in DOMAIN socklist :
           j # i => socklist[j].dest # m.dest \/ socklist[j].dest = NoRemote
      /\ \A j \in DOMAIN backlog_list :
           Live(backlog_list[j]) => backlog_list[j].dest # m.dest
  BY <1>1, OtherRemotes
<1>4. Up(n.status) => c \in Conns
  BY <1>1, UpClear
<1>5. c \in Conns => /\ peer[c] \in Peers /\ toHost[c] \in Seq(ShortSegments)
                     /\ toPeer[c] \in Seq(Segments)
                     /\ WireRoom(peer[c], toHost[c], toPeer[c])
  BY DEF Typed, NetType, RoomOK, WiresRoom
<1>6. CASE toPeer' = toPeer /\ Widens(m, n, <<>>)
  <2>1. m.status = "ESTAB" => Up(n.status)
    BY <1>6 DEF Widens, Up
  <2> HIDE DEF c, n
  <2>2. NodeRoom(m, peer[c], toHost[c], toPeer[c])
    BY <1>1, <1>2, <1>4, <1>5, <1>6, <2>1, StillRoom
  <2>3. NodeRoom(m, peer[c], toHost'[c], toPeer'[c])
    BY <1>6, <2>2
  <2>4. c \in Conns => WireRoom(peer[c], toHost'[c], toPeer'[c])
    BY <1>5, <1>6
  <2>5. \A d \in Conns : d # c => toPeer'[d] = toPeer[d] /\ toHost'[d] = toHost[d]
    BY <1>6
  <2> QED BY <1>3, <2>3, <2>4, <2>5, OneNodeRoom DEF c
<1>7. ASSUME Up(n.status), NEW out \in Seq(Segments), Post(Conn(n), out), Sends(m, n, out),
             Widens(m, n, out)
      PROVE  RoomOK'
  <2>1. c \in Conns
    BY <1>4, <1>7
  <2>2. /\ toPeer'[c] = toPeer[c] \o out
        /\ \A d \in Conns : d # c => toPeer'[d] = toPeer[d]
    BY <1>1, <1>7, <2>1, PostAt
  <2> HIDE DEF c, n
  <2>3. NodeRoom(m, peer[c], toHost[c], toPeer[c] \o out)
    BY <1>1, <1>2, <1>5, <1>7, <2>1, WidenRoom
  <2>4. \A k \in DOMAIN out : out[k].flags # "SYNACK"
    BY <1>7 DEF Sends
  <2>5. WireRoom(peer[c], toHost[c], toPeer[c] \o out)
    BY <1>5, <1>7, <2>1, <2>4, WirePosts
  <2>6. /\ NodeRoom(m, peer[c], toHost'[c], toPeer'[c])
        /\ WireRoom(peer[c], toHost'[c], toPeer'[c])
        /\ \A d \in Conns : d # c => toPeer'[d] = toPeer[d] /\ toHost'[d] = toHost[d]
    BY <2>2, <2>3, <2>5
  <2> QED BY <1>3, <2>6, OneNodeRoom DEF c
<1> QED BY <1>6, <1>7

\* A call leaves every connection its room.
LEMMA SyscallRoom ==
  ASSUME Typed, Orderly, ConnOK, RoomOK, NEW p \in Pids, Syscall(p)
  PROVE  RoomOK'
<1>1. CallMoves(p) /\ backlog_list' = backlog_list /\ toHost' = toHost /\ peer' = peer
  BY SyscallMoves
<1>2. Distinct
  BY DEF Orderly
<1>3. CASE socklist' = socklist /\ toPeer' = toPeer
  BY <1>1, <1>3 DEF RoomOK, NodesRoom, HalvesRoom, WiresRoom
<1>4. CASE CreatesOne(p) /\ toPeer' = toPeer
  <2>1. PICK st \in FreshStatus : /\ FreshNode(p, Create(p, fds), st) \in SockNode
                                  /\ socklist' = <<FreshNode(p, Create(p, fds), st)>> \o socklist
    BY <1>4 DEF CreatesOne
  <2> DEFINE m == FreshNode(p, Create(p, fds), st)
  <2>2. ~Up(m.status) /\ m.recv_len = 0
    BY <1>2 DEF FreshNode, Distinct, Up
  <2>3. \A j \in DOMAIN socklist' :
          socklist'[j] = m \/ \E k \in DOMAIN socklist : socklist'[j] = socklist[k]
    BY <2>1, ConsOthers
  <2> HIDE DEF m
  <2>4. \A t, in, out : NodeRoom(m, t, in, out)
    BY <2>2, IndexFacts DEF NodeRoom, Up
  <2>5. NodesRoom'
    BY <1>1, <1>4, <2>3, <2>4 DEF RoomOK, NodesRoom
  <2>6. HalvesRoom' /\ WiresRoom'
    BY <1>1, <1>4 DEF RoomOK, HalvesRoom, WiresRoom
  <2> QED BY <2>5, <2>6 DEF RoomOK
<1>5. ASSUME NEW i \in DOMAIN socklist, NEW m \in SockNode,
             socklist' = [socklist EXCEPT ![i] = m],
             \/ Plain(m, socklist[i]) /\ toPeer' = toPeer
             \/ Dials(m, socklist[i]) /\ Post(Conn(m), <<SynSegment>>)
      PROVE  RoomOK'
  <2> DEFINE n == socklist[i]
             c == Conn(m)
  <2>1. ~Up(m.status) /\ n.dest = NoRemote /\ m.recv_len = n.recv_len
    BY <1>5 DEF Plain, Dials, Up
  <2>2. ~Up(n.status)
    BY <2>1 DEF ConnOK, NodesOK, NodeOK
  <2>3. n.recv_len = 0
    BY <2>2 DEF RoomOK, NodesRoom, NodeRoom
  <2>4. \A t, in, out : NodeRoom(m, t, in, out)
    BY <2>1, <2>3, IndexFacts DEF NodeRoom, Up
  <2>5. /\ \A j \in DOMAIN socklist :
             j # i => socklist[j].dest # m.dest \/ socklist[j].dest = NoRemote
        /\ \A j \in DOMAIN backlog_list :
             Live(backlog_list[j]) => backlog_list[j].dest # m.dest
    <3>1. CASE Plain(m, n)
      <4>1. m.dest = n.dest
        BY <3>1 DEF Plain
      <4> QED BY <4>1, OtherRemotes
    <3>2. CASE Dials(m, n)
      <4>1. m.dest \in Servers /\ \A j \in DOMAIN socklist : socklist[j].dest # m.dest
        BY <3>2 DEF Dials
      <4> QED BY <1>2, <4>1, LiveRemote DEF ConnOK
    <3> QED BY <1>5, <3>1, <3>2
  <2>6. <<SynSegment>> \in Seq(Segments) /\ SynSegment.flags = "SYN"
    BY SegmentType, Empties, IndexFacts DEF SynSegment, Segment
  <2>7. /\ \A d \in Conns : d # c => toPeer'[d] = toPeer[d]
        /\ c \in Conns => toPeer'[c] = toPeer[c] \/ toPeer'[c] = toPeer[c] \o <<SynSegment>>
    BY <1>5, <2>6, PostAt
  <2>8. c \in Conns => WireRoom(peer[c], toHost[c], toPeer'[c])
    <3> SUFFICES ASSUME c \in Conns PROVE WireRoom(peer[c], toHost[c], toPeer'[c])
      OBVIOUS
    <3>1. WireRoom(peer[c], toHost[c], toPeer[c]) /\ toPeer[c] \in Seq(Segments)
      BY DEF RoomOK, WiresRoom, Typed, NetType
    <3>2. \A k \in DOMAIN <<SynSegment>> : <<SynSegment>>[k].flags # "SYNACK"
      BY <2>6
    <3> HIDE DEF c
    <3> QED BY <2>6, <2>7, <3>1, <3>2, WirePosts
  <2>9. /\ NodeRoom(m, peer[c], toHost'[c], toPeer'[c])
        /\ c \in Conns => WireRoom(peer[c], toHost'[c], toPeer'[c])
        /\ \A d \in Conns : d # c => toPeer'[d] = toPeer[d] /\ toHost'[d] = toHost[d]
    BY <1>1, <2>4, <2>7, <2>8
  <2> HIDE DEF n
  <2> QED BY <1>1, <1>5, <2>5, <2>9, OneNodeRoom
<1>6. ASSUME NEW i \in DOMAIN socklist, NEW m \in SockNode,
             socklist' = [socklist EXCEPT ![i] = m], Keeps(m, socklist[i]),
             \/ toPeer' = toPeer /\ Widens(m, socklist[i], <<>>)
             \/ /\ Up(socklist[i].status)
                /\ \E out \in Seq(Segments) : /\ Post(Conn(socklist[i]), out)
                                              /\ Sends(m, socklist[i], out)
                                              /\ Widens(m, socklist[i], out)
      PROVE  RoomOK'
  BY <1>1, <1>2, <1>6, KeepsRoom
<1> QED BY <1>1, <1>3, <1>4, <1>5, <1>6 DEF CallMoves

\* A step of a remote.
LEMMA RemoteRoomStep ==
  ASSUME Typed, ConnOK, RoomOK, NEW c \in Conns, UNCHANGED kernel,
         \A d \in Conns : d # c => /\ toHost'[d] = toHost[d] /\ toPeer'[d] = toPeer[d]
                                   /\ peer'[d] = peer[d],
         WireRoom(peer'[c], toHost'[c], toPeer'[c]),
         Past(peer[c]) => \A a, len \in Int :
           Holds(a, len, peer[c], toHost[c], toPeer[c]) =>
             Holds(a, len, peer'[c], toHost'[c], toPeer'[c]),
         c \in Incoming /\ ~Past(peer[c]) /\ Past(peer'[c]) =>
           \E a \in Int : Holds(a, 0, peer'[c], toHost'[c], toPeer'[c])
  PROVE  RoomOK'
<1>1. socklist' = socklist /\ backlog_list' = backlog_list
  BY DEF kernel
<1>2. ASSUME NEW i \in DOMAIN socklist
      PROVE  LET d == Conn(socklist[i]) IN NodeRoom(socklist[i], peer'[d], toHost'[d], toPeer'[d])
  <2> DEFINE n == socklist[i]
             d == Conn(n)
  <2>1. NodeRoom(n, peer[d], toHost[d], toPeer[d])
    BY DEF RoomOK, NodesRoom
  <2>2. CASE n.status # "ESTAB"
    BY <2>1, <2>2 DEF NodeRoom
  <2>3. CASE n.status = "ESTAB"
    <3>1. d \in Conns /\ Past(peer[d])
      BY <2>3, UpClear DEF Up
    <3>2. n.ack \in Int /\ n.recv_len \in Int
      <4>1. n \in SockNode
        BY ListElements DEF Typed, KernelType
      <4> HIDE DEF n
      <4> QED BY <4>1, NodeFields DEF SockNode
    <3>3. Holds(n.ack, n.recv_len, peer[d], toHost[d], toPeer[d])
      BY <2>1, <2>3 DEF NodeRoom
    <3> HIDE DEF d, n
    <3>4. Holds(n.ack, n.recv_len, peer'[d], toHost'[d], toPeer'[d])
      <4>1. CASE d = c
        BY <3>1, <3>2, <3>3, <4>1
      <4>2. CASE d # c
        BY <3>1, <3>3, <4>2
      <4> QED BY <4>1, <4>2
    <3> QED BY <2>1, <3>4 DEF NodeRoom, d, n
  <2> QED BY <2>2, <2>3
<1>3. ASSUME NEW j \in DOMAIN backlog_list, Live(backlog_list[j])
      PROVE  LET d == Conn(backlog_list[j])
             IN  HalfRoom(backlog_list[j], peer'[d], toHost'[d], toPeer'[d])
  <2> DEFINE d == Conn(backlog_list[j])
  <2>1. d \in Incoming /\ d \in Conns
    BY <1>3 DEF ConnOK, HalvesOK, HalfOK, Conns
  <2>2. HalfRoom(backlog_list[j], peer[d], toHost[d], toPeer[d])
    BY <1>3 DEF RoomOK, HalvesRoom
  <2>3. CASE d # c
    BY <2>1, <2>2, <2>3
  <2>4. CASE d = c
    <3>1. ASSUME Past(peer'[c]) PROVE \E a \in Int : Holds(a, 0, peer'[c], toHost'[c], toPeer'[c])
      <4>1. CASE Past(peer[c])
        <5>1. PICK a \in Int : Holds(a, 0, peer[c], toHost[c], toPeer[c])
          BY <2>2, <2>4, <4>1 DEF HalfRoom
        <5>2. 0 \in Int
          OBVIOUS
        <5> QED BY <4>1, <5>1, <5>2
      <4>2. CASE ~Past(peer[c])
        BY <2>1, <2>4, <3>1, <4>2
      <4> QED BY <4>1, <4>2
    <3> QED BY <2>2, <2>4, <3>1 DEF HalfRoom
  <2> QED BY <2>3, <2>4
<1>4. ASSUME NEW d \in Conns PROVE WireRoom(peer'[d], toHost'[d], toPeer'[d])
  <2>1. WireRoom(peer[d], toHost[d], toPeer[d])
    BY DEF RoomOK, WiresRoom
  <2> QED BY <2>1
<1>5. NodesRoom'
  BY <1>1, <1>2 DEF NodesRoom
<1>6. HalvesRoom'
  BY <1>1, <1>3 DEF HalvesRoom
<1>7. WiresRoom'
  BY <1>4 DEF WiresRoom
<1> QED BY <1>5, <1>6, <1>7 DEF RoomOK

\* Remote t becomes u: what it knows of the room it knew, or segment m tells.
Minds(u, t, m) == \/ u.una = t.una /\ u.win = t.win
                  \/ m.flags = "ACK" /\ u.una = m.ack /\ u.win = m.win

\* A remote that sends what it may send, and takes segments.
LEMMA SpeaksRoom ==
  ASSUME NEW a \in Int, NEW len \in Int, NEW t \in Peers, NEW u \in Peers,
         NEW in \in Seq(ShortSegments), NEW out, NEW rest, NEW new \in Seq(ShortSegments),
         Holds(a, len, t, in, out), Run(t.snd, new, u.snd),
         (u.una = t.una /\ u.win = t.win) \/ \E k \in DOMAIN out : Minds(u, t, out[k]),
         \A k \in DOMAIN new : new[k].data # <<>> => new[k].seq + Len(new[k].data) <= t.una + t.win,
         \A k \in DOMAIN rest : \E l \in DOMAIN out : rest[k] = out[l]
  PROVE  Holds(a, len, u, in \o new, rest)
<1> DEFINE e == a + BUFSIZE - len
           all == in \o new
<1>1. in \in Seq(Segments) /\ new \in Seq(Segments)
  BY DEF ShortSegments
<1>2. Run(a, all, u.snd)
  BY <1>1, RunAppend DEF Holds
<1>3. e \in Int /\ t.una + t.win \in Int
  BY IndexFacts, PeerFields
<1>4. Told(e, t, in, out)
  BY DEF Holds
<1> HIDE DEF e
<1>5. t.una + t.win <= e
  BY <1>4 DEF Told
<1>6. u.una + u.win <= e
  <2>1. CASE u.una = t.una /\ u.win = t.win
    BY <1>5, <2>1
  <2>2. ASSUME NEW k \in DOMAIN out, Minds(u, t, out[k]) PROVE u.una + u.win <= e
    BY <1>4, <1>5, <2>2 DEF Minds, Told
  <2> QED BY <2>1, <2>2
<1>7. \A k \in DOMAIN all : \/ k \in DOMAIN in /\ all[k] = in[k]
                            \/ k - Len(in) \in DOMAIN new /\ all[k] = new[k - Len(in)]
  BY <1>1, ConcatElements
<1> HIDE DEF all
<1>8. ASSUME NEW k \in DOMAIN all, all[k].data # <<>>
      PROVE  all[k].seq + Len(all[k].data) <= e
  <2>1. CASE k \in DOMAIN in /\ all[k] = in[k]
    BY <1>4, <1>8, <2>1 DEF Told
  <2>2. ASSUME NEW j \in DOMAIN new, all[k] = new[j] PROVE all[k].seq + Len(all[k].data) <= e
    <3>1. new[j] \in ShortSegments
      OBVIOUS
    <3>2. new[j].seq \in Int /\ Len(new[j].data) \in Int
      BY <3>1, SegmentFields
    <3>3. new[j].seq + Len(new[j].data) <= t.una + t.win
      BY <1>8, <2>2
    <3> QED BY <1>3, <1>5, <2>2, <3>2, <3>3
  <2> QED BY <1>7, <2>1, <2>2
<1>9. \A k \in DOMAIN rest : rest[k].flags = "ACK" => rest[k].ack + rest[k].win <= e
  BY <1>4 DEF Told
<1>10. Told(e, u, all, rest)
  BY <1>6, <1>8, <1>9 DEF Told
<1> QED BY <1>2, <1>10 DEF Holds, e, all

\* The channels of a remote past the handshake.
LEMMA WireOpen ==
  ASSUME NEW t, NEW u, NEW in, NEW in2, NEW out, NEW rest, WireRoom(t, in, out),
         Past(u), Clear(in2), \A k \in DOMAIN rest : \E l \in DOMAIN out : rest[k] = out[l]
  PROVE  WireRoom(u, in2, rest)
BY DEF WireRoom, Past, Clear

\* What a remote past the handshake makes of a segment.
LEMMA HeardRoom ==
  ASSUME NEW c, NEW t \in Peers, NEW m \in Segments, Past(t)
  PROVE  LET h == Heard(c, t, m)
         IN  /\ h.t.snd = t.snd /\ Minds(h.t, t, m)
             /\ \/ h.out = <<>>
                \/ \E s \in ShortSegments : /\ h.out = <<s>> /\ s.flags = "ACK"
                                            /\ s.seq = t.snd /\ s.data = <<>>
<1> DEFINE h == Heard(c, t, m)
<1>1. \A u \in Peers : LET s == Speak("ACK", u, <<>>)
                       IN  /\ s \in ShortSegments /\ s.flags = "ACK"
                           /\ s.seq = u.snd /\ s.data = <<>>
  BY PeerFields, SpeakType, SpeakFields, EmptyBytes
<1>2. Seen(t, m).snd = t.snd /\ Seen(t, m).una = m.ack /\ Seen(t, m).win = m.win
  <2> DEFINE st == IF m.ack # t.snd THEN t.st
                   ELSE CASE t.st = "SYN_RCVD" -> "ESTAB"
                          [] t.st = "FIN_WAIT_1" -> "FIN_WAIT_2"
                          [] t.st = "CLOSING" -> "TIMED_WAIT"
                          [] t.st = "LAST_ACK" -> "DONE"
                          [] OTHER -> t.st
  <2>1. Seen(t, m) = [t EXCEPT !.una = m.ack, !.win = m.win, !.st = st]
    BY DEF Seen
  <2> HIDE DEF st
  <2> QED BY <2>1 DEF Peers
<1>3. Got(t, m).snd = t.snd
      /\ \/ Got(t, m).una = t.una /\ Got(t, m).win = t.win
         \/ Got(t, m).una = m.ack /\ Got(t, m).win = m.win
  <2> DEFINE s == Seen(t, m)
  <2>1. s \in Peers /\ s.snd = t.snd /\ s.una = m.ack /\ s.win = m.win
    BY <1>2, HeardPartTypes
  <2> HIDE DEF s
  <2>2. Got(t, m) = IF m.seq # t.rcv THEN t
                    ELSE [s EXCEPT !.rcv = @ + Len(m.data), !.got = @ \o m.data]
    BY DEF Got, s
  <2> DEFINE g == [s EXCEPT !.rcv = @ + Len(m.data), !.got = @ \o m.data]
  <2>3. g.snd = s.snd /\ g.una = s.una /\ g.win = s.win
    BY <2>1 DEF Peers
  <2> HIDE DEF g
  <2> QED BY <2>1, <2>2, <2>3 DEF g
<1>4. HeardFin(t).snd = t.snd /\ HeardFin(t).una = t.una /\ HeardFin(t).win = t.win
  <2> DEFINE st == CASE t.st = "ESTAB" -> "CLOSE_WAIT"
                     [] t.st = "FIN_WAIT_1" -> "CLOSING"
                     [] t.st = "FIN_WAIT_2" -> "TIMED_WAIT"
  <2>1. HeardFin(t) = [t EXCEPT !.rcv = t.rcv + 1, !.st = st]
    BY DEF HeardFin
  <2> HIDE DEF st
  <2> QED BY <2>1 DEF Peers
<1>5. /\ Seen(t, m) \in Peers /\ Got(t, m) \in Peers
      /\ t.st \in OpenStates => HeardFin(t) \in Peers
  BY HeardPartTypes
<1> HIDE DEF h
<1>6. \/ m.flags = "ACK" /\ h.t = Seen(t, m) /\ h.out = <<>>
      \/ m.flags = "ACK" /\ h.t = Got(t, m) /\ h.out = <<Speak("ACK", Got(t, m), <<>>)>>
      \/ t.st \in OpenStates /\ h.t = HeardFin(t) /\ h.out = <<Speak("ACK", HeardFin(t), <<>>)>>
      \/ h.t = t /\ h.out = <<>>
  <2>1. t.st # "CLOSED" /\ t.st # "SYN_SENT"
    BY DEF Past
  <2>2. CASE m.flags = "ACK" /\ m.data = <<>> /\ m.ack > 0
    BY <2>2 DEF Heard, Seen, h
  <2>3. CASE m.flags = "ACK" /\ m.data # <<>> /\ t.st \in OpenStates
    BY <2>3 DEF Heard, Seen, Got, OpenStates, h
  <2>4. CASE m.flags = "FIN" /\ t.st \in OpenStates /\ m.seq = t.rcv
    BY <2>4 DEF Heard, HeardFin, OpenStates, h
  <2>5. CASE /\ ~(m.flags = "ACK" /\ m.data = <<>> /\ m.ack > 0)
             /\ ~(m.flags = "ACK" /\ m.data # <<>> /\ t.st \in OpenStates)
             /\ ~(m.flags = "FIN" /\ t.st \in OpenStates /\ m.seq = t.rcv)
    BY <2>1, <2>5 DEF Heard, OpenStates, h
  <2> QED BY <2>2, <2>3, <2>4, <2>5
<1>7. h.t.snd = t.snd /\ Minds(h.t, t, m)
  BY <1>2, <1>3, <1>4, <1>6 DEF Minds
<1>8. \/ h.out = <<>>
      \/ \E s \in ShortSegments : h.out = <<s>> /\ s.flags = "ACK" /\ s.seq = t.snd /\ s.data = <<>>
  BY <1>1, <1>3, <1>4, <1>5, <1>6
<1> QED BY <1>7, <1>8 DEF h

\* A remote past the handshake takes nothing, or the first segment, and sends
\* a segment that it may send, or none.
LEMMA PastRoom ==
  ASSUME Typed, Distinct, ConnOK, RoomOK, NEW c \in Conns, UNCHANGED kernel,
         \A d \in Conns : d # c => /\ toHost'[d] = toHost[d] /\ toPeer'[d] = toPeer[d]
                                   /\ peer'[d] = peer[d],
         NEW new \in Seq(ShortSegments), toHost'[c] = toHost[c] \o new,
         \/ new = <<>> /\ peer'[c].snd = peer[c].snd
         \/ \E s \in ShortSegments :
              /\ new = <<s>> /\ s.flags \in {"ACK", "FIN"}
              /\ s.seq = peer[c].snd /\ peer'[c].snd = s.seq + SeqLen(s)
              /\ s.data # <<>> => s.seq + Len(s.data) <= peer[c].una + peer[c].win,
         Past(peer[c]), Past(peer'[c]), peer'[c] \in Peers, Clear(toHost[c]),
         \/ toPeer'[c] = toPeer[c] /\ peer'[c].una = peer[c].una /\ peer'[c].win = peer[c].win
         \/ /\ toPeer[c] # <<>> /\ toPeer'[c] = Tail(toPeer[c])
            /\ Minds(peer'[c], peer[c], Head(toPeer[c]))
  PROVE  RoomOK'
<1> DEFINE t == peer[c]
           u == peer'[c]
           in == toHost[c]
           out == toPeer[c]
           rest == toPeer'[c]
<1>1. in \in Seq(ShortSegments) /\ out \in Seq(Segments) /\ t \in Peers /\ u \in Peers
  BY DEF Typed, NetType
<1>2. WireRoom(t, in, out)
  BY DEF RoomOK, WiresRoom
<1>3. /\ \A k \in DOMAIN rest : \E l \in DOMAIN out : rest[k] = out[l]
      /\ (u.una = t.una /\ u.win = t.win) \/ \E k \in DOMAIN out : Minds(u, t, out[k])
  <2>1. CASE rest = out /\ u.una = t.una /\ u.win = t.win
    BY <2>1
  <2>2. CASE out # <<>> /\ rest = Tail(out) /\ Minds(u, t, Head(out))
    <3> HIDE DEF out, rest, t, u
    <3> QED BY <1>1, <2>2, TailElements
  <2> QED BY <2>1, <2>2
<1>4. CASE new = <<>> /\ u.snd = t.snd
  <2>1. in \o new = in
    BY <1>1, <1>4
  <2>2. Run(t.snd, new, u.snd) /\ \A k \in DOMAIN new : FALSE
    BY <1>4, RunEmpty
  <2> HIDE DEF t, u, in, out, rest
  <2>3. WireRoom(u, in, rest)
    BY <1>2, <1>3, WireOpen DEF u, in
  <2>4. ASSUME NEW a \in Int, NEW len \in Int, Holds(a, len, t, in, out)
        PROVE  Holds(a, len, u, in \o new, rest)
    BY <1>1, <1>3, <2>2, <2>4, SpeaksRoom
  <2> QED BY <2>1, <2>3, <2>4, RemoteRoomStep DEF t, u, in, out, rest
<1>5. ASSUME NEW s \in ShortSegments, new = <<s>>, s.flags \in {"ACK", "FIN"},
             s.seq = t.snd, u.snd = s.seq + SeqLen(s),
             s.data # <<>> => s.seq + Len(s.data) <= t.una + t.win
      PROVE  RoomOK'
  <2>1. Run(t.snd, new, u.snd)
    BY <1>5, RunOne, SegmentFields
  <2>2. \A k \in DOMAIN new : new[k] = s
    BY <1>5
  <2>3. Clear(in \o new)
    BY <1>1, <1>5, ClearAppend
  <2> HIDE DEF t, u, in, out, rest
  <2>6. \A k \in DOMAIN new :
          new[k].data # <<>> => new[k].seq + Len(new[k].data) <= t.una + t.win
    BY <1>5, <2>2
  <2>4. WireRoom(u, in \o new, rest)
    BY <1>2, <1>3, <2>3, WireOpen DEF u
  <2>5. ASSUME NEW a \in Int, NEW len \in Int, Holds(a, len, t, in, out)
        PROVE  Holds(a, len, u, in \o new, rest)
    BY <1>1, <1>3, <2>1, <2>5, <2>6, SpeaksRoom
  <2> QED BY <2>4, <2>5, RemoteRoomStep DEF t, u, in, out, rest
<1> QED BY <1>4, <1>5

LEMMA OnlyOne ==
  ASSUME NEW S, NEW s \in Seq(S), s # <<>>, Len(s) <= 1
  PROVE  Tail(s) = <<>>
<1>1. Len(s) \in Nat /\ Len(s) # 0
  OBVIOUS
<1>2. Len(s) = 1
  BY <1>1
<1> QED BY <1>2, TailOfOne

\* A remote that counts a FIN or data it sends.
Closing(t, q, st) == [t EXCEPT !.snd = q, !.st = st]
Sending(t, q, k) == [t EXCEPT !.snd = q, !.n = k]

LEMMA CountsSent ==
  ASSUME NEW t \in Peers, NEW q \in Int
  PROVE  /\ \A st \in PeerStates :
              LET u == Closing(t, q, st)
              IN  u \in Peers /\ u.st = st /\ u.snd = q /\ u.una = t.una /\ u.win = t.win
         /\ \A k \in Nat :
              LET u == Sending(t, q, k)
              IN  u \in Peers /\ u.st = t.st /\ u.snd = q /\ u.una = t.una /\ u.win = t.win
BY DEF Peers, Closing, Sending

LEMMA PeerOpenRoom ==
  ASSUME Typed, Distinct, ConnOK, RoomOK, NEW c \in Conns, PeerOpen(c)
  PROVE  RoomOK'
<1> DEFINE s == Speak("SYN", peer[c], <<>>)
           t == peer[c]
           u == [t EXCEPT !.st = "SYN_SENT", !.snd = 1]
<1>1. c \in Incoming /\ t.st = "CLOSED" /\ toPeer' = toPeer /\ UNCHANGED kernel
  BY DEF PeerOpen
<1>2. peer \in [Conns -> Peers] /\ t \in Peers
  BY DEF Typed, NetType
<1>3. peer' = [peer EXCEPT ![c] = u] /\ Tell(c, <<s>>)
  BY <1>2 DEF PeerOpen
<1>4. u.st = "SYN_SENT" /\ u.snd = 1 /\ u.una = t.una /\ u.win = t.win
  BY <1>2 DEF Peers
<1>5. s \in ShortSegments /\ <<s>> \in Seq(ShortSegments) /\ s.flags = "SYN"
  BY <1>2, PeerFields, SpeakType, SpeakFields, EmptyBytes
<1>6. toHost[c] = <<>>
  BY <1>1, WireFacts
<1>7. WireRoom(t, toHost[c], toPeer[c])
  BY DEF RoomOK, WiresRoom
<1> HIDE DEF u, s
<1>8. peer'[c] = u /\ \A d \in Conns : d # c => peer'[d] = peer[d]
  BY <1>2, <1>3
<1>9. toHost'[c] = <<s>> /\ \A d \in Conns : d # c => toHost'[d] = toHost[d]
  <2>1. toHost'[c] = <<>> \o <<s>> /\ \A d \in Conns : d # c => toHost'[d] = toHost[d]
    BY <1>3, <1>5, <1>6, TellType DEF Typed
  <2> QED BY <2>1
<1>10. ~Past(t) /\ ~Past(u)
  BY <1>1, <1>4 DEF Past
<1>11. \A k \in DOMAIN <<s>> : <<s>>[k] = s
  OBVIOUS
<1>12. WireRoom(u, <<s>>, toPeer[c])
  BY <1>4, <1>5, <1>7, <1>10, <1>11 DEF WireRoom
<1> QED BY <1>1, <1>8, <1>9, <1>10, <1>12, RemoteRoomStep

LEMMA PeerRetryRoom ==
  ASSUME Typed, Distinct, ConnOK, RoomOK, NEW c \in Conns, PeerRetry(c)
  PROVE  RoomOK'
<1> DEFINE x == [peer[c] EXCEPT !.snd = 0]
           s == Speak("SYN", x, <<>>)
           t == peer[c]
<1>1. /\ t.st = "SYN_SENT" /\ toHost[c] = <<>> /\ toPeer' = toPeer /\ peer' = peer
      /\ UNCHANGED kernel
  BY DEF PeerRetry
<1>2. x.snd = 0 /\ x.rcv \in Int
  BY DEF Typed, NetType, Peers
<1> HIDE DEF x
<1>3. s \in ShortSegments /\ <<s>> \in Seq(ShortSegments) /\ s.flags = "SYN"
  BY <1>2, SpeakType, SpeakFields, EmptyBytes
<1>4. Tell(c, <<s>>)
  BY DEF PeerRetry, x
<1> HIDE DEF s
<1>5. toHost'[c] = <<s>> /\ \A d \in Conns : d # c => toHost'[d] = toHost[d]
  <2>1. toHost'[c] = <<>> \o <<s>> /\ \A d \in Conns : d # c => toHost'[d] = toHost[d]
    BY <1>1, <1>3, <1>4, TellType DEF Typed
  <2> QED BY <2>1
<1>6. WireRoom(t, toHost[c], toPeer[c])
  BY DEF RoomOK, WiresRoom
<1>7. ~Past(t)
  BY <1>1 DEF Past
<1>8. \A k \in DOMAIN <<s>> : <<s>>[k] = s
  OBVIOUS
<1>9. WireRoom(t, <<s>>, toPeer[c])
  BY <1>3, <1>6, <1>8 DEF WireRoom
<1> QED BY <1>1, <1>5, <1>7, <1>9, RemoteRoomStep

LEMMA PeerSendRoom ==
  ASSUME Typed, Distinct, ConnOK, RoomOK, NEW c \in Conns, PeerSend(c)
  PROVE  RoomOK'
<1> DEFINE t == peer[c]
<1>1. peer \in [Conns -> Peers] /\ t \in Peers
  BY DEF Typed, NetType
<1>2. t.st \in {"ESTAB", "CLOSE_WAIT"} /\ toPeer' = toPeer /\ UNCHANGED kernel
  BY DEF PeerSend
<1>3. PICK len \in PeerSizes :
        /\ t.snd - t.una + len <= t.win
        /\ peer' = [peer EXCEPT ![c].snd = @ + len, ![c].n = @ + len]
        /\ Tell(c, <<Speak("ACK", t, PeerBytesSent(t, len))>>)
  BY DEF PeerSend, PeerBytesSent
<1>4. len \in Nat /\ len <= BUFSIZE
  BY EndpointsAssumption, IndexFacts
<1>5. t.snd \in Int /\ t.rcv \in Int /\ t.n \in Nat /\ t.una \in Int /\ t.win \in Int
  BY <1>1, PeerFields
<1>6. PeerBytesSent(t, len) \in Bytes /\ Len(PeerBytesSent(t, len)) = len
  BY <1>4, <1>5 DEF PeerBytesSent, Bytes
<1> DEFINE s == Speak("ACK", t, PeerBytesSent(t, len))
           u == [t EXCEPT !.snd = t.snd + len, !.n = t.n + len]
<1>7. /\ s \in ShortSegments /\ <<s>> \in Seq(ShortSegments) /\ s.flags = "ACK"
      /\ s.seq = t.snd /\ Len(s.data) = len
  BY <1>4, <1>5, <1>6, SpeakType, SpeakFields
<1>8. Tell(c, <<s>>)
  BY <1>3
<1>9. peer' = [peer EXCEPT ![c] = u]
  BY <1>1, <1>3
<1>10. /\ u \in Peers /\ u.st = t.st /\ u.snd = t.snd + len
       /\ u.una = t.una /\ u.win = t.win
  <2>1. /\ t.snd + len \in Int /\ t.n + len \in Nat
        /\ u = Sending(t, t.snd + len, t.n + len)
    BY <1>4, <1>5 DEF Sending
  <2> HIDE DEF t, u
  <2> QED BY <1>1, <2>1, CountsSent
<1> HIDE DEF s, u
<1>11. toHost'[c] = toHost[c] \o <<s>> /\ \A d \in Conns : d # c => toHost'[d] = toHost[d]
  BY <1>7, <1>8, TellType DEF Typed
<1>12. peer'[c] = u /\ \A d \in Conns : d # c => peer'[d] = peer[d]
  BY <1>1, <1>9
<1>13. SeqLen(s) = len
  BY <1>7, SegmentFields, SeqLenType
<1>14. s.seq + Len(s.data) <= t.una + t.win
  BY <1>3, <1>4, <1>5, <1>7
<1>15. Past(t) /\ Past(u)
  BY <1>2, <1>10 DEF Past
<1>16. Clear(toHost[c])
  BY <1>2, <1>15, WireFacts
<1>17. \E x \in ShortSegments :
         /\ <<s>> = <<x>> /\ x.flags \in {"ACK", "FIN"}
         /\ x.seq = t.snd /\ u.snd = x.seq + SeqLen(x)
         /\ x.data # <<>> => x.seq + Len(x.data) <= t.una + t.win
  BY <1>7, <1>10, <1>13, <1>14
<1> QED BY <1>2, <1>7, <1>10, <1>11, <1>12, <1>15, <1>16, <1>17, PastRoom

LEMMA PeerCloseRoom ==
  ASSUME Typed, Distinct, ConnOK, RoomOK, NEW c \in Conns, PeerClose(c)
  PROVE  RoomOK'
<1> DEFINE t == peer[c]
           s == Speak("FIN", t, <<>>)
           st == IF t.st = "ESTAB" THEN "FIN_WAIT_1" ELSE "LAST_ACK"
           u == [t EXCEPT !.snd = t.snd + 1, !.st = st]
<1>1. peer \in [Conns -> Peers] /\ t \in Peers
  BY DEF Typed, NetType
<1>2. t.st \in {"ESTAB", "CLOSE_WAIT"} /\ toPeer' = toPeer /\ UNCHANGED kernel
  BY DEF PeerClose
<1>3. peer' = [peer EXCEPT ![c] = u] /\ Tell(c, <<s>>)
  BY <1>1 DEF PeerClose
<1>4. t.snd \in Int /\ t.rcv \in Int
  BY <1>1, PeerFields
<1>5. /\ s \in ShortSegments /\ <<s>> \in Seq(ShortSegments) /\ s.flags = "FIN"
      /\ s.seq = t.snd /\ s.data = <<>>
  BY <1>4, SpeakType, SpeakFields, EmptyBytes
<1>6. SeqLen(s) = 1
  <2> HIDE DEF s
  <2>1. SeqLen(s) = Len(s.data) + 1
    BY <1>5, SegmentFields, SeqLenType
  <2> QED BY <1>5, <2>1, EmptyBytes
<1>7. st \in {"FIN_WAIT_1", "LAST_ACK"} /\ st \in PeerStates
  BY DEF PeerStates, Statuses
<1> HIDE DEF s, st
<1>8. u \in Peers /\ u.st = st /\ u.snd = t.snd + 1 /\ u.una = t.una /\ u.win = t.win
  <2>1. t.snd + 1 \in Int /\ u = Closing(t, t.snd + 1, st)
    BY <1>4 DEF Closing
  <2> HIDE DEF t, u
  <2> QED BY <1>1, <1>7, <2>1, CountsSent
<1> HIDE DEF u
<1>9. toHost'[c] = toHost[c] \o <<s>> /\ \A d \in Conns : d # c => toHost'[d] = toHost[d]
  BY <1>3, <1>5, TellType DEF Typed
<1>10. peer'[c] = u /\ \A d \in Conns : d # c => peer'[d] = peer[d]
  BY <1>1, <1>3
<1>11. Past(t) /\ Past(u)
  BY <1>2, <1>7, <1>8 DEF Past
<1>12. Clear(toHost[c])
  BY <1>2, <1>11, WireFacts
<1>13. \E x \in ShortSegments :
         /\ <<s>> = <<x>> /\ x.flags \in {"ACK", "FIN"}
         /\ x.seq = t.snd /\ u.snd = x.seq + SeqLen(x)
         /\ x.data # <<>> => x.seq + Len(x.data) <= t.una + t.win
  BY <1>5, <1>6, <1>8
<1> QED BY <1>2, <1>5, <1>8, <1>9, <1>10, <1>11, <1>12, <1>13, PastRoom

LEMMA PeerReceiveRoom ==
  ASSUME Typed, Distinct, ConnOK, RoomOK, SeqOK, NEW c \in Conns, PeerReceive(c)
  PROVE  RoomOK'
<1> DEFINE t == peer[c]
           out == toPeer[c]
           in == toHost[c]
           m == Head(out)
           h == Heard(c, t, m)
<1>1. /\ toPeer \in [Conns -> Seq(Segments)] /\ out # <<>> /\ out \in Seq(Segments)
      /\ peer \in [Conns -> Peers] /\ t \in Peers
      /\ toPeer' = [toPeer EXCEPT ![c] = Tail(out)]
      /\ peer' = [peer EXCEPT ![c] = h.t]
      /\ Tell(c, h.out) /\ UNCHANGED kernel
  BY DEF PeerReceive, Hears, Typed, NetType
<1>2. m \in Segments /\ in \in Seq(ShortSegments)
  BY <1>1 DEF Typed, NetType
<1>3. h.t \in Peers /\ h.out \in Seq(ShortSegments)
  BY <1>1, <1>2, HeardType
<1>4. toHost'[c] = in \o h.out /\ \A d \in Conns : d # c => toHost'[d] = toHost[d]
  BY <1>1, <1>3, TellType DEF Typed
<1>5. /\ peer'[c] = h.t /\ toPeer'[c] = Tail(out)
      /\ \A d \in Conns : d # c => peer'[d] = peer[d] /\ toPeer'[d] = toPeer[d]
  BY <1>1
<1>6. WireRoom(t, in, out)
  BY DEF RoomOK, WiresRoom
<1>7. OutSeq(t, out) /\ InSeq(c, t, in)
  BY DEF SeqOK, WiresSeq
<1>8. 1 \in DOMAIN out /\ m = out[1]
  BY <1>1, TailElements
<1>9. CASE Past(t)
  <2>1. Past(h.t)
    BY <1>1, <1>2, <1>9, HeardPast
  <2>2. /\ h.t.snd = t.snd /\ Minds(h.t, t, m)
        /\ \/ h.out = <<>>
           \/ \E s \in ShortSegments : /\ h.out = <<s>> /\ s.flags = "ACK"
                                       /\ s.seq = t.snd /\ s.data = <<>>
    BY <1>1, <1>2, <1>9, HeardRoom
  <2>3. Clear(in)
    BY <1>1, <1>9, WireFacts
  <2> HIDE DEF h
  <2>4. \/ h.out = <<>>
        \/ \E s \in ShortSegments :
             /\ h.out = <<s>> /\ s.flags \in {"ACK", "FIN"}
             /\ s.seq = t.snd /\ h.t.snd = s.seq + SeqLen(s)
             /\ s.data # <<>> => s.seq + Len(s.data) <= t.una + t.win
    <3> SUFFICES ASSUME NEW s \in ShortSegments, h.out = <<s>>, s.flags = "ACK",
                        s.seq = t.snd, s.data = <<>>
                 PROVE  h.t.snd = s.seq + SeqLen(s)
      BY <2>2
    <3>1. SeqLen(s) = 0 /\ t.snd \in Int
      BY <1>1, SegmentFields, SeqLenType, PeerFields, EmptyBytes
    <3> QED BY <2>2, <3>1
  <2> HIDE DEF in, m, out
  <2>5. toHost'[c] = toHost[c] \o h.out /\ peer'[c] \in Peers
        /\ toPeer[c] # <<>> /\ toPeer'[c] = Tail(toPeer[c])
        /\ Minds(peer'[c], peer[c], Head(toPeer[c])) /\ Clear(toHost[c])
        /\ Past(peer[c]) /\ Past(peer'[c])
    BY <1>1, <1>3, <1>4, <1>5, <1>9, <2>1, <2>2, <2>3 DEF in, m, out
  <2>6. \/ h.out = <<>> /\ peer'[c].snd = peer[c].snd
        \/ \E s \in ShortSegments :
             /\ h.out = <<s>> /\ s.flags \in {"ACK", "FIN"}
             /\ s.seq = peer[c].snd /\ peer'[c].snd = s.seq + SeqLen(s)
             /\ s.data # <<>> => s.seq + Len(s.data) <= peer[c].una + peer[c].win
    BY <1>5, <2>2, <2>4
  <2> QED BY <1>1, <1>3, <1>4, <1>5, <2>5, <2>6, PastRoom
<1>10. CASE t.st = "SYN_SENT"
  <2>1. in = <<>> /\ m.flags = "SYNACK" /\ ~Past(t)
    BY <1>1, <1>10, WireFacts DEF Past
  <2> DEFINE u == Connected(t, m)
             s == Speak("ACK", u, <<>>)
  <2>2. h.t = u /\ h.out = <<s>>
    <3> HIDE DEF h, t, m
    <3> QED BY <1>10, <2>1 DEF Heard, Connected, h
  <2>3. /\ u.st = "ESTAB" /\ u.snd = t.snd /\ u.una = m.ack /\ u.win = t.win
    BY <1>1 DEF Connected, Peers
  <2>4. m.ack = 1 /\ t.snd = 1 /\ t.win = BUFSIZE
    BY <1>6, <1>8, <1>10, <2>1 DEF WireRoom
  <2>5. s.flags = "ACK" /\ s.seq = 1 /\ s.data = <<>>
    BY <2>3, <2>4, SpeakFields
  <2>6. Tail(out) = <<>>
    <3>1. Len(out) <= 1
      BY <1>7, <1>10 DEF OutSeq
    <3> HIDE DEF out
    <3> QED BY <1>1, <3>1, OnlyOne
  <2>7. s \in ShortSegments
    <3>1. u \in Peers
      BY <1>1, <1>2, HeardPartTypes
    <3> HIDE DEF u
    <3> QED BY <3>1, PeerFields, SpeakType, EmptyBytes
  <2> HIDE DEF h, s, u
  <2>8. toHost'[c] = <<s>> /\ peer'[c] = u /\ toPeer'[c] = <<>>
    BY <1>3, <1>4, <1>5, <2>1, <2>2, <2>6
  <2>9. \A k \in DOMAIN <<s>> : <<s>>[k] = s
    OBVIOUS
  <2>10. Run(1, <<s>>, u.snd)
    <3>1. SeqLen(s) = 0
      BY <2>5, <2>7, SegmentFields, SeqLenType, EmptyBytes
    <3>2. s.seq + SeqLen(s) = 1 /\ s \in Segments
      BY <2>5, <2>7, <3>1, SegmentFields
    <3>3. Run(s.seq, <<s>>, s.seq + SeqLen(s))
      BY <3>2, RunOne
    <3> QED BY <2>3, <2>4, <2>5, <3>2, <3>3
  <2>11. Holds(1, 0, u, <<s>>, <<>>)
    <3>1. u.una + u.win <= 1 + BUFSIZE - 0
      BY <2>3, <2>4, IndexFacts
    <3>2. \A k \in DOMAIN <<s>> : <<s>>[k].data = <<>>
      BY <2>5, <2>9
    <3> QED BY <2>10, <3>1, <3>2 DEF Holds, Told
  <2>12. WireRoom(u, <<s>>, <<>>)
    <3>1. Past(u) /\ u.st # "SYN_SENT"
      BY <2>3 DEF Past
    <3> QED BY <2>5, <2>9, <3>1 DEF WireRoom
  <2>13. \E a \in Int : Holds(a, 0, peer'[c], toHost'[c], toPeer'[c])
    <3>1. 1 \in Int
      OBVIOUS
    <3> QED BY <2>8, <2>11, <3>1
  <2>14. WireRoom(peer'[c], toHost'[c], toPeer'[c])
    BY <2>8, <2>12
  <2> QED BY <1>1, <1>4, <1>5, <2>1, <2>13, <2>14, RemoteRoomStep
<1>11. CASE t.st = "CLOSED"
  <2>1. in = <<>> /\ c \notin Incoming /\ m.flags = "SYN" /\ Len(out) = 1 /\ ~Past(t)
    BY <1>1, <1>11, WireFacts DEF Past
  <2>2. c[1] \in Servers
    BY <2>1, RemoteConn
  <2> DEFINE u == Answered(t, m)
             s == Speak("SYNACK", [u EXCEPT !.snd = 0], <<>>)
  <2>3. h.t = u /\ h.out = <<s>>
    <3> HIDE DEF h, t, m
    <3> QED BY <1>11, <2>1, <2>2 DEF Heard, Answered, h, u, s
  <2>4. u.st = "SYN_RCVD" /\ u.una = t.una /\ u.win = t.win
    BY <1>1 DEF Answered, Peers
  <2>5. t.una = 0 /\ t.win = BUFSIZE
    BY <1>6, <2>1 DEF WireRoom
  <2>6. Tail(out) = <<>>
    BY <1>1, <2>1, TailOfOne
  <2> HIDE DEF h, u, s
  <2>7. toHost'[c] = <<s>> /\ toPeer'[c] = <<>> /\ peer'[c] = u
    BY <1>3, <1>4, <1>5, <2>1, <2>3, <2>6
  <2>8. Past(u) /\ u.st # "SYN_SENT"
    BY <2>4 DEF Past
  <2>9. WireRoom(u, <<s>>, <<>>)
    BY <2>4, <2>5, <2>8 DEF WireRoom
  <2> QED BY <1>1, <1>4, <1>5, <2>1, <2>7, <2>9, RemoteRoomStep
<1> QED BY <1>9, <1>10, <1>11 DEF Past

\* A remote leaves every connection its room.
LEMMA RemoteRoom ==
  ASSUME Typed, Distinct, ConnOK, SeqOK, RoomOK, NEW c \in Conns, Remote(c)
  PROVE  RoomOK'
<1>1. PeerOpen(c) \/ PeerRetry(c) \/ PeerSend(c) \/ PeerClose(c) \/ PeerReceive(c)
  BY DEF Remote
<1> QED BY <1>1, PeerOpenRoom, PeerRetryRoom, PeerSendRoom, PeerCloseRoom, PeerReceiveRoom

-----------------------------------------------------------------------------
(* Arrivals.                                                               *)

\* A new half-open connection holds nothing, as its listener does not.
LEMMA SynHalfRoom ==
  ASSUME Typed, RoomOK, NEW port, NEW r \in Remotes, NEW ack \in Int
  PROVE  LET n == Half(ListenerOf(port), r, ack) IN n.recv_len = 0 /\ n.ack = ack
<1> DEFINE i == Listener(socklist, port)
           l == ListenerOf(port)
           n == Half(l, r, ack)
<1>1. CASE i = 0
  <2>1. l = NoListener
    BY <1>1 DEF ListenerOf
  <2> HIDE DEF l
  <2>2. n.recv_len = 0 /\ n.ack = ack
    BY <2>1 DEF NoListener, FreshNode, Half
  <2> QED BY <2>2 DEF l
<1>2. CASE i # 0
  <2>1. l = socklist[i] /\ i \in DOMAIN socklist /\ l \in SockNode /\ l.status = "LISTENING"
    BY <1>2, ListenerLookup DEF ListenerOf
  <2>2. l.recv_len = 0
    BY <2>1 DEF RoomOK, NodesRoom, NodeRoom, Up
  <2> HIDE DEF l
  <2>3. n.recv_len = l.recv_len /\ n.ack = ack
    BY <2>1 DEF Half, SockNode, NodeOf
  <2> QED BY <2>2, <2>3 DEF l
<1> QED BY <1>1, <1>2

LEMMA SynRoom ==
  ASSUME Typed, Distinct, ConnOK, SeqOK, RoomOK, socklist' \in Seq(SockNode),
         NEW c \in Conns, Syn(c)
  PROVE  RoomOK'
<1> DEFINE t == peer[c]
           ack == Head(toHost[c]).seq + 1
           n == Half(ListenerOf(c[2]), c[1], ack)
           s == Segment("SYNACK", 0, n.ack, BUFSIZE, <<>>)
<1>1. /\ socklist' = socklist /\ peer' = peer /\ Delivers(c) /\ Head(toHost[c]).flags = "SYN"
      /\ \/ Fits(c) /\ backlog_list' = Append(backlog_list, n) /\ Post(c, <<s>>)
         \/ backlog_list' = backlog_list /\ toPeer' = toPeer
  BY SynCases
<1>2. /\ t.st = "SYN_SENT" /\ toPeer[c] = <<>>
      /\ toHost'[c] = <<>> /\ \A d \in Conns : d # c => toHost'[d] = toHost[d]
      /\ \A i \in DOMAIN socklist : socklist[i].dest # c[1]
      /\ \A j \in DOMAIN backlog_list : Live(backlog_list[j]) => backlog_list[j].dest # c[1]
  BY SynArrives
<1>3. ~Past(t) /\ WireRoom(t, toHost[c], toPeer[c])
  BY <1>2 DEF RoomOK, WiresRoom, Past
<1>4. ASSUME NEW j \in DOMAIN socklist' PROVE Remains(socklist'[j], c)
  <2>1. j \in DOMAIN socklist /\ socklist'[j] = socklist[j] /\ socklist[j] \in SockNode
    BY <1>1, ListElements
  <2>2. Widens(socklist'[j], socklist[j], <<>>)
    BY <2>1, SameRoom
  <2>3. Conn(socklist[j]) # c
    BY <1>2, <2>1, ConnParts
  <2> QED BY <2>1, <2>2, <2>3 DEF Remains
<1>5. \A j \in DOMAIN backlog_list : Live(backlog_list[j]) => Conn(backlog_list[j]) # c
  BY <1>2, ConnParts
<1>6. CASE backlog_list' = backlog_list /\ toPeer' = toPeer
  <2>1. WireRoom(peer[c], toHost'[c], toPeer'[c])
    BY <1>2, <1>3, <1>6 DEF WireRoom
  <2>2. \A d \in Conns : d # c => toPeer'[d] = toPeer[d] /\ toHost'[d] = toHost[d]
    BY <1>2, <1>6
  <2>3. ASSUME NEW j \in DOMAIN backlog_list', Live(backlog_list'[j])
        PROVE  Conn(backlog_list'[j]) # c /\ \E k \in DOMAIN backlog_list :
                                                backlog_list'[j] = backlog_list[k]
    BY <1>5, <1>6, <2>3
  <2> QED BY <1>1, <1>4, <2>1, <2>2, <2>3, HostRoom
<1>7. CASE Fits(c) /\ backlog_list' = Append(backlog_list, n) /\ Post(c, <<s>>)
  <2>1. /\ Head(toHost[c]).seq = 0 /\ ack \in Int /\ ack = 1 /\ c[1] \in Remotes
    <3>1. toHost[c] \in Seq(ShortSegments) /\ toHost[c] # <<>>
      BY <1>1 DEF Typed, NetType, Delivers
    <3>2. 1 \in DOMAIN toHost[c] /\ Head(toHost[c]) = toHost[c][1]
      BY <3>1
    <3>3. InSeq(c, t, toHost[c])
      BY DEF SeqOK, WiresSeq
    <3>4. Head(toHost[c]).seq = 0
      BY <1>1, <3>2, <3>3 DEF InSeq
    <3> QED BY <3>4, ConnFacts
  <2> HIDE DEF ack
  <2>3. n \in HalfNode
    BY <2>1, HalfType
  <2>4. Live(n) => Conn(n) = c
    BY <1>7, <2>1, SynHalf
  <2>5. n.recv_len = 0 /\ n.ack = 1
    BY <2>1, SynHalfRoom
  <2> HIDE DEF n
  <2>6. s \in Segments /\ <<s>> \in Seq(Segments)
    BY <2>5, SegmentType, Empties, IndexFacts
  <2>7. s.flags = "SYNACK" /\ s.ack = 1
    BY <2>5 DEF Segment
  <2> HIDE DEF s
  <2>8. /\ \A d \in Conns : d # c => toPeer'[d] = toPeer[d]
        /\ toPeer'[c] = toPeer[c] \o <<s>>
    BY <1>7, <2>6, PostAt
  <2>9. toPeer'[c] = <<s>>
    BY <1>2, <2>6, <2>8
  <2>10. \A k \in DOMAIN <<s>> : <<s>>[k] = s
    OBVIOUS
  <2>11. WireRoom(peer[c], toHost'[c], toPeer'[c])
    BY <1>2, <1>3, <2>7, <2>9, <2>10 DEF WireRoom
  <2>12. \A j \in DOMAIN backlog_list' :
           \/ j \in DOMAIN backlog_list /\ backlog_list'[j] = backlog_list[j]
           \/ j = Len(backlog_list) + 1 /\ backlog_list'[j] = n
    BY <1>7, <2>3, AppendElements DEF Typed, KernelType
  <2>13. HalfRoom(n, peer[c], toHost'[c], toPeer'[c])
    BY <1>3, <2>5 DEF HalfRoom
  <2>14. \A j \in DOMAIN backlog_list' : Live(backlog_list'[j]) =>
           \/ /\ Conn(backlog_list'[j]) = c
              /\ HalfRoom(backlog_list'[j], peer[c], toHost'[c], toPeer'[c])
           \/ Conn(backlog_list'[j]) # c /\ \E k \in DOMAIN backlog_list :
                backlog_list'[j] = backlog_list[k]
    BY <1>5, <2>4, <2>12, <2>13
  <2>15. \A d \in Conns : d # c => toPeer'[d] = toPeer[d] /\ toHost'[d] = toHost[d]
    BY <1>2, <2>8
  <2> QED BY <1>1, <1>4, <2>11, <2>14, <2>15, HostRoom
<1> QED BY <1>1, <1>6, <1>7

LEMMA SynAckRoom ==
  ASSUME Typed, Distinct, ConnOK, SeqOK, RoomOK, socklist' \in Seq(SockNode),
         NEW c \in Conns, SynAck(c)
  PROVE  RoomOK'
<1> DEFINE t == peer[c]
           m == Head(toHost[c])
           seg == Segment("ACK", m.ack, m.seq + 1, BUFSIZE, <<>>)
           size == Cardinality(Mine(c))
           out == [k \in 1..size |-> seg]
<1>1. /\ t.st = "SYN_RCVD" /\ toHost'[c] = <<>>
      /\ \A d \in Conns : d # c => toHost'[d] = toHost[d]
      /\ \A i \in Mine(c) : Conn(socklist[i]) = c
  BY SynAckArrives
<1>2. /\ socklist' = [i \in DOMAIN socklist |-> IF i \in Mine(c) THEN Opened(i, m) ELSE socklist[i]]
      /\ Post(c, out) /\ Delivers(c) /\ backlog_list' = backlog_list /\ peer' = peer
      /\ m.flags = "SYNACK"
  BY SynAckCases
<1>3. /\ toHost[c] \in Seq(ShortSegments) /\ 1 \in DOMAIN toHost[c] /\ toHost[c][1] = m
      /\ m \in ShortSegments
  <2>1. toHost[c] \in Seq(ShortSegments) /\ toHost[c] # <<>>
    BY <1>2 DEF Typed, NetType, Delivers
  <2> QED BY <2>1
<1> HIDE DEF m
<1>4. c[1] \in Servers /\ toPeer[c] = <<>>
  <2>1. WireOK(c, toHost[c], toPeer[c], t, socklist)
    BY DEF ConnOK, WiresOK
  <2> QED BY <1>2, <1>3, <2>1 DEF WireOK, Alone_
<1>5. m.seq = 0 /\ m.ack = 1 /\ t.snd = 1
  <2>1. InSeq(c, t, toHost[c])
    BY DEF SeqOK, WiresSeq
  <2> QED BY <1>1, <1>2, <1>3, <2>1 DEF InSeq
<1>6. t.una = 0 /\ t.win = BUFSIZE
  <2>1. WireRoom(t, toHost[c], toPeer[c])
    BY DEF RoomOK, WiresRoom
  <2> QED BY <1>2, <1>3, <2>1 DEF WireRoom
<1>7. seg \in Segments /\ seg.flags = "ACK" /\ seg.ack = 1 /\ seg.win = BUFSIZE
  <2>1. seg \in Segments
    BY <1>5, SegmentType, IndexFacts, Empties
  <2> QED BY <1>5, <2>1 DEF Segment
<1>8. size \in Nat
  <2>1. DOMAIN socklist = 1..Len(socklist) /\ Len(socklist) \in Nat
    BY DEF Typed, KernelType
  <2>2. IsFiniteSet(1..Len(socklist))
    BY <2>1, FS_Interval
  <2>3. Mine(c) \subseteq 1..Len(socklist)
    BY <2>1 DEF Mine
  <2>4. IsFiniteSet(Mine(c))
    BY <2>2, <2>3, FS_Subset
  <2> QED BY <2>4, FS_CardinalityType
<1> HIDE DEF seg, size
<1>9. out \in Seq(Segments) /\ \A k \in DOMAIN out : out[k] = seg
  BY <1>7, <1>8
<1> HIDE DEF out
<1>10. /\ \A d \in Conns : d # c => toPeer'[d] = toPeer[d]
       /\ toPeer'[c] = out
  <2>1. /\ \A d \in Conns : d # c => toPeer'[d] = toPeer[d]
        /\ toPeer'[c] = toPeer[c] \o out
    BY <1>2, <1>9, PostAt
  <2>2. <<>> \o out = out
    BY <1>9
  <2> QED BY <1>4, <2>1, <2>2
<1>11. WireRoom(t, <<>>, out)
  BY <1>1, <1>7, <1>9 DEF WireRoom, Past
<1>12. Holds(1, 0, t, <<>>, out)
  <2>1. Run(1, <<>>, t.snd)
    BY <1>5, RunEmpty
  <2>2. BUFSIZE \in Int
    BY IndexFacts
  <2>3. Told(1 + BUFSIZE - 0, t, <<>>, out)
    BY <1>6, <1>7, <1>9, <2>2 DEF Told
  <2> QED BY <2>1, <2>3 DEF Holds
<1>13. ASSUME NEW j \in DOMAIN socklist'
       PROVE  \/ Remains(socklist'[j], c)
              \/ /\ Conn(socklist'[j]) = c
                 /\ NodeRoom(socklist'[j], peer[c], toHost'[c], toPeer'[c])
  <2> DEFINE n == socklist[j]
             x == socklist'[j]
  <2>0. j \in DOMAIN socklist /\ n \in SockNode
    BY <1>2, <1>13, ListElements
  <2>1. CASE j \in Mine(c)
    <3>1. x = Opened(j, m) /\ n.status = "SYN_SENT"
      BY <1>2, <2>1 DEF Mine, Expecting
    <3>2. Conn(n) = c
      BY <1>1, <2>1
    <3>3. n.recv_len = 0
      BY <2>0, <3>1 DEF RoomOK, NodesRoom, NodeRoom, Up
    <3>4. /\ x.dest = n.dest /\ x.srcport = n.srcport /\ x.status = "ESTAB" /\ x.ack = m.seq + 1
          /\ x.recv_len = n.recv_len
      BY <2>0, <3>1 DEF Opened, SockNode, NodeOf
    <3> HIDE DEF x, n
    <3>5. Conn(x) = c
      BY <3>2, <3>4 DEF Conn
    <3>6. x.ack = 1 /\ x.recv_len = 0
      BY <1>5, <3>3, <3>4
    <3>7. NodeRoom(x, t, <<>>, out)
      BY <1>12, <3>4, <3>6, IndexFacts DEF NodeRoom, Up
    <3> QED BY <1>1, <1>10, <3>5, <3>7 DEF x
  <2>2. CASE j \notin Mine(c)
    <3>1. x = n
      BY <1>2, <2>0, <2>2
    <3>2. Widens(x, n, <<>>)
      BY <2>0, <3>1, SameRoom
    <3>3. CASE Up(n.status)
      <4>1. Clear(toHost[Conn(n)])
        BY <2>0, <3>3, UpClear
      <4>2. Conn(n) # c
        BY <1>2, <1>3, <4>1 DEF Clear
      <4> QED BY <2>0, <3>1, <3>2, <4>2 DEF Remains
    <3>4. CASE ~Up(n.status)
      <4>1. n.recv_len = 0
        BY <2>0, <3>4 DEF RoomOK, NodesRoom, NodeRoom
      <4> QED BY <3>1, <3>4, <4>1 DEF Remains
    <3> QED BY <3>3, <3>4
  <2> QED BY <2>1, <2>2
<1>14. ASSUME NEW j \in DOMAIN backlog_list', Live(backlog_list'[j])
       PROVE  Conn(backlog_list'[j]) # c /\ \E k \in DOMAIN backlog_list :
                                                backlog_list'[j] = backlog_list[k]
  <2>1. Conn(backlog_list[j]) \in Incoming /\ Conn(backlog_list[j]) \in Conns
    BY <1>2, <1>14 DEF ConnOK, HalvesOK, HalfOK, Conns
  <2> QED BY <1>2, <1>4, <1>14, <2>1, RemoteConn
<1>15. \A d \in Conns : d # c => toPeer'[d] = toPeer[d] /\ toHost'[d] = toHost[d]
  BY <1>1, <1>10
<1>16. WireRoom(peer[c], toHost'[c], toPeer'[c])
  BY <1>1, <1>10, <1>11
<1> QED BY <1>2, <1>13, <1>14, <1>15, <1>16, HostRoom

\* A segment of the remote is taken, and nothing is posted.
LEMMA HalfTail ==
  ASSUME NEW e, NEW t \in Peers, NEW in \in Seq(ShortSegments), in # <<>>,
         NEW out \in Seq(Segments), HalfRoom(e, t, in, out)
  PROVE  HalfRoom(e, t, Tail(in), out)
<1> DEFINE m == Head(in)
<1>1. ASSUME Past(t) PROVE \E b \in Int : Holds(b, 0, t, Tail(in), out)
  <2>1. PICK a \in Int : Holds(a, 0, t, in, out)
    BY <1>1 DEF HalfRoom
  <2>2. 0 \in Int
    OBVIOUS
  <2>3. /\ SeqLen(m) \in Nat
        /\ \A less \in Int : less <= 0 + SeqLen(m) =>
             Holds(a + SeqLen(m), less, t, Tail(in), out)
    BY <2>1, <2>2, TakesRoom
  <2>4. 0 <= 0 + SeqLen(m) /\ a + SeqLen(m) \in Int
    BY <2>3
  <2> QED BY <2>2, <2>3, <2>4
<1> QED BY <1>1 DEF HalfRoom

LEMMA FinRoom ==
  ASSUME Typed, Distinct, ConnOK, SeqOK, RoomOK, socklist' \in Seq(SockNode),
         NEW c \in Conns, Fin(c)
  PROVE  RoomOK'
<1> DEFINE m == Head(toHost[c])
           i == FinAt(c)
           n == socklist[i]
           seg == Segment("ACK", FinSeq(n), m.seq + 1, BUFSIZE, <<>>)
           f == Finished(n, m)
<1>1. /\ Delivers(c) /\ m.flags = "FIN" /\ backlog_list' = backlog_list /\ peer' = peer
      /\ \/ /\ i # 0 /\ n.status \in {"ESTAB", "FIN_WAIT_1", "FIN_WAIT_2"}
            /\ socklist' = [socklist EXCEPT ![i] = f]
            /\ Post(c, <<seg>>)
         \/ /\ ~(i # 0 /\ n.status \in {"ESTAB", "FIN_WAIT_1", "FIN_WAIT_2"})
            /\ socklist' = socklist /\ toPeer' = toPeer
  BY FinCases
<1>2. Past(peer[c]) /\ Clear(toHost'[c])
  BY <1>1, ArrivesClear
<1>3. /\ m \in ShortSegments /\ \A d \in Conns : d # c => toHost'[d] = toHost[d]
      /\ toHost'[c] = Tail(toHost[c]) /\ toHost[c] \in Seq(ShortSegments) /\ toHost[c] # <<>>
      /\ peer[c] \in Peers /\ toPeer[c] \in Seq(Segments)
  BY <1>1, ArrivingFacts DEF Typed, NetType, Delivers
<1>4. WireRoom(peer[c], toHost'[c], toPeer[c])
  <2>1. WireRoom(peer[c], toHost[c], toPeer[c])
    BY DEF RoomOK, WiresRoom
  <2>2. \A k \in DOMAIN toPeer[c] : \E l \in DOMAIN toPeer[c] : toPeer[c][k] = toPeer[c][l]
    OBVIOUS
  <2> QED BY <1>2, <2>1, <2>2, WireOpen
<1>5. CASE /\ ~(i # 0 /\ n.status \in {"ESTAB", "FIN_WAIT_1", "FIN_WAIT_2"})
           /\ socklist' = socklist /\ toPeer' = toPeer
  <2>1. ASSUME NEW j \in DOMAIN socklist'
        PROVE  \/ Remains(socklist'[j], c)
               \/ /\ Conn(socklist'[j]) = c
                  /\ NodeRoom(socklist'[j], peer[c], toHost'[c], toPeer'[c])
    <3> DEFINE x == socklist[j]
    <3>1. j \in DOMAIN socklist /\ socklist'[j] = x /\ x \in SockNode
      BY <1>5, ListElements
    <3>2. Widens(x, x, <<>>)
      BY <3>1, SameRoom
    <3>3. CASE Conn(x) # c
      BY <3>1, <3>2, <3>3 DEF Remains
    <3>4. CASE Conn(x) = c
      <4>1. x.dest = c[1]
        BY <3>4, ConnParts
      <4>2. i # 0 /\ i \in DOMAIN socklist /\ n.dest = c[1]
        BY <3>1, <4>1, FinAtLookup
      <4>3. NodesApart(socklist) /\ c[1] # NoRemote
        BY ConnFacts, RemoteConn DEF ConnOK, Apart
      <4> HIDE DEF i
      <4>4. i = j
        BY <3>1, <4>1, <4>2, <4>3 DEF NodesApart
      <4>5. x.status # "ESTAB"
        BY <1>5, <4>2, <4>4
      <4>6. NodeRoom(x, peer[c], toHost[c], toPeer[c])
        BY <3>1, <3>4 DEF RoomOK, NodesRoom
      <4>7. NodeRoom(x, peer[c], toHost'[c], toPeer'[c])
        BY <4>5, <4>6 DEF NodeRoom
      <4> QED BY <3>1, <3>4, <4>7
    <3> QED BY <3>3, <3>4
  <2>2. ASSUME NEW j \in DOMAIN backlog_list', Live(backlog_list'[j])
        PROVE  \/ /\ Conn(backlog_list'[j]) = c
                  /\ HalfRoom(backlog_list'[j], peer[c], toHost'[c], toPeer'[c])
               \/ Conn(backlog_list'[j]) # c /\ \E k \in DOMAIN backlog_list :
                    backlog_list'[j] = backlog_list[k]
    <3> DEFINE e == backlog_list[j]
               d == Conn(e)
    <3>1. j \in DOMAIN backlog_list /\ backlog_list'[j] = e
      BY <1>1, <2>2
    <3>2. HalfRoom(e, peer[d], toHost[d], toPeer[d])
      BY <2>2, <3>1 DEF RoomOK, HalvesRoom
    <3> HIDE DEF e, d, m
    <3>3. CASE d = c
      <4>1. HalfRoom(e, peer[c], toHost'[c], toPeer[c])
        BY <1>3, <3>2, <3>3, HalfTail
      <4> QED BY <1>5, <3>1, <3>3, <4>1 DEF d
    <3>4. CASE d # c
      BY <3>1, <3>4 DEF d, e
    <3> QED BY <3>3, <3>4
  <2>3. WireRoom(peer[c], toHost'[c], toPeer'[c])
    BY <1>4, <1>5
  <2>4. \A d \in Conns : d # c => toPeer'[d] = toPeer[d] /\ toHost'[d] = toHost[d]
    BY <1>3, <1>5
  <2> HIDE DEF m, i, n, seg, f
  <2> QED BY <1>1, <2>1, <2>2, <2>3, <2>4, HostRoom
<1>6. CASE /\ i # 0 /\ n.status \in {"ESTAB", "FIN_WAIT_1", "FIN_WAIT_2"}
           /\ socklist' = [socklist EXCEPT ![i] = f]
           /\ Post(c, <<seg>>)
  <2>1. i \in DOMAIN socklist /\ n \in SockNode /\ n.dest = c[1]
    BY <1>6, FinAtLookup
  <2> HIDE DEF i
  <2>2. NodeRoom(n, peer[Conn(n)], toHost[Conn(n)], toPeer[Conn(n)]) /\ OneConn(n, peer)
    BY <2>1 DEF SeqOK, ConnsOne, RoomOK, NodesRoom
  <2> HIDE DEF n
  <2>3. Conn(n) = c
    BY <1>2, <2>1, <2>2, OneRemote
  <2>4. /\ f \in SockNode /\ SameSocket(f, n)
        /\ f.status \in {"CLOSE_WAIT", "CLOSING", "TIMED_WAIT"} /\ FinSeq(n) \in Int
        /\ f.recv_len = n.recv_len
    BY <1>3, <1>6, <2>1, FinPartTypes
  <2>5. seg \in Segments
    <3>1. m.seq + 1 \in Int
      BY <1>3, SegmentFields
    <3> HIDE DEF m
    <3> QED BY <2>4, <3>1, SegmentType, IndexFacts, Empties
  <2>6. seg.flags = "ACK"
    BY DEF Segment
  <2> HIDE DEF seg, f, m
  <2>7. <<seg>> \in Seq(Segments) /\ \A k \in DOMAIN <<seg>> : <<seg>>[k] = seg
    BY <2>5
  <2>8. /\ toPeer'[c] = toPeer[c] \o <<seg>>
        /\ \A d \in Conns : d # c => toPeer'[d] = toPeer[d]
    BY <1>6, <2>7, PostAt
  <2>9. \A k \in DOMAIN <<seg>> : <<seg>>[k].flags # "SYNACK"
    BY <2>6, <2>7
  <2>10. WireRoom(peer[c], toHost'[c], toPeer[c] \o <<seg>>)
    BY <1>3, <1>4, <2>7, <2>9, WirePosts
  <2>11. NodeRoom(f, peer[c], toHost'[c], toPeer'[c])
    BY <2>2, <2>4 DEF NodeRoom, Up
  <2>12. Conn(f) = c /\ f.dest = socklist[i].dest
    BY <2>3, <2>4 DEF Conn, SameSocket, n
  <2>13. /\ \A j \in DOMAIN socklist :
              j # i => socklist[j].dest # f.dest \/ socklist[j].dest = NoRemote
         /\ \A j \in DOMAIN backlog_list :
              Live(backlog_list[j]) => backlog_list[j].dest # f.dest
    BY <2>1, <2>12, OtherRemotes
  <2>14. Conn(f) \in Conns => WireRoom(peer[Conn(f)], toHost'[Conn(f)], toPeer'[Conn(f)])
    BY <2>8, <2>10, <2>12
  <2>15. NodeRoom(f, peer[Conn(f)], toHost'[Conn(f)], toPeer'[Conn(f)])
    BY <2>11, <2>12
  <2>16. \A d \in Conns : d # Conn(f) => toPeer'[d] = toPeer[d] /\ toHost'[d] = toHost[d]
    BY <1>3, <2>8, <2>12
  <2> QED BY <1>1, <1>6, <2>1, <2>4, <2>13, <2>14, <2>15, <2>16, OneNodeRoom
<1> QED BY <1>1, <1>5, <1>6

\* A node that an ACK may be taken for: what arrives goes on at some number,
\* whatever the node's own ack says.
Ready(n, t, in, out) ==
  /\ n.recv_len <= BUFSIZE
  /\ ~Up(n.status) => n.recv_len = 0
  /\ n.status = "ESTAB" => \E a \in Int : Holds(a, n.recv_len, t, in, out)

LEMMA NewSocketReady ==
  ASSUME Typed, Distinct, ConnOK, RoomOK, NEW c \in Conns, Past(peer[c]), HalfOpen(c) # 0, NEW m
  PROVE  Ready(NewSocket(c, m), peer[c], toHost[c], toPeer[c])
<1> DEFINE n == NewSocket(c, m)
<1>1. /\ HalfOpen(c) \in DOMAIN backlog_list /\ Live(Entry(c)) /\ Conn(Entry(c)) = c
      /\ Entry(c) = backlog_list[HalfOpen(c)] /\ Entry(c) \in HalfNode
  BY EntryConn, HalfOpenLookup DEF Entry
<1>2. n.recv_len = Entry(c).recv_len /\ n.status = "ESTAB"
  BY <1>1 DEF NewSocket, HalfNode, NodeOf
<1> HIDE DEF n
<1>3. HalfRoom(Entry(c), peer[c], toHost[c], toPeer[c])
  BY <1>1 DEF RoomOK, HalvesRoom
<1>4. n.recv_len = 0 /\ \E a \in Int : Holds(a, 0, peer[c], toHost[c], toPeer[c])
  BY <1>2, <1>3 DEF HalfRoom
<1>5. Ready(n, peer[c], toHost[c], toPeer[c])
  BY <1>4, IndexFacts DEF Ready
<1> QED BY <1>5 DEF n

LEMMA CompletedReady ==
  ASSUME Typed, Distinct, ConnOK, RoomOK, NEW c \in Conns, Delivers(c), Past(peer[c]),
         NEW k \in DOMAIN Completed(c, Head(toHost[c])).sl,
         Conn(Completed(c, Head(toHost[c])).sl[k]) = c
  PROVE  Ready(Completed(c, Head(toHost[c])).sl[k], peer[c], toHost[c], toPeer[c])
<1> DEFINE m == Head(toHost[c])
           sl == Completed(c, m).sl
<1>1. m \in ShortSegments
  BY ArrivingFacts
<1>2. ASSUME NEW j \in DOMAIN socklist, Conn(socklist[j]) = c
      PROVE  Ready(socklist[j], peer[c], toHost[c], toPeer[c])
  <2>1. NodeRoom(socklist[j], peer[c], toHost[c], toPeer[c])
    BY <1>2 DEF RoomOK, NodesRoom
  <2>2. socklist[j].ack \in Int
    <3>1. socklist[j] \in SockNode
      BY ListElements
    <3> QED BY <3>1, NodeFields DEF SockNode
  <2> QED BY <2>1, <2>2 DEF NodeRoom, Ready
<1>3. /\ ~NewlyOpen(c) => sl = socklist
      /\ NewlyOpen(c) =>
           /\ HalfOpen(c) # 0 /\ sl[1] = NewSocket(c, m)
           /\ \A l \in DOMAIN sl : l = 1 \/ (l-1 \in DOMAIN socklist /\ sl[l] = socklist[l-1])
  BY <1>1, CompletedTable
<1>4. HalfOpen(c) # 0 => Ready(NewSocket(c, m), peer[c], toHost[c], toPeer[c])
  BY NewSocketReady
<1> HIDE DEF sl, m
<1>5. k \in DOMAIN sl /\ Conn(sl[k]) = c
  BY DEF sl, m
<1>6. Ready(sl[k], peer[c], toHost[c], toPeer[c])
  BY <1>2, <1>3, <1>4, <1>5
<1> QED BY <1>6 DEF sl, m

LEMMA LeftRoom ==
  ASSUME NEW n \in SockNode, NEW m \in ShortSegments
  PROVE  LET x == Left(n, m)
         IN  x.ack = m.seq + Len(m.data) /\ x.recv_len <= n.recv_len + Len(m.data)
<1> DEFINE s == Stored(n, m)
           t == Consumed(s, n.read_len)
           x == Left(n, m)
<1>1. s \in SockNode /\ s.recv_len = n.recv_len + Len(m.data)
  BY StoredType
<1>2. s.ack = m.seq + Len(m.data)
  BY DEF Stored, SockNode, NodeOf
<1>3. n.recv_len \in Nat /\ s.recv_len \in Nat /\ n.read_len \in Nat
  BY <1>1, NodeFields, IndexFacts DEF SockNode
<1> HIDE DEF s
<1>4. t.ack = s.ack /\ t.recv_len = s.recv_len - n.read_len /\ DOMAIN t = DOMAIN s
  BY <1>1 DEF Consumed, SockNode, NodeOf
<1>5. x = IF Satisfied(s) THEN [t EXCEPT !.read_uuid = None] ELSE s
  BY DEF Left, s
<1> HIDE DEF t, x
<1>6. [t EXCEPT !.read_uuid = None].ack = t.ack /\ [t EXCEPT !.read_uuid = None].recv_len = t.recv_len
  BY <1>1, <1>4 DEF SockNode, NodeOf
<1>7. x.ack = s.ack /\ x.recv_len <= s.recv_len
  BY <1>3, <1>4, <1>5, <1>6
<1> QED BY <1>1, <1>2, <1>7 DEF x

\* Data is stored where there is room for it.
LEMMA ReceiveRoom ==
  ASSUME NEW n \in SockNode, NEW t \in Peers, NEW in \in Seq(ShortSegments), in # <<>>,
         NEW out \in Seq(Segments), NEW c, n.status = "ESTAB", Head(in).flags = "ACK",
         Head(in).data # <<>>, Ready(n, t, in, out)
  PROVE  LET r == Receive(n, c, Head(in))
         IN  NodeRoom(r.node, t, Tail(in), out \o r.out)
<1> DEFINE m == Head(in)
           rest == Tail(in)
           x == Left(n, m)
           seg == Segment("ACK", x.seq, x.ack, Window(x), <<>>)
<1>1. m \in ShortSegments
  OBVIOUS
<1>2. n.recv_len \in Int
  BY NodeFields DEF SockNode
<1>3. PICK a \in Int : Holds(a, n.recv_len, t, in, out)
  BY DEF Ready
<1>4. /\ m.seq = a /\ SeqLen(m) \in Nat /\ n.recv_len + Len(m.data) <= BUFSIZE
      /\ \A less \in Int : less <= n.recv_len + SeqLen(m) =>
           Holds(a + SeqLen(m), less, t, rest, out)
  BY <1>2, <1>3, TakesRoom
<1> HIDE DEF m, rest
<1>5. Receive(n, c, m).node = x /\ Receive(n, c, m).out = <<seg>>
  BY <1>1, ReceiveFacts
<1>6. x \in SockNode /\ x.status = "ESTAB"
  BY <1>1, LeftType
<1>7. x.ack = m.seq + Len(m.data) /\ x.recv_len <= n.recv_len + Len(m.data)
  BY <1>1, LeftRoom
<1>8. SeqLen(m) = Len(m.data) /\ Len(m.data) \in Int
  <2>1. m.flags = "ACK" /\ Len(m.data) \in Int
    BY <1>1, SegmentFields DEF m
  <2> QED BY <2>1 DEF SeqLen
<1>9. x.seq \in Int /\ x.ack \in Int /\ x.recv_len \in Int /\ BUFSIZE \in Int
  BY <1>6, NodeFields, IndexFacts DEF SockNode
<1> HIDE DEF x
<1>10. Holds(x.ack, x.recv_len, t, rest, out)
  BY <1>4, <1>7, <1>8, <1>9
<1>11. Window(x) = BUFSIZE - x.recv_len
  BY DEF Window
<1>12. seg \in Segments
  <2>1. Window(x) \in Int
    BY <1>9, <1>11
  <2> QED BY <1>9, <2>1, SegmentType, Empties
<1>13. seg.ack = x.ack /\ seg.win = Window(x)
  BY DEF Segment
<1> HIDE DEF seg
<1>14. <<seg>> \in Seq(Segments) /\ \A k \in DOMAIN <<seg>> : <<seg>>[k] = seg
  BY <1>12
<1>15. \A k \in DOMAIN <<seg>> : <<seg>>[k].flags = "ACK" =>
         <<seg>>[k].ack + <<seg>>[k].win <= x.ack + BUFSIZE - x.recv_len
  BY <1>9, <1>11, <1>13, <1>14
<1>16. Holds(x.ack, x.recv_len, t, rest, out \o <<seg>>)
  BY <1>10, <1>14, <1>15, PostsRoom
<1>17. x.recv_len <= BUFSIZE /\ Up(x.status)
  BY <1>2, <1>4, <1>6, <1>7, <1>8, <1>9 DEF Up
<1>18. NodeRoom(x, t, rest, out \o <<seg>>)
  BY <1>16, <1>17 DEF NodeRoom
<1> QED BY <1>5, <1>18 DEF m, rest

\* An acknowledgement takes no room.
LEMMA AckedRoom ==
  ASSUME NEW n \in SockNode, NEW t \in Peers, NEW in \in Seq(ShortSegments), in # <<>>,
         NEW out \in Seq(Segments), n.status = "ESTAB", Head(in).flags = "ACK",
         Head(in).data = <<>>, Ready(n, t, in, out)
  PROVE  LET r == Acked(n, Head(in))
         IN  NodeRoom(r.node, t, Tail(in), out \o r.out)
<1> DEFINE m == Head(in)
           rest == Tail(in)
           g == Grown(n, m)
           r == Resumed(n, m)
           x == AckedNode(n, m)
           new == Acked(n, m).out
<1>1. m \in ShortSegments
  OBVIOUS
<1>2. n.recv_len \in Int /\ BUFSIZE \in Int
  BY NodeFields, IndexFacts DEF SockNode
<1>3. PICK a \in Int : Holds(a, n.recv_len, t, in, out)
  BY DEF Ready
<1>4. /\ m.seq = a /\ SeqLen(m) \in Nat
      /\ \A less \in Int : less <= n.recv_len + SeqLen(m) =>
           Holds(a + SeqLen(m), less, t, rest, out)
  BY <1>2, <1>3, TakesRoom
<1>5. SeqLen(m) = 0
  <2>1. m.flags = "ACK" /\ m.data = <<>> /\ m \in Segments
    BY <1>1 DEF ShortSegments
  <2> HIDE DEF m
  <2> QED BY <2>1, SeqLenType, EmptyBytes
<1> HIDE DEF m, rest
<1>6. Holds(m.seq, n.recv_len, t, rest, out)
  BY <1>2, <1>4, <1>5
<1>7. /\ Acked(n, m).node = x /\ x \in SockNode /\ x.status = "ESTAB" /\ new \in Seq(Segments)
      /\ new = IF n.sending THEN r.out ELSE <<>>
  BY <1>1, AckedFacts DEF Acked, Resumed, Grown
<1>8. g \in SockNode /\ g.recv_len = n.recv_len
  BY <1>1, GrownType
<1>9. g.ack = m.seq
  BY DEF Grown, SockNode, NodeOf
<1> HIDE DEF g
<1>10. /\ \A k \in DOMAIN r.out : r.out[k].ack + r.out[k].win = Edge(g)
       /\ r.node.ack = m.seq /\ r.node.recv_len = n.recv_len
  BY <1>8, <1>9, SentTells DEF Resumed, g, SockNode
<1>11. r.node \in SockNode
  BY <1>1, ResumedType
<1> HIDE DEF r, new
<1>12. x.ack = m.seq /\ x.recv_len = n.recv_len
  <2>1. CASE n.sending
    <3> DEFINE y == Filled(n, m)
    <3>1. y.ack = r.node.ack /\ y.recv_len = r.node.recv_len /\ DOMAIN y = DOMAIN r.node
      BY <1>11 DEF Filled, SockNode, NodeOf, r
    <3>2. x = [y EXCEPT !.write_uuid = None]
      BY <2>1 DEF AckedNode
    <3> HIDE DEF x, y
    <3>3. x.ack = y.ack /\ x.recv_len = y.recv_len
      BY <1>11, <3>1, <3>2 DEF SockNode, NodeOf
    <3> QED BY <1>10, <3>1, <3>3
  <2>2. CASE ~n.sending
    BY <1>8, <1>9, <2>2 DEF AckedNode, g
  <2> QED BY <2>1, <2>2
<1> HIDE DEF x
<1>13. \A k \in DOMAIN new : new[k].flags = "ACK" =>
         new[k].ack + new[k].win <= m.seq + BUFSIZE - n.recv_len
  <2>1. Edge(g) = m.seq + BUFSIZE - n.recv_len
    BY <1>8, <1>9 DEF Edge
  <2>2. m.seq \in Int
    BY <1>4
  <2>3. \A k \in DOMAIN <<>> : FALSE
    OBVIOUS
  <2> QED BY <1>2, <1>7, <1>10, <2>1, <2>2, <2>3
<1>14. Holds(m.seq, n.recv_len, t, rest, out \o new)
  BY <1>6, <1>7, <1>13, PostsRoom
<1>15. NodeRoom(x, t, rest, out \o new)
  BY <1>7, <1>12, <1>14 DEF NodeRoom, Ready, Up
<1> QED BY <1>7, <1>15 DEF m, rest, new

\* Any node has room for what an ACK that it is taken for brings.
LEMMA AckOfRoom ==
  ASSUME NEW n \in SockNode, NEW t \in Peers, NEW in \in Seq(ShortSegments), in # <<>>,
         NEW out \in Seq(Segments), NEW c, Head(in).flags = "ACK", Ready(n, t, in, out)
  PROVE  LET a == AckOf(n, c, Head(in))
         IN  NodeRoom(a.node, t, Tail(in), out \o a.out)
<1> DEFINE m == Head(in)
           a == AckOf(n, c, m)
<1>1. m \in ShortSegments
  OBVIOUS
<1>2. CASE n.status = "ESTAB" /\ m.data # <<>>
  <2>1. a = Receive(n, c, m)
    BY <1>2 DEF AckOf
  <2> QED BY <1>2, <2>1, ReceiveRoom
<1>3. CASE n.status = "ESTAB" /\ m.data = <<>>
  <2>1. a = Acked(n, m)
    BY <1>3 DEF AckOf
  <2> QED BY <1>3, <2>1, AckedRoom
<1>4. CASE n.status # "ESTAB"
  <2> HIDE DEF m
  <2>1. \E st, seq : a.node = Quiet(n, st, seq)
    BY <1>4 DEF AckOf, Quiet
  <2>2. a.node.recv_len = n.recv_len
    <3>1. \A st, seq : Quiet(n, st, seq).recv_len = n.recv_len
      BY DEF Quiet, SockNode, NodeOf
    <3> QED BY <2>1, <3>1
  <2>3. a.node.status = CASE n.status = "FIN_WAIT_1" -> "FIN_WAIT_2"
                          [] n.status = "CLOSING" -> "TIMED_WAIT"
                          [] OTHER -> n.status
    BY <1>1, AckOfFacts
  <2> HIDE DEF a
  <2>4. a.node.status # "ESTAB" /\ (Up(n.status) <=> Up(a.node.status))
    <3>1. CASE n.status = "FIN_WAIT_1"
      BY <2>3, <3>1 DEF Up
    <3>2. CASE n.status = "CLOSING"
      BY <2>3, <3>2 DEF Up
    <3>3. CASE n.status \notin {"FIN_WAIT_1", "CLOSING"}
      BY <1>4, <2>3, <3>3
    <3> QED BY <3>1, <3>2, <3>3
  <2>5. NodeRoom(a.node, t, Tail(in), out \o a.out)
    BY <2>2, <2>4 DEF NodeRoom, Ready
  <2> QED BY <2>5 DEF a, m
<1> QED BY <1>2, <1>3, <1>4

\* The node an ACK is taken for has room for what is still to come.
LEMMA AckTakesRoom ==
  ASSUME Typed, Distinct, ConnOK, SeqOK, RoomOK, NEW c \in Conns, Ack(c),
         AckedAt(c, Head(toHost[c])) # 0
  PROVE  LET m == Head(toHost[c])
             n == AckOf(Completed(c, m).sl[AckedAt(c, m)], c, m).node
         IN  /\ Conn(n) = c /\ NodeRoom(n, peer[c], toHost'[c], toPeer'[c])
             /\ WireRoom(peer[c], toHost'[c], toPeer'[c])
<1> DEFINE m == Head(toHost[c])
           i == AckedAt(c, m)
           n == Completed(c, m).sl[i]
           a == AckOf(n, c, m)
<1>1. Delivers(c) /\ m.flags = "ACK" /\ m \in ShortSegments
  BY AckCases, ArrivingFacts
<1>2. Past(peer[c]) /\ Clear(toHost'[c])
  BY <1>1, ArrivesClear
<1>3. i \in DOMAIN Completed(c, m).sl /\ n \in SockNode /\ n.dest = c[1]
  BY <1>1, AckedAtLookup
<1>4. Conn(n) = c
  <2>1. Continues(n, c)
    BY <1>1, <1>2, <1>3, CompletedSeq
  <2> HIDE DEF n
  <2>2. OneConn(n, peer)
    BY <2>1 DEF Continues
  <2> QED BY <1>2, <1>3, <2>2, OneRemote
<1>5. Ready(n, peer[c], toHost[c], toPeer[c])
  BY <1>1, <1>2, <1>3, <1>4, CompletedReady
<1>6. Post(a.to, a.out)
  BY AckCases DEF AckResult
<1>7. /\ peer[c] \in Peers /\ toHost[c] \in Seq(ShortSegments) /\ toHost[c] # <<>>
      /\ toPeer[c] \in Seq(Segments) /\ toHost'[c] = Tail(toHost[c])
  BY <1>1, ArrivingFacts DEF Typed, NetType, Delivers
<1> HIDE DEF i, n
<1>8. NodeRoom(a.node, peer[c], toHost'[c], toPeer[c] \o a.out)
  BY <1>1, <1>3, <1>5, <1>7, AckOfRoom
<1>9. AcksWell(a, n)
  BY <1>1, <1>3, AckOfSends
<1>10. Conn(a.node) = c /\ a.to = c
  BY <1>1, <1>3, <1>4, AckedKeeps
<1>11. a.out \in Seq(Segments)
  BY <1>1, <1>3, AckOfFacts
<1> HIDE DEF a, m
<1>12. toPeer'[c] = toPeer[c] \o a.out
  BY <1>6, <1>10, <1>11, PostAt
<1>13. \A k \in DOMAIN a.out : a.out[k].flags # "SYNACK"
  BY <1>9 DEF AcksWell, Sends
<1>14. WireRoom(peer[c], toHost'[c], toPeer[c])
  <2>1. WireRoom(peer[c], toHost[c], toPeer[c])
    BY DEF RoomOK, WiresRoom
  <2>2. \A k \in DOMAIN toPeer[c] : \E l \in DOMAIN toPeer[c] : toPeer[c][k] = toPeer[c][l]
    OBVIOUS
  <2> QED BY <1>2, <2>1, <2>2, WireOpen
<1>15. WireRoom(peer[c], toHost'[c], toPeer[c] \o a.out)
  BY <1>7, <1>11, <1>13, <1>14, WirePosts
<1> QED BY <1>8, <1>10, <1>12, <1>15 DEF a, n, i, m

LEMMA AckRemains ==
  ASSUME Typed, Distinct, ConnOK, SeqOK, NEW c \in Conns, Ack(c),
         NEW k \in DOMAIN Completed(c, Head(toHost[c])).sl, k # AckedAt(c, Head(toHost[c]))
  PROVE  Remains(Completed(c, Head(toHost[c])).sl[k], c)
<1> DEFINE x == Completed(c, Head(toHost[c])).sl[k]
<1>1. Delivers(c) /\ Past(peer[c])
  <2>1. Delivers(c) /\ Head(toHost[c]).flags = "ACK"
    BY AckCases
  <2> QED BY <2>1, ArrivesClear
<1>2. Conn(x) # c
  BY AckOthers DEF Stays
<1>3. Continues(x, c)
  BY <1>1, CompletedSeq
<1> HIDE DEF x
<1>4. PICK j \in DOMAIN socklist : x = socklist[j]
  BY <1>2, <1>3 DEF Continues
<1>5. Widens(x, socklist[j], <<>>)
  BY <1>4, ListElements, SameRoom
<1>6. Remains(x, c)
  BY <1>2, <1>4, <1>5 DEF Remains
<1> QED BY <1>6 DEF x

LEMMA AckHalvesRoom ==
  ASSUME Typed, Distinct, ConnOK, SeqOK, RoomOK, NEW c \in Conns, Ack(c),
         NEW j \in DOMAIN backlog_list', Live(backlog_list'[j])
  PROVE  \/ /\ Conn(backlog_list'[j]) = c
            /\ HalfRoom(backlog_list'[j], peer[c], toHost'[c], toPeer'[c])
         \/ Conn(backlog_list'[j]) # c /\ \E k \in DOMAIN backlog_list :
              backlog_list'[j] = backlog_list[k]
<1> DEFINE m == Head(toHost[c])
           e == backlog_list'[j]
           sl == Completed(c, m).sl
           i == AckedAt(c, m)
<1>1. /\ Delivers(c) /\ m.flags = "ACK" /\ backlog_list' = Completed(c, m).bl
      /\ m \in ShortSegments
  BY AckCases, ArrivingFacts
<1>2. Past(peer[c]) /\ Clear(toHost[c])
  BY <1>1, ArrivesClear
<1>3. ListsApart(sl, backlog_list')
  BY <1>1, <1>2, CompletedConn DEF OpensOK
<1>4. PICK k \in DOMAIN backlog_list : e = backlog_list[k]
  <2>1. \/ backlog_list' = backlog_list
        \/ HalfOpen(c) # 0 /\ backlog_list' = Take(backlog_list, HalfOpen(c))
    BY <1>1, CompletedCases
  <2>2. HalfOpen(c) # 0 => HalfOpen(c) \in DOMAIN backlog_list
    BY EntryConn
  <2>3. HalvesApart(backlog_list)
    BY DEF ConnOK, Apart
  <2> QED BY <2>1, <2>2, <2>3, TakeHalves
<1>5. CASE Conn(e) = c
  <2>1. e.dest = c[1]
    BY <1>5, ConnParts
  <2>2. i = 0
    <3>1. i # 0 => i \in DOMAIN sl /\ sl[i].dest = c[1]
      BY <1>1, AckedAtLookup
    <3> HIDE DEF sl, i, m
    <3> QED BY <1>3, <2>1, <3>1 DEF ListsApart
  <2>3. toPeer'[c] = toPeer[c]
    BY <2>2, AckMakes
  <2>4. HalfRoom(e, peer[c], toHost[c], toPeer[c])
    BY <1>4, <1>5 DEF RoomOK, HalvesRoom
  <2>5. /\ toHost'[c] = Tail(toHost[c]) /\ toHost[c] \in Seq(ShortSegments) /\ toHost[c] # <<>>
        /\ peer[c] \in Peers /\ toPeer[c] \in Seq(Segments)
    BY <1>1, ArrivingFacts DEF Typed, NetType, Delivers
  <2>6. HalfRoom(e, peer[c], toHost'[c], toPeer[c])
    BY <2>4, <2>5, HalfTail
  <2> QED BY <1>5, <2>3, <2>6
<1>6. CASE Conn(e) # c
  BY <1>4, <1>6
<1> QED BY <1>5, <1>6

LEMMA AckRoom ==
  ASSUME Typed, Distinct, ConnOK, SeqOK, RoomOK, socklist' \in Seq(SockNode),
         NEW c \in Conns, Ack(c)
  PROVE  RoomOK'
<1> DEFINE m == Head(toHost[c])
           sl == Completed(c, m).sl
           i == AckedAt(c, m)
           n == AckOf(sl[i], c, m).node
           fine(x) == \/ Remains(x, c)
                      \/ Conn(x) = c /\ NodeRoom(x, peer[c], toHost'[c], toPeer'[c])
<1>1. m \in ShortSegments /\ m.flags = "ACK" /\ Delivers(c) /\ sl \in Seq(SockNode)
  BY AckCases, ArrivingFacts, CompletedType
<1>2. /\ \/ i = 0 /\ socklist' = sl
         \/ /\ i # 0 /\ sl[i].status = "LAST_ACK"
            /\ socklist' = Take(sl, i)
         \/ /\ i # 0 /\ sl[i].status # "LAST_ACK"
            /\ socklist' = [sl EXCEPT ![i] = n]
      /\ peer' = peer
  BY AckCases
<1>3. \A k \in DOMAIN sl : k # i => Remains(sl[k], c)
  BY AckRemains
<1>4. DOMAIN sl \subseteq Nat \ {0}
  BY <1>1
<1>5. i # 0 => i \in DOMAIN sl
  BY <1>1, AckedAtLookup
<1>6. i # 0 => fine(n) /\ WireRoom(peer[c], toHost'[c], toPeer'[c])
  BY AckTakesRoom
<1>7. i = 0 => toPeer'[c] = toPeer[c]
  BY AckMakes
<1>8. /\ Clear(toHost'[c]) /\ Past(peer[c])
      /\ \A d \in Conns : d # c => toPeer'[d] = toPeer[d] /\ toHost'[d] = toHost[d]
  BY <1>1, ArrivesClear, ArrivingFacts, AckMakes
<1>9. WireRoom(peer[c], toHost'[c], toPeer'[c])
  <2>1. WireRoom(peer[c], toHost[c], toPeer[c])
    BY DEF RoomOK, WiresRoom
  <2>2. \A k \in DOMAIN toPeer[c] : \E l \in DOMAIN toPeer[c] : toPeer[c][k] = toPeer[c][l]
    OBVIOUS
  <2>3. WireRoom(peer[c], toHost'[c], toPeer[c])
    BY <1>8, <2>1, <2>2, WireOpen
  <2> QED BY <1>6, <1>7, <2>3
<1>10. \A j \in DOMAIN backlog_list' : Live(backlog_list'[j]) =>
         \/ /\ Conn(backlog_list'[j]) = c
            /\ HalfRoom(backlog_list'[j], peer[c], toHost'[c], toPeer'[c])
         \/ Conn(backlog_list'[j]) # c /\ \E k \in DOMAIN backlog_list :
              backlog_list'[j] = backlog_list[k]
  BY AckHalvesRoom
<1> HIDE DEF n, sl, i, m
<1>11. ASSUME NEW j \in DOMAIN socklist' PROVE fine(socklist'[j])
  <2>1. CASE i = 0 /\ socklist' = sl
    <3>1. j \in DOMAIN sl /\ j # i
      BY <1>4, <2>1
    <3> QED BY <1>3, <2>1, <3>1
  <2>2. CASE i # 0 /\ socklist' = Take(sl, i)
    <3>1. /\ \/ j \in DOMAIN sl /\ j < i /\ socklist'[j] = sl[j]
             \/ j+1 \in DOMAIN sl /\ j+1 > i /\ socklist'[j] = sl[j+1]
          /\ i \in Nat
      BY <1>1, <1>4, <1>5, <2>2, TakeElements
    <3>2. j \in DOMAIN sl /\ j < i => j # i
      BY <1>4, <3>1
    <3>3. j+1 \in DOMAIN sl /\ j+1 > i => j+1 # i
      BY <1>4, <3>1
    <3> QED BY <1>3, <3>1, <3>2, <3>3
  <2>3. CASE i # 0 /\ socklist' = [sl EXCEPT ![i] = n]
    <3>1. j \in DOMAIN sl /\ socklist'[j] = IF j = i THEN n ELSE sl[j]
      BY <2>3
    <3> QED BY <1>3, <1>6, <2>3, <3>1
  <2> QED BY <1>2, <2>1, <2>2, <2>3
<1>12. \A j \in DOMAIN socklist' :
         \/ Remains(socklist'[j], c)
         \/ Conn(socklist'[j]) = c /\ NodeRoom(socklist'[j], peer[c], toHost'[c], toPeer'[c])
  BY <1>11
<1> HIDE DEF fine
<1> QED BY <1>2, <1>8, <1>9, <1>10, <1>12, HostRoom

\* An arrival leaves every connection its room.
LEMMA ArrivalRoom ==
  ASSUME Typed, Distinct, ConnOK, SeqOK, RoomOK, socklist' \in Seq(SockNode),
         NEW c \in Conns, packetArrived(c)
  PROVE  RoomOK'
BY SynRoom, SynAckRoom, AckRoom, FinRoom DEF packetArrived

-----------------------------------------------------------------------------
(* The room is kept.                                                       *)

LEMMA StepRoom == Typed /\ Orderly /\ ConnOK /\ SeqOK /\ RoomOK /\ [Next]_vars => RoomOK'
<1> SUFFICES ASSUME Typed, Orderly, ConnOK, SeqOK, RoomOK, [Next]_vars PROVE RoomOK'
  OBVIOUS
<1>1. Distinct
  BY DEF Orderly
<1>2. socklist' \in Seq(SockNode)
  BY NextTyped DEF Typed, KernelType
<1>3. ASSUME NEW p \in Pids, Syscall(p) PROVE RoomOK'
  BY <1>3, SyscallRoom
<1>4. ASSUME NEW c \in Conns, packetArrived(c) PROVE RoomOK'
  BY <1>1, <1>2, <1>4, ArrivalRoom
<1>5. ASSUME NEW c \in Conns, Remote(c) PROVE RoomOK'
  BY <1>1, <1>5, RemoteRoom
<1>6. CASE UNCHANGED vars
  BY <1>6 DEF vars, kernel, RoomOK, NodesRoom, HalvesRoom, WiresRoom
<1> QED BY <1>3, <1>4, <1>5, <1>6 DEF Next

LEMMA InitRoom == Init => RoomOK
<1> SUFFICES ASSUME Init PROVE RoomOK
  OBVIOUS
<1>1. DOMAIN socklist = {} /\ DOMAIN backlog_list = {}
  BY DEF Init
<1>2. NodesRoom /\ HalvesRoom
  BY <1>1 DEF NodesRoom, HalvesRoom
<1>3. ASSUME NEW c \in Conns PROVE WireRoom(peer[c], toHost[c], toPeer[c])
  <2>1. toHost[c] = <<>> /\ toPeer[c] = <<>> /\ DOMAIN <<>> = {}
    BY DEF Init
  <2>2. PICK s \in Scenarios :
          peer = [d \in Conns |-> IF d \in Incoming \ s.clients
                                  THEN [Closed EXCEPT !.st = "DONE"] ELSE Closed]
    BY DEF Init
  <2>3. peer[c] \in {[Closed EXCEPT !.st = "DONE"], Closed}
    BY <2>2
  <2>4. peer[c].st \in {"DONE", "CLOSED"} /\ peer[c].una = 0 /\ peer[c].win = BUFSIZE
    BY <2>3 DEF Closed
  <2> QED BY <2>1, <2>4 DEF WireRoom
<1> QED BY <1>2, <1>3 DEF RoomOK, WiresRoom

LEMMA RoomEnough == RoomOK => NoOverrun
BY DEF RoomOK, NodesRoom, NodeRoom, NoOverrun

\* No receive buffer is ever overrun although arriving data is stored without
\* a check, through the handshake, reads of any size, closes of either side and
\* remotes that send whatever they may: the windows told are enough.  The fact
\* behind it is that nothing a remote has been told, or is about to hear, lets
\* it send a byte behind the last one its socket has room for.  Of processes
\* that use their sockets as Orderly says.
THEOREM TcpNoOverrun == Spec /\ []Orderly => []NoOverrun
<1> DEFINE Inv == Typed /\ ConnOK /\ SeqOK /\ RoomOK
<1>1. Init => Inv
  BY InitTyped, InitConn, InitSeq, InitRoom
<1>2. Inv /\ Orderly /\ [Next]_vars => Inv'
  BY NextTyped, NextConn, StepSeq, StepRoom
<1>3. Inv => NoOverrun
  BY RoomEnough
<1> QED BY <1>1, <1>2, <1>3, PTL DEF Spec

=============================================================================

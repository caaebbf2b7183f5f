---------------------------- MODULE KensTcpProofs ----------------------------
(***************************************************************************)
(* The sockets of a host of KENS, for any number of processes, remotes,    *)
(* descriptors and bytes of a buffer.                                      *)
(***************************************************************************)
EXTENDS KensTcp, TLAPS, SequenceTheorems, FiniteSetTheorems, WellFoundedInduction

-----------------------------------------------------------------------------
(* Types.                                                                  *)

Ids == {None, Zero} \cup (Pids \X (Nat \ {0}))
Ops == {"socket", "bind", "listen", "connect", "accept", "read", "write", "close"}
Bytes == Seq(Int)
Buffer == [Index -> Int]

NodeOf(owners, descriptors) ==
  [owner : owners, sockfd : descriptors, status : Statuses,
   srcip : {AnyAddr, Here}, srcport : Nat, dest : Remotes \cup {NoRemote},
   seq : Int, ack : Int, bound : BOOLEAN, uuid : Ids, backlog : Nat, used : BOOLEAN,
   send_buffer : Buffer, start_s : Index, end_s : Index, send_len : Nat,
   recv_buffer : Buffer, start_r : Index, end_r : Index, recv_len : Nat,
   read_uuid : Ids, read_len : 0..BUFSIZE, write_uuid : Ids, write_buf : Buffer,
   cwnd : Nat \ {0}, sending : BOOLEAN]

\* The half-open connections of a host without a listener have the
\* descriptor -2 and no owner.
Descriptors == 1..MaxFd \cup {-1}
SockNode == NodeOf(Pids, Descriptors)
HalfNode == {n \in NodeOf(Pids \cup {-1}, Descriptors \cup {-2}) :
               /\ n.status = "SYN_RCVD"
               /\ n.dest \in Remotes
               /\ n.sockfd # -2 => n.owner \in Pids}

CallRecs == [op : Ops \cup {"idle"}, id : Ids, port : Nat]
AnswerRecs == [id : Ids, val : Int, from : (Remotes \cup {NoRemote}) \X Nat, data : Bytes]
QueueRecs == [uuid : Ids, pid : Pids, sockfd : Descriptors]
Segments == [flags : {"SYN", "SYNACK", "ACK", "FIN"}, seq : Int, ack : Int,
             win : Int, data : Bytes]
ShortSegments == {m \in Segments : Len(m.data) <= BUFSIZE}
PeerStates == (Statuses \ {"LISTENING"}) \cup {"DONE"}
Peers == [st : PeerStates, snd : Int, una : Int, rcv : Int, win : Int,
          got : Bytes, n : Nat]

\* The calls the programs make.
Calls_ == UNION {UNION {{s.prog[p][i] : i \in DOMAIN s.prog[p]} : p \in Pids} :
                   s \in Scenarios}

KernelType == /\ socklist \in Seq(SockNode)
              /\ backlog_list \in Seq(HalfNode)
              /\ accept_queue \in Seq(QueueRecs)
              /\ fds \in [Pids -> 0..MaxFd]
AppsType == /\ calls \in [Pids -> CallRecs]
            /\ held \in [Pids -> Seq(Int)]
            /\ readBytes \in [Pids -> [Conns -> Bytes]]
            /\ wrote \in [Pids -> Int]
NetType == /\ toHost \in [Conns -> Seq(ShortSegments)]
           /\ toPeer \in [Conns -> Seq(Segments)]
           /\ peer \in [Conns -> Peers]
ProgType == prog \in [Pids -> Seq(Calls_)]
Typed == KernelType /\ AppsType /\ NetType /\ ProgType

\* The fields of a node.
LEMMA NodeFields ==
  ASSUME NEW O, NEW D, NEW n \in NodeOf(O, D)
  PROVE  /\ n.owner \in O /\ n.sockfd \in D /\ n.status \in Statuses
         /\ n.srcip \in {AnyAddr, Here} /\ n.srcport \in Nat
         /\ n.dest \in Remotes \cup {NoRemote}
         /\ n.seq \in Int /\ n.ack \in Int /\ n.bound \in BOOLEAN /\ n.uuid \in Ids
         /\ n.backlog \in Nat /\ n.used \in BOOLEAN
         /\ n.send_buffer \in Buffer /\ n.start_s \in Index /\ n.end_s \in Index
         /\ n.send_len \in Nat
         /\ n.recv_buffer \in Buffer /\ n.start_r \in Index /\ n.end_r \in Index
         /\ n.recv_len \in Nat
         /\ n.read_uuid \in Ids /\ n.read_len \in 0..BUFSIZE /\ n.write_uuid \in Ids
         /\ n.write_buf \in Buffer /\ n.cwnd \in Nat \ {0} /\ n.sending \in BOOLEAN
BY DEF NodeOf

LEMMA IndexFacts ==
  /\ BUFSIZE \in Nat \ {0} /\ MSS \in Nat \ {0} /\ MSS <= BUFSIZE
  /\ 0 \in Index
  /\ \A i \in Index : i \in Nat /\ i < BUFSIZE
BY SizesAssumption DEF Index

LEMMA WrapType == ASSUME NEW i \in Index, NEW k \in 0..BUFSIZE PROVE Wrap(i + k) \in Index
BY SizesAssumption DEF Wrap, Index

LEMMA ModType == ASSUME NEW i \in Int PROVE i % BUFSIZE \in Index
BY SizesAssumption DEF Index

LEMMA LoadType ==
  ASSUME NEW buf \in Buffer, NEW at \in Int, NEW n \in Nat
  PROVE  Load(buf, at, n) \in Bytes /\ Len(Load(buf, at, n)) = n
<1> DEFINE f(k) == buf[(at + k - 1) % BUFSIZE]
<1>1. \A k \in 1..n : f(k) \in Int
  BY ModType DEF Buffer
<1> HIDE DEF f
<1>2. [k \in 1..n |-> f(k)] \in Seq(Int) /\ Len([k \in 1..n |-> f(k)]) = n
  BY <1>1
<1> QED BY <1>2 DEF f, Load, Bytes

LEMMA StoreType ==
  ASSUME NEW buf \in Buffer, NEW at \in Int, NEW bytes \in Bytes
  PROVE  Store(buf, at, bytes) \in Buffer
<1> DEFINE k(i) == (i - at + BUFSIZE) % BUFSIZE
           f(i) == IF k(i) < Len(bytes) THEN bytes[k(i)+1] ELSE buf[i]
<1>1. ASSUME NEW i \in Index PROVE f(i) \in Int
  <2>1. k(i) \in Nat
    BY ModType, IndexFacts
  <2> HIDE DEF k
  <2>2. k(i) < Len(bytes) => bytes[k(i)+1] \in Int
    BY <2>1 DEF Bytes
  <2> QED BY <2>2 DEF Buffer
<1> HIDE DEF f
<1>2. [i \in Index |-> f(i)] \in [Index -> Int]
  BY <1>1
<1> QED BY <1>2 DEF f, Store, Buffer

\* The least of a set of naturals.
LEMMA LeastIn ==
  ASSUME NEW S \in SUBSET Nat
  PROVE  /\ S = {} => Least(S) = 0
         /\ S # {} => Least(S) \in S /\ \A j \in S : Least(S) <= j
<1>1. CASE S = {}
  BY <1>1 DEF Least
<1>2. CASE S # {}
  <2> DEFINE R == OpToRel(<, Nat)
  <2>1. IsWellFoundedOn(R, Nat)
    BY NatLessThanWellFounded
  <2>2. PICK m \in S : \A y \in S : ~(<<y, m>> \in R)
    <3> HIDE DEF R
    <3> QED BY <1>2, <2>1, WFMin
  <2>4. \A y \in S : ~(y < m)
    BY <2>2 DEF OpToRel
  <2>3. \A y \in S : m <= y
    BY <2>4
  <2> QED BY <1>2, <2>3 DEF Least
<1> QED BY <1>1, <1>2

\* A position of a sequence, chosen as the least of those with a property.
LEMMA LeastPosition ==
  ASSUME NEW T, NEW s \in Seq(T), NEW S \in SUBSET DOMAIN s
  PROVE  /\ Least(S) = 0 <=> S = {}
         /\ Least(S) # 0 => Least(S) \in S /\ Least(S) \in 1..Len(s)
                            /\ \A j \in S : Least(S) <= j
         /\ DOMAIN s = 1..Len(s) /\ Len(s) \in Nat
<1>1. DOMAIN s = 1..Len(s) /\ Len(s) \in Nat
  OBVIOUS
<1>2. S \subseteq Nat /\ 0 \notin S
  BY <1>1
<1> QED BY <1>1, <1>2, LeastIn

LEMMA TakeSeq ==
  ASSUME NEW T, NEW s \in Seq(T), NEW i \in DOMAIN s
  PROVE  /\ Take(s, i) \in Seq(T)
         /\ Len(Take(s, i)) = Len(s) - 1
         /\ \A k \in 1..Len(s)-1 : Take(s, i)[k] = IF k < i THEN s[k] ELSE s[k+1]
<1>1. DOMAIN s = 1..Len(s) /\ Len(s) \in Nat /\ i \in 1..Len(s)
  OBVIOUS
<1>2. SubSeq(s, 1, i-1) \in Seq(T) /\ Len(SubSeq(s, 1, i-1)) = i-1
  BY <1>1, SubSeqProperties
<1>3. SubSeq(s, i+1, Len(s)) \in Seq(T) /\ Len(SubSeq(s, i+1, Len(s))) = Len(s) - i
  BY <1>1, SubSeqProperties
<1>4. \A k \in 1..i-1 : SubSeq(s, 1, i-1)[k] = s[k]
  BY <1>1, SubSeqProperties
<1>5. \A k \in 1..Len(s)-i : SubSeq(s, i+1, Len(s))[k] = s[i+k]
  BY <1>1, SubSeqProperties
<1> DEFINE a == SubSeq(s, 1, i-1)
           b == SubSeq(s, i+1, Len(s))
<1>6. /\ a \o b \in Seq(T) /\ Len(a \o b) = Len(a) + Len(b)
      /\ \A k \in 1..Len(a)+Len(b) : (a \o b)[k] = IF k <= Len(a) THEN a[k] ELSE b[k-Len(a)]
  BY <1>2, <1>3, ConcatProperties
<1>7. Len(a) = i-1 /\ Len(b) = Len(s) - i
  BY <1>2, <1>3
<1>8. \A k \in 1..i-1 : a[k] = s[k]
  BY <1>4
<1>9. \A k \in 1..Len(s)-i : b[k] = s[i+k]
  BY <1>5
<1>10. Take(s, i) = a \o b
  BY DEF Take
<1> HIDE DEF a, b
<1>11. Len(a \o b) = Len(s) - 1
  BY <1>1, <1>6, <1>7
<1>12. ASSUME NEW k \in 1..Len(s)-1
       PROVE  (a \o b)[k] = IF k < i THEN s[k] ELSE s[k+1]
  <2>1. CASE k < i
    <3>1. k \in 1..i-1 /\ k <= Len(a) /\ k \in 1..Len(a)+Len(b)
      BY <2>1, <1>1, <1>7
    <3> QED BY <2>1, <3>1, <1>6, <1>8
  <2>2. CASE ~(k < i)
    <3>1. /\ k-(i-1) \in 1..Len(s)-i /\ ~(k <= Len(a)) /\ k \in 1..Len(a)+Len(b)
          /\ i + (k-(i-1)) = k+1
      BY <2>2, <1>1, <1>7
    <3>2. (a \o b)[k] = b[k-(i-1)]
      BY <3>1, <1>6, <1>7
    <3> QED BY <2>2, <3>1, <3>2, <1>9
  <2> QED BY <2>1, <2>2
<1> QED BY <1>6, <1>10, <1>11, <1>12

\* A replacement in a sequence.
LEMMA UpdateSeq ==
  ASSUME NEW T, NEW s \in Seq(T), NEW i \in DOMAIN s, NEW m \in T
  PROVE  /\ [s EXCEPT ![i] = m] \in Seq(T)
         /\ Len([s EXCEPT ![i] = m]) = Len(s)
         /\ DOMAIN [s EXCEPT ![i] = m] = DOMAIN s
         /\ \A j \in DOMAIN s : [s EXCEPT ![i] = m][j] = IF j = i THEN m ELSE s[j]
<1>1. i \in 1..Len(s) /\ DOMAIN s = 1..Len(s)
  OBVIOUS
<1>2. [s EXCEPT ![i] = m] \in Seq(T) /\ Len([s EXCEPT ![i] = m]) = Len(s)
  BY <1>1, ExceptSeq
<1>3. \A j \in DOMAIN s : [s EXCEPT ![i] = m][j] = IF j = i THEN m ELSE s[j]
  OBVIOUS
<1> QED BY <1>2, <1>3

\* A new first element.
LEMMA ConsSeq ==
  ASSUME NEW T, NEW s \in Seq(T), NEW m \in T
  PROVE  /\ <<m>> \o s \in Seq(T)
         /\ Len(<<m>> \o s) = Len(s) + 1
         /\ DOMAIN (<<m>> \o s) = 1..Len(s)+1
         /\ (<<m>> \o s)[1] = m
         /\ \A k \in 1..Len(s) : (<<m>> \o s)[k+1] = s[k]
<1>1. <<m>> \in Seq(T) /\ Len(<<m>>) = 1 /\ <<m>>[1] = m /\ Len(s) \in Nat
  OBVIOUS
<1>2. /\ <<m>> \o s \in Seq(T) /\ Len(<<m>> \o s) = 1 + Len(s)
      /\ \A k \in 1..1+Len(s) : (<<m>> \o s)[k] = IF k <= 1 THEN <<m>>[k] ELSE s[k-1]
  BY <1>1, ConcatProperties
<1>3. DOMAIN (<<m>> \o s) = 1..Len(<<m>> \o s)
  BY <1>2
<1> HIDE DEF Seq
<1>4. (<<m>> \o s)[1] = m
  BY <1>1, <1>2
<1>5. ASSUME NEW k \in 1..Len(s) PROVE (<<m>> \o s)[k+1] = s[k]
  <2>1. k+1 \in 1..1+Len(s) /\ ~(k+1 <= 1) /\ (k+1)-1 = k
    BY <1>1
  <2> QED BY <2>1, <1>2
<1> QED BY <1>1, <1>2, <1>3, <1>4, <1>5

LEMMA ConsumedType ==
  ASSUME NEW O, NEW D, NEW n \in NodeOf(O, D), NEW len \in 0..BUFSIZE, len <= n.recv_len
  PROVE  Consumed(n, len) \in NodeOf(O, D)
<1>1. n.recv_len - len \in Nat
  BY NodeFields, IndexFacts
<1>2. Wrap(n.start_r + len) \in Index
  BY NodeFields, WrapType
<1> QED BY <1>1, <1>2 DEF NodeOf, Consumed

LEMMA SegmentType ==
  ASSUME NEW flags \in {"SYN", "SYNACK", "ACK", "FIN"}, NEW seq \in Int, NEW ack \in Int,
         NEW win \in Int, NEW bytes \in Bytes
  PROVE  /\ Segment(flags, seq, ack, win, bytes) \in Segments
         /\ <<Segment(flags, seq, ack, win, bytes)>> \in Seq(Segments)
<1>1. Segment(flags, seq, ack, win, bytes) \in Segments
  BY DEF Segment, Segments
<1> QED BY <1>1

\* send_segments takes from the buffer, counts what it sends and may clear
\* sending: the rest of the node stays.
Sent(n, e, q, b) == [n EXCEPT !.end_s = e, !.seq = q, !.sending = b]

LEMMA SendSegmentsType ==
  ASSUME NEW O, NEW D, NEW n \in NodeOf(O, D), NEW seg \in Nat
  PROVE  /\ send_segments(n, seg).node \in NodeOf(O, D)
         /\ send_segments(n, seg).out \in Seq(Segments)
         /\ \E e \in Index, q \in Int, b \in BOOLEAN :
              send_segments(n, seg).node = Sent(n, e, q, b)
<1> DEFINE room == BUFSIZE - n.send_len
           len == IF room \in 0..MSS THEN room ELSE MSS
           ends(j) == \/ n.send_len >= BUFSIZE
                      \/ n.send_len = 0
                      \/ (n.end_s + j*len) % BUFSIZE = n.start_s
           stops == {j \in 1..seg : j = seg \/ ends(j)}
           k == IF n.send_len = BUFSIZE THEN 0 ELSE Least(stops)
           e == (n.end_s + k*len) % BUFSIZE
           q == n.seq + k*len
           b == n.sending /\ ~(k > 0 /\ n.send_len >= BUFSIZE)
           o(j) == Segment("ACK", n.seq + (j-1)*len, n.ack, Window(n),
                           Load(n.send_buffer, n.end_s + (j-1)*len, len))
<1>1. len \in Nat
  BY NodeFields, IndexFacts
<1>2. k \in Nat
  <2>1. stops \in SUBSET Nat
    OBVIOUS
  <2> HIDE DEF stops
  <2>2. Least(stops) = 0 \/ Least(stops) \in stops
    BY ONLY <2>1, LeastIn
  <2>4. \A j \in stops : j \in Nat
    BY <2>1
  <2>3. Least(stops) \in Nat
    BY <2>2, <2>4
  <2> QED BY <2>3
<1>3. send_segments(n, seg) = [node |-> [n EXCEPT !.end_s = e, !.seq = q, !.sending = b],
                               out |-> [j \in 1..k |-> o(j)]]
  BY DEF send_segments
<1> HIDE DEF len, k
<1>4. n.end_s \in Int /\ n.seq \in Int /\ n.ack \in Int /\ Window(n) \in Int
      /\ n.send_buffer \in Buffer /\ n.sending \in BOOLEAN
  BY NodeFields, IndexFacts DEF Window
<1>5. k*len \in Int /\ \A j \in 1..k : (j-1)*len \in Int
  BY <1>1, <1>2
<1>6. e \in Index /\ q \in Int /\ b \in BOOLEAN
  BY <1>4, <1>5, ModType
<1>7. ASSUME NEW j \in 1..k PROVE o(j) \in Segments
  <2>1. n.end_s + (j-1)*len \in Int /\ n.seq + (j-1)*len \in Int
    BY <1>4, <1>5
  <2>2. Load(n.send_buffer, n.end_s + (j-1)*len, len) \in Bytes
    BY <2>1, <1>1, <1>4, LoadType
  <2> QED BY <2>1, <2>2, <1>4, SegmentType
<1> HIDE DEF e, q, b, o
<1>8. [j \in 1..k |-> o(j)] \in Seq(Segments)
  BY <1>2, <1>7
<1>9. [n EXCEPT !.end_s = e, !.seq = q, !.sending = b] \in NodeOf(O, D)
  BY <1>6 DEF NodeOf
<1>10. /\ send_segments(n, seg).node = Sent(n, e, q, b)
       /\ send_segments(n, seg).out = [j \in 1..k |-> o(j)]
  BY <1>3 DEF Sent
<1>11. Sent(n, e, q, b) \in NodeOf(O, D)
  BY <1>9 DEF Sent
<1> QED BY <1>6, <1>8, <1>10, <1>11

\* The answers end calls; each one that is pending goes on or is over.
Answers(A, call) == call # Idle /\ \E a \in A : a.id = call.id

LEMMA ReplyFacts ==
  ASSUME NEW A \in SUBSET AnswerRecs, NEW cs \in [Pids -> CallRecs], AppsType,
         Reply(A, cs)
  PROVE  /\ AppsType'
         /\ \A p \in Pids :
              /\ calls'[p] = IF Answers(A, cs[p]) THEN Idle ELSE cs[p]
              /\ \/ held'[p] = held[p]
                 \/ \E a \in A : /\ cs[p] # Idle /\ a.id = cs[p].id
                                 /\ cs[p].op \in {"socket", "accept"}
                                 /\ held'[p] = Append(held[p], a.val)
<1> DEFINE hit(p) == {a \in A : cs[p] # Idle /\ a.id = cs[p].id}
           of(p) == CHOOSE a \in hit(p) : TRUE
           by(p, op) == hit(p) # {} /\ cs[p].op = op
           h(p) == IF by(p, "socket") \/ by(p, "accept")
                   THEN Append(held[p], of(p).val) ELSE held[p]
           b(p, c) == IF by(p, "read") /\ of(p).from = c
                      THEN readBytes[p][c] \o of(p).data ELSE readBytes[p][c]
           r(p) == [c \in Conns |-> b(p, c)]
           w(p) == IF by(p, "write") /\ of(p).val # -1 THEN wrote[p] + of(p).val ELSE wrote[p]
           cl(p) == IF hit(p) = {} THEN cs[p] ELSE Idle
<1>1. /\ calls' = [p \in Pids |-> cl(p)] /\ held' = [p \in Pids |-> h(p)]
      /\ readBytes' = [p \in Pids |-> r(p)] /\ wrote' = [p \in Pids |-> w(p)]
  BY DEF Reply
<1>2. Idle \in CallRecs
  BY DEF Idle, CallRecs, Ids
<1>3. ASSUME NEW p \in Pids, hit(p) # {}
      PROVE  of(p) \in hit(p) /\ of(p) \in A /\ of(p).val \in Int /\ of(p).data \in Bytes
  <2>1. of(p) \in hit(p)
    BY <1>3
  <2>2. of(p) \in A /\ A \subseteq AnswerRecs
    BY <2>1
  <2> HIDE DEF of
  <2>3. of(p).val \in Int /\ of(p).data \in Bytes
    BY <2>2 DEF AnswerRecs
  <2> QED BY <2>1, <2>2, <2>3
<1>4. \A p \in Pids : /\ held[p] \in Seq(Int) /\ wrote[p] \in Int
                      /\ \A c \in Conns : readBytes[p][c] \in Bytes
  BY DEF AppsType
<1> HIDE DEF of
<1>5. \A p \in Pids : cl(p) \in CallRecs
  BY <1>2
<1>6. \A p \in Pids : h(p) \in Seq(Int)
  BY <1>3, <1>4
<1>7. \A p \in Pids : r(p) \in [Conns -> Bytes]
  <2>1. \A p \in Pids : \A c \in Conns : b(p, c) \in Bytes
    BY <1>3, <1>4, ConcatProperties DEF Bytes
  <2> HIDE DEF b
  <2> QED BY <2>1
<1>8. \A p \in Pids : w(p) \in Int
  BY <1>3, <1>4
<1>9. \A p \in Pids : cl(p) = IF Answers(A, cs[p]) THEN Idle ELSE cs[p]
  BY DEF Answers
<1>10. ASSUME NEW p \in Pids
       PROVE  \/ h(p) = held[p]
              \/ \E a \in A : /\ cs[p] # Idle /\ a.id = cs[p].id
                              /\ cs[p].op \in {"socket", "accept"}
                              /\ h(p) = Append(held[p], a.val)
  <2>1. CASE h(p) = held[p]
    BY <2>1
  <2>2. CASE h(p) # held[p]
    <3>1. by(p, "socket") \/ by(p, "accept")
      BY <2>2
    <3>2. of(p) \in hit(p) /\ of(p) \in A /\ h(p) = Append(held[p], of(p).val)
      BY <3>1, <1>3
    <3> QED BY <3>1, <3>2
  <2> QED BY <2>1, <2>2
<1> HIDE DEF cl, h, r, w
<1>11. AppsType'
  BY <1>1, <1>5, <1>6, <1>7, <1>8 DEF AppsType
<1>12. \A p \in Pids : calls'[p] = cl(p) /\ held'[p] = h(p)
  BY <1>1
<1> QED BY <1>9, <1>10, <1>11, <1>12

LEMMA PostType ==
  ASSUME NetType, NEW c, NEW out \in Seq(Segments), Post(c, out)
  PROVE  toPeer' \in [Conns -> Seq(Segments)]
<1>1. CASE c \in Conns
  <2>1. toPeer[c] \o out \in Seq(Segments)
    BY <1>1, ConcatProperties DEF NetType
  <2>2. toPeer' = [toPeer EXCEPT ![c] = toPeer[c] \o out]
    BY <1>1 DEF Post
  <2> QED BY <2>1, <2>2 DEF NetType
<1>2. CASE c \notin Conns
  BY <1>2 DEF Post, NetType
<1> QED BY <1>1, <1>2

-----------------------------------------------------------------------------
(* Types are kept, action by action.                                       *)

\* A process that runs takes the first call of its program.
LEMMA Running ==
  ASSUME Typed, NEW p \in Pids, Runs(p)
  PROVE  /\ ProgType'
         /\ Next_(p) \in Calls_ /\ IsCall(Next_(p))
         /\ Len(prog[p]) \in Nat \ {0} /\ Id(p) \in Ids /\ Id(p)[1] = p
         /\ calls[p] = Idle
         /\ Len(prog'[p]) = Len(prog[p]) - 1
         /\ \A q \in Pids : q # p => prog'[q] = prog[q]
<1>1. prog \in [Pids -> Seq(Calls_)] /\ prog[p] \in Seq(Calls_) /\ prog[p] # <<>>
  BY DEF Typed, ProgType, Runs
<1> HIDE DEF Calls_
<1>2. /\ Head(prog[p]) \in Calls_ /\ Tail(prog[p]) \in Seq(Calls_)
      /\ Len(prog[p]) \in Nat \ {0} /\ Len(Tail(prog[p])) = Len(prog[p]) - 1
  BY <1>1
<1>3. prog' = [prog EXCEPT ![p] = Tail(prog[p])]
  BY DEF Runs
<1>4. /\ ProgType' /\ prog'[p] = Tail(prog[p])
      /\ \A q \in Pids : q # p => prog'[q] = prog[q]
  BY <1>1, <1>2, <1>3 DEF ProgType
<1>5. ASSUME NEW k \in Calls_ PROVE IsCall(k)
  <2>1. PICK s \in Scenarios, q \in Pids : k \in {s.prog[q][i] : i \in DOMAIN s.prog[q]}
    BY DEF Calls_
  <2> QED BY <2>1, ProgramsAssumption
<1>6. Id(p) \in Ids /\ Id(p)[1] = p
  BY <1>2 DEF Id, Ids
<1> QED BY <1>2, <1>4, <1>5, <1>6 DEF Next_, Runs

LEMMA CalledType ==
  ASSUME Typed, NEW p \in Pids, Runs(p), Next_(p).op \in Ops, NEW port \in Nat
  PROVE  /\ Called(p, port) \in [Pids -> CallRecs]
         /\ Called(p, port)[p] = [op |-> Next_(p).op, id |-> Id(p), port |-> port]
         /\ \A q \in Pids : q # p => Called(p, port)[q] = calls[q]
<1>1. [op |-> Next_(p).op, id |-> Id(p), port |-> port] \in CallRecs
  BY Running DEF CallRecs
<1>2. calls \in [Pids -> CallRecs]
  BY DEF Typed, AppsType
<1> QED BY <1>1, <1>2 DEF Called

\* The node a call is about.
LEMMA NodeLookup ==
  ASSUME Typed, NEW p \in Pids
  PROVE  /\ DOMAIN socklist = 1..Len(socklist) /\ Len(socklist) \in Nat
         /\ \A i \in DOMAIN socklist : socklist[i] \in SockNode
         /\ Node(p) # 0 =>
              /\ Node(p) \in DOMAIN socklist
              /\ socklist[Node(p)].owner = p /\ socklist[Node(p)].sockfd = On(p)
         /\ \A i \in DOMAIN socklist :
              socklist[i].owner = p /\ socklist[i].sockfd = On(p) =>
                Node(p) # 0 /\ Node(p) <= i
<1> DEFINE S == {i \in DOMAIN socklist : socklist[i].sockfd = On(p) /\ socklist[i].owner = p}
<1>1. socklist \in Seq(SockNode)
  BY DEF Typed, KernelType
<1>2. S \in SUBSET DOMAIN socklist
  OBVIOUS
<1>3. Node(p) = Least(S)
  BY DEF Node, getnodebysockfd
<1>4. /\ Node(p) = 0 <=> S = {}
      /\ Node(p) # 0 => Node(p) \in S /\ \A j \in S : Node(p) <= j
      /\ DOMAIN socklist = 1..Len(socklist) /\ Len(socklist) \in Nat
  <2> HIDE DEF S
  <2> QED BY <1>1, <1>2, <1>3, LeastPosition
<1>5. \A i \in DOMAIN socklist : socklist[i] \in SockNode
  BY <1>1
<1> QED BY <1>4, <1>5

\* An answer with no bytes, and what comes after it.
LEMMA AnswerType ==
  ASSUME NEW id \in Ids, NEW val \in Int
  PROVE  /\ Answer(id, val) \in AnswerRecs
         /\ {Answer(id, val)} \in SUBSET AnswerRecs
BY DEF Answer, AnswerRecs, NoConn, Bytes

LEMMA ReadAnswerType ==
  ASSUME NEW O, NEW D, NEW n \in NodeOf(O, D), NEW id \in Ids, NEW len \in Nat
  PROVE  /\ ReadAnswer(id, n, len) \in AnswerRecs
         /\ {ReadAnswer(id, n, len)} \in SUBSET AnswerRecs
         /\ ReadAnswer(id, n, len).id = id
<1>1. Load(n.recv_buffer, n.start_r, len) \in Bytes
  BY NodeFields, IndexFacts, LoadType
<1>2. Conn(n) \in (Remotes \cup {NoRemote}) \X Nat
  BY NodeFields DEF Conn
<1> QED BY <1>1, <1>2 DEF ReadAnswer, AnswerRecs

LEMMA Empties == <<>> \in Bytes /\ <<>> \in Seq(Segments) /\ {} \in SUBSET AnswerRecs
BY DEF Bytes

\* A call that is answered, at once or later.
LEMMA CallTypes ==
  ASSUME Typed, NEW p \in Pids, NEW op \in Ops, Enter(p, op), NEW port \in Nat,
         NEW A \in SUBSET AnswerRecs, Reply(A, Called(p, port))
  PROVE  AppsType' /\ ProgType'
<1>1. Runs(p) /\ Next_(p).op = op
  BY DEF Enter
<1>2. Called(p, port) \in [Pids -> CallRecs]
  BY <1>1, CalledType
<1> QED BY <1>1, <1>2, Running, ReplyFacts DEF Typed

LEMMA ReturnsType ==
  ASSUME Typed, NEW p \in Pids, NEW op \in Ops, Enter(p, op),
         Blocks(p) \/ \E val \in Int : Returns(p, val)
  PROVE  AppsType' /\ ProgType'
<1>1. Runs(p)
  BY DEF Enter
<1>2. CASE Blocks(p)
  BY <1>2, CallTypes, Empties DEF Blocks
<1>3. ASSUME NEW val \in Int, Returns(p, val) PROVE AppsType' /\ ProgType'
  BY <1>1, <1>3, CallTypes, AnswerType, Running, Empties DEF Returns
<1> QED BY <1>2, <1>3

LEMMA FreshType ==
  ASSUME NEW p, NEW fd, NEW st \in Statuses
  PROVE  FreshNode(p, fd, st) \in NodeOf({p}, {fd})
<1>1. 0 \in Index /\ BUFSIZE \in Nat \ {0} /\ MSS \in Nat \ {0} /\ 0 \in 0..BUFSIZE
  BY IndexFacts
<1>2. [i \in Index |-> 0] \in Buffer
  BY DEF Buffer
<1>3. Zero \in Ids
  BY DEF Ids
<1> QED BY <1>1, <1>2, <1>3 DEF FreshNode, NodeOf

LEMMA CreateType ==
  ASSUME NEW p \in Pids, NEW fd \in [Pids -> 0..MaxFd]
  PROVE  /\ Create(p, fd) \in Descriptors /\ Create(p, fd) \in Int
         /\ Grow(p, fd) \in [Pids -> 0..MaxFd]
         /\ \A q \in Pids : fd[q] <= Grow(p, fd)[q]
         /\ Create(p, fd) # -1 => Create(p, fd) = fd[p] + 1 /\ Grow(p, fd)[p] = fd[p] + 1
         /\ Create(p, fd) = -1 => Grow(p, fd) = fd
         /\ \A q \in Pids : q # p => Grow(p, fd)[q] = fd[q]
BY MaxFdAssumption DEF Create, Grow, Descriptors

LEMMA SocketTypes ==
  ASSUME Typed, NEW p \in Pids, Socket(p)
  PROVE  Typed'
<1> DEFINE fd == Create(p, fds)
<1>1. /\ fd \in Descriptors /\ fd \in Int /\ Grow(p, fds) \in [Pids -> 0..MaxFd]
  BY CreateType DEF Typed, KernelType
<1>2. socklist' \in Seq(SockNode)
  <2>1. socklist \in Seq(SockNode)
    BY DEF Typed, KernelType
  <2>2. ASSUME NEW st \in FreshStatus
        PROVE  FreshNode(p, fd, st) \in SockNode
    <3>1. FreshNode(p, fd, st) \in NodeOf({p}, {fd})
      BY EndpointsAssumption, FreshType
    <3> QED BY <1>1, <3>1 DEF NodeOf, SockNode
  <2>3. \/ UNCHANGED socklist
        \/ \E st \in FreshStatus : socklist' = <<FreshNode(p, fd, st)>> \o socklist
    BY DEF Socket
  <2> HIDE DEF fd
  <2> QED BY <2>1, <2>2, <2>3, ConsSeq, ZenonT(60)
<1>3. AppsType' /\ ProgType'
  BY <1>1, ReturnsType DEF Socket, Ops
<1>4. fds' = Grow(p, fds) /\ UNCHANGED <<backlog_list, accept_queue, toHost, toPeer, peer>>
  BY DEF Socket
<1> QED BY <1>1, <1>2, <1>3, <1>4 DEF Typed, KernelType, NetType

LEMMA BindTypes ==
  ASSUME Typed, NEW p \in Pids, Bind(p)
  PROVE  Typed'
<1> DEFINE i == Node(p)
           m == [socklist[i] EXCEPT !.srcip = Next_(p).ip, !.srcport = Next_(p).port,
                                    !.bound = TRUE]
<1>1. Enter(p, "bind") /\ Runs(p) /\ Next_(p).op = "bind"
  BY DEF Bind, Enter
<1>2. Next_(p).ip \in {AnyAddr, Here} /\ Next_(p).port \in Nat
  BY <1>1, Running DEF IsCall
<1>3. AppsType' /\ ProgType'
  <2>1. Blocks(p) \/ Returns(p, -1) \/ Returns(p, 0)
    BY DEF Bind
  <2> QED BY <1>1, <2>1, ReturnsType DEF Ops
<1>4. socklist' \in Seq(SockNode)
  <2>1. \/ socklist' = socklist
        \/ /\ i # 0
           /\ socklist' = [socklist EXCEPT ![i].srcip = Next_(p).ip,
                                           ![i].srcport = Next_(p).port,
                                           ![i].bound = TRUE]
    BY DEF Bind
  <2>2. socklist \in Seq(SockNode)
    BY DEF Typed, KernelType
  <2>3. CASE i # 0
    <3>1. i \in DOMAIN socklist /\ socklist[i] \in SockNode
      BY <2>3, NodeLookup
    <3> HIDE DEF i
    <3>2. m \in SockNode
      BY <1>2, <3>1 DEF SockNode, NodeOf
    <3>3. [socklist EXCEPT ![i].srcip = Next_(p).ip, ![i].srcport = Next_(p).port,
                           ![i].bound = TRUE] = [socklist EXCEPT ![i] = m]
      OBVIOUS
    <3> HIDE DEF m
    <3> QED BY <2>1, <2>2, <3>1, <3>2, <3>3, UpdateSeq
  <2> QED BY <2>1, <2>2, <2>3
<1>5. UNCHANGED <<backlog_list, accept_queue, fds, toHost, toPeer, peer>>
  BY DEF Bind
<1> QED BY <1>3, <1>4, <1>5 DEF Typed, KernelType, NetType

LEMMA ListenTypes ==
  ASSUME Typed, NEW p \in Pids, Listen(p)
  PROVE  Typed'
<1> DEFINE i == Node(p)
           m == [socklist[i] EXCEPT !.status = "LISTENING", !.backlog = Next_(p).n]
<1>1. Enter(p, "listen") /\ Runs(p) /\ Next_(p).op = "listen" /\ i # 0
  BY DEF Listen, Enter
<1>2. Next_(p).n \in Nat
  BY <1>1, Running DEF IsCall
<1>3. AppsType' /\ ProgType'
  BY <1>1, ReturnsType DEF Ops, Listen
<1>4. socklist' \in Seq(SockNode)
  <2>1. socklist' = [socklist EXCEPT ![i].status = "LISTENING", ![i].backlog = Next_(p).n]
    BY DEF Listen
  <2>2. socklist \in Seq(SockNode)
    BY DEF Typed, KernelType
  <2>3. i \in DOMAIN socklist /\ socklist[i] \in SockNode
    BY <1>1, NodeLookup
  <2> HIDE DEF i
  <2>4. m \in SockNode
    BY <1>2, <2>3 DEF SockNode, NodeOf, Statuses
  <2>5. socklist' = [socklist EXCEPT ![i] = m]
    BY <2>1
  <2> HIDE DEF m
  <2> QED BY <2>2, <2>3, <2>4, <2>5, UpdateSeq
<1>5. UNCHANGED <<backlog_list, accept_queue, fds, toHost, toPeer, peer>>
  BY DEF Listen
<1> QED BY <1>3, <1>4, <1>5 DEF Typed, KernelType, NetType

\* A node with new numbers and a new status.
Numbered(n, id, seq, ack, st) ==
  [n EXCEPT !.uuid = id, !.seq = seq, !.ack = ack, !.status = st]

LEMMA NumberedType ==
  ASSUME NEW O, NEW D, NEW n \in NodeOf(O, D), NEW id \in Ids, NEW seq \in Int,
         NEW ack \in Int, NEW st \in Statuses
  PROVE  Numbered(n, id, seq, ack, st) \in NodeOf(O, D)
BY DEF Numbered, NodeOf

LEMMA ConnectTypes ==
  ASSUME Typed, NEW p \in Pids, Connect(p)
  PROVE  Typed'
<1> DEFINE i == Node(p)
           m(port) == [socklist[i] EXCEPT !.srcip = Here, !.srcport = port,
                         !.dest = Next_(p).to, !.bound = TRUE, !.uuid = Id(p),
                         !.seq = 0, !.ack = 0, !.status = "SYN_SENT"]
           syn == <<Segment("SYN", 0, 0, BUFSIZE, <<>>)>>
<1>1. Enter(p, "connect") /\ Runs(p) /\ Next_(p).op = "connect" /\ i # 0
  BY DEF Connect, Enter
<1>2. Next_(p).to \in Remotes /\ Id(p) \in Ids
  BY <1>1, Running DEF IsCall
<1>3. AppsType' /\ ProgType'
  BY <1>1, ReturnsType DEF Ops, Connect
<1>4. PICK port \in Ephemeral :
        /\ socklist' = [socklist EXCEPT ![i] = m(port)]
        /\ Post(<<Next_(p).to, port>>, syn)
  BY DEF Connect, allocate_port
<1>5. socklist' \in Seq(SockNode)
  <2>1. socklist \in Seq(SockNode)
    BY DEF Typed, KernelType
  <2>2. i \in DOMAIN socklist /\ socklist[i] \in SockNode
    BY <1>1, NodeLookup
  <2>3. port \in Nat
    BY EndpointsAssumption
  <2> HIDE DEF i
  <2>4. m(port) \in SockNode
    <3> DEFINE a == [socklist[i] EXCEPT !.srcip = Here, !.srcport = port,
                                        !.dest = Next_(p).to, !.bound = TRUE]
    <3>1. a \in SockNode
      BY <1>2, <2>2, <2>3 DEF SockNode, NodeOf
    <3>2. m(port) = [a EXCEPT !.uuid = Id(p), !.seq = 0, !.ack = 0, !.status = "SYN_SENT"]
      OBVIOUS
    <3> HIDE DEF a
    <3>3. "SYN_SENT" \in Statuses
      BY DEF Statuses
    <3>4. m(port) = Numbered(a, Id(p), 0, 0, "SYN_SENT")
      BY <3>2 DEF Numbered
    <3> HIDE DEF m
    <3> QED BY <1>2, <3>1, <3>3, <3>4, NumberedType DEF SockNode
  <2> HIDE DEF m
  <2> QED BY <1>4, <2>1, <2>2, <2>4, UpdateSeq
<1>6. toPeer' \in [Conns -> Seq(Segments)]
  <2>1. syn \in Seq(Segments)
    BY SegmentType, IndexFacts, Empties
  <2> HIDE DEF syn
  <2> QED BY <1>4, <2>1, PostType DEF Typed
<1>7. UNCHANGED <<backlog_list, accept_queue, fds, toHost, peer>>
  BY DEF Connect
<1> QED BY <1>3, <1>5, <1>6, <1>7 DEF Typed, KernelType, NetType

\* A listener looked up by descriptor is a node of the table.
LEMMA ListenerNamedLookup ==
  ASSUME Typed, NEW fd
  PROVE  /\ ListenerNamed(fd) # 0 =>
              /\ ListenerNamed(fd) \in DOMAIN socklist
              /\ socklist[ListenerNamed(fd)].sockfd = fd
              /\ socklist[ListenerNamed(fd)].status = "LISTENING"
<1> DEFINE S == {i \in DOMAIN socklist : /\ socklist[i].sockfd = fd
                                         /\ socklist[i].status = "LISTENING"}
<1>1. S \in SUBSET DOMAIN socklist /\ ListenerNamed(fd) = Least(S)
  BY DEF ListenerNamed
<1>2. socklist \in Seq(SockNode)
  BY DEF Typed, KernelType
<1>3. ListenerNamed(fd) # 0 => ListenerNamed(fd) \in S
  <2> HIDE DEF S
  <2> QED BY <1>1, <1>2, LeastPosition
<1> QED BY <1>3

\* The two cases of accept: a connection is found, or the call waits for one.
Asked(p) == IF Node(p) = 0 THEN 0 ELSE socklist[Node(p)].srcport
Found(p) == Least({j \in DOMAIN socklist :
                     Acceptable(socklist[j], socklist[ListenerNamed(On(p))].srcport, p)})

LEMMA AcceptCases ==
  ASSUME Typed, NEW p \in Pids, Accept(p)
  PROVE  /\ Enter(p, "accept") /\ Runs(p) /\ Next_(p).op = "accept"
         /\ Asked(p) \in Nat
         /\ ListenerNamed(On(p)) # 0 /\ ListenerNamed(On(p)) \in DOMAIN socklist
         /\ \/ /\ Found(p) # 0 /\ Found(p) \in DOMAIN socklist
               /\ Acceptable(socklist[Found(p)], socklist[ListenerNamed(On(p))].srcport, p)
               /\ socklist' = [socklist EXCEPT ![Found(p)].used = TRUE]
               /\ Reply({Answer(Id(p), socklist[Found(p)].sockfd)},
                        Called(p, Asked(p)))
               /\ accept_queue' = accept_queue
            \/ /\ Found(p) = 0
               /\ \A j \in DOMAIN socklist :
                    ~Acceptable(socklist[j], socklist[ListenerNamed(On(p))].srcport, p)
               /\ accept_queue' = Append(accept_queue,
                                    [uuid |-> Id(p), pid |-> p, sockfd |-> On(p)])
               /\ socklist' = socklist
               /\ Reply({}, Called(p, Asked(p)))
         /\ UNCHANGED <<backlog_list, fds, toHost, toPeer, peer>>
<1> DEFINE l == ListenerNamed(On(p))
           S == {j \in DOMAIN socklist : Acceptable(socklist[j], socklist[l].srcport, p)}
<1>1. Enter(p, "accept") /\ Runs(p) /\ Next_(p).op = "accept"
  BY DEF Accept, Enter
<1>2. Asked(p) \in Nat
  BY NodeLookup, NodeFields DEF Asked, SockNode
<1>3. socklist \in Seq(SockNode)
  BY DEF Typed, KernelType
<1>4. S \in SUBSET DOMAIN socklist /\ Found(p) = Least(S)
  BY DEF Found
<1>5. (Found(p) = 0 <=> S = {}) /\ (Found(p) # 0 => Found(p) \in S)
  <2> HIDE DEF S
  <2> QED BY <1>3, <1>4, LeastPosition
<1>6. l # 0
  BY DEF Accept
<1>7. \/ /\ Found(p) # 0
         /\ socklist' = [socklist EXCEPT ![Found(p)].used = TRUE]
         /\ Reply({Answer(Id(p), socklist[Found(p)].sockfd)}, Called(p, Asked(p)))
         /\ accept_queue' = accept_queue
      \/ /\ Found(p) = 0
         /\ accept_queue' = Append(accept_queue,
                              [uuid |-> Id(p), pid |-> p, sockfd |-> On(p)])
         /\ socklist' = socklist
         /\ Reply({}, Called(p, Asked(p)))
  BY DEF Accept, Found, Asked
<1>8. UNCHANGED <<backlog_list, fds, toHost, toPeer, peer>>
  BY DEF Accept
<1>9. l \in DOMAIN socklist
  BY <1>6, ListenerNamedLookup
<1>10. Found(p) # 0 => /\ Found(p) \in DOMAIN socklist
                       /\ Acceptable(socklist[Found(p)], socklist[l].srcport, p)
  BY <1>5
<1>11. Found(p) = 0 => \A j \in DOMAIN socklist : ~Acceptable(socklist[j], socklist[l].srcport, p)
  BY <1>5
<1> HIDE DEF l, S
<1> QED BY <1>1, <1>2, <1>6, <1>7, <1>8, <1>9, <1>10, <1>11 DEF l

LEMMA AcceptTypes ==
  ASSUME Typed, NEW p \in Pids, Accept(p)
  PROVE  Typed'
<1> DEFINE l == ListenerNamed(On(p))
           m == [socklist[Found(p)] EXCEPT !.used = TRUE]
           q == [uuid |-> Id(p), pid |-> p, sockfd |-> On(p)]
<1>1. socklist \in Seq(SockNode) /\ accept_queue \in Seq(QueueRecs)
  BY DEF Typed, KernelType
<1>2. Enter(p, "accept") /\ Runs(p) /\ Next_(p).op = "accept" /\ Asked(p) \in Nat
  BY AcceptCases
<1>3. Id(p) \in Ids
  BY <1>2, Running
<1>4. CASE Found(p) # 0
  <2>1. /\ Found(p) \in DOMAIN socklist
        /\ socklist' = [socklist EXCEPT ![Found(p)].used = TRUE]
        /\ Reply({Answer(Id(p), socklist[Found(p)].sockfd)}, Called(p, Asked(p)))
        /\ accept_queue' = accept_queue
    BY <1>4, AcceptCases
  <2>2. socklist[Found(p)] \in SockNode
    BY <1>1, <2>1
  <2>3. m \in SockNode
    BY <2>2 DEF SockNode, NodeOf
  <2>7. socklist[Found(p)].sockfd \in Int
    BY <2>2, NodeFields, MaxFdAssumption DEF SockNode, Descriptors
  <2>4. AppsType' /\ ProgType'
    BY <1>2, <1>3, <2>1, <2>7, AnswerType, Empties, CallTypes DEF Ops
  <2>5. socklist' = [socklist EXCEPT ![Found(p)] = m]
    BY <2>1
  <2>8. Found(p) \in DOMAIN socklist
    BY <2>1
  <2> HIDE DEF m
  <2>6. socklist' \in Seq(SockNode)
    BY <1>1, <2>3, <2>5, <2>8, UpdateSeq
  <2> QED BY <1>1, <2>1, <2>4, <2>6, AcceptCases DEF Typed, KernelType, NetType
<1>5. CASE Found(p) = 0
  <2>1. /\ accept_queue' = Append(accept_queue, q)
        /\ socklist' = socklist /\ Reply({}, Called(p, Asked(p)))
    BY <1>5, AcceptCases
  <2>2. On(p) \in Descriptors
    <3>1. l # 0
      BY AcceptCases
    <3>2. l \in DOMAIN socklist /\ socklist[l].sockfd = On(p)
      BY <3>1, ListenerNamedLookup
    <3>3. socklist[l] \in SockNode
      BY <1>1, <3>2
    <3> QED BY <3>2, <3>3, NodeFields DEF SockNode
  <2>3. q \in QueueRecs
    BY <1>3, <2>2 DEF QueueRecs
  <2> HIDE DEF q
  <2>4. accept_queue' \in Seq(QueueRecs)
    BY <1>1, <2>1, <2>3
  <2>5. AppsType' /\ ProgType'
    BY <1>2, <2>1, Empties, CallTypes DEF Ops
  <2> QED BY <1>1, <2>1, <2>4, <2>5, AcceptCases DEF Typed, KernelType, NetType
<1> QED BY <1>4, <1>5

LEMMA ReadTypes ==
  ASSUME Typed, NEW p \in Pids, Read(p)
  PROVE  Typed'
<1> DEFINE i == Node(p)
           n == socklist[i]
           len == Next_(p).n
           waits == [n EXCEPT !.read_uuid = Id(p), !.read_len = len]
<1>1. Enter(p, "read") /\ Runs(p) /\ Next_(p).op = "read" /\ i # 0
  BY DEF Read, Enter
<1>2. len \in 0..BUFSIZE /\ len \in Nat /\ Id(p) \in Ids
  BY <1>1, Running, IndexFacts DEF IsCall
<1>3. socklist \in Seq(SockNode) /\ i \in DOMAIN socklist /\ n \in SockNode
  BY <1>1, NodeLookup DEF Typed, KernelType
<1>4. UNCHANGED <<backlog_list, accept_queue, fds, toHost, toPeer, peer>>
  BY DEF Read
<1>5. \/ socklist' = [socklist EXCEPT ![i] = waits] /\ Blocks(p)
      \/ /\ n.recv_len >= len
         /\ socklist' = [socklist EXCEPT ![i] = Consumed(n, len)]
         /\ Reply({ReadAnswer(Id(p), n, len)}, Called(p, 0))
      \/ socklist' = socklist /\ Returns(p, -1)
  <2>1. [socklist EXCEPT ![i].read_uuid = Id(p), ![i].read_len = len]
          = [socklist EXCEPT ![i] = waits]
    OBVIOUS
  <2> QED BY <2>1 DEF Read
<1> HIDE DEF i, len, n
<1>6. CASE socklist' = [socklist EXCEPT ![i] = waits] /\ Blocks(p)
  <2>1. waits \in SockNode
    BY <1>2, <1>3 DEF SockNode, NodeOf
  <2> HIDE DEF waits
  <2>2. socklist' \in Seq(SockNode)
    BY <1>3, <1>6, <2>1, UpdateSeq
  <2>3. AppsType' /\ ProgType'
    BY <1>1, <1>6, ReturnsType DEF Ops
  <2> QED BY <1>4, <2>2, <2>3 DEF Typed, KernelType, NetType
<1>7. CASE /\ n.recv_len >= len
           /\ socklist' = [socklist EXCEPT ![i] = Consumed(n, len)]
           /\ Reply({ReadAnswer(Id(p), n, len)}, Called(p, 0))
  <2>1. n.recv_buffer \in Buffer /\ n.start_r \in Int /\ n.recv_len \in Nat
    BY <1>3, NodeFields, IndexFacts DEF SockNode
  <2>2. Consumed(n, len) \in SockNode
    BY <1>2, <1>3, <1>7, <2>1, ConsumedType DEF SockNode
  <2>3. socklist' \in Seq(SockNode)
    BY <1>3, <1>7, <2>2, UpdateSeq
  <2>4. {ReadAnswer(Id(p), n, len)} \in SUBSET AnswerRecs
    BY <1>2, <1>3, ReadAnswerType DEF SockNode
  <2>5. AppsType' /\ ProgType'
    BY <1>1, <1>7, <2>4, CallTypes DEF Ops
  <2> QED BY <1>4, <2>3, <2>5 DEF Typed, KernelType, NetType
<1>8. CASE socklist' = socklist /\ Returns(p, -1)
  <2>1. AppsType' /\ ProgType'
    BY <1>1, <1>8, ReturnsType DEF Ops
  <2> QED BY <1>3, <1>4, <1>8, <2>1 DEF Typed, KernelType, NetType
<1> QED BY <1>5, <1>6, <1>7, <1>8

LEMMA StoredWrite ==
  ASSUME NEW O, NEW D, NEW n \in NodeOf(O, D), NEW len \in 0..BUFSIZE, len <= n.send_len,
         NEW bytes \in Bytes
  PROVE  [n EXCEPT !.send_buffer = Store(@, n.start_s, bytes),
                   !.start_s = Wrap(@ + len), !.send_len = @ - len] \in NodeOf(O, D)
<1>1. n.start_s \in Int /\ n.send_len - len \in Nat
  BY NodeFields, IndexFacts
<1>2. Wrap(n.start_s + len) \in Index /\ Store(n.send_buffer, n.start_s, bytes) \in Buffer
  BY <1>1, NodeFields, WrapType, StoreType
<1> QED BY <1>1, <1>2 DEF NodeOf

LEMMA SubText ==
  ASSUME NEW s \in Seq(Int), NEW len \in 0..Len(s)
  PROVE  SubSeq(s, 1, len) \in Bytes
BY SubSeqProperties DEF Bytes

\* What write does in its three cases.
WriteText(p) == [k \in 1..BUFSIZE |-> wrote[p] + k]
WriteLen(p) == LET n == socklist[Node(p)]
               IN  IF n.send_len < Next_(p).n THEN n.send_len ELSE Next_(p).n
WriteNode(p) == [socklist[Node(p)] EXCEPT
                   !.send_buffer = Store(@, socklist[Node(p)].start_s,
                                         SubSeq(WriteText(p), 1, WriteLen(p))),
                   !.start_s = Wrap(@ + WriteLen(p)), !.send_len = @ - WriteLen(p)]
WriteSent(p) == send_segments([WriteNode(p) EXCEPT !.sending = TRUE],
                              socklist[Node(p)].cwnd \div MSS)
WriteWaits(p) == [socklist[Node(p)] EXCEPT
                    !.write_uuid = Id(p),
                    !.write_buf = Store(@, 0, SubSeq(WriteText(p), 1, Next_(p).n))]

LEMMA WriteCases ==
  ASSUME NEW p \in Pids, Write(p)
  PROVE  LET i == Node(p)
             n == socklist[i]
         IN  /\ Enter(p, "write") /\ Runs(p) /\ Next_(p).op = "write" /\ i # 0
             /\ \/ /\ n.status = "ESTAB" /\ n.send_len > 0
                   /\ socklist' = [socklist EXCEPT ![i] = IF n.sending THEN WriteNode(p)
                                                          ELSE WriteSent(p).node]
                   /\ Post(<<n.dest, n.srcport>>, IF n.sending THEN <<>> ELSE WriteSent(p).out)
                   /\ Returns(p, WriteLen(p))
                \/ /\ n.status = "ESTAB" /\ n.send_len = 0
                   /\ socklist' = [socklist EXCEPT ![i] = WriteWaits(p)]
                   /\ toPeer' = toPeer
                   /\ Blocks(p)
                \/ /\ n.status # "ESTAB"
                   /\ socklist' = socklist /\ toPeer' = toPeer
                   /\ Returns(p, -1)
             /\ UNCHANGED <<backlog_list, accept_queue, fds, toHost, peer>>
<1>1. Enter(p, "write") /\ Runs(p) /\ Next_(p).op = "write" /\ Node(p) # 0
  BY DEF Write, Enter
<1>2. [socklist EXCEPT ![Node(p)].write_uuid = Id(p),
                       ![Node(p)].write_buf = Store(@, 0, SubSeq(WriteText(p), 1, Next_(p).n))]
        = [socklist EXCEPT ![Node(p)] = WriteWaits(p)]
  BY DEF WriteWaits
<1> QED BY <1>1, <1>2 DEF Write, WriteNode, WriteLen, WriteText, WriteSent

LEMMA WritePartTypes ==
  ASSUME Typed, NEW p \in Pids, Write(p)
  PROVE  /\ Node(p) \in DOMAIN socklist /\ socklist[Node(p)] \in SockNode
         /\ WriteLen(p) \in Nat
         /\ WriteNode(p) \in SockNode /\ WriteWaits(p) \in SockNode
         /\ WriteSent(p).node \in SockNode /\ WriteSent(p).out \in Seq(Segments)
<1> DEFINE n == socklist[Node(p)]
           sends == [WriteNode(p) EXCEPT !.sending = TRUE]
<1>1. Runs(p) /\ Next_(p).op = "write" /\ Node(p) # 0
  BY WriteCases
<1>2. Next_(p).n \in 0..BUFSIZE /\ Id(p) \in Ids
  BY <1>1, Running DEF IsCall
<1>3. Node(p) \in DOMAIN socklist /\ n \in SockNode
  BY <1>1, NodeLookup
<1>4. n.send_len \in Nat /\ n.cwnd \in Nat /\ n.write_buf \in Buffer
  BY <1>3, NodeFields DEF SockNode
<1>5. WriteLen(p) \in 0..BUFSIZE /\ WriteLen(p) <= n.send_len
  BY <1>2, <1>4, IndexFacts DEF WriteLen
<1>6. WriteText(p) \in Seq(Int) /\ Len(WriteText(p)) = BUFSIZE
  <2>1. wrote[p] \in Int
    BY DEF Typed, AppsType
  <2> QED BY <2>1, IndexFacts DEF WriteText
<1>7. /\ SubSeq(WriteText(p), 1, WriteLen(p)) \in Bytes
      /\ SubSeq(WriteText(p), 1, Next_(p).n) \in Bytes
  BY <1>2, <1>5, <1>6, SubText
<1>8. WriteNode(p) \in SockNode
  BY <1>3, <1>5, <1>7, StoredWrite DEF WriteNode, SockNode
<1>9. WriteWaits(p) \in SockNode
  <2>1. Store(n.write_buf, 0, SubSeq(WriteText(p), 1, Next_(p).n)) \in Buffer
    BY <1>4, <1>7, StoreType
  <2> QED BY <1>2, <1>3, <2>1 DEF WriteWaits, SockNode, NodeOf
<1>10. n.cwnd \div MSS \in Nat
  BY <1>4, IndexFacts
<1>11. sends \in SockNode
  BY <1>8 DEF SockNode, NodeOf
<1> HIDE DEF sends
<1>12. send_segments(sends, n.cwnd \div MSS).node \in SockNode
       /\ send_segments(sends, n.cwnd \div MSS).out \in Seq(Segments)
  BY <1>10, <1>11, SendSegmentsType DEF SockNode
<1> QED BY <1>3, <1>5, <1>8, <1>9, <1>12 DEF WriteSent, sends

LEMMA WriteTypes ==
  ASSUME Typed, NEW p \in Pids, Write(p)
  PROVE  Typed'
<1> DEFINE i == Node(p)
           n == socklist[i]
<1>1. Enter(p, "write") /\ UNCHANGED <<backlog_list, accept_queue, fds, toHost, peer>>
  BY WriteCases
<1>2. socklist \in Seq(SockNode)
  BY DEF Typed, KernelType
<1>3. AppsType' /\ ProgType'
  <2>1. Blocks(p) \/ Returns(p, -1) \/ Returns(p, WriteLen(p))
    BY WriteCases
  <2> QED BY <1>1, <2>1, ReturnsType, WritePartTypes DEF Ops
<1>4. socklist' \in Seq(SockNode)
  <2>1. \/ socklist' = socklist
        \/ \E m \in SockNode : socklist' = [socklist EXCEPT ![i] = m]
    BY WriteCases, WritePartTypes
  <2>2. i \in DOMAIN socklist
    BY WritePartTypes
  <2> HIDE DEF i
  <2> QED BY <1>2, <2>1, <2>2, UpdateSeq
<1>5. toPeer' \in [Conns -> Seq(Segments)]
  <2>1. \/ toPeer' = toPeer
        \/ \E c, out : out \in Seq(Segments) /\ Post(c, out)
    BY WriteCases, WritePartTypes, Empties
  <2>2. NetType
    BY DEF Typed
  <2> QED BY <2>1, <2>2, PostType DEF NetType
<1> QED BY <1>1, <1>3, <1>4, <1>5 DEF Typed, KernelType, NetType

\* What close does in its three cases.
Fin_(seq) == Segment("FIN", seq, 0, BUFSIZE, <<>>)
CloseSent(p) == send_segments(socklist[Node(p)], BUFSIZE \div MSS)
ActiveClosed(p) == [CloseSent(p).node EXCEPT !.bound = FALSE, !.uuid = Id(p),
                                             !.status = "FIN_WAIT_1"]
PassiveClosed(p) == [socklist[Node(p)] EXCEPT !.bound = FALSE, !.uuid = Id(p),
                                              !.status = "LAST_ACK"]
Unbound(p) == [socklist[Node(p)] EXCEPT !.bound = FALSE]

LEMMA CloseCases ==
  ASSUME NEW p \in Pids, Close(p)
  PROVE  LET i == Node(p)
             n == socklist[i]
             c == <<n.dest, n.srcport>>
         IN  /\ Enter(p, "close") /\ Runs(p) /\ Next_(p).op = "close" /\ i # 0
             /\ \/ /\ n.status = "ESTAB"
                   /\ socklist' = [socklist EXCEPT ![i] = ActiveClosed(p)]
                   /\ Post(c, Append(CloseSent(p).out, Fin_(CloseSent(p).node.seq)))
                   /\ Blocks(p)
                \/ /\ n.status = "CLOSE_WAIT"
                   /\ socklist' = [socklist EXCEPT ![i] = PassiveClosed(p)]
                   /\ Post(c, <<Fin_(n.seq)>>)
                   /\ Returns(p, -1)
                \/ /\ n.status \notin {"ESTAB", "CLOSE_WAIT"}
                   /\ socklist' = [socklist EXCEPT ![i] = Unbound(p)]
                   /\ toPeer' = toPeer
                   /\ Blocks(p)
             /\ UNCHANGED <<backlog_list, accept_queue, fds, toHost, peer>>
<1>1. Enter(p, "close") /\ Runs(p) /\ Next_(p).op = "close" /\ Node(p) # 0
  BY DEF Close, Enter
<1>2. [socklist EXCEPT ![Node(p)].bound = FALSE] = [socklist EXCEPT ![Node(p)] = Unbound(p)]
  BY DEF Unbound
<1>3. [[socklist[Node(p)] EXCEPT !.bound = FALSE, !.uuid = Id(p)] EXCEPT !.status = "LAST_ACK"]
        = PassiveClosed(p)
  BY DEF PassiveClosed
<1> QED BY <1>1, <1>2, <1>3 DEF Close, CloseSent, ActiveClosed, Fin_

LEMMA ClosePartTypes ==
  ASSUME Typed, NEW p \in Pids, Close(p)
  PROVE  /\ Node(p) \in DOMAIN socklist /\ socklist[Node(p)] \in SockNode
         /\ ActiveClosed(p) \in SockNode /\ PassiveClosed(p) \in SockNode
         /\ Unbound(p) \in SockNode
         /\ CloseSent(p).node \in SockNode /\ CloseSent(p).out \in Seq(Segments)
         /\ Fin_(CloseSent(p).node.seq) \in Segments /\ Fin_(socklist[Node(p)].seq) \in Segments
<1>1. Runs(p) /\ Node(p) # 0
  BY CloseCases
<1>2. Node(p) \in DOMAIN socklist /\ socklist[Node(p)] \in SockNode /\ Id(p) \in Ids
  BY <1>1, NodeLookup, Running
<1>3. BUFSIZE \div MSS \in Nat
  BY IndexFacts
<1>4. CloseSent(p).node \in SockNode /\ CloseSent(p).out \in Seq(Segments)
  BY <1>2, <1>3, SendSegmentsType DEF CloseSent, SockNode
<1>8. ActiveClosed(p) \in SockNode
  BY <1>2, <1>4 DEF ActiveClosed, SockNode, NodeOf, Statuses
<1>9. PassiveClosed(p) \in SockNode
  BY <1>2 DEF PassiveClosed, SockNode, NodeOf, Statuses
<1>10. Unbound(p) \in SockNode
  BY <1>2 DEF Unbound, SockNode, NodeOf
<1>6. CloseSent(p).node.seq \in Int /\ socklist[Node(p)].seq \in Int
  BY <1>2, <1>4, NodeFields DEF SockNode
<1>7. Fin_(CloseSent(p).node.seq) \in Segments /\ Fin_(socklist[Node(p)].seq) \in Segments
  BY <1>6, SegmentType, IndexFacts, Empties DEF Fin_
<1> QED BY <1>2, <1>4, <1>7, <1>8, <1>9, <1>10

LEMMA CloseTypes ==
  ASSUME Typed, NEW p \in Pids, Close(p)
  PROVE  Typed'
<1> DEFINE i == Node(p)
<1>1. Enter(p, "close") /\ UNCHANGED <<backlog_list, accept_queue, fds, toHost, peer>>
  BY CloseCases
<1>2. socklist \in Seq(SockNode)
  BY DEF Typed, KernelType
<1>3. AppsType' /\ ProgType'
  <2>1. Blocks(p) \/ Returns(p, -1)
    BY CloseCases
  <2> QED BY <1>1, <2>1, ReturnsType DEF Ops
<1>4. socklist' \in Seq(SockNode)
  <2>1. \E m \in SockNode : socklist' = [socklist EXCEPT ![i] = m]
    BY CloseCases, ClosePartTypes
  <2>2. i \in DOMAIN socklist
    BY ClosePartTypes
  <2> HIDE DEF i
  <2> QED BY <1>2, <2>1, <2>2, UpdateSeq
<1>5. toPeer' \in [Conns -> Seq(Segments)]
  <2>1. /\ Append(CloseSent(p).out, Fin_(CloseSent(p).node.seq)) \in Seq(Segments)
        /\ <<Fin_(socklist[i].seq)>> \in Seq(Segments)
    BY ClosePartTypes
  <2>2. \/ toPeer' = toPeer
        \/ \E c, out : out \in Seq(Segments) /\ Post(c, out)
    BY <2>1, CloseCases
  <2>3. NetType
    BY DEF Typed
  <2> QED BY <2>2, <2>3, PostType DEF NetType
<1> QED BY <1>1, <1>3, <1>4, <1>5 DEF Typed, KernelType, NetType

LEMMA SkipTypes ==
  ASSUME Typed, NEW p \in Pids, Skip(p)
  PROVE  Typed'
<1>1. ProgType' /\ UNCHANGED <<kernel, apps, toHost, toPeer, peer>>
  BY Running DEF Skip
<1> QED BY <1>1 DEF Typed, KernelType, AppsType, NetType, kernel, apps

\* Connections and arrivals.
LEMMA ConnFacts ==
  ASSUME NEW c \in Conns
  PROVE  c = <<c[1], c[2]>> /\ c[1] \in Remotes /\ c[2] \in Nat \ {0}
<1>1. CASE c \in Incoming
  <2>1. c \in Remotes \X (Nat \ {0})
    BY <1>1, EndpointsAssumption
  <2> QED BY <2>1
<1>2. CASE c \in Servers \X Ephemeral
  <2>1. c[1] \in Servers /\ c[2] \in Ephemeral /\ c = <<c[1], c[2]>>
    BY <1>2
  <2> QED BY <2>1, EndpointsAssumption
<1> QED BY <1>1, <1>2 DEF Conns

LEMMA ArrivingFacts ==
  ASSUME Typed, NEW c \in Conns, Delivers(c)
  PROVE  /\ Head(toHost[c]) \in ShortSegments
         /\ Len(toHost[c]) > 0
         /\ toHost' \in [Conns -> Seq(ShortSegments)]
         /\ toHost'[c] = Tail(toHost[c])
         /\ \A d \in Conns : d # c => toHost'[d] = toHost[d]
<1>1. toHost \in [Conns -> Seq(ShortSegments)] /\ toHost[c] # <<>>
  BY DEF Typed, NetType, Delivers
<1>2. /\ Head(toHost[c]) \in ShortSegments /\ Tail(toHost[c]) \in Seq(ShortSegments)
      /\ Len(toHost[c]) > 0
  BY <1>1
<1>3. toHost' = [toHost EXCEPT ![c] = Tail(toHost[c])]
  BY DEF Delivers
<1> QED BY <1>1, <1>2, <1>3

LEMMA SegmentFields ==
  ASSUME NEW m \in ShortSegments
  PROVE  /\ m \in Segments
         /\ m.flags \in {"SYN", "SYNACK", "ACK", "FIN"} /\ m.seq \in Int /\ m.ack \in Int
         /\ m.win \in Int /\ m.data \in Bytes /\ Len(m.data) \in 0..BUFSIZE
<1>1. m \in Segments /\ Len(m.data) <= BUFSIZE
  BY DEF ShortSegments
<1>2. m.data \in Bytes
  BY <1>1 DEF Segments
<1>3. Len(m.data) \in Nat
  BY <1>2 DEF Bytes
<1> QED BY <1>1, <1>2, <1>3, IndexFacts DEF Segments

\* A half-open connection for listener l.
Half(l, r, ack) == [l EXCEPT !.dest = r, !.seq = 0, !.ack = ack, !.status = "SYN_RCVD"]
NoListener == [FreshNode(-1, -2, "LISTENING") EXCEPT !.backlog = 1]
ListenerOf(port) == IF Listener(socklist, port) = 0 THEN NoListener
                    ELSE socklist[Listener(socklist, port)]

LEMMA ListenerLookup ==
  ASSUME Typed, NEW port
  PROVE  /\ Listener(socklist, port) # 0 =>
              LET i == Listener(socklist, port)
              IN  /\ i \in DOMAIN socklist /\ socklist[i] \in SockNode
                  /\ socklist[i].srcport \in {port, 0} /\ socklist[i].status = "LISTENING"
                  /\ socklist[i].sockfd \in Descriptors
         /\ \A i \in DOMAIN socklist :
              socklist[i].srcport \in {port, 0} /\ socklist[i].status = "LISTENING" =>
                Listener(socklist, port) # 0 /\ Listener(socklist, port) <= i
<1> DEFINE S == {i \in DOMAIN socklist : /\ socklist[i].srcport \in {port, 0}
                                         /\ socklist[i].status = "LISTENING"}
<1>1. S \in SUBSET DOMAIN socklist /\ Listener(socklist, port) = Least(S)
  BY DEF Listener
<1>2. socklist \in Seq(SockNode)
  BY DEF Typed, KernelType
<1>3. /\ Listener(socklist, port) = 0 <=> S = {}
      /\ Listener(socklist, port) # 0 => /\ Listener(socklist, port) \in S
                                         /\ \A j \in S : Listener(socklist, port) <= j
  <2> HIDE DEF S
  <2> QED BY <1>1, <1>2, LeastPosition
<1>4. \A i \in DOMAIN socklist : socklist[i] \in SockNode /\ socklist[i].sockfd \in Descriptors
  BY <1>2, NodeFields DEF SockNode
<1> QED BY <1>3, <1>4

LEMMA NodeMonotone ==
  ASSUME NEW O, NEW D, NEW O2, NEW D2, O \subseteq O2, D \subseteq D2, NEW n \in NodeOf(O, D)
  PROVE  n \in NodeOf(O2, D2)
BY DEF NodeOf

LEMMA HalfFields ==
  ASSUME NEW O, NEW D, NEW n \in NodeOf(O, D), NEW r \in Remotes, NEW ack \in Int
  PROVE  /\ Half(n, r, ack) \in NodeOf(O, D)
         /\ Half(n, r, ack).dest = r /\ Half(n, r, ack).seq = 0
         /\ Half(n, r, ack).ack = ack /\ Half(n, r, ack).status = "SYN_RCVD"
         /\ Half(n, r, ack).owner = n.owner /\ Half(n, r, ack).sockfd = n.sockfd
         /\ Half(n, r, ack).srcport = n.srcport /\ Half(n, r, ack).srcip = n.srcip
         /\ Half(n, r, ack).used = n.used
<1>1. 0 \in Int /\ "SYN_RCVD" \in Statuses
  BY DEF Statuses
<1>2. Half(n, r, ack) \in NodeOf(O, D)
  BY <1>1 DEF Half, NodeOf
<1> QED BY <1>2 DEF Half, NodeOf

LEMMA HalfType ==
  ASSUME Typed, NEW r \in Remotes, NEW ack \in Int, NEW port
  PROVE  Half(ListenerOf(port), r, ack) \in HalfNode
<1>1. NoListener \in NodeOf({-1}, {-2}) /\ NoListener.sockfd = -2
  <2>1. FreshNode(-1, -2, "LISTENING") \in NodeOf({-1}, {-2})
    BY FreshType DEF Statuses
  <2>2. NoListener \in NodeOf({-1}, {-2})
    BY <2>1 DEF NodeOf, NoListener
  <2> QED BY <2>2, NodeFields
<1>2. Listener(socklist, port) # 0 => ListenerOf(port) \in SockNode
  BY ListenerLookup DEF ListenerOf
<1>3. CASE Listener(socklist, port) = 0
  <2>1. ListenerOf(port) \in NodeOf({-1}, {-2})
    BY <1>1, <1>3 DEF ListenerOf
  <2>2. /\ Half(ListenerOf(port), r, ack) \in NodeOf({-1}, {-2})
        /\ Half(ListenerOf(port), r, ack).sockfd = -2
        /\ Half(ListenerOf(port), r, ack).status = "SYN_RCVD"
        /\ Half(ListenerOf(port), r, ack).dest = r
    BY <2>1, HalfFields, NodeFields
  <2>3. Half(ListenerOf(port), r, ack) \in NodeOf(Pids \cup {-1}, Descriptors \cup {-2})
    BY <2>2, NodeMonotone
  <2> QED BY <2>2, <2>3 DEF HalfNode
<1>4. CASE Listener(socklist, port) # 0
  <2>1. ListenerOf(port) \in SockNode
    BY <1>2, <1>4
  <2>2. /\ Half(ListenerOf(port), r, ack) \in NodeOf(Pids, Descriptors)
        /\ Half(ListenerOf(port), r, ack).owner \in Pids
        /\ Half(ListenerOf(port), r, ack).status = "SYN_RCVD"
        /\ Half(ListenerOf(port), r, ack).dest = r
    BY <2>1, HalfFields, NodeFields DEF SockNode
  <2>3. Half(ListenerOf(port), r, ack) \in NodeOf(Pids \cup {-1}, Descriptors \cup {-2})
    BY <2>2, NodeMonotone
  <2> QED BY <2>2, <2>3 DEF HalfNode
<1> QED BY <1>3, <1>4

\* The two cases of a SYN.
Fits(c) == LET i == Listener(socklist, c[2])
           IN  /\ ~in_list(backlog_list, IF i = 0 THEN -1 ELSE socklist[i].sockfd, c[1])
               /\ i = 0 \/ Room(backlog_list, socklist[i])

LEMMA SynCases ==
  ASSUME NEW c \in Conns, Syn(c)
  PROVE  LET n == Half(ListenerOf(c[2]), c[1], Head(toHost[c]).seq + 1)
         IN  /\ Delivers(c) /\ Head(toHost[c]).flags = "SYN"
             /\ \/ /\ Fits(c)
                   /\ backlog_list' = Append(backlog_list, n)
                   /\ Post(c, <<Segment("SYNACK", 0, n.ack, BUFSIZE, <<>>)>>)
                \/ /\ ~(Listener(socklist, c[2]) # 0 /\ Fits(c))
                   /\ backlog_list' = backlog_list /\ toPeer' = toPeer
             /\ UNCHANGED <<socklist, accept_queue, fds, apps, prog, peer>>
<1>1. Delivers(c) /\ Head(toHost[c]).flags = "SYN"
  BY DEF Syn, Arriving
<1>2. UNCHANGED <<socklist, accept_queue, fds, apps, prog, peer>>
  BY DEF Syn
<1>3. CASE Listener(socklist, c[2]) = 0
  BY <1>1, <1>2, <1>3 DEF Syn, Fits, Half, ListenerOf, NoListener
<1>4. CASE Listener(socklist, c[2]) # 0
  BY <1>1, <1>2, <1>4 DEF Syn, Fits, Half, ListenerOf
<1> QED BY <1>3, <1>4

LEMMA SynTypes ==
  ASSUME Typed, NEW c \in Conns, Syn(c)
  PROVE  Typed'
<1> DEFINE m == Head(toHost[c])
           n == Half(ListenerOf(c[2]), c[1], m.seq + 1)
<1>0. Delivers(c)
  BY SynCases
<1>1. /\ m \in ShortSegments /\ c[1] \in Remotes /\ m.seq + 1 \in Int
      /\ toHost' \in [Conns -> Seq(ShortSegments)]
  <2>1. m \in ShortSegments /\ toHost' \in [Conns -> Seq(ShortSegments)]
    BY <1>0, ArrivingFacts
  <2>2. m.seq \in Int
    BY <2>1, SegmentFields
  <2> QED BY <2>1, <2>2, ConnFacts
<1>2. n \in HalfNode
  BY <1>1, HalfType
<1>3. n.ack \in Int
  BY <1>2, NodeFields DEF HalfNode
<1>4. <<Segment("SYNACK", 0, n.ack, BUFSIZE, <<>>)>> \in Seq(Segments)
  BY <1>3, SegmentType, IndexFacts, Empties
<1>5. \/ /\ backlog_list' = Append(backlog_list, n)
         /\ Post(c, <<Segment("SYNACK", 0, n.ack, BUFSIZE, <<>>)>>)
      \/ backlog_list' = backlog_list /\ toPeer' = toPeer
  BY SynCases
<1>6. UNCHANGED <<socklist, accept_queue, fds, apps, prog, peer>>
  BY SynCases
<1> HIDE DEF n
<1>7. backlog_list' \in Seq(HalfNode)
  <2>1. backlog_list \in Seq(HalfNode)
    BY DEF Typed, KernelType
  <2> QED BY <1>2, <1>5, <2>1
<1>8. toPeer' \in [Conns -> Seq(Segments)]
  BY <1>4, <1>5, PostType DEF Typed, NetType
<1> QED BY <1>1, <1>6, <1>7, <1>8 DEF Typed, KernelType, NetType, AppsType, ProgType, apps

\* A SYN+ACK opens the sockets that wait for it.
Mine(c) == {i \in DOMAIN socklist : Expecting(socklist[i], c[2])}
Opened(i, m) == [socklist[i] EXCEPT !.status = "ESTAB", !.seq = m.ack, !.ack = m.seq + 1]

LEMMA SynAckCases ==
  ASSUME NEW c \in Conns, SynAck(c)
  PROVE  LET m == Head(toHost[c])
         IN  /\ Delivers(c) /\ m.flags = "SYNACK"
             /\ socklist' = [i \in DOMAIN socklist |->
                               IF i \in Mine(c) THEN Opened(i, m) ELSE socklist[i]]
             /\ Post(c, [k \in 1..Cardinality(Mine(c)) |->
                           Segment("ACK", m.ack, m.seq + 1, BUFSIZE, <<>>)])
             /\ Reply({Answer(socklist[i].uuid, 0) : i \in Mine(c)}, calls)
             /\ UNCHANGED <<backlog_list, accept_queue, fds, prog, peer>>
BY DEF SynAck, Arriving, Mine, Opened

LEMMA SynAckTypes ==
  ASSUME Typed, NEW c \in Conns, SynAck(c)
  PROVE  Typed'
<1> DEFINE m == Head(toHost[c])
           A == {Answer(socklist[i].uuid, 0) : i \in Mine(c)}
           seg == Segment("ACK", m.ack, m.seq + 1, BUFSIZE, <<>>)
<1>0. Delivers(c)
  BY SynAckCases
<1>1. m \in ShortSegments /\ toHost' \in [Conns -> Seq(ShortSegments)]
  BY <1>0, ArrivingFacts
<1>2. m.ack \in Int /\ m.seq \in Int
  BY <1>1, SegmentFields
<1>3. socklist \in Seq(SockNode) /\ DOMAIN socklist = 1..Len(socklist) /\ Len(socklist) \in Nat
  BY DEF Typed, KernelType
<1>4. ASSUME NEW i \in DOMAIN socklist
      PROVE  (IF i \in Mine(c) THEN Opened(i, m) ELSE socklist[i]) \in SockNode
  <2>1. socklist[i] \in SockNode /\ "ESTAB" \in Statuses /\ m.seq + 1 \in Int
    BY <1>2, <1>3 DEF Statuses
  <2>2. Opened(i, m) \in SockNode
    BY <1>2, <2>1 DEF Opened, SockNode, NodeOf
  <2> QED BY <2>1, <2>2
<1>5. socklist' \in Seq(SockNode)
  <2> DEFINE f(i) == IF i \in Mine(c) THEN Opened(i, m) ELSE socklist[i]
  <2>1. socklist' = [i \in 1..Len(socklist) |-> f(i)]
    BY <1>3, SynAckCases
  <2>2. \A i \in 1..Len(socklist) : f(i) \in SockNode
    BY <1>3, <1>4
  <2> HIDE DEF f
  <2> QED BY <1>3, <2>1, <2>2
<1>6. \A i \in DOMAIN socklist : socklist[i].uuid \in Ids
  BY <1>3, NodeFields DEF SockNode
<1>7. A \in SUBSET AnswerRecs
  BY <1>6, AnswerType, Empties DEF Mine
<1>8. AppsType'
  BY <1>7, SynAckCases, ReplyFacts DEF Typed, AppsType
<1>9. seg \in Segments
  BY <1>2, SegmentType, IndexFacts, Empties
<1>10. Cardinality(Mine(c)) \in Nat
  <2>1. IsFiniteSet(1..Len(socklist))
    BY <1>3, FS_Interval
  <2>2. Mine(c) \subseteq 1..Len(socklist)
    BY <1>3 DEF Mine
  <2> QED BY <2>1, <2>2, FS_Subset, FS_CardinalityType
<1> HIDE DEF seg
<1>11. [k \in 1..Cardinality(Mine(c)) |-> seg] \in Seq(Segments)
  BY <1>9, <1>10
<1>12. toPeer' \in [Conns -> Seq(Segments)]
  BY <1>11, SynAckCases, PostType DEF seg, Typed
<1> QED BY <1>1, <1>5, <1>8, <1>12, SynAckCases DEF Typed, KernelType, NetType, ProgType

\* The handlers of an ACK leave the identity of a node alone.
SameSocket(m, n) ==
  /\ m.owner = n.owner /\ m.sockfd = n.sockfd /\ m.srcip = n.srcip
  /\ m.srcport = n.srcport /\ m.dest = n.dest /\ m.used = n.used
  /\ m.uuid = n.uuid /\ m.backlog = n.backlog

\* A read that is not answered goes on, in a node that has less than it wants.
ReadGoesOn(m, n) ==
  /\ m.read_uuid = n.read_uuid /\ m.read_len = n.read_len
  /\ n.recv_len < n.read_len => m.recv_len < m.read_len

Stored(n, m) ==
  [n EXCEPT !.recv_buffer = Store(@, n.end_r, m.data),
            !.recv_len = @ + Len(m.data), !.end_r = Wrap(@ + Len(m.data)),
            !.ack = m.seq + Len(m.data)]
Left(n, m) == IF Satisfied(Stored(n, m))
              THEN [Consumed(Stored(n, m), n.read_len) EXCEPT !.read_uuid = None]
              ELSE Stored(n, m)

LEMMA StoredType ==
  ASSUME NEW n \in SockNode, NEW m \in ShortSegments
  PROVE  /\ Stored(n, m) \in SockNode
         /\ SameSocket(Stored(n, m), n) /\ Stored(n, m).status = n.status
         /\ Stored(n, m).read_uuid = n.read_uuid /\ Stored(n, m).read_len = n.read_len
         /\ Stored(n, m).recv_len = n.recv_len + Len(m.data)
         /\ Stored(n, m).start_r = n.start_r
<1>1. Len(m.data) \in 0..BUFSIZE /\ m.data \in Bytes /\ m.seq \in Int
  BY SegmentFields
<1>2. n.end_r \in Int /\ n.recv_len + Len(m.data) \in Nat /\ m.seq + Len(m.data) \in Int
  BY <1>1, NodeFields, IndexFacts DEF SockNode
<1>3. Wrap(n.end_r + Len(m.data)) \in Index
  BY <1>1, NodeFields, WrapType DEF SockNode
<1>4. Store(n.recv_buffer, n.end_r, m.data) \in Buffer
  BY <1>1, <1>2, NodeFields, StoreType DEF SockNode
<1>5. Stored(n, m) \in SockNode
  BY <1>2, <1>3, <1>4 DEF Stored, SockNode, NodeOf
<1>6. SameSocket(Stored(n, m), n)
  BY DEF Stored, SameSocket, SockNode, NodeOf
<1> QED BY <1>5, <1>6 DEF Stored, SockNode, NodeOf

LEMMA LeftType ==
  ASSUME NEW n \in SockNode, NEW m \in ShortSegments
  PROVE  /\ Left(n, m) \in SockNode
         /\ SameSocket(Left(n, m), n) /\ Left(n, m).status = n.status
         /\ ~Satisfied(Stored(n, m)) => Left(n, m) = Stored(n, m)
<1> DEFINE s == Stored(n, m)
<1>1. s \in SockNode /\ SameSocket(s, n) /\ s.status = n.status
      /\ s.read_len = n.read_len
  BY StoredType
<1>2. CASE Satisfied(s)
  <2>1. n.read_len \in 0..BUFSIZE /\ n.read_len <= s.recv_len
    BY <1>1, <1>2, NodeFields DEF Satisfied, SockNode
  <2>2. Consumed(s, n.read_len) \in SockNode
    BY <1>1, <2>1, ConsumedType DEF SockNode
  <2> HIDE DEF s
  <2>3. SameSocket(Consumed(s, n.read_len), n) /\ Consumed(s, n.read_len).status = n.status
    BY <1>1 DEF SameSocket, Consumed, SockNode, NodeOf
  <2> DEFINE t == Consumed(s, n.read_len)
  <2>4. t \in SockNode /\ SameSocket(t, n) /\ t.status = n.status
    BY <2>2, <2>3
  <2> HIDE DEF t
  <2>5. None \in Ids
    BY DEF Ids
  <2>6. [t EXCEPT !.read_uuid = None] \in SockNode
    BY <2>4, <2>5 DEF SockNode, NodeOf
  <2>7. SameSocket([t EXCEPT !.read_uuid = None], n)
        /\ [t EXCEPT !.read_uuid = None].status = n.status
    BY <2>4 DEF SameSocket, SockNode, NodeOf
  <2>8. Left(n, m) = [t EXCEPT !.read_uuid = None]
    BY <1>2 DEF Left, s, t
  <2> QED BY <1>2, <2>6, <2>7, <2>8 DEF s
<1>3. CASE ~Satisfied(s)
  BY <1>1, <1>3 DEF Left
<1> QED BY <1>2, <1>3

ReadAnswers(n, m) ==
  IF Satisfied(Stored(n, m))
  THEN {ReadAnswer(n.read_uuid, Stored(n, m), n.read_len)}
  ELSE {}

LEMMA ReceiveFacts ==
  ASSUME NEW n \in SockNode, NEW m \in ShortSegments, NEW c
  PROVE  /\ Receive(n, c, m) =
              [node |-> Left(n, m), to |-> c,
               out |-> <<Segment("ACK", Left(n, m).seq, Left(n, m).ack,
                                 Window(Left(n, m)), <<>>)>>,
               answers |-> ReadAnswers(n, m)]
         /\ Receive(n, c, m).out \in Seq(Segments)
         /\ ReadAnswers(n, m) \in SUBSET AnswerRecs
         /\ n.read_uuid[1] >= 0 =>
              \/ \E a \in ReadAnswers(n, m) : a.id = n.read_uuid
              \/ ReadGoesOn(Left(n, m), n) /\ Left(n, m).recv_len < Left(n, m).read_len
<1>1. Receive(n, c, m) =
        [node |-> Left(n, m), to |-> c,
         out |-> <<Segment("ACK", Left(n, m).seq, Left(n, m).ack,
                           Window(Left(n, m)), <<>>)>>,
         answers |-> ReadAnswers(n, m)]
  BY DEF Receive, Stored, Left, ReadAnswers
<1>2. Left(n, m).seq \in Int /\ Left(n, m).ack \in Int /\ Window(Left(n, m)) \in Int
  BY LeftType, NodeFields, IndexFacts DEF SockNode, Window
<1>3. <<Segment("ACK", Left(n, m).seq, Left(n, m).ack, Window(Left(n, m)), <<>>)>>
        \in Seq(Segments)
  BY <1>2, SegmentType, Empties
<1>4. n.start_r \in Int /\ n.read_len \in Nat /\ n.read_uuid \in Ids
      /\ Stored(n, m).recv_buffer \in Buffer
  BY StoredType, NodeFields, IndexFacts DEF SockNode
<1> DEFINE a == ReadAnswer(n.read_uuid, Stored(n, m), n.read_len)
<1>5. a \in AnswerRecs /\ a.id = n.read_uuid
  BY <1>4, StoredType, ReadAnswerType DEF SockNode
<1>6. ReadAnswers(n, m) = IF Satisfied(Stored(n, m)) THEN {a} ELSE {}
  BY DEF ReadAnswers
<1>7. ASSUME n.read_uuid[1] >= 0
      PROVE  \/ \E b \in ReadAnswers(n, m) : b.id = n.read_uuid
             \/ ReadGoesOn(Left(n, m), n) /\ Left(n, m).recv_len < Left(n, m).read_len
  <2>1. CASE Satisfied(Stored(n, m))
    BY <1>5, <1>6, <2>1
  <2>2. CASE ~Satisfied(Stored(n, m))
    <3>1. Left(n, m) = Stored(n, m)
      BY <2>2, LeftType
    <3>2. /\ Stored(n, m).read_uuid = n.read_uuid /\ Stored(n, m).read_len = n.read_len
          /\ Stored(n, m).recv_len \in Nat /\ Stored(n, m).read_len \in Nat
      BY StoredType, NodeFields, IndexFacts DEF SockNode
    <3>3. Stored(n, m).recv_len < Stored(n, m).read_len
      BY <1>7, <2>2, <3>2 DEF Satisfied
    <3> QED BY <3>1, <3>2, <3>3 DEF ReadGoesOn
  <2> QED BY <2>1, <2>2
<1> QED BY <1>1, <1>3, <1>5, <1>6, <1>7

\* An ACK without data opens the window and lets go on what waits for it.
Grown(n, m) ==
  [n EXCEPT !.ack = m.seq, !.send_len = IF n.sending THEN @ + MSS ELSE @,
            !.cwnd = @ + (IF @ <= 10*MSS THEN MSS ELSE (MSS*MSS) \div @)]
Resumed(n, m) == send_segments(Grown(n, m), 2)
Filled(n, m) ==
  IF n.write_uuid[1] > 0
  THEN [Resumed(n, m).node EXCEPT
          !.send_buffer = Store(@, n.start_s, [k \in 1..MSS |-> n.write_buf[k-1]]),
          !.start_s = Wrap(@ + MSS), !.send_len = @ - MSS]
  ELSE Resumed(n, m).node
AckedNode(n, m) == IF n.sending THEN [Filled(n, m) EXCEPT !.write_uuid = None]
                   ELSE Grown(n, m)

LEMMA GrownType ==
  ASSUME NEW n \in SockNode, NEW m \in ShortSegments
  PROVE  /\ Grown(n, m) \in SockNode
         /\ SameSocket(Grown(n, m), n) /\ Grown(n, m).status = n.status
         /\ ReadGoesOn(Grown(n, m), n)
         /\ n.sending => Grown(n, m).send_len = n.send_len + MSS
         /\ Grown(n, m).recv_len = n.recv_len
<1> DEFINE more == IF n.cwnd <= 10*MSS THEN MSS ELSE (MSS*MSS) \div n.cwnd
           room == IF n.sending THEN n.send_len + MSS ELSE n.send_len
<1>1. n.cwnd \in Nat \ {0} /\ n.send_len \in Nat /\ MSS \in Nat \ {0} /\ m.seq \in Int
  BY NodeFields, IndexFacts, SegmentFields DEF SockNode
<1>2. more \in Nat
  BY <1>1
<1>3. n.cwnd + more \in Nat \ {0} /\ room \in Nat
  BY <1>1, <1>2
<1>4. Grown(n, m) = [n EXCEPT !.ack = m.seq, !.send_len = room, !.cwnd = n.cwnd + more]
  BY DEF Grown
<1> HIDE DEF more, room
<1>5. [n EXCEPT !.ack = m.seq, !.send_len = room, !.cwnd = n.cwnd + more] \in SockNode
  BY <1>1, <1>3 DEF SockNode, NodeOf
<1>6. /\ Grown(n, m).owner = n.owner /\ Grown(n, m).sockfd = n.sockfd
      /\ Grown(n, m).srcip = n.srcip /\ Grown(n, m).srcport = n.srcport
      /\ Grown(n, m).dest = n.dest /\ Grown(n, m).used = n.used
      /\ Grown(n, m).uuid = n.uuid /\ Grown(n, m).backlog = n.backlog
      /\ Grown(n, m).status = n.status /\ Grown(n, m).read_uuid = n.read_uuid
      /\ Grown(n, m).read_len = n.read_len /\ Grown(n, m).recv_len = n.recv_len
      /\ Grown(n, m).send_len = room
  BY <1>4 DEF SockNode, NodeOf
<1> QED BY <1>4, <1>5, <1>6 DEF SameSocket, ReadGoesOn, room

LEMMA ResumedType ==
  ASSUME NEW n \in SockNode, NEW m \in ShortSegments
  PROVE  /\ Resumed(n, m).node \in SockNode /\ Resumed(n, m).out \in Seq(Segments)
         /\ SameSocket(Resumed(n, m).node, n) /\ Resumed(n, m).node.status = n.status
         /\ ReadGoesOn(Resumed(n, m).node, n)
         /\ n.sending => Resumed(n, m).node.send_len = n.send_len + MSS
         /\ Resumed(n, m).node.recv_len = n.recv_len
<1> DEFINE g == Grown(n, m)
<1>1. /\ g \in SockNode /\ SameSocket(g, n) /\ g.status = n.status /\ ReadGoesOn(g, n)
      /\ n.sending => g.send_len = n.send_len + MSS
      /\ g.recv_len = n.recv_len
  BY GrownType
<1> HIDE DEF g
<1>2. /\ send_segments(g, 2).node \in SockNode /\ send_segments(g, 2).out \in Seq(Segments)
      /\ \E e \in Index, q \in Int, b \in BOOLEAN :
           send_segments(g, 2).node = Sent(g, e, q, b)
  BY <1>1, SendSegmentsType DEF SockNode
<1>3. PICK e \in Index, q \in Int, b \in BOOLEAN :
        send_segments(g, 2).node = Sent(g, e, q, b)
  BY <1>2
<1> DEFINE s == Sent(g, e, q, b)
<1>4. /\ s.owner = g.owner /\ s.sockfd = g.sockfd /\ s.srcip = g.srcip
      /\ s.srcport = g.srcport /\ s.dest = g.dest /\ s.used = g.used
      /\ s.uuid = g.uuid /\ s.backlog = g.backlog /\ s.status = g.status
      /\ s.read_uuid = g.read_uuid /\ s.read_len = g.read_len
      /\ s.recv_len = g.recv_len /\ s.send_len = g.send_len
  BY <1>1 DEF SockNode, NodeOf, Sent
<1> HIDE DEF s
<1>5. Resumed(n, m) = send_segments(g, 2) /\ send_segments(g, 2).node = s
  BY <1>3 DEF Resumed, g, s
<1>6. /\ SameSocket(s, n) /\ s.status = n.status /\ ReadGoesOn(s, n)
      /\ n.sending => s.send_len = n.send_len + MSS
      /\ s.recv_len = n.recv_len
  BY <1>1, <1>4 DEF SameSocket, ReadGoesOn
<1> QED BY <1>2, <1>5, <1>6

LEMMA AckedFacts ==
  ASSUME NEW n \in SockNode, NEW m \in ShortSegments
  PROVE  /\ Acked(n, m).to = <<n.dest, n.srcport>>
         /\ Acked(n, m).node = AckedNode(n, m)
         /\ Acked(n, m).out \in Seq(Segments)
         /\ Acked(n, m).answers \in SUBSET AnswerRecs
         /\ AckedNode(n, m) \in SockNode
         /\ SameSocket(AckedNode(n, m), n) /\ AckedNode(n, m).status = n.status
         /\ ReadGoesOn(AckedNode(n, m), n)
<1> DEFINE s == Resumed(n, m).node
           text == [k \in 1..MSS |-> n.write_buf[k-1]]
           f == [s EXCEPT !.send_buffer = Store(@, n.start_s, text),
                          !.start_s = Wrap(@ + MSS), !.send_len = @ - MSS]
<1>1. /\ s \in SockNode /\ Resumed(n, m).out \in Seq(Segments)
      /\ SameSocket(s, n) /\ s.status = n.status /\ ReadGoesOn(s, n)
      /\ n.sending => s.send_len = n.send_len + MSS
  BY ResumedType
<1>2. /\ n.write_buf \in Buffer /\ n.start_s \in Int /\ n.write_uuid \in Ids
      /\ n.send_len \in Nat /\ MSS \in Nat \ {0} /\ MSS \in 0..BUFSIZE /\ n.sending \in BOOLEAN
  BY NodeFields, IndexFacts DEF SockNode
<1>3. text \in Bytes
  <2>2. \A k \in 1..MSS : k-1 \in Index
    BY <1>2, IndexFacts DEF Index
  <2>1. \A k \in 1..MSS : n.write_buf[k-1] \in Int
    BY <1>2, <2>2 DEF Buffer
  <2> QED BY <1>2, <2>1 DEF Bytes
<1>4. /\ Acked(n, m).to = <<n.dest, n.srcport>> /\ Acked(n, m).node = AckedNode(n, m)
      /\ Acked(n, m).out = IF n.sending THEN Resumed(n, m).out ELSE <<>>
      /\ Acked(n, m).answers = IF n.sending /\ n.write_uuid[1] > 0
                               THEN {Answer(n.write_uuid, MSS)} ELSE {}
  BY DEF Acked, AckedNode, Filled, Resumed, Grown
<1>5. {Answer(n.write_uuid, MSS)} \in SUBSET AnswerRecs
  BY <1>2, AnswerType, Empties
<1>6. Filled(n, m) = IF n.write_uuid[1] > 0 THEN f ELSE s
  BY DEF Filled
<1> HIDE DEF s, text
<1>7. ASSUME n.sending
      PROVE  /\ f \in SockNode /\ SameSocket(f, n) /\ f.status = n.status
             /\ ReadGoesOn(f, n)
  <2>1. s.send_len - MSS \in Nat /\ Wrap(s.start_s + MSS) \in Index
        /\ Store(s.send_buffer, n.start_s, text) \in Buffer
    BY <1>1, <1>2, <1>3, <1>7, NodeFields, WrapType, StoreType DEF SockNode
  <2>2. f \in SockNode
    BY <1>1, <2>1 DEF SockNode, NodeOf
  <2>3. /\ f.owner = s.owner /\ f.sockfd = s.sockfd /\ f.srcip = s.srcip
        /\ f.srcport = s.srcport /\ f.dest = s.dest /\ f.used = s.used
        /\ f.uuid = s.uuid /\ f.backlog = s.backlog /\ f.status = s.status
        /\ f.read_uuid = s.read_uuid /\ f.read_len = s.read_len
        /\ f.recv_len = s.recv_len
    BY <1>1 DEF SockNode, NodeOf
  <2> HIDE DEF f
  <2> QED BY <1>1, <2>2, <2>3 DEF SameSocket, ReadGoesOn
<1> HIDE DEF f
<1>8. ASSUME n.sending
      PROVE  /\ AckedNode(n, m) \in SockNode
             /\ SameSocket(AckedNode(n, m), n) /\ AckedNode(n, m).status = n.status
             /\ ReadGoesOn(AckedNode(n, m), n)
  <2> DEFINE t == Filled(n, m)
             u == [t EXCEPT !.write_uuid = None]
  <2>1. /\ t \in SockNode /\ SameSocket(t, n) /\ t.status = n.status
        /\ ReadGoesOn(t, n)
    BY <1>1, <1>6, <1>7, <1>8
  <2>2. AckedNode(n, m) = u
    BY <1>8 DEF AckedNode
  <2> HIDE DEF t
  <2>3. None \in Ids
    BY DEF Ids
  <2>4. u \in SockNode
    BY <2>1, <2>3 DEF SockNode, NodeOf
  <2>5. /\ u.owner = t.owner /\ u.sockfd = t.sockfd /\ u.srcip = t.srcip
        /\ u.srcport = t.srcport /\ u.dest = t.dest /\ u.used = t.used
        /\ u.uuid = t.uuid /\ u.backlog = t.backlog /\ u.status = t.status
        /\ u.read_uuid = t.read_uuid /\ u.read_len = t.read_len
        /\ u.recv_len = t.recv_len
    BY <2>1 DEF SockNode, NodeOf
  <2> HIDE DEF u
  <2> QED BY <2>1, <2>2, <2>4, <2>5 DEF SameSocket, ReadGoesOn
<1>9. ASSUME ~n.sending
      PROVE  /\ AckedNode(n, m) \in SockNode
             /\ SameSocket(AckedNode(n, m), n) /\ AckedNode(n, m).status = n.status
             /\ ReadGoesOn(AckedNode(n, m), n)
  BY <1>9, GrownType DEF AckedNode
<1> QED BY <1>1, <1>4, <1>5, <1>8, <1>9, Empties

\* What an ACK does to the node it is taken for, in every state of the node.
Quiet(n, st, seq) == [n EXCEPT !.status = st, !.ack = seq]

LEMMA QuietType ==
  ASSUME NEW n \in SockNode, NEW st \in Statuses, NEW seq \in Int
  PROVE  /\ Quiet(n, st, seq) \in SockNode /\ SameSocket(Quiet(n, st, seq), n)
         /\ Quiet(n, st, seq).status = st /\ ReadGoesOn(Quiet(n, st, seq), n)
BY DEF Quiet, SockNode, NodeOf, SameSocket, ReadGoesOn

LEMMA AckOfFacts ==
  ASSUME NEW n \in SockNode, NEW m \in ShortSegments, NEW c
  PROVE  LET a == AckOf(n, c, m)
         IN  /\ a.node \in SockNode /\ a.out \in Seq(Segments)
             /\ a.answers \in SUBSET AnswerRecs
             /\ SameSocket(a.node, n)
             /\ a.node.status = CASE n.status = "FIN_WAIT_1" -> "FIN_WAIT_2"
                                  [] n.status = "CLOSING" -> "TIMED_WAIT"
                                  [] OTHER -> n.status
             /\ n.status = "ESTAB" /\ n.read_uuid[1] >= 0 /\ n.recv_len < n.read_len =>
                  \/ \E b \in a.answers : b.id = n.read_uuid
                  \/ ReadGoesOn(a.node, n) /\ a.node.recv_len < a.node.read_len
<1>1. m.seq \in Int /\ n.status \in Statuses /\ n.uuid \in Ids
  BY SegmentFields, NodeFields DEF SockNode
<1> DEFINE done == {Answer(n.uuid, 0)}
           quiet(st, seq, answers) == [to |-> c, out |-> <<>>, answers |-> answers,
                                       node |-> Quiet(n, st, seq)]
<1>2. done \in SUBSET AnswerRecs
  BY <1>1, AnswerType, Empties
<1>3. AckOf(n, c, m) =
        CASE n.status = "ESTAB" /\ m.data # <<>> -> Receive(n, c, m)
          [] n.status = "ESTAB" /\ m.data = <<>> -> Acked(n, m)
          [] n.status = "FIN_WAIT_1" -> quiet("FIN_WAIT_2", m.seq + 1, {})
          [] n.status = "LAST_ACK" -> quiet("LAST_ACK", m.seq + 1, done)
          [] n.status = "CLOSING" -> quiet("TIMED_WAIT", m.seq, done)
          [] OTHER -> quiet(n.status, m.seq, {})
  BY DEF AckOf, Quiet
<1>4. CASE n.status = "ESTAB" /\ m.data # <<>>
  <2>1. AckOf(n, c, m) = Receive(n, c, m)
    BY <1>3, <1>4
  <2>2. /\ Receive(n, c, m).node = Left(n, m) /\ Receive(n, c, m).answers = ReadAnswers(n, m)
        /\ Receive(n, c, m).out \in Seq(Segments)
        /\ ReadAnswers(n, m) \in SUBSET AnswerRecs
        /\ n.read_uuid[1] >= 0 =>
              \/ \E a \in ReadAnswers(n, m) : a.id = n.read_uuid
              \/ ReadGoesOn(Left(n, m), n) /\ Left(n, m).recv_len < Left(n, m).read_len
    BY ReceiveFacts
  <2>3. Left(n, m) \in SockNode /\ SameSocket(Left(n, m), n) /\ Left(n, m).status = n.status
    BY LeftType
  <2> QED BY <1>4, <2>1, <2>2, <2>3
<1>5. CASE n.status = "ESTAB" /\ m.data = <<>>
  <2>1. AckOf(n, c, m) = Acked(n, m)
    BY <1>3, <1>5
  <2>2. /\ Acked(n, m).node = AckedNode(n, m) /\ Acked(n, m).out \in Seq(Segments)
        /\ Acked(n, m).answers \in SUBSET AnswerRecs
        /\ AckedNode(n, m) \in SockNode /\ SameSocket(AckedNode(n, m), n)
        /\ AckedNode(n, m).status = n.status /\ ReadGoesOn(AckedNode(n, m), n)
    BY AckedFacts
  <2>3. n.recv_len < n.read_len => AckedNode(n, m).recv_len < AckedNode(n, m).read_len
    BY <2>2 DEF ReadGoesOn
  <2> QED BY <1>5, <2>1, <2>2, <2>3
<1>6. CASE n.status # "ESTAB"
  <2>1. PICK st \in Statuses, seq \in Int, answers \in {{}, done} :
          /\ AckOf(n, c, m) = quiet(st, seq, answers)
          /\ st = CASE n.status = "FIN_WAIT_1" -> "FIN_WAIT_2"
                    [] n.status = "CLOSING" -> "TIMED_WAIT"
                    [] OTHER -> n.status
    <3>1. CASE n.status = "FIN_WAIT_1"
      <4>1. AckOf(n, c, m) = quiet("FIN_WAIT_2", m.seq + 1, {})
        BY <1>3, <3>1
      <4>2. "FIN_WAIT_2" \in Statuses /\ m.seq + 1 \in Int /\ {} \in {{}, done}
        BY <1>1 DEF Statuses
      <4> HIDE DEF quiet, done
      <4> QED BY <3>1, <4>1, <4>2
    <3>2. CASE n.status = "LAST_ACK"
      <4>1. AckOf(n, c, m) = quiet("LAST_ACK", m.seq + 1, done)
        BY <1>3, <3>2
      <4>2. "LAST_ACK" \in Statuses /\ m.seq + 1 \in Int /\ done \in {{}, done}
        BY <1>1 DEF Statuses
      <4> HIDE DEF quiet, done
      <4> QED BY <3>2, <4>1, <4>2
    <3>3. CASE n.status = "CLOSING"
      <4>1. AckOf(n, c, m) = quiet("TIMED_WAIT", m.seq, done)
        BY <1>3, <3>3
      <4>2. "TIMED_WAIT" \in Statuses /\ done \in {{}, done}
        BY DEF Statuses
      <4> HIDE DEF quiet, done
      <4> QED BY <1>1, <3>3, <4>1, <4>2
    <3>4. CASE n.status \notin {"FIN_WAIT_1", "LAST_ACK", "CLOSING"}
      <4>1. AckOf(n, c, m) = quiet(n.status, m.seq, {})
        BY <1>3, <1>6, <3>4
      <4> QED BY <1>1, <3>4, <4>1
    <3> QED BY <3>1, <3>2, <3>3, <3>4
  <2>2. /\ AckOf(n, c, m).node = Quiet(n, st, seq) /\ AckOf(n, c, m).out = <<>>
        /\ AckOf(n, c, m).answers = answers
    BY <2>1
  <2> QED BY <1>2, <1>6, <2>1, <2>2, QuietType, Empties
<1> QED BY <1>4, <1>5, <1>6

\* The half-open connection an ACK completes.
HalfFd(c) == LET i == Listener(socklist, c[2])
             IN  IF i = 0 THEN -1 ELSE socklist[i].sockfd

LEMMA HalfOpenLookup ==
  ASSUME Typed, NEW c \in Conns, HalfOpen(c) # 0
  PROVE  LET j == HalfOpen(c)
         IN  /\ j \in DOMAIN backlog_list /\ backlog_list[j] \in HalfNode
             /\ backlog_list[j].sockfd = HalfFd(c) /\ Matches(backlog_list[j], c[1])
             /\ backlog_list[j].owner \in Pids /\ HalfFd(c) \in Descriptors
<1> DEFINE S == {j \in DOMAIN backlog_list : /\ backlog_list[j].sockfd = HalfFd(c)
                                             /\ Matches(backlog_list[j], c[1])}
<1>1. S \in SUBSET DOMAIN backlog_list /\ HalfOpen(c) = Least(S)
  BY DEF HalfOpen, HalfFd
<1>2. backlog_list \in Seq(HalfNode)
  BY DEF Typed, KernelType
<1>3. HalfOpen(c) \in S
  <2> HIDE DEF S
  <2> QED BY <1>1, <1>2, LeastPosition
<1>4. HalfFd(c) \in Descriptors /\ HalfFd(c) # -2
  BY ListenerLookup, MaxFdAssumption DEF HalfFd, Descriptors
<1>5. backlog_list[HalfOpen(c)] \in HalfNode
  BY <1>2, <1>3
<1> QED BY <1>3, <1>4, <1>5 DEF HalfNode

\* The socket it becomes.
Entry(c) == backlog_list[HalfOpen(c)]
NewOwner(c) == IF accept_queue = <<>> THEN Entry(c).owner ELSE Head(accept_queue).pid
NewFd(c) == Create(NewOwner(c), fds)
NewSocket(c, m) ==
  LET n == [Entry(c) EXCEPT !.seq = m.ack, !.ack = m.seq + 1, !.status = "ESTAB"]
  IN  IF accept_queue = <<>> THEN [n EXCEPT !.sockfd = NewFd(c)]
      ELSE [n EXCEPT !.sockfd = NewFd(c), !.used = TRUE, !.owner = NewOwner(c)]

LEMMA NewSocketType ==
  ASSUME Typed, NEW c \in Conns, NEW m \in ShortSegments, HalfOpen(c) # 0
  PROVE  /\ NewOwner(c) \in Pids /\ NewFd(c) \in Descriptors
         /\ NewSocket(c, m) \in SockNode
         /\ NewSocket(c, m).owner = NewOwner(c) /\ NewSocket(c, m).sockfd = NewFd(c)
         /\ NewSocket(c, m).status = "ESTAB" /\ NewSocket(c, m).dest = Entry(c).dest
         /\ NewSocket(c, m).srcport = Entry(c).srcport
         /\ NewSocket(c, m).used = (Entry(c).used \/ accept_queue # <<>>)
<1>1. Entry(c) \in HalfNode /\ Entry(c).owner \in Pids
  BY HalfOpenLookup DEF Entry
<1>2. accept_queue # <<>> => Head(accept_queue).pid \in Pids
  <2>1. accept_queue # <<>> => Head(accept_queue) \in QueueRecs
    BY DEF Typed, KernelType
  <2> QED BY <2>1 DEF QueueRecs
<1>3. NewOwner(c) \in Pids
  BY <1>1, <1>2 DEF NewOwner
<1>4. NewFd(c) \in Descriptors
  BY <1>3, CreateType DEF NewFd, Typed, KernelType
<1>5. m.ack \in Int /\ m.seq + 1 \in Int /\ "ESTAB" \in Statuses
  BY SegmentFields DEF Statuses
<1> DEFINE n == [Entry(c) EXCEPT !.seq = m.ack, !.ack = m.seq + 1, !.status = "ESTAB"]
           D == Descriptors \cup {-2}
<1>6. /\ n \in NodeOf(Pids \cup {-1}, D) /\ n.owner = Entry(c).owner
      /\ n.status = "ESTAB" /\ n.dest = Entry(c).dest /\ n.srcport = Entry(c).srcport
      /\ n.used = Entry(c).used
  BY <1>1, <1>5 DEF HalfNode, NodeOf
<1> HIDE DEF n
<1>7. CASE accept_queue = <<>>
  <2>1. NewSocket(c, m) = [n EXCEPT !.sockfd = NewFd(c)]
    BY <1>7 DEF NewSocket, n
  <2>2. [n EXCEPT !.sockfd = NewFd(c)] \in SockNode
    BY <1>1, <1>4, <1>6 DEF SockNode, NodeOf
  <2>3. NewOwner(c) = n.owner
    BY <1>6, <1>7 DEF NewOwner
  <2>4. /\ NewSocket(c, m).owner = n.owner /\ NewSocket(c, m).sockfd = NewFd(c)
        /\ NewSocket(c, m).status = n.status /\ NewSocket(c, m).dest = n.dest
        /\ NewSocket(c, m).srcport = n.srcport /\ NewSocket(c, m).used = n.used
    BY <1>6, <2>1 DEF NodeOf
  <2>5. n.used \in BOOLEAN
    BY <1>6, NodeFields
  <2>6. NewSocket(c, m).used = (Entry(c).used \/ accept_queue # <<>>)
    BY <1>6, <1>7, <2>4, <2>5
  <2> QED BY <1>3, <1>4, <1>6, <2>1, <2>2, <2>3, <2>4, <2>6
<1>8. CASE accept_queue # <<>>
  <2>1. NewSocket(c, m) = [n EXCEPT !.sockfd = NewFd(c), !.used = TRUE, !.owner = NewOwner(c)]
    BY <1>8 DEF NewSocket, n
  <2>2. [n EXCEPT !.sockfd = NewFd(c), !.used = TRUE, !.owner = NewOwner(c)] \in SockNode
    BY <1>3, <1>4, <1>6 DEF SockNode, NodeOf
  <2>3. /\ NewSocket(c, m).owner = NewOwner(c) /\ NewSocket(c, m).sockfd = NewFd(c)
        /\ NewSocket(c, m).status = n.status /\ NewSocket(c, m).dest = n.dest
        /\ NewSocket(c, m).srcport = n.srcport /\ NewSocket(c, m).used = TRUE
    BY <1>6, <2>1 DEF NodeOf
  <2> QED BY <1>3, <1>4, <1>6, <1>8, <2>1, <2>2, <2>3
<1> QED BY <1>7, <1>8

\* The four outcomes of the first half of an ACK.
LEMMA CompletedCases ==
  ASSUME Typed, NEW c \in Conns, NEW m \in ShortSegments
  PROVE  LET h == Completed(c, m)
             q == Head(accept_queue)
         IN  \/ /\ HalfOpen(c) = 0
                /\ h.sl = socklist /\ h.bl = backlog_list /\ h.aq = accept_queue
                /\ h.fds = fds /\ h.answers = {}
             \/ /\ HalfOpen(c) # 0
                /\ h.bl = Take(backlog_list, HalfOpen(c)) /\ h.fds = Grow(NewOwner(c), fds)
                /\ \/ /\ accept_queue = <<>>
                      /\ h.sl = <<NewSocket(c, m)>> \o socklist
                      /\ h.aq = <<>> /\ h.answers = {}
                   \/ /\ accept_queue # <<>> /\ NewFd(c) # -1
                      /\ h.sl = <<NewSocket(c, m)>> \o socklist
                      /\ h.aq = Tail(accept_queue)
                      /\ h.answers = {Answer(q.uuid, NewFd(c))}
                   \/ /\ accept_queue # <<>> /\ NewFd(c) = -1
                      /\ h.sl = socklist /\ h.aq = Tail(accept_queue)
                      /\ h.answers = {Answer(q.uuid, -1)}
<1>1. CASE HalfOpen(c) = 0
  BY <1>1 DEF Completed
<1>2. CASE HalfOpen(c) # 0 /\ accept_queue = <<>>
  <2>1. Completed(c, m) =
          [bl |-> Take(backlog_list, HalfOpen(c)), fds |-> Grow(NewOwner(c), fds),
           aq |-> <<>>, sl |-> <<NewSocket(c, m)>> \o socklist, answers |-> {}]
    <3> DEFINE n == [Entry(c) EXCEPT !.seq = m.ack, !.ack = m.seq + 1, !.status = "ESTAB"]
    <3>1. n.owner = Entry(c).owner
      BY <1>2, HalfOpenLookup DEF Entry, HalfNode, NodeOf
    <3>2. NewOwner(c) = n.owner
      BY <1>2, <3>1 DEF NewOwner
    <3> QED BY <1>2, <3>2 DEF Completed, NewSocket, NewFd, Entry
  <2> QED BY <1>2, <2>1
<1>3. CASE HalfOpen(c) # 0 /\ accept_queue # <<>>
  <2>1. Completed(c, m) =
          [bl |-> Take(backlog_list, HalfOpen(c)), fds |-> Grow(NewOwner(c), fds),
           aq |-> Tail(accept_queue),
           sl |-> IF NewFd(c) = -1 THEN socklist ELSE <<NewSocket(c, m)>> \o socklist,
           answers |-> {Answer(Head(accept_queue).uuid, NewFd(c))}]
    BY <1>3 DEF Completed, NewSocket, NewFd, NewOwner, Entry
  <2> QED BY <1>3, <2>1
<1> QED BY <1>1, <1>2, <1>3

LEMMA CompletedType ==
  ASSUME Typed, NEW c \in Conns, NEW m \in ShortSegments
  PROVE  LET h == Completed(c, m)
         IN  /\ h.sl \in Seq(SockNode) /\ h.bl \in Seq(HalfNode)
             /\ h.aq \in Seq(QueueRecs) /\ h.fds \in [Pids -> 0..MaxFd]
             /\ h.answers \in SUBSET AnswerRecs
<1> DEFINE h == Completed(c, m)
<1>1. /\ socklist \in Seq(SockNode) /\ backlog_list \in Seq(HalfNode)
      /\ accept_queue \in Seq(QueueRecs) /\ fds \in [Pids -> 0..MaxFd]
  BY DEF Typed, KernelType
<1>2. CASE HalfOpen(c) = 0
  BY <1>1, <1>2, CompletedCases, Empties
<1>3. CASE HalfOpen(c) # 0
  <2>1. NewOwner(c) \in Pids /\ NewFd(c) \in Descriptors /\ NewSocket(c, m) \in SockNode
    BY <1>3, NewSocketType
  <2>2. Take(backlog_list, HalfOpen(c)) \in Seq(HalfNode)
    BY <1>1, <1>3, HalfOpenLookup, TakeSeq
  <2>3. Grow(NewOwner(c), fds) \in [Pids -> 0..MaxFd]
    BY <1>1, <2>1, CreateType
  <2>4. <<NewSocket(c, m)>> \o socklist \in Seq(SockNode)
    BY <1>1, <2>1, ConsSeq
  <2>5. accept_queue # <<>> =>
          /\ Tail(accept_queue) \in Seq(QueueRecs)
          /\ Head(accept_queue) \in QueueRecs /\ Head(accept_queue).uuid \in Ids
    <3>1. accept_queue # <<>> => Tail(accept_queue) \in Seq(QueueRecs)
                                 /\ Head(accept_queue) \in QueueRecs
      BY <1>1
    <3> QED BY <3>1 DEF QueueRecs
  <2>6. accept_queue # <<>> =>
          {Answer(Head(accept_queue).uuid, NewFd(c))} \in SUBSET AnswerRecs
    <3>1. NewFd(c) \in Int
      BY <2>1, MaxFdAssumption DEF Descriptors
    <3> QED BY <2>5, <3>1, AnswerType, Empties
  <2>7. <<>> \in Seq(QueueRecs)
    OBVIOUS
  <2> QED BY <1>1, <1>3, <2>2, <2>3, <2>4, <2>5, <2>6, <2>7, CompletedCases, Empties
<1> QED BY <1>2, <1>3

\* The node the second half of an ACK is taken for.
AckedAt(c, m) == LET sl == Completed(c, m).sl
                 IN  Least({j \in DOMAIN sl : /\ sl[j].dest = c[1]
                                              /\ sl[j].status # "LISTENING"})

LEMMA AckedAtLookup ==
  ASSUME Typed, NEW c \in Conns, NEW m \in ShortSegments
  PROVE  LET sl == Completed(c, m).sl
             i == AckedAt(c, m)
         IN  /\ i # 0 => /\ i \in DOMAIN sl /\ sl[i] \in SockNode
                         /\ sl[i].dest = c[1] /\ sl[i].status # "LISTENING"
             /\ \A k \in DOMAIN sl : sl[k].dest = c[1] /\ sl[k].status # "LISTENING" =>
                                       i # 0 /\ i <= k
<1> DEFINE sl == Completed(c, m).sl
           S == {j \in DOMAIN sl : sl[j].dest = c[1] /\ sl[j].status # "LISTENING"}
<1>1. sl \in Seq(SockNode)
  BY CompletedType
<1>2. AckedAt(c, m) = Least(S)
  BY DEF AckedAt
<1> HIDE DEF sl
<1>3. S \in SUBSET DOMAIN sl
  OBVIOUS
<1>4. /\ AckedAt(c, m) = 0 <=> S = {}
      /\ AckedAt(c, m) # 0 => AckedAt(c, m) \in S /\ \A j \in S : AckedAt(c, m) <= j
  <2> HIDE DEF S
  <2> QED BY <1>1, <1>2, <1>3, LeastPosition
<1>5. \A j \in DOMAIN sl : sl[j] \in SockNode
  BY <1>1
<1> QED BY <1>4, <1>5 DEF sl

\* An ACK: what becomes of the table.
AckResult(c, m) == IF AckedAt(c, m) = 0 THEN [to |-> c, out |-> <<>>, answers |-> {}]
                   ELSE AckOf(Completed(c, m).sl[AckedAt(c, m)], c, m)

LEMMA AckCases ==
  ASSUME NEW c \in Conns, Ack(c)
  PROVE  LET m == Head(toHost[c])
             h == Completed(c, m)
             i == AckedAt(c, m)
             a == AckResult(c, m)
         IN  /\ Delivers(c) /\ m.flags = "ACK"
             /\ \/ i = 0 /\ socklist' = h.sl
                \/ /\ i # 0 /\ h.sl[i].status = "LAST_ACK"
                   /\ socklist' = Take(h.sl, i)
                \/ /\ i # 0 /\ h.sl[i].status # "LAST_ACK"
                   /\ socklist' = [h.sl EXCEPT ![i] = AckOf(h.sl[i], c, m).node]
             /\ backlog_list' = h.bl /\ accept_queue' = h.aq /\ fds' = h.fds
             /\ Post(a.to, a.out)
             /\ Reply(h.answers \cup a.answers, calls)
             /\ UNCHANGED <<prog, peer>>
<1> DEFINE m == Head(toHost[c])
<1>1. Delivers(c) /\ m.flags = "ACK"
  BY DEF Ack, Arriving
<1>2. CASE AckedAt(c, m) = 0
  BY <1>1, <1>2 DEF Ack, AckResult, AckedAt
<1>3. CASE AckedAt(c, m) # 0
  BY <1>1, <1>3 DEF Ack, AckResult, AckedAt
<1> QED BY <1>2, <1>3

LEMMA AckTypes ==
  ASSUME Typed, NEW c \in Conns, Ack(c)
  PROVE  Typed'
<1> DEFINE m == Head(toHost[c])
           h == Completed(c, m)
           i == AckedAt(c, m)
           a == AckResult(c, m)
<1>0. Delivers(c)
  BY AckCases
<1>1. m \in ShortSegments /\ toHost' \in [Conns -> Seq(ShortSegments)]
  BY <1>0, ArrivingFacts
<1>2. /\ h.sl \in Seq(SockNode) /\ h.bl \in Seq(HalfNode)
      /\ h.aq \in Seq(QueueRecs) /\ h.fds \in [Pids -> 0..MaxFd]
      /\ h.answers \in SUBSET AnswerRecs
  BY <1>1, CompletedType
<1>3. i # 0 => i \in DOMAIN h.sl /\ h.sl[i] \in SockNode
  BY <1>1, AckedAtLookup
<1>4. i # 0 => /\ AckOf(h.sl[i], c, m).node \in SockNode
               /\ AckOf(h.sl[i], c, m).out \in Seq(Segments)
               /\ AckOf(h.sl[i], c, m).answers \in SUBSET AnswerRecs
  BY <1>1, <1>3, AckOfFacts
<1>5. a.out \in Seq(Segments) /\ a.answers \in SUBSET AnswerRecs
  <2>1. CASE i = 0
    BY <2>1, Empties DEF AckResult
  <2>2. CASE i # 0
    BY <1>4, <2>2 DEF AckResult
  <2> QED BY <2>1, <2>2
<1>6. /\ \/ i = 0 /\ socklist' = h.sl
         \/ i # 0 /\ socklist' = Take(h.sl, i)
         \/ i # 0 /\ socklist' = [h.sl EXCEPT ![i] = AckOf(h.sl[i], c, m).node]
      /\ backlog_list' = h.bl /\ accept_queue' = h.aq /\ fds' = h.fds
      /\ Post(a.to, a.out)
      /\ Reply(h.answers \cup a.answers, calls)
      /\ UNCHANGED <<prog, peer>>
  BY AckCases
<1> HIDE DEF m, h, i, a
<1>7. socklist' \in Seq(SockNode)
  <2>1. CASE socklist' = h.sl
    BY <1>2, <2>1
  <2>2. CASE i # 0 /\ socklist' = Take(h.sl, i)
    BY <1>2, <1>3, <2>2, TakeSeq
  <2>3. CASE i # 0 /\ socklist' = [h.sl EXCEPT ![i] = AckOf(h.sl[i], c, m).node]
    <3>1. i \in DOMAIN h.sl /\ AckOf(h.sl[i], c, m).node \in SockNode
      BY <1>3, <1>4, <2>3
    <3> QED BY <1>2, <2>3, <3>1, UpdateSeq
  <2> QED BY <1>6, <2>1, <2>2, <2>3
<1>8. AppsType'
  <2>1. h.answers \cup a.answers \in SUBSET AnswerRecs
    BY <1>2, <1>5
  <2>2. calls \in [Pids -> CallRecs] /\ AppsType
    BY DEF Typed, AppsType
  <2> QED BY <1>6, <2>1, <2>2, ReplyFacts
<1>9. toPeer' \in [Conns -> Seq(Segments)]
  BY <1>5, <1>6, PostType DEF Typed
<1> QED BY <1>1, <1>2, <1>6, <1>7, <1>8, <1>9 DEF Typed, KernelType, NetType, ProgType

\* What a FIN does to the first node of its remote.
FinAt(c) == Least({j \in DOMAIN socklist : socklist[j].dest = c[1]})
Finished(n, m) ==
  [n EXCEPT !.status = AfterFin(n.status), !.ack = m.seq + 1, !.seq = FinSeq(n),
            !.read_uuid = IF n.status = "ESTAB" THEN None ELSE n.read_uuid]
FinAnswers(n) == CASE n.status = "ESTAB" -> EofAnswers(n)
                   [] n.status = "FIN_WAIT_2" -> {Answer(n.uuid, 0)}
                   [] OTHER -> {}

LEMMA FinAtLookup ==
  ASSUME Typed, NEW c
  PROVE  /\ FinAt(c) # 0 =>
              /\ FinAt(c) \in DOMAIN socklist /\ socklist[FinAt(c)] \in SockNode
              /\ socklist[FinAt(c)].dest = c[1]
         /\ \A k \in DOMAIN socklist : socklist[k].dest = c[1] =>
              FinAt(c) # 0 /\ FinAt(c) <= k
<1> DEFINE S == {j \in DOMAIN socklist : socklist[j].dest = c[1]}
<1>1. S \in SUBSET DOMAIN socklist /\ FinAt(c) = Least(S)
  BY DEF FinAt
<1>2. socklist \in Seq(SockNode)
  BY DEF Typed, KernelType
<1>3. /\ FinAt(c) = 0 <=> S = {}
      /\ FinAt(c) # 0 => FinAt(c) \in S /\ \A j \in S : FinAt(c) <= j
  <2> HIDE DEF S
  <2> QED BY <1>1, <1>2, LeastPosition
<1>4. \A j \in DOMAIN socklist : socklist[j] \in SockNode
  BY <1>2
<1> QED BY <1>3, <1>4

LEMMA FinCases ==
  ASSUME NEW c \in Conns, Fin(c)
  PROVE  LET m == Head(toHost[c])
             i == FinAt(c)
             n == socklist[i]
             closes == i # 0 /\ n.status \in {"ESTAB", "FIN_WAIT_1", "FIN_WAIT_2"}
         IN  /\ Delivers(c) /\ m.flags = "FIN"
             /\ \/ /\ closes
                   /\ socklist' = [socklist EXCEPT ![i] = Finished(n, m)]
                   /\ Post(c, <<Segment("ACK", FinSeq(n), m.seq + 1, BUFSIZE, <<>>)>>)
                   /\ Reply(FinAnswers(n), calls)
                \/ /\ ~closes
                   /\ socklist' = socklist /\ toPeer' = toPeer /\ apps' = apps
             /\ UNCHANGED <<backlog_list, accept_queue, fds, prog, peer>>
<1> DEFINE m == Head(toHost[c])
           i == FinAt(c)
           n == socklist[i]
<1>1. Delivers(c) /\ m.flags = "FIN"
  BY DEF Fin, Arriving
<1>2. [socklist EXCEPT ![i].status = AfterFin(@), ![i].ack = m.seq + 1, ![i].seq = FinSeq(n),
                       ![i].read_uuid = IF n.status = "ESTAB" THEN None ELSE @]
        = [socklist EXCEPT ![i] = Finished(n, m)]
  BY DEF Finished
<1> QED BY <1>1, <1>2 DEF Fin, FinAt, FinAnswers

LEMMA IdFacts == \A id \in Ids : id[1] \in Int
<1> SUFFICES ASSUME NEW id \in Ids PROVE id[1] \in Int
  OBVIOUS
<1>1. CASE id = None
  BY <1>1 DEF None
<1>2. CASE id = Zero
  BY <1>2 DEF Zero
<1>3. CASE id \in Pids \X (Nat \ {0})
  <2>1. id[1] \in Pids
    BY <1>3
  <2>2. \A p \in Pids : p \in Int
    BY PidsAssumption
  <2> QED BY <2>1, <2>2
<1> QED BY <1>1, <1>2, <1>3 DEF Ids

Renumbered(n, st, ack, seq, id) ==
  [n EXCEPT !.status = st, !.ack = ack, !.seq = seq, !.read_uuid = id]

LEMMA NodeUpdated ==
  ASSUME NEW O, NEW D, NEW n \in NodeOf(O, D), NEW st \in Statuses, NEW ack \in Int,
         NEW seq \in Int, NEW id \in Ids
  PROVE  Renumbered(n, st, ack, seq, id) \in NodeOf(O, D)
BY DEF Renumbered, NodeOf

LEMMA FinPartTypes ==
  ASSUME NEW n \in SockNode, NEW m \in ShortSegments,
         n.status \in {"ESTAB", "FIN_WAIT_1", "FIN_WAIT_2"}
  PROVE  /\ Finished(n, m) \in SockNode /\ SameSocket(Finished(n, m), n)
         /\ Finished(n, m).status = AfterFin(n.status)
         /\ Finished(n, m).status \in {"CLOSE_WAIT", "CLOSING", "TIMED_WAIT"}
         /\ Finished(n, m).recv_len = n.recv_len
         /\ FinSeq(n) \in Int
         /\ FinAnswers(n) \in SUBSET AnswerRecs
         /\ n.status = "ESTAB" /\ n.read_uuid[1] >= 0 =>
              \E a \in FinAnswers(n) : a.id = n.read_uuid
<1>1. /\ n.seq \in Int /\ m.seq \in Int /\ n.read_uuid \in Ids /\ n.uuid \in Ids
      /\ n.recv_buffer \in Buffer /\ n.start_r \in Int /\ n.recv_len \in Nat
  BY NodeFields, SegmentFields, IndexFacts DEF SockNode
<1>2. AfterFin(n.status) \in {"CLOSE_WAIT", "CLOSING", "TIMED_WAIT"}
  BY DEF AfterFin
<1>3. FinSeq(n) \in Int /\ m.seq + 1 \in Int
  BY <1>1 DEF FinSeq
<1> DEFINE id == IF n.status = "ESTAB" THEN None ELSE n.read_uuid
           st == AfterFin(n.status)
<1>4. id \in Ids /\ st \in Statuses
  BY <1>1, <1>2 DEF Ids, Statuses
<1>5. Finished(n, m) = [n EXCEPT !.status = st, !.ack = m.seq + 1, !.seq = FinSeq(n),
                                 !.read_uuid = id]
  BY DEF Finished
<1> HIDE DEF id, st
<1>6. Finished(n, m) \in SockNode
  <2>1. Renumbered(n, st, m.seq + 1, FinSeq(n), id) \in NodeOf(Pids, Descriptors)
    BY <1>3, <1>4, NodeUpdated DEF SockNode
  <2> QED BY <1>5, <2>1 DEF Renumbered, SockNode
<1>7. /\ Finished(n, m).status = st /\ SameSocket(Finished(n, m), n)
      /\ Finished(n, m).recv_len = n.recv_len
  BY <1>5 DEF SockNode, NodeOf, SameSocket
<1>8. /\ EofAnswers(n) \in SUBSET AnswerRecs
      /\ n.read_uuid[1] >= 0 => \E a \in EofAnswers(n) : a.id = n.read_uuid
  <2> DEFINE a == ReadAnswer(n.read_uuid, n, n.recv_len)
  <2>2. EofAnswers(n) = IF n.read_uuid[1] < 0 THEN {} ELSE {a}
    BY DEF EofAnswers
  <2>3. a \in AnswerRecs /\ a.id = n.read_uuid
    BY <1>1, ReadAnswerType DEF SockNode
  <2>4. n.read_uuid[1] \in Int
    BY <1>1, IdFacts
  <2> HIDE DEF a
  <2> QED BY <2>2, <2>3, <2>4
<1>9. {Answer(n.uuid, 0)} \in SUBSET AnswerRecs
  BY <1>1, AnswerType, Empties
<1>10. FinAnswers(n) \in SUBSET AnswerRecs /\ (n.status = "ESTAB" => FinAnswers(n) = EofAnswers(n))
  <2>1. CASE n.status = "ESTAB"
    BY <1>8, <2>1 DEF FinAnswers
  <2>2. CASE n.status = "FIN_WAIT_2"
    BY <1>9, <2>2 DEF FinAnswers
  <2>3. CASE n.status = "FIN_WAIT_1"
    BY <2>3, Empties DEF FinAnswers
  <2> QED BY <2>1, <2>2, <2>3
<1> QED BY <1>2, <1>3, <1>6, <1>7, <1>8, <1>10 DEF st

LEMMA FinTypes ==
  ASSUME Typed, NEW c \in Conns, Fin(c)
  PROVE  Typed'
<1> DEFINE m == Head(toHost[c])
           i == FinAt(c)
           n == socklist[i]
<1>0. Delivers(c)
  BY FinCases
<1>1. m \in ShortSegments /\ toHost' \in [Conns -> Seq(ShortSegments)]
  BY <1>0, ArrivingFacts
<1>2. m.seq + 1 \in Int
  BY <1>1, SegmentFields
<1>3. UNCHANGED <<backlog_list, accept_queue, fds, prog, peer>>
  BY FinCases
<1>4. socklist \in Seq(SockNode)
  BY DEF Typed, KernelType
<1>5. CASE socklist' = socklist /\ toPeer' = toPeer /\ apps' = apps
  BY <1>1, <1>3, <1>4, <1>5 DEF Typed, KernelType, NetType, AppsType, ProgType, apps
<1>6. CASE /\ i # 0 /\ n.status \in {"ESTAB", "FIN_WAIT_1", "FIN_WAIT_2"}
           /\ socklist' = [socklist EXCEPT ![i] = Finished(n, m)]
           /\ Post(c, <<Segment("ACK", FinSeq(n), m.seq + 1, BUFSIZE, <<>>)>>)
           /\ Reply(FinAnswers(n), calls)
  <2>1. i \in DOMAIN socklist /\ n \in SockNode
    BY <1>6, FinAtLookup
  <2>2. /\ Finished(n, m) \in SockNode /\ FinSeq(n) \in Int
        /\ FinAnswers(n) \in SUBSET AnswerRecs
    BY <1>1, <1>6, <2>1, FinPartTypes
  <2>3. socklist' \in Seq(SockNode)
    BY <1>4, <1>6, <2>1, <2>2, UpdateSeq
  <2>4. <<Segment("ACK", FinSeq(n), m.seq + 1, BUFSIZE, <<>>)>> \in Seq(Segments)
    BY <1>2, <2>2, SegmentType, IndexFacts, Empties
  <2>5. toPeer' \in [Conns -> Seq(Segments)]
    BY <1>6, <2>4, PostType DEF Typed
  <2>6. AppsType'
    BY <1>6, <2>2, ReplyFacts DEF Typed, AppsType
  <2> QED BY <1>1, <1>3, <2>3, <2>5, <2>6 DEF Typed, KernelType, NetType, ProgType
<1> QED BY <1>5, <1>6, FinCases

\* The remote ends.
LEMMA TellType ==
  ASSUME NetType, NEW c \in Conns, NEW out \in Seq(ShortSegments), Tell(c, out)
  PROVE  /\ toHost' \in [Conns -> Seq(ShortSegments)]
         /\ toHost'[c] = toHost[c] \o out
         /\ \A d \in Conns : d # c => toHost'[d] = toHost[d]
<1>1. toHost \in [Conns -> Seq(ShortSegments)] /\ toHost[c] \o out \in Seq(ShortSegments)
  BY ConcatProperties DEF NetType
<1>2. toHost' = [toHost EXCEPT ![c] = toHost[c] \o out]
  BY DEF Tell
<1> QED BY <1>1, <1>2

LEMMA SpeakType ==
  ASSUME NEW flags \in {"SYN", "SYNACK", "ACK", "FIN"}, NEW t, t.snd \in Int, t.rcv \in Int,
         NEW bytes \in Bytes, Len(bytes) <= BUFSIZE
  PROVE  /\ Speak(flags, t, bytes) \in ShortSegments
         /\ <<Speak(flags, t, bytes)>> \in Seq(ShortSegments)
<1>1. Speak(flags, t, bytes) \in Segments /\ Speak(flags, t, bytes).data = bytes
  BY SegmentType, IndexFacts DEF Speak, Segment
<1>2. Speak(flags, t, bytes) \in ShortSegments
  BY <1>1 DEF ShortSegments
<1> QED BY <1>2

LEMMA PeerFields ==
  ASSUME NEW t \in Peers
  PROVE  /\ t.st \in PeerStates /\ t.snd \in Int /\ t.una \in Int /\ t.rcv \in Int
         /\ t.win \in Int /\ t.got \in Bytes /\ t.n \in Nat
BY DEF Peers

LEMMA EmptyBytes == <<>> \in Bytes /\ Len(<<>>) = 0 /\ Len(<<>>) <= BUFSIZE
BY IndexFacts DEF Bytes

LEMMA PeerOpenTypes ==
  ASSUME Typed, NEW c \in Conns, PeerOpen(c)
  PROVE  Typed'
<1>1. peer \in [Conns -> Peers] /\ peer[c] \in Peers
  BY DEF Typed, NetType
<1>2. <<Speak("SYN", peer[c], <<>>)>> \in Seq(ShortSegments)
  BY <1>1, PeerFields, SpeakType, EmptyBytes
<1>3. toHost' \in [Conns -> Seq(ShortSegments)]
  BY <1>2, TellType DEF PeerOpen, Typed
<1>4. [peer[c] EXCEPT !.st = "SYN_SENT", !.snd = 1] \in Peers
  <2>1. "SYN_SENT" \in PeerStates /\ 1 \in Int
    BY DEF PeerStates, Statuses
  <2> QED BY <1>1, <2>1 DEF Peers
<1>5. peer' = [peer EXCEPT ![c] = [peer[c] EXCEPT !.st = "SYN_SENT", !.snd = 1]]
  BY DEF PeerOpen
<1>6. peer' \in [Conns -> Peers]
  BY <1>1, <1>4, <1>5
<1> QED BY <1>3, <1>6 DEF PeerOpen, Typed, KernelType, AppsType, NetType, ProgType, kernel, apps

LEMMA PeerRetryTypes ==
  ASSUME Typed, NEW c \in Conns, PeerRetry(c)
  PROVE  Typed'
<1> DEFINE t == [peer[c] EXCEPT !.snd = 0]
<1>1. peer[c] \in Peers
  BY DEF Typed, NetType
<1>2. t.snd \in Int /\ t.rcv \in Int
  BY <1>1 DEF Peers
<1>3. <<Speak("SYN", t, <<>>)>> \in Seq(ShortSegments)
  <2> HIDE DEF t
  <2> QED BY <1>2, SpeakType, EmptyBytes
<1>4. toHost' \in [Conns -> Seq(ShortSegments)]
  BY <1>3, TellType DEF PeerRetry, Typed
<1> QED BY <1>4 DEF PeerRetry, Typed, KernelType, AppsType, NetType, ProgType, kernel, apps

PeerBytesSent(t, len) == [k \in 1..len |-> t.n + k]

LEMMA PeerSendTypes ==
  ASSUME Typed, NEW c \in Conns, PeerSend(c)
  PROVE  Typed'
<1> DEFINE t == peer[c]
<1>1. PICK len \in PeerSizes :
        /\ peer' = [peer EXCEPT ![c].snd = @ + len, ![c].n = @ + len]
        /\ Tell(c, <<Speak("ACK", t, PeerBytesSent(t, len))>>)
  BY DEF PeerSend, PeerBytesSent
<1>2. peer \in [Conns -> Peers] /\ t \in Peers /\ len \in 1..BUFSIZE /\ len \in Nat
  BY EndpointsAssumption, IndexFacts DEF Typed, NetType
<1>3. t.snd \in Int /\ t.rcv \in Int /\ t.n \in Nat
  BY <1>2, PeerFields
<1>4. PeerBytesSent(t, len) \in Bytes /\ Len(PeerBytesSent(t, len)) <= BUFSIZE
  <2>1. \A k \in 1..len : t.n + k \in Int
    BY <1>3
  <2> QED BY <1>2, <2>1, IndexFacts DEF PeerBytesSent, Bytes
<1>5. toHost' \in [Conns -> Seq(ShortSegments)]
  BY <1>1, <1>3, <1>4, SpeakType, TellType DEF Typed
<1>6. [t EXCEPT !.snd = @ + len, !.n = @ + len] \in Peers
  <2>1. t.snd + len \in Int /\ t.n + len \in Nat
    BY <1>2, <1>3
  <2> QED BY <1>2, <2>1 DEF Peers
<1>7. peer' = [peer EXCEPT ![c] = [t EXCEPT !.snd = @ + len, !.n = @ + len]]
  BY <1>1
<1>8. peer' \in [Conns -> Peers]
  BY <1>2, <1>6, <1>7
<1> QED BY <1>5, <1>8 DEF PeerSend, Typed, KernelType, AppsType, NetType, ProgType, kernel, apps

LEMMA PeerCloseTypes ==
  ASSUME Typed, NEW c \in Conns, PeerClose(c)
  PROVE  Typed'
<1> DEFINE t == peer[c]
           st == IF t.st = "ESTAB" THEN "FIN_WAIT_1" ELSE "LAST_ACK"
           u == [t EXCEPT !.snd = t.snd + 1, !.st = st]
<1>1. peer \in [Conns -> Peers] /\ t \in Peers
  BY DEF Typed, NetType
<1>2. t.snd \in Int /\ t.rcv \in Int /\ t.snd + 1 \in Int /\ st \in PeerStates
  BY <1>1, PeerFields DEF PeerStates, Statuses
<1>3. <<Speak("FIN", t, <<>>)>> \in Seq(ShortSegments)
  BY <1>2, SpeakType, EmptyBytes
<1>4. toHost' \in [Conns -> Seq(ShortSegments)]
  BY <1>3, TellType DEF PeerClose, Typed
<1>5. peer' = [peer EXCEPT ![c] = u]
  BY DEF PeerClose
<1> HIDE DEF st
<1>6. u \in Peers
  BY <1>1, <1>2 DEF Peers
<1> HIDE DEF u
<1>7. peer' \in [Conns -> Peers]
  BY <1>1, <1>5, <1>6
<1> QED BY <1>4, <1>7 DEF PeerClose, Typed, KernelType, AppsType, NetType, ProgType, kernel, apps

\* The remote's reactions, one by one.
Seen(t, m) == [t EXCEPT !.una = m.ack, !.win = m.win,
                 !.st = IF m.ack # t.snd THEN @
                        ELSE CASE @ = "SYN_RCVD" -> "ESTAB"
                               [] @ = "FIN_WAIT_1" -> "FIN_WAIT_2"
                               [] @ = "CLOSING" -> "TIMED_WAIT"
                               [] @ = "LAST_ACK" -> "DONE"
                               [] OTHER -> @]
Answered(t, m) == [t EXCEPT !.st = "SYN_RCVD", !.rcv = m.seq + 1, !.snd = 1]
Connected(t, m) == [t EXCEPT !.st = "ESTAB", !.rcv = m.seq + 1, !.una = m.ack]
Got(t, m) == IF m.seq # t.rcv THEN t
             ELSE [Seen(t, m) EXCEPT !.rcv = @ + Len(m.data), !.got = @ \o m.data]
HeardFin(t) == [t EXCEPT !.rcv = @ + 1,
                  !.st = CASE @ = "ESTAB" -> "CLOSE_WAIT"
                           [] @ = "FIN_WAIT_1" -> "CLOSING"
                           [] @ = "FIN_WAIT_2" -> "TIMED_WAIT"]
OpenStates == {"ESTAB", "FIN_WAIT_1", "FIN_WAIT_2"}

LEMMA HeardCases ==
  ASSUME NEW c, NEW t, NEW m
  PROVE  LET h == Heard(c, t, m)
         IN  \/ /\ m.flags = "SYN" /\ t.st = "CLOSED" /\ c[1] \in Servers
                /\ h.t = Answered(t, m)
                /\ h.out = <<Speak("SYNACK", [Answered(t, m) EXCEPT !.snd = 0], <<>>)>>
             \/ /\ m.flags = "SYNACK" /\ t.st = "SYN_SENT"
                /\ h.t = Connected(t, m)
                /\ h.out = <<Speak("ACK", Connected(t, m), <<>>)>>
             \/ /\ m.flags = "ACK" /\ m.data = <<>> /\ m.ack > 0
                /\ h.t = Seen(t, m) /\ h.out = <<>>
             \/ /\ m.flags = "ACK" /\ m.data # <<>> /\ t.st \in OpenStates
                /\ h.t = Got(t, m) /\ h.out = <<Speak("ACK", Got(t, m), <<>>)>>
             \/ /\ m.flags = "FIN" /\ t.st \in OpenStates /\ m.seq = t.rcv
                /\ h.t = HeardFin(t) /\ h.out = <<Speak("ACK", HeardFin(t), <<>>)>>
             \/ /\ ~(m.flags = "SYN" /\ t.st = "CLOSED" /\ c[1] \in Servers)
                /\ ~(m.flags = "SYNACK" /\ t.st = "SYN_SENT")
                /\ ~(m.flags = "ACK" /\ m.data = <<>> /\ m.ack > 0)
                /\ ~(m.flags = "ACK" /\ m.data # <<>> /\ t.st \in OpenStates)
                /\ ~(m.flags = "FIN" /\ t.st \in OpenStates /\ m.seq = t.rcv)
                /\ h.t = t /\ h.out = <<>>
<1>1. CASE m.flags = "SYN" /\ t.st = "CLOSED" /\ c[1] \in Servers
  BY <1>1 DEF Heard, Answered
<1>2. CASE m.flags = "SYNACK" /\ t.st = "SYN_SENT"
  BY <1>2 DEF Heard, Connected
<1>3. CASE m.flags = "ACK" /\ m.data = <<>> /\ m.ack > 0
  BY <1>3 DEF Heard, Seen
<1>4. CASE m.flags = "ACK" /\ m.data # <<>> /\ t.st \in OpenStates
  BY <1>4 DEF Heard, Seen, Got, OpenStates
<1>5. CASE m.flags = "FIN" /\ t.st \in OpenStates /\ m.seq = t.rcv
  BY <1>5 DEF Heard, HeardFin, OpenStates
<1>6. CASE /\ ~(m.flags = "SYN" /\ t.st = "CLOSED" /\ c[1] \in Servers)
           /\ ~(m.flags = "SYNACK" /\ t.st = "SYN_SENT")
           /\ ~(m.flags = "ACK" /\ m.data = <<>> /\ m.ack > 0)
           /\ ~(m.flags = "ACK" /\ m.data # <<>> /\ t.st \in OpenStates)
           /\ ~(m.flags = "FIN" /\ t.st \in OpenStates /\ m.seq = t.rcv)
  BY <1>6 DEF Heard, OpenStates
<1> QED BY <1>1, <1>2, <1>3, <1>4, <1>5, <1>6

LEMMA HeardPartTypes ==
  ASSUME NEW t \in Peers, NEW m \in Segments
  PROVE  /\ Seen(t, m) \in Peers /\ Answered(t, m) \in Peers /\ Connected(t, m) \in Peers
         /\ Got(t, m) \in Peers
         /\ t.st \in OpenStates => HeardFin(t) \in Peers
<1>1. /\ m.ack \in Int /\ m.win \in Int /\ m.seq \in Int /\ m.data \in Bytes
      /\ m.seq + 1 \in Int
  BY DEF Segments
<1>2. /\ t.st \in PeerStates /\ t.snd \in Int /\ t.rcv \in Int /\ t.got \in Bytes
  BY PeerFields
<1> DEFINE st == IF m.ack # t.snd THEN t.st
                 ELSE CASE t.st = "SYN_RCVD" -> "ESTAB"
                        [] t.st = "FIN_WAIT_1" -> "FIN_WAIT_2"
                        [] t.st = "CLOSING" -> "TIMED_WAIT"
                        [] t.st = "LAST_ACK" -> "DONE"
                        [] OTHER -> t.st
<1>3. st \in PeerStates
  BY <1>2 DEF PeerStates, Statuses
<1>4. Seen(t, m) = [t EXCEPT !.una = m.ack, !.win = m.win, !.st = st]
  BY DEF Seen
<1> HIDE DEF st
<1>5. Seen(t, m) \in Peers
  BY <1>1, <1>3, <1>4 DEF Peers
<1>6. Answered(t, m) \in Peers
  <2>1. "SYN_RCVD" \in PeerStates /\ 1 \in Int
    BY DEF PeerStates, Statuses
  <2> QED BY <1>1, <2>1 DEF Answered, Peers
<1>7. Connected(t, m) \in Peers
  <2>1. "ESTAB" \in PeerStates
    BY DEF PeerStates, Statuses
  <2> QED BY <1>1, <2>1 DEF Connected, Peers
<1>8. Got(t, m) \in Peers
  <2> DEFINE s == Seen(t, m)
  <2>1. s \in Peers
    BY <1>5
  <2> HIDE DEF s
  <2>2. s.rcv \in Int /\ s.got \in Bytes /\ Len(m.data) \in Int
    BY <1>1, <2>1, PeerFields DEF Bytes
  <2>3. s.rcv + Len(m.data) \in Int /\ s.got \o m.data \in Bytes
    BY <1>1, <2>2, ConcatProperties DEF Bytes
  <2>4. [s EXCEPT !.rcv = @ + Len(m.data), !.got = @ \o m.data] \in Peers
    BY <2>1, <2>3 DEF Peers
  <2>5. Got(t, m) = IF m.seq # t.rcv THEN t
                    ELSE [s EXCEPT !.rcv = @ + Len(m.data), !.got = @ \o m.data]
    BY DEF Got, s
  <2> QED BY <2>4, <2>5
<1>9. ASSUME t.st \in OpenStates PROVE HeardFin(t) \in Peers
  <2> DEFINE x == CASE t.st = "ESTAB" -> "CLOSE_WAIT"
                    [] t.st = "FIN_WAIT_1" -> "CLOSING"
                    [] t.st = "FIN_WAIT_2" -> "TIMED_WAIT"
  <2>1. x \in PeerStates
    BY <1>9 DEF OpenStates, PeerStates, Statuses
  <2>2. HeardFin(t) = [t EXCEPT !.rcv = t.rcv + 1, !.st = x]
    BY DEF HeardFin
  <2> HIDE DEF x
  <2>3. t.rcv + 1 \in Int
    BY <1>2
  <2> QED BY <2>1, <2>2, <2>3 DEF Peers
<1> QED BY <1>5, <1>6, <1>7, <1>8, <1>9

LEMMA HeardType ==
  ASSUME NEW c, NEW t \in Peers, NEW m \in Segments
  PROVE  Heard(c, t, m).t \in Peers /\ Heard(c, t, m).out \in Seq(ShortSegments)
<1> DEFINE h == Heard(c, t, m)
           a == Answered(t, m)
<1>1. \A u \in Peers : <<Speak("ACK", u, <<>>)>> \in Seq(ShortSegments)
  BY PeerFields, SpeakType, EmptyBytes
<1>2. <<Speak("SYNACK", [a EXCEPT !.snd = 0], <<>>)>> \in Seq(ShortSegments)
  <2>1. a \in Peers
    BY HeardPartTypes
  <2> HIDE DEF a
  <2> DEFINE b == [a EXCEPT !.snd = 0]
  <2>2. b.snd \in Int /\ b.rcv \in Int
    BY <2>1 DEF Peers
  <2> HIDE DEF b
  <2>3. <<Speak("SYNACK", b, <<>>)>> \in Seq(ShortSegments)
    BY <2>2, SpeakType, EmptyBytes
  <2> QED BY <2>3 DEF b
<1>3. <<>> \in Seq(ShortSegments)
  OBVIOUS
<1> HIDE DEF h
<1>4. \/ /\ h.t = a /\ h.out = <<Speak("SYNACK", [a EXCEPT !.snd = 0], <<>>)>>
      \/ /\ h.t = Connected(t, m) /\ h.out = <<Speak("ACK", Connected(t, m), <<>>)>>
      \/ /\ h.t = Seen(t, m) /\ h.out = <<>>
      \/ /\ h.t = Got(t, m) /\ h.out = <<Speak("ACK", Got(t, m), <<>>)>>
      \/ /\ t.st \in OpenStates
         /\ h.t = HeardFin(t) /\ h.out = <<Speak("ACK", HeardFin(t), <<>>)>>
      \/ /\ h.t = t /\ h.out = <<>>
  BY HeardCases DEF h
<1>5. h.t \in Peers /\ h.out \in Seq(ShortSegments)
  BY <1>1, <1>2, <1>3, <1>4, HeardPartTypes
<1> QED BY <1>5 DEF h

LEMMA PeerReceiveTypes ==
  ASSUME Typed, NEW c \in Conns, PeerReceive(c)
  PROVE  Typed'
<1> DEFINE h == Heard(c, peer[c], Head(toPeer[c]))
<1>1. /\ toPeer \in [Conns -> Seq(Segments)] /\ toPeer[c] # <<>>
      /\ peer \in [Conns -> Peers]
      /\ toPeer' = [toPeer EXCEPT ![c] = Tail(toPeer[c])]
      /\ peer' = [peer EXCEPT ![c] = h.t]
      /\ Tell(c, h.out)
  BY DEF PeerReceive, Hears, Typed, NetType
<1>2. Head(toPeer[c]) \in Segments /\ Tail(toPeer[c]) \in Seq(Segments)
  BY <1>1
<1>3. h.t \in Peers /\ h.out \in Seq(ShortSegments)
  BY <1>1, <1>2, HeardType
<1> HIDE DEF h
<1>4. toHost' \in [Conns -> Seq(ShortSegments)]
  BY <1>1, <1>3, TellType DEF Typed
<1>5. /\ toPeer' \in [Conns -> Seq(Segments)] /\ peer' \in [Conns -> Peers]
  BY <1>1, <1>2, <1>3
<1> QED BY <1>4, <1>5 DEF PeerReceive, Typed, KernelType, AppsType, NetType, ProgType, kernel, apps

LEMMA InitTyped == Init => Typed
<1> SUFFICES ASSUME Init PROVE Typed
  OBVIOUS
<1>1. KernelType
  BY MaxFdAssumption DEF Init, KernelType
<1>2. AppsType
  BY DEF Init, AppsType, CallRecs, Idle, Ids, Bytes
<1>3. PICK s \in Scenarios :
        /\ prog = s.prog
        /\ peer = [c \in Conns |-> IF c \in Incoming \ s.clients
                                   THEN [Closed EXCEPT !.st = "DONE"] ELSE Closed]
  BY DEF Init
<1>4. Closed \in Peers /\ [Closed EXCEPT !.st = "DONE"] \in Peers
  <2>1. "CLOSED" \in PeerStates /\ "DONE" \in PeerStates /\ BUFSIZE \in Int
        /\ <<>> \in Bytes /\ 0 \in Int /\ 0 \in Nat
    BY IndexFacts, EmptyBytes DEF PeerStates, Statuses
  <2>2. Closed \in Peers
    BY <2>1 DEF Closed, Peers
  <2> HIDE DEF Closed
  <2> QED BY <2>1, <2>2 DEF Peers
<1>5. NetType
  BY <1>3, <1>4 DEF Init, NetType
<1>6. ProgType
  <2>1. prog = [p \in Pids |-> s.prog[p]]
    BY <1>3, ProgramsAssumption
  <2>2. ASSUME NEW p \in Pids PROVE s.prog[p] \in Seq(Calls_)
    <3> DEFINE C == {s.prog[p][i] : i \in DOMAIN s.prog[p]}
    <3>1. s.prog[p] \in Seq(C)
      BY ProgramsAssumption
    <3>2. \A k \in C : k \in Calls_
      BY DEF Calls_
    <3> HIDE DEF C
    <3> QED BY <3>1, <3>2
  <2> QED BY <2>1, <2>2 DEF ProgType
<1> QED BY <1>1, <1>2, <1>5, <1>6 DEF Typed

LEMMA NextTyped == Typed /\ [Next]_vars => Typed'
<1> SUFFICES ASSUME Typed, [Next]_vars PROVE Typed'
  OBVIOUS
<1>1. ASSUME NEW p \in Pids, Syscall(p) PROVE Typed'
  BY <1>1, SocketTypes, BindTypes, ListenTypes, ConnectTypes, AcceptTypes, ReadTypes,
     WriteTypes, CloseTypes, SkipTypes DEF Syscall
<1>2. ASSUME NEW c \in Conns, packetArrived(c) PROVE Typed'
  BY <1>2, SynTypes, SynAckTypes, AckTypes, FinTypes DEF packetArrived
<1>3. ASSUME NEW c \in Conns, Remote(c) PROVE Typed'
  BY <1>3, PeerOpenTypes, PeerRetryTypes, PeerSendTypes, PeerCloseTypes, PeerReceiveTypes
     DEF Remote
<1>4. CASE UNCHANGED vars
  BY <1>4 DEF vars, kernel, apps, Typed, KernelType, AppsType, NetType, ProgType
<1> QED BY <1>1, <1>2, <1>3, <1>4 DEF Next

\* Every field of every node, half-open connection, call, segment and remote
\* keeps its type: the ring indices stay inside the buffers.
THEOREM TcpTypes == Spec => []Typed
<1> QED BY InitTyped, NextTyped, PTL DEF Spec

LEMMA TypedTypeOK == Typed => TypeOK
<1> SUFFICES ASSUME Typed PROVE TypeOK
  OBVIOUS
<1>1. ASSUME NEW i \in DOMAIN socklist
      PROVE  LET n == socklist[i]
             IN  /\ n.owner \in Pids /\ n.sockfd \in 1..MaxFd \cup {-1}
                 /\ n.status \in Statuses
                 /\ n.dest \in Remotes \cup {NoRemote}
                 /\ {n.start_s, n.end_s, n.start_r, n.end_r} \subseteq Index
                 /\ n.recv_len \in Nat /\ n.send_len \in Nat
  <2>1. socklist[i] \in SockNode
    BY DEF Typed, KernelType
  <2> QED BY <2>1, NodeFields DEF SockNode, Descriptors
<1>2. \A i \in DOMAIN backlog_list : backlog_list[i].status = "SYN_RCVD"
  BY DEF Typed, KernelType, HalfNode
<1>3. \A i \in DOMAIN accept_queue : accept_queue[i].pid \in Pids
  <2>1. \A i \in DOMAIN accept_queue : accept_queue[i] \in QueueRecs
    BY DEF Typed, KernelType
  <2> QED BY <2>1 DEF QueueRecs
<1> QED BY <1>1, <1>2, <1>3 DEF TypeOK, Typed, KernelType

\* Whatever the programs call and the remotes send, every socket, entry, queue,
\* segment and remote keeps the shape the code gives it.
THEOREM TcpTypeCorrect == Spec => []TypeOK
<1> QED BY TcpTypes, TypedTypeOK, PTL

-----------------------------------------------------------------------------
(* Calls: each process is in one at a time, and is answered by its number. *)

CallsOK == \A p \in Pids : calls[p] # Idle =>
             /\ calls[p].id = <<p, Len(prog[p]) + 1>>
             /\ calls[p].op \in Ops

LEMMA ProgFacts ==
  ASSUME Typed, NEW p \in Pids
  PROVE  prog[p] \in Seq(Calls_) /\ Len(prog[p]) \in Nat
<1>1. prog[p] \in Seq(Calls_)
  BY DEF Typed, ProgType
<1> HIDE DEF Calls_
<1> QED BY <1>1

\* A call and its answers.
LEMMA CallStep ==
  ASSUME Typed, CallsOK, NEW p \in Pids, NEW op \in Ops, Enter(p, op), NEW port \in Nat,
         NEW A \in SUBSET AnswerRecs, Reply(A, Called(p, port))
  PROVE  /\ calls'[p] = IF \E a \in A : a.id = Id(p) THEN Idle
                        ELSE [op |-> op, id |-> Id(p), port |-> port]
         /\ \A q \in Pids : q # p => calls'[q] = calls[q] \/ calls'[q] = Idle
         /\ (\A a \in A : a.id = Id(p)) => \A q \in Pids : q # p => calls'[q] = calls[q]
         /\ CallsOK'
<1>1. Runs(p) /\ Next_(p).op = op
  BY DEF Enter
<1>2. /\ Called(p, port) \in [Pids -> CallRecs]
      /\ Called(p, port)[p] = [op |-> op, id |-> Id(p), port |-> port]
      /\ \A q \in Pids : q # p => Called(p, port)[q] = calls[q]
  BY <1>1, CalledType
<1>3. \A q \in Pids :
        calls'[q] = IF Answers(A, Called(p, port)[q]) THEN Idle ELSE Called(p, port)[q]
  BY <1>2, ReplyFacts DEF Typed
<1>4. [op |-> op, id |-> Id(p), port |-> port] # Idle
  BY DEF Idle, Ops
<1>5. calls'[p] = IF \E a \in A : a.id = Id(p) THEN Idle
                  ELSE [op |-> op, id |-> Id(p), port |-> port]
  BY <1>2, <1>3, <1>4 DEF Answers
<1>6. \A q \in Pids : q # p => calls'[q] = calls[q] \/ calls'[q] = Idle
  BY <1>2, <1>3
<1>7. ASSUME \A a \in A : a.id = Id(p), NEW q \in Pids, q # p
      PROVE  calls'[q] = calls[q]
  <2>1. calls[q] # Idle => calls[q].id # Id(p)
    BY <1>7 DEF CallsOK, Id
  <2> QED BY <1>2, <1>3, <1>7, <2>1 DEF Answers
<1>8. CallsOK'
  <2> SUFFICES ASSUME NEW q \in Pids, calls'[q] # Idle
               PROVE  /\ calls'[q].id = <<q, Len(prog'[q]) + 1>>
                      /\ calls'[q].op \in Ops
    BY DEF CallsOK
  <2>1. CASE q = p
    <3>1. calls'[q] = [op |-> op, id |-> Id(p), port |-> port]
      BY <1>5, <2>1
    <3>2. Len(prog'[p]) = Len(prog[p]) - 1 /\ Len(prog[p]) \in Nat
      BY <1>1, Running
    <3>3. Len(prog'[p]) + 1 = Len(prog[p])
      BY <3>2
    <3> QED BY <2>1, <3>1, <3>3 DEF Id
  <2>2. CASE q # p
    <3>1. calls'[q] = calls[q] /\ calls[q] # Idle
      BY <1>6, <2>2
    <3>2. prog'[q] = prog[q]
      BY <1>1, <2>2, Running
    <3> QED BY <3>1, <3>2 DEF CallsOK
  <2> QED BY <2>1, <2>2
<1> QED BY <1>5, <1>6, <1>7, <1>8

\* A call answered at once, one that returns no data, and one that blocks.
LEMMA OneAnswer ==
  ASSUME NEW id, NEW val, NEW S, Answer(id, val) \in S
  PROVE  {Answer(id, val)} \in SUBSET S /\ Answer(id, val).id = id
BY DEF Answer

LEMMA AnsweredStep ==
  ASSUME Typed, CallsOK, NEW p \in Pids, NEW op \in Ops, Enter(p, op), NEW port \in Nat,
         NEW a \in AnswerRecs, a.id = Id(p), Reply({a}, Called(p, port))
  PROVE  /\ calls'[p] = Idle /\ \A q \in Pids : q # p => calls'[q] = calls[q]
         /\ CallsOK'
<1>1. Runs(p)
  BY DEF Enter
<1>2. {a} \in SUBSET AnswerRecs
  OBVIOUS
<1> QED BY <1>1, <1>2, CallStep, ZenonT(60)

LEMMA ReturnsStep ==
  ASSUME Typed, CallsOK, NEW p \in Pids, NEW op \in Ops, Enter(p, op),
         NEW val \in Int, Returns(p, val)
  PROVE  /\ calls'[p] = Idle /\ \A q \in Pids : q # p => calls'[q] = calls[q]
         /\ CallsOK'
<1>1. Runs(p)
  BY DEF Enter
<1>2. {Answer(Id(p), val)} \in SUBSET AnswerRecs /\ Answer(Id(p), val).id = Id(p)
  BY <1>1, Running, AnswerType, Empties, OneAnswer
<1>3. Reply({Answer(Id(p), val)}, Called(p, 0))
  BY DEF Returns
<1> QED BY <1>2, <1>3, CallStep, ZenonT(60)

LEMMA BlocksStep ==
  ASSUME Typed, CallsOK, NEW p \in Pids, NEW op \in Ops, Enter(p, op), Blocks(p)
  PROVE  /\ calls'[p] = [op |-> op, id |-> Id(p), port |-> 0]
         /\ \A q \in Pids : q # p => calls'[q] = calls[q]
         /\ CallsOK'
<1>1. Reply({}, Called(p, 0))
  BY DEF Blocks
<1> QED BY <1>1, CallStep, Empties

\* What a step of the network may do to calls: answer some.
LEMMA AnswersStep ==
  ASSUME Typed, CallsOK, NEW A \in SUBSET AnswerRecs, Reply(A, calls), UNCHANGED prog
  PROVE  /\ \A p \in Pids : calls'[p] = IF Answers(A, calls[p]) THEN Idle ELSE calls[p]
         /\ CallsOK'
<1>1. calls \in [Pids -> CallRecs] /\ AppsType
  BY DEF Typed, AppsType
<1>2. \A p \in Pids : calls'[p] = IF Answers(A, calls[p]) THEN Idle ELSE calls[p]
  BY <1>1, ReplyFacts
<1>3. CallsOK'
  BY <1>2 DEF CallsOK
<1> QED BY <1>2, <1>3

\* The number of a pending call is not the one of no call.
LEMMA PendingId ==
  ASSUME CallsOK, NEW p \in Pids, NEW op, Pending(p, op)
  PROVE  calls[p] # Idle /\ calls[p].id[1] = p /\ p > 0 /\ p \in Nat
BY PidsAssumption DEF Pending, CallsOK

\* A call of p blocks or returns, and no other process is answered.
SyscallStep(p) ==
  /\ CallsOK'
  /\ \A q \in Pids : q # p => calls'[q] = calls[q]
  /\ \/ calls'[p] = Idle
     \/ calls'[p].op = Next_(p).op /\ calls'[p].id = Id(p)

\* The nodes of the other processes.
Others(sl, p) == {sl[i] : i \in {j \in DOMAIN sl : sl[j].owner # p}}

LEMMA ReplaceOwn ==
  ASSUME Typed, NEW p \in Pids, NEW i \in DOMAIN socklist, socklist[i].owner = p,
         NEW m \in SockNode, m.owner = p, socklist' = [socklist EXCEPT ![i] = m]
  PROVE  Others(socklist', p) = Others(socklist, p)
<1>1. socklist \in Seq(SockNode)
  BY DEF Typed, KernelType
<1>2. /\ DOMAIN socklist' = DOMAIN socklist
      /\ \A j \in DOMAIN socklist : socklist'[j] = IF j = i THEN m ELSE socklist[j]
  BY <1>1, UpdateSeq
<1> QED BY <1>2 DEF Others

LEMMA ConsOthers ==
  ASSUME Typed, NEW m \in SockNode, socklist' = <<m>> \o socklist
  PROVE  /\ \A p \in Pids : m.owner = p => Others(socklist', p) = Others(socklist, p)
         /\ \A i \in DOMAIN socklist : /\ i + 1 \in DOMAIN socklist'
                                       /\ socklist'[i+1] = socklist[i]
         /\ \A i \in DOMAIN socklist' :
              i = 1 \/ (i - 1 \in DOMAIN socklist /\ socklist'[i] = socklist[i-1])
         /\ 1 \in DOMAIN socklist' /\ socklist'[1] = m
<1>1. socklist \in Seq(SockNode) /\ DOMAIN socklist = 1..Len(socklist) /\ Len(socklist) \in Nat
  BY DEF Typed, KernelType
<1>2. /\ DOMAIN socklist' = 1..Len(socklist)+1 /\ socklist'[1] = m
      /\ \A k \in 1..Len(socklist) : socklist'[k+1] = socklist[k]
  BY <1>1, ConsSeq
<1>3. \A i \in DOMAIN socklist : i + 1 \in DOMAIN socklist' /\ socklist'[i+1] = socklist[i]
  BY <1>1, <1>2
<1>4. \A i \in DOMAIN socklist' : i = 1 \/ (i - 1 \in DOMAIN socklist /\ (i-1)+1 = i)
  BY <1>1, <1>2
<1>5. 1 \in DOMAIN socklist'
  BY <1>1, <1>2
<1>6. ASSUME NEW p \in Pids, m.owner = p
      PROVE  Others(socklist', p) = Others(socklist, p)
  <2>1. \A n \in Others(socklist, p) : n \in Others(socklist', p)
    BY <1>3 DEF Others
  <2>2. \A n \in Others(socklist', p) : n \in Others(socklist, p)
    <3> SUFFICES ASSUME NEW i \in DOMAIN socklist', socklist'[i].owner # p
                 PROVE  socklist'[i] \in Others(socklist, p)
      BY DEF Others
    <3>1. i # 1
      BY <1>2, <1>6
    <3>2. i - 1 \in DOMAIN socklist /\ socklist'[i] = socklist[i-1]
      BY <1>3, <1>4, <3>1
    <3> QED BY <3>2 DEF Others
  <2> QED BY <2>1, <2>2
<1>7. \A i \in DOMAIN socklist' :
        i = 1 \/ (i - 1 \in DOMAIN socklist /\ socklist'[i] = socklist[i-1])
  BY <1>1, <1>2
<1> QED BY <1>2, <1>3, <1>5, <1>6, <1>7

LEMMA SocketStep ==
  ASSUME Typed, CallsOK, NEW p \in Pids, Socket(p)
  PROVE  /\ SyscallStep(p) /\ Others(socklist', p) = Others(socklist, p)
         /\ calls'[p] = Idle
<1>1. Enter(p, "socket") /\ Returns(p, Create(p, fds))
  BY DEF Socket
<1>2. Create(p, fds) \in Int /\ Create(p, fds) \in Descriptors
  BY CreateType DEF Typed, KernelType
<1>3. CallsOK' /\ calls'[p] = Idle /\ \A q \in Pids : q # p => calls'[q] = calls[q]
  BY <1>1, <1>2, ReturnsStep DEF Ops
<1>4. \/ socklist' = socklist
      \/ \E st \in FreshStatus : socklist' = <<FreshNode(p, Create(p, fds), st)>> \o socklist
  BY DEF Socket
<1>5. ASSUME NEW st \in FreshStatus
      PROVE  /\ FreshNode(p, Create(p, fds), st) \in SockNode
             /\ FreshNode(p, Create(p, fds), st).owner = p
  <2>1. FreshNode(p, Create(p, fds), st) \in NodeOf({p}, {Create(p, fds)})
    BY FreshType, EndpointsAssumption
  <2>2. FreshNode(p, Create(p, fds), st) \in SockNode
    BY <1>2, <2>1, NodeMonotone DEF SockNode
  <2> QED BY <2>1, <2>2, NodeFields
<1>6. Others(socklist', p) = Others(socklist, p)
  BY <1>4, <1>5, ConsOthers
<1> QED BY <1>3, <1>6 DEF SyscallStep

\* What a call about a node does to it: nothing to whose it is.
LEMMA OwnNode ==
  ASSUME Typed, NEW p \in Pids, Node(p) # 0, NEW m \in SockNode, m.owner = p,
         socklist' = [socklist EXCEPT ![Node(p)] = m]
  PROVE  Others(socklist', p) = Others(socklist, p)
<1>1. Node(p) \in DOMAIN socklist /\ socklist[Node(p)].owner = p
  BY NodeLookup
<1> QED BY <1>1, ReplaceOwn

Bound(p) == [socklist[Node(p)] EXCEPT !.srcip = Next_(p).ip, !.srcport = Next_(p).port,
                                      !.bound = TRUE]

LEMMA BindCases ==
  ASSUME Typed, NEW p \in Pids, Bind(p)
  PROVE  /\ Enter(p, "bind")
         /\ \/ socklist' = socklist
            \/ /\ Node(p) # 0 /\ Bound(p) \in SockNode /\ ~socklist[Node(p)].bound
               /\ Bound(p).owner = p /\ Bound(p).srcport = Next_(p).port
               /\ Bound(p).sockfd = socklist[Node(p)].sockfd
               /\ Bound(p).status = socklist[Node(p)].status
               /\ Bound(p).dest = socklist[Node(p)].dest
               /\ Bound(p).used = socklist[Node(p)].used
               /\ Bound(p).backlog = socklist[Node(p)].backlog
               /\ socklist' = [socklist EXCEPT ![Node(p)] = Bound(p)]
         /\ Blocks(p) \/ \E val \in Int : Returns(p, val)
         /\ UNCHANGED <<backlog_list, accept_queue, fds, toHost, toPeer, peer>>
<1>1. Enter(p, "bind") /\ Runs(p) /\ Next_(p).op = "bind"
  BY DEF Bind, Enter
<1>2. Next_(p).ip \in {AnyAddr, Here} /\ Next_(p).port \in Nat
  BY <1>1, Running DEF IsCall
<1>3. [socklist EXCEPT ![Node(p)].srcip = Next_(p).ip, ![Node(p)].srcport = Next_(p).port,
                       ![Node(p)].bound = TRUE] = [socklist EXCEPT ![Node(p)] = Bound(p)]
  BY DEF Bound
<1>4. \/ socklist' = socklist
      \/ /\ Node(p) # 0 /\ ~socklist[Node(p)].bound
         /\ socklist' = [socklist EXCEPT ![Node(p)] = Bound(p)]
  BY <1>3 DEF Bind
<1>5. Node(p) # 0 =>
        /\ Bound(p) \in SockNode /\ Bound(p).owner = p /\ Bound(p).srcport = Next_(p).port
        /\ Bound(p).sockfd = socklist[Node(p)].sockfd
        /\ Bound(p).status = socklist[Node(p)].status
        /\ Bound(p).dest = socklist[Node(p)].dest
        /\ Bound(p).used = socklist[Node(p)].used
        /\ Bound(p).backlog = socklist[Node(p)].backlog
  <2> SUFFICES ASSUME Node(p) # 0 PROVE
        /\ Bound(p) \in SockNode /\ Bound(p).owner = p /\ Bound(p).srcport = Next_(p).port
        /\ Bound(p).sockfd = socklist[Node(p)].sockfd
        /\ Bound(p).status = socklist[Node(p)].status
        /\ Bound(p).dest = socklist[Node(p)].dest
        /\ Bound(p).used = socklist[Node(p)].used
        /\ Bound(p).backlog = socklist[Node(p)].backlog
    OBVIOUS
  <2>1. socklist[Node(p)] \in SockNode /\ socklist[Node(p)].owner = p
    BY NodeLookup
  <2> QED BY <1>2, <2>1 DEF SockNode, NodeOf, Bound
<1>6. Blocks(p) \/ Returns(p, -1) \/ Returns(p, 0)
  BY DEF Bind
<1>7. UNCHANGED <<backlog_list, accept_queue, fds, toHost, toPeer, peer>>
  BY DEF Bind
<1> QED BY <1>1, <1>4, <1>5, <1>6, <1>7

\* A call other than accept, read and write: blocked or answered.
LEMMA PlainStep ==
  ASSUME Typed, CallsOK, NEW p \in Pids, NEW op \in Ops, Enter(p, op),
         Blocks(p) \/ \E val \in Int : Returns(p, val)
  PROVE  /\ SyscallStep(p)
         /\ calls'[p] = Idle \/ calls'[p] = [op |-> op, id |-> Id(p), port |-> 0]
<1>1. CASE Blocks(p)
  <2>1. /\ calls'[p] = [op |-> op, id |-> Id(p), port |-> 0] /\ CallsOK'
        /\ \A q \in Pids : q # p => calls'[q] = calls[q]
    BY <1>1, BlocksStep
  <2>2. Next_(p).op = op
    BY DEF Enter
  <2> QED BY <2>1, <2>2 DEF SyscallStep
<1>2. ASSUME NEW val \in Int, Returns(p, val)
      PROVE  SyscallStep(p) /\ calls'[p] = Idle
  BY <1>2, ReturnsStep DEF SyscallStep
<1> QED BY <1>1, <1>2

LEMMA BindStep ==
  ASSUME Typed, CallsOK, NEW p \in Pids, Bind(p)
  PROVE  /\ SyscallStep(p) /\ Others(socklist', p) = Others(socklist, p)
         /\ calls'[p] = Idle \/ calls'[p].op = "bind"
<1>1. Enter(p, "bind") /\ (Blocks(p) \/ \E val \in Int : Returns(p, val))
  BY BindCases
<1>2. SyscallStep(p) /\ (calls'[p] = Idle \/ calls'[p] = [op |-> "bind", id |-> Id(p), port |-> 0])
  BY <1>1, PlainStep DEF Ops
<1>3. Others(socklist', p) = Others(socklist, p)
  BY BindCases, OwnNode
<1> QED BY <1>2, <1>3

Listening(p) == [socklist[Node(p)] EXCEPT !.status = "LISTENING", !.backlog = Next_(p).n]

LEMMA ListenCases ==
  ASSUME Typed, NEW p \in Pids, Listen(p)
  PROVE  /\ Enter(p, "listen") /\ Node(p) # 0
         /\ Listening(p) \in SockNode /\ Listening(p).owner = p
         /\ Listening(p).status = "LISTENING" /\ Listening(p).backlog = Next_(p).n
         /\ Listening(p).sockfd = socklist[Node(p)].sockfd
         /\ Listening(p).srcport = socklist[Node(p)].srcport
         /\ Listening(p).dest = socklist[Node(p)].dest
         /\ Listening(p).used = socklist[Node(p)].used
         /\ socklist' = [socklist EXCEPT ![Node(p)] = Listening(p)]
         /\ Returns(p, 0)
         /\ UNCHANGED <<backlog_list, accept_queue, fds, toHost, toPeer, peer>>
<1>1. Enter(p, "listen") /\ Runs(p) /\ Next_(p).op = "listen" /\ Node(p) # 0
  BY DEF Listen, Enter
<1>2. Next_(p).n \in Nat
  BY <1>1, Running DEF IsCall
<1>3. socklist[Node(p)] \in SockNode /\ socklist[Node(p)].owner = p
  BY <1>1, NodeLookup
<1>4. [socklist EXCEPT ![Node(p)].status = "LISTENING", ![Node(p)].backlog = Next_(p).n]
        = [socklist EXCEPT ![Node(p)] = Listening(p)]
  BY DEF Listening
<1>5. /\ Listening(p) \in SockNode /\ Listening(p).owner = p
      /\ Listening(p).status = "LISTENING" /\ Listening(p).backlog = Next_(p).n
      /\ Listening(p).sockfd = socklist[Node(p)].sockfd
      /\ Listening(p).srcport = socklist[Node(p)].srcport
      /\ Listening(p).dest = socklist[Node(p)].dest
      /\ Listening(p).used = socklist[Node(p)].used
  BY <1>2, <1>3 DEF SockNode, NodeOf, Listening, Statuses
<1> QED BY <1>1, <1>4, <1>5 DEF Listen

LEMMA ListenStep ==
  ASSUME Typed, CallsOK, NEW p \in Pids, Listen(p)
  PROVE  /\ SyscallStep(p) /\ Others(socklist', p) = Others(socklist, p)
         /\ calls'[p] = Idle \/ calls'[p].op = "listen"
<1>1. Enter(p, "listen") /\ \E val \in Int : Returns(p, val)
  BY ListenCases
<1>2. SyscallStep(p) /\ (calls'[p] = Idle \/ calls'[p] = [op |-> "listen", id |-> Id(p), port |-> 0])
  BY <1>1, PlainStep DEF Ops
<1>3. Others(socklist', p) = Others(socklist, p)
  BY ListenCases, OwnNode
<1> QED BY <1>2, <1>3

\* The node connect leaves, on the port it drew.
Connecting(p, port) ==
  [socklist[Node(p)] EXCEPT !.srcip = Here, !.srcport = port, !.dest = Next_(p).to,
                            !.bound = TRUE, !.uuid = Id(p), !.seq = 0, !.ack = 0,
                            !.status = "SYN_SENT"]

LEMMA ConnectCases ==
  ASSUME Typed, NEW p \in Pids, Connect(p)
  PROVE  /\ Enter(p, "connect") /\ Node(p) # 0 /\ Next_(p).to \in Remotes
         /\ \E port \in allocate_port(socklist) :
              /\ Connecting(p, port) \in SockNode /\ Connecting(p, port).owner = p
              /\ Connecting(p, port).sockfd = socklist[Node(p)].sockfd
              /\ Connecting(p, port).used = socklist[Node(p)].used
              /\ Connecting(p, port).srcport = port /\ Connecting(p, port).dest = Next_(p).to
              /\ Connecting(p, port).status = "SYN_SENT" /\ Connecting(p, port).seq = 0
              /\ Connecting(p, port).uuid = Id(p)
              /\ socklist' = [socklist EXCEPT ![Node(p)] = Connecting(p, port)]
              /\ Post(<<Next_(p).to, port>>, <<Segment("SYN", 0, 0, BUFSIZE, <<>>)>>)
         /\ Blocks(p)
         /\ UNCHANGED <<backlog_list, accept_queue, fds, toHost, peer>>
<1>1. Enter(p, "connect") /\ Runs(p) /\ Next_(p).op = "connect" /\ Node(p) # 0
  BY DEF Connect, Enter
<1>2. Next_(p).to \in Remotes /\ Id(p) \in Ids
  BY <1>1, Running DEF IsCall
<1>3. socklist[Node(p)] \in SockNode /\ socklist[Node(p)].owner = p
  BY <1>1, NodeLookup
<1>4. PICK port \in allocate_port(socklist) :
        /\ socklist' = [socklist EXCEPT ![Node(p)] = Connecting(p, port)]
        /\ Post(<<Next_(p).to, port>>, <<Segment("SYN", 0, 0, BUFSIZE, <<>>)>>)
  BY DEF Connect, Connecting
<1>5. port \in Nat
  BY EndpointsAssumption DEF allocate_port
<1> DEFINE a == [socklist[Node(p)] EXCEPT !.srcip = Here, !.srcport = port,
                                          !.dest = Next_(p).to, !.bound = TRUE]
<1>6. a \in SockNode /\ a.owner = p /\ a.sockfd = socklist[Node(p)].sockfd
      /\ a.used = socklist[Node(p)].used /\ a.srcport = port /\ a.dest = Next_(p).to
  BY <1>2, <1>3, <1>5 DEF SockNode, NodeOf
<1>7. Connecting(p, port) = Numbered(a, Id(p), 0, 0, "SYN_SENT")
  BY DEF Connecting, Numbered
<1> HIDE DEF a
<1>8. "SYN_SENT" \in Statuses
  BY DEF Statuses
<1>9. Connecting(p, port) \in SockNode
  BY <1>2, <1>6, <1>7, <1>8, NumberedType DEF SockNode
<1>10. /\ Connecting(p, port).owner = a.owner /\ Connecting(p, port).sockfd = a.sockfd
       /\ Connecting(p, port).used = a.used /\ Connecting(p, port).srcport = a.srcport
       /\ Connecting(p, port).dest = a.dest /\ Connecting(p, port).status = "SYN_SENT"
       /\ Connecting(p, port).seq = 0 /\ Connecting(p, port).uuid = Id(p)
  BY <1>6, <1>7 DEF Numbered, SockNode, NodeOf
<1>11. Blocks(p) /\ UNCHANGED <<backlog_list, accept_queue, fds, toHost, peer>>
  BY DEF Connect
<1> QED BY <1>1, <1>2, <1>4, <1>6, <1>9, <1>10, <1>11

LEMMA ConnectStep ==
  ASSUME Typed, CallsOK, NEW p \in Pids, Connect(p)
  PROVE  /\ SyscallStep(p) /\ Others(socklist', p) = Others(socklist, p)
         /\ calls'[p] = Idle \/ calls'[p].op = "connect"
<1>1. Enter(p, "connect") /\ Blocks(p)
  BY ConnectCases
<1>2. SyscallStep(p) /\ (calls'[p] = Idle \/ calls'[p] = [op |-> "connect", id |-> Id(p), port |-> 0])
  BY <1>1, PlainStep DEF Ops
<1>3. Others(socklist', p) = Others(socklist, p)
  BY ConnectCases, OwnNode
<1> QED BY <1>2, <1>3

\* The node accept takes.
Taken(p) == [socklist[Found(p)] EXCEPT !.used = TRUE]

LEMMA TakenFacts ==
  ASSUME Typed, NEW p \in Pids, Accept(p), Found(p) # 0
  PROVE  /\ Found(p) \in DOMAIN socklist /\ socklist[Found(p)] \in SockNode
         /\ socklist[Found(p)].owner = p
         /\ Taken(p) \in SockNode /\ Taken(p).owner = p /\ Taken(p).used
         /\ Taken(p).sockfd = socklist[Found(p)].sockfd
         /\ Taken(p).srcport = socklist[Found(p)].srcport
         /\ Taken(p).dest = socklist[Found(p)].dest
         /\ Taken(p).status = socklist[Found(p)].status
         /\ Taken(p).backlog = socklist[Found(p)].backlog
         /\ socklist' = [socklist EXCEPT ![Found(p)] = Taken(p)]
<1>1. /\ Found(p) \in DOMAIN socklist
      /\ Acceptable(socklist[Found(p)], socklist[ListenerNamed(On(p))].srcport, p)
      /\ socklist' = [socklist EXCEPT ![Found(p)].used = TRUE]
  BY AcceptCases
<1>2. socklist[Found(p)] \in SockNode
  BY <1>1, NodeLookup
<1>3. socklist[Found(p)].owner = p
  BY <1>1 DEF Acceptable
<1>4. /\ Taken(p) \in SockNode /\ Taken(p).owner = p /\ Taken(p).used
      /\ Taken(p).sockfd = socklist[Found(p)].sockfd
      /\ Taken(p).srcport = socklist[Found(p)].srcport
      /\ Taken(p).dest = socklist[Found(p)].dest
      /\ Taken(p).status = socklist[Found(p)].status
      /\ Taken(p).backlog = socklist[Found(p)].backlog
  BY <1>2, <1>3 DEF SockNode, NodeOf, Taken
<1>5. socklist' = [socklist EXCEPT ![Found(p)] = Taken(p)]
  BY <1>1 DEF Taken
<1> QED BY <1>1, <1>2, <1>3, <1>4, <1>5

LEMMA AcceptStep ==
  ASSUME Typed, CallsOK, NEW p \in Pids, Accept(p)
  PROVE  /\ SyscallStep(p) /\ Others(socklist', p) = Others(socklist, p)
         /\ Found(p) # 0 => calls'[p] = Idle
         /\ Found(p) = 0 => /\ calls'[p].op = "accept" /\ calls'[p].id = Id(p)
                            /\ calls'[p].port = Asked(p)
<1>1. Enter(p, "accept") /\ Runs(p) /\ Next_(p).op = "accept" /\ Asked(p) \in Nat
  BY AcceptCases
<1>2. CASE Found(p) # 0
  <2>1. Reply({Answer(Id(p), socklist[Found(p)].sockfd)}, Called(p, Asked(p)))
    BY <1>2, AcceptCases
  <2>2. socklist[Found(p)].sockfd \in Int
    BY <1>2, TakenFacts, NodeFields, MaxFdAssumption DEF SockNode, Descriptors
  <2>3. "accept" \in Ops
    BY DEF Ops
  <2>6. /\ Answer(Id(p), socklist[Found(p)].sockfd) \in AnswerRecs
        /\ Answer(Id(p), socklist[Found(p)].sockfd).id = Id(p)
    BY <1>1, <2>2, Running, AnswerType, OneAnswer
  <2>4. /\ calls'[p] = Idle /\ CallsOK'
        /\ \A q \in Pids : q # p => calls'[q] = calls[q]
    BY <1>1, <2>1, <2>3, <2>6, AnsweredStep
  <2>5. Others(socklist', p) = Others(socklist, p)
    BY <1>2, TakenFacts, ReplaceOwn
  <2> QED BY <1>2, <2>4, <2>5 DEF SyscallStep
<1>3. CASE Found(p) = 0
  <2>1. Reply({}, Called(p, Asked(p))) /\ socklist' = socklist
    BY <1>3, AcceptCases
  <2>2. /\ calls'[p] = [op |-> "accept", id |-> Id(p), port |-> Asked(p)] /\ CallsOK'
        /\ \A q \in Pids : q # p => calls'[q] = calls[q]
    BY <1>1, <2>1, CallStep, Empties DEF Ops
  <2> QED BY <1>1, <1>3, <2>1, <2>2 DEF SyscallStep
<1> QED BY <1>2, <1>3

\* What read does in its three cases.
ReadWaits(p) == [socklist[Node(p)] EXCEPT !.read_uuid = Id(p), !.read_len = Next_(p).n]

LEMMA ConsumedFields ==
  ASSUME NEW n \in SockNode, NEW len
  PROVE  /\ Consumed(n, len).owner = n.owner /\ Consumed(n, len).status = n.status
         /\ SameSocket(Consumed(n, len), n) /\ Consumed(n, len).seq = n.seq
         /\ Consumed(n, len).ack = n.ack /\ Consumed(n, len).recv_len = n.recv_len - len
BY DEF Consumed, SameSocket, SockNode, NodeOf

LEMMA ReadCases ==
  ASSUME Typed, NEW p \in Pids, Read(p)
  PROVE  LET i == Node(p)
             n == socklist[i]
             len == Next_(p).n
         IN  /\ Enter(p, "read") /\ Runs(p) /\ Next_(p).op = "read" /\ i # 0
             /\ len \in 0..BUFSIZE
             /\ \/ /\ n.status = "ESTAB" /\ n.recv_len < len
                   /\ ReadWaits(p) \in SockNode /\ SameSocket(ReadWaits(p), n)
                   /\ ReadWaits(p).status = n.status
                   /\ ReadWaits(p).seq = n.seq /\ ReadWaits(p).ack = n.ack
                   /\ ReadWaits(p).recv_len = n.recv_len
                   /\ ReadWaits(p).read_uuid = Id(p) /\ ReadWaits(p).read_len = len
                   /\ socklist' = [socklist EXCEPT ![i] = ReadWaits(p)]
                   /\ Blocks(p)
                \/ /\ n.status = "ESTAB" /\ n.recv_len >= len
                   /\ Consumed(n, len) \in SockNode /\ SameSocket(Consumed(n, len), n)
                   /\ Consumed(n, len).status = n.status
                   /\ Consumed(n, len).seq = n.seq /\ Consumed(n, len).ack = n.ack
                   /\ Consumed(n, len).recv_len = n.recv_len - len
                   /\ socklist' = [socklist EXCEPT ![i] = Consumed(n, len)]
                   /\ Load(n.recv_buffer, n.start_r, len) \in Bytes
                   /\ Reply({ReadAnswer(Id(p), n, len)},
                            Called(p, 0))
                \/ /\ n.status # "ESTAB" /\ socklist' = socklist /\ Returns(p, -1)
             /\ UNCHANGED <<backlog_list, accept_queue, fds, toHost, toPeer, peer>>
<1> DEFINE i == Node(p)
           n == socklist[i]
           len == Next_(p).n
<1>1. Enter(p, "read") /\ Runs(p) /\ Next_(p).op = "read" /\ i # 0
  BY DEF Read, Enter
<1>2. len \in 0..BUFSIZE /\ len \in Nat /\ Id(p) \in Ids
  BY <1>1, Running, IndexFacts DEF IsCall
<1>3. n \in SockNode
  BY <1>1, NodeLookup
<1>4. [socklist EXCEPT ![i].read_uuid = Id(p), ![i].read_len = len]
        = [socklist EXCEPT ![i] = ReadWaits(p)]
  BY DEF ReadWaits
<1>5. /\ ReadWaits(p) \in SockNode /\ SameSocket(ReadWaits(p), n)
      /\ ReadWaits(p).status = n.status
      /\ ReadWaits(p).seq = n.seq /\ ReadWaits(p).ack = n.ack
      /\ ReadWaits(p).recv_len = n.recv_len
      /\ ReadWaits(p).read_uuid = Id(p) /\ ReadWaits(p).read_len = len
  BY <1>2, <1>3 DEF SockNode, NodeOf, ReadWaits, SameSocket
<1>6. n.recv_buffer \in Buffer /\ n.start_r \in Int /\ n.recv_len \in Nat
  BY <1>3, NodeFields, IndexFacts DEF SockNode
<1>7. n.recv_len >= len => Consumed(n, len) \in SockNode
  BY <1>2, <1>3, <1>6, ConsumedType DEF SockNode
<1>8. Load(n.recv_buffer, n.start_r, len) \in Bytes
  BY <1>2, <1>6, LoadType
<1>9. \/ /\ n.status = "ESTAB" /\ n.recv_len < len
         /\ socklist' = [socklist EXCEPT ![i] = ReadWaits(p)] /\ Blocks(p)
      \/ /\ n.status = "ESTAB" /\ n.recv_len >= len
         /\ socklist' = [socklist EXCEPT ![i] = Consumed(n, len)]
         /\ Reply({ReadAnswer(Id(p), n, len)}, Called(p, 0))
      \/ n.status # "ESTAB" /\ socklist' = socklist /\ Returns(p, -1)
  BY <1>4 DEF Read
<1>10. UNCHANGED <<backlog_list, accept_queue, fds, toHost, toPeer, peer>>
  BY DEF Read
<1>11. /\ SameSocket(Consumed(n, len), n) /\ Consumed(n, len).status = n.status
       /\ Consumed(n, len).seq = n.seq /\ Consumed(n, len).ack = n.ack
       /\ Consumed(n, len).recv_len = n.recv_len - len
  BY <1>3, ConsumedFields
<1> HIDE DEF i, n, len
<1> QED BY <1>1, <1>2, <1>5, <1>7, <1>8, <1>9, <1>10, <1>11 DEF i, n, len

LEMMA ReadStep ==
  ASSUME Typed, CallsOK, NEW p \in Pids, Read(p)
  PROVE  /\ SyscallStep(p) /\ Others(socklist', p) = Others(socklist, p)
         /\ \/ calls'[p] = Idle
            \/ /\ calls'[p].op = "read" /\ calls'[p].id = Id(p)
               /\ Node(p) \in DOMAIN socklist'
               /\ socklist'[Node(p)] = ReadWaits(p)
               /\ ReadWaits(p).owner = p /\ ReadWaits(p).status = "ESTAB"
               /\ ReadWaits(p).read_uuid = Id(p)
               /\ ReadWaits(p).recv_len < ReadWaits(p).read_len
<1> DEFINE i == Node(p)
           n == socklist[i]
           len == Next_(p).n
<1>1. Enter(p, "read") /\ Runs(p) /\ Next_(p).op = "read" /\ i # 0 /\ len \in 0..BUFSIZE
  BY ReadCases
<1>2. i \in DOMAIN socklist /\ n \in SockNode /\ n.owner = p /\ Id(p) \in Ids
  BY <1>1, NodeLookup, Running
<1>3. CASE n.status # "ESTAB" /\ socklist' = socklist /\ Returns(p, -1)
  <2>1. calls'[p] = Idle /\ CallsOK' /\ \A q \in Pids : q # p => calls'[q] = calls[q]
    BY <1>1, <1>3, ReturnsStep DEF Ops
  <2> QED BY <1>3, <2>1 DEF SyscallStep
<1>4. CASE /\ Consumed(n, len) \in SockNode /\ SameSocket(Consumed(n, len), n)
           /\ socklist' = [socklist EXCEPT ![i] = Consumed(n, len)]
           /\ Reply({ReadAnswer(Id(p), n, len)}, Called(p, 0))
  <2>1. /\ ReadAnswer(Id(p), n, len) \in AnswerRecs /\ ReadAnswer(Id(p), n, len).id = Id(p)
        /\ 0 \in Nat
    BY <1>1, <1>2, ReadAnswerType DEF SockNode
  <2>2. "read" \in Ops
    BY DEF Ops
  <2> HIDE DEF len
  <2>3. /\ calls'[p] = Idle /\ CallsOK'
        /\ \A q \in Pids : q # p => calls'[q] = calls[q]
    BY <1>1, <1>4, <2>1, <2>2, AnsweredStep
  <2>4. Others(socklist', p) = Others(socklist, p)
    BY <1>1, <1>2, <1>4, OwnNode DEF SameSocket
  <2> QED BY <2>3, <2>4 DEF SyscallStep
<1>5. CASE /\ n.status = "ESTAB" /\ n.recv_len < len
           /\ ReadWaits(p) \in SockNode /\ SameSocket(ReadWaits(p), n)
           /\ ReadWaits(p).status = n.status /\ ReadWaits(p).recv_len = n.recv_len
           /\ ReadWaits(p).read_uuid = Id(p) /\ ReadWaits(p).read_len = len
           /\ socklist' = [socklist EXCEPT ![i] = ReadWaits(p)]
           /\ Blocks(p)
  <2>1. /\ calls'[p] = [op |-> "read", id |-> Id(p), port |-> 0] /\ CallsOK'
        /\ \A q \in Pids : q # p => calls'[q] = calls[q]
    BY <1>1, <1>5, BlocksStep DEF Ops
  <2>2. ReadWaits(p).owner = p
    BY <1>2, <1>5 DEF SameSocket
  <2>3. Others(socklist', p) = Others(socklist, p)
    BY <1>1, <1>5, <2>2, OwnNode
  <2>4. i \in DOMAIN socklist' /\ socklist'[i] = ReadWaits(p)
    BY <1>2, <1>5
  <2> QED BY <1>1, <1>5, <2>1, <2>2, <2>3, <2>4 DEF SyscallStep
<1>6. \/ /\ n.status = "ESTAB" /\ n.recv_len < len
         /\ ReadWaits(p) \in SockNode /\ SameSocket(ReadWaits(p), n)
         /\ ReadWaits(p).status = n.status /\ ReadWaits(p).recv_len = n.recv_len
         /\ ReadWaits(p).read_uuid = Id(p) /\ ReadWaits(p).read_len = len
         /\ socklist' = [socklist EXCEPT ![i] = ReadWaits(p)]
         /\ Blocks(p)
      \/ /\ Consumed(n, len) \in SockNode /\ SameSocket(Consumed(n, len), n)
         /\ socklist' = [socklist EXCEPT ![i] = Consumed(n, len)]
         /\ Reply({ReadAnswer(Id(p), n, len)}, Called(p, 0))
      \/ n.status # "ESTAB" /\ socklist' = socklist /\ Returns(p, -1)
  BY ReadCases
<1> HIDE DEF i, n, len
<1> QED BY <1>3, <1>4, <1>5, <1>6 DEF i

\* Write and close leave the identity of the node alone, but for its uuid.
LEMMA WriteFields ==
  ASSUME Typed, NEW p \in Pids, Write(p)
  PROVE  LET n == socklist[Node(p)]
         IN  /\ SameSocket(WriteNode(p), n) /\ WriteNode(p).status = n.status
             /\ SameSocket(WriteWaits(p), n) /\ WriteWaits(p).status = n.status
             /\ SameSocket(WriteSent(p).node, n) /\ WriteSent(p).node.status = n.status
             /\ ReadGoesOn(WriteNode(p), n) /\ ReadGoesOn(WriteWaits(p), n)
             /\ ReadGoesOn(WriteSent(p).node, n)
             /\ WriteNode(p).recv_len = n.recv_len /\ WriteWaits(p).recv_len = n.recv_len
             /\ WriteSent(p).node.recv_len = n.recv_len
<1> DEFINE n == socklist[Node(p)]
           w == [WriteNode(p) EXCEPT !.sending = TRUE]
<1>1. n \in SockNode /\ WriteNode(p) \in SockNode
  BY WritePartTypes
<1>2. /\ SameSocket(WriteNode(p), n) /\ WriteNode(p).status = n.status
      /\ ReadGoesOn(WriteNode(p), n) /\ WriteNode(p).recv_len = n.recv_len
  BY <1>1 DEF WriteNode, SameSocket, ReadGoesOn, SockNode, NodeOf
<1>3. /\ SameSocket(WriteWaits(p), n) /\ WriteWaits(p).status = n.status
      /\ ReadGoesOn(WriteWaits(p), n) /\ WriteWaits(p).recv_len = n.recv_len
  BY <1>1 DEF WriteWaits, SameSocket, ReadGoesOn, SockNode, NodeOf
<1>4. /\ w \in SockNode /\ SameSocket(w, n) /\ w.status = n.status
      /\ ReadGoesOn(w, n) /\ w.recv_len = n.recv_len
  BY <1>1, <1>2 DEF SameSocket, ReadGoesOn, SockNode, NodeOf
<1> HIDE DEF w
<1>5. n.cwnd \div MSS \in Nat
  BY <1>1, NodeFields, IndexFacts DEF SockNode
<1>6. PICK e \in Index, q \in Int, b \in BOOLEAN :
        send_segments(w, n.cwnd \div MSS).node = Sent(w, e, q, b)
  BY <1>4, <1>5, SendSegmentsType DEF SockNode
<1>7. WriteSent(p).node = Sent(w, e, q, b)
  BY <1>6 DEF WriteSent, w
<1>8. /\ SameSocket(Sent(w, e, q, b), n) /\ Sent(w, e, q, b).status = n.status
      /\ ReadGoesOn(Sent(w, e, q, b), n) /\ Sent(w, e, q, b).recv_len = n.recv_len
  BY <1>4 DEF Sent, SameSocket, ReadGoesOn, SockNode, NodeOf
<1> QED BY <1>2, <1>3, <1>7, <1>8

LEMMA WriteStep ==
  ASSUME Typed, CallsOK, NEW p \in Pids, Write(p)
  PROVE  /\ SyscallStep(p) /\ Others(socklist', p) = Others(socklist, p)
         /\ calls'[p] = Idle \/ calls'[p].op = "write"
<1>1. Enter(p, "write") /\ Node(p) # 0
  BY WriteCases
<1>2. Blocks(p) \/ Returns(p, -1) \/ Returns(p, WriteLen(p))
  BY WriteCases
<1>3. WriteLen(p) \in Int /\ -1 \in Int
  BY WritePartTypes
<1>31. Blocks(p) \/ \E val \in Int : Returns(p, val)
  BY <1>2, <1>3
<1>32. "write" \in Ops
  BY DEF Ops
<1>33. SyscallStep(p) /\ (calls'[p] = Idle \/ calls'[p] = [op |-> "write", id |-> Id(p), port |-> 0])
  BY <1>1, <1>31, <1>32, PlainStep
<1>4. \/ socklist' = socklist
      \/ \E m \in {WriteNode(p), WriteSent(p).node, WriteWaits(p)} :
           socklist' = [socklist EXCEPT ![Node(p)] = m]
  BY WriteCases
<1>5. \A m \in {WriteNode(p), WriteSent(p).node, WriteWaits(p)} : m \in SockNode /\ m.owner = p
  BY <1>1, NodeLookup, WritePartTypes, WriteFields DEF SameSocket
<1>6. Others(socklist', p) = Others(socklist, p)
  BY <1>1, <1>4, <1>5, OwnNode
<1> QED BY <1>33, <1>6

\* The fields of a node that close keeps.
SameButId(m, n) ==
  /\ m.owner = n.owner /\ m.sockfd = n.sockfd /\ m.srcip = n.srcip
  /\ m.srcport = n.srcport /\ m.dest = n.dest /\ m.used = n.used
  /\ m.backlog = n.backlog

LEMMA CloseFields ==
  ASSUME Typed, NEW p \in Pids, Close(p)
  PROVE  LET n == socklist[Node(p)]
         IN  /\ SameButId(ActiveClosed(p), n) /\ ActiveClosed(p).status = "FIN_WAIT_1"
             /\ SameButId(PassiveClosed(p), n) /\ PassiveClosed(p).status = "LAST_ACK"
             /\ SameSocket(Unbound(p), n) /\ Unbound(p).status = n.status
             /\ ActiveClosed(p).recv_len = n.recv_len /\ PassiveClosed(p).recv_len = n.recv_len
             /\ Unbound(p).recv_len = n.recv_len
             /\ PassiveClosed(p).seq = n.seq /\ Unbound(p).seq = n.seq
             /\ ActiveClosed(p).seq = CloseSent(p).node.seq
<1> DEFINE n == socklist[Node(p)]
           s == CloseSent(p).node
<1>1. n \in SockNode /\ s \in SockNode
  BY ClosePartTypes
<1>2. BUFSIZE \div MSS \in Nat
  BY IndexFacts
<1>3. PICK e \in Index, q \in Int, b \in BOOLEAN : s = Sent(n, e, q, b)
  BY <1>1, <1>2, SendSegmentsType DEF SockNode, CloseSent
<1>4. SameButId(s, n) /\ s.recv_len = n.recv_len
  BY <1>1, <1>3 DEF Sent, SameButId, SockNode, NodeOf
<1> HIDE DEF s
<1>5. ActiveClosed(p) = [s EXCEPT !.bound = FALSE, !.uuid = Id(p), !.status = "FIN_WAIT_1"]
  BY DEF ActiveClosed, s
<1>6. /\ SameButId(ActiveClosed(p), s) /\ ActiveClosed(p).status = "FIN_WAIT_1"
      /\ ActiveClosed(p).recv_len = s.recv_len /\ ActiveClosed(p).seq = s.seq
  BY <1>1, <1>5 DEF SameButId, SockNode, NodeOf
<1>7. /\ SameButId(PassiveClosed(p), n) /\ PassiveClosed(p).status = "LAST_ACK"
      /\ PassiveClosed(p).recv_len = n.recv_len /\ PassiveClosed(p).seq = n.seq
  BY <1>1 DEF PassiveClosed, SameButId, SockNode, NodeOf
<1>8. /\ SameSocket(Unbound(p), n) /\ Unbound(p).status = n.status
      /\ Unbound(p).recv_len = n.recv_len /\ Unbound(p).seq = n.seq
  BY <1>1 DEF Unbound, SameSocket, SockNode, NodeOf
<1> QED BY <1>4, <1>6, <1>7, <1>8 DEF SameButId, s

LEMMA CloseStep ==
  ASSUME Typed, CallsOK, NEW p \in Pids, Close(p)
  PROVE  /\ SyscallStep(p) /\ Others(socklist', p) = Others(socklist, p)
         /\ calls'[p] = Idle \/ calls'[p].op = "close"
<1>1. Enter(p, "close") /\ Node(p) # 0
  BY CloseCases
<1>2. Blocks(p) \/ Returns(p, -1)
  BY CloseCases
<1>3. Blocks(p) \/ \E val \in Int : Returns(p, val)
  BY <1>2
<1>31. "close" \in Ops
  BY DEF Ops
<1>32. SyscallStep(p) /\ (calls'[p] = Idle \/ calls'[p] = [op |-> "close", id |-> Id(p), port |-> 0])
  BY <1>1, <1>3, <1>31, PlainStep
<1>4. \E m \in {ActiveClosed(p), PassiveClosed(p), Unbound(p)} :
         socklist' = [socklist EXCEPT ![Node(p)] = m]
  BY CloseCases
<1>5. \A m \in {ActiveClosed(p), PassiveClosed(p), Unbound(p)} : m \in SockNode /\ m.owner = p
  BY <1>1, NodeLookup, ClosePartTypes, CloseFields DEF SameSocket, SameButId
<1>6. Others(socklist', p) = Others(socklist, p)
  BY <1>1, <1>4, <1>5, OwnNode
<1> QED BY <1>32, <1>6

LEMMA SkipStep ==
  ASSUME Typed, CallsOK, NEW p \in Pids, Skip(p)
  PROVE  SyscallStep(p) /\ socklist' = socklist /\ calls'[p] = Idle
<1>1. Runs(p) /\ calls' = calls /\ socklist' = socklist
  BY DEF Skip, apps, kernel
<1>2. calls[p] = Idle /\ \A q \in Pids : q # p => prog'[q] = prog[q]
  BY <1>1, Running
<1>3. CallsOK'
  BY <1>1, <1>2 DEF CallsOK
<1> QED BY <1>1, <1>2, <1>3 DEF SyscallStep

\* A system call leaves the nodes of the other processes, and answers none.
LEMMA SyscallSteps ==
  ASSUME Typed, CallsOK, NEW p \in Pids, Syscall(p)
  PROVE  SyscallStep(p) /\ Others(socklist', p) = Others(socklist, p)
BY SocketStep, BindStep, ListenStep, ConnectStep, AcceptStep, ReadStep, WriteStep,
   CloseStep, SkipStep DEF Syscall

-----------------------------------------------------------------------------
(* A blocked read is recorded in a node that has less than it asked for.   *)

Reading(n, p, id) == /\ n.owner = p /\ n.read_uuid = id
                     /\ n.status = "ESTAB" /\ n.recv_len < n.read_len
ReaderIn(sl, p, id) == \E i \in DOMAIN sl : Reading(sl[i], p, id)

LEMMA ReaderHeldIs ==
  ReaderHeld <=> \A p \in Pids : Pending(p, "read") => ReaderIn(socklist, p, calls[p].id)
BY DEF ReaderHeld, ReaderIn, Reading

\* The calls of the other processes do not touch the node.
LEMMA OthersReading ==
  ASSUME NEW p, NEW q, p # q, NEW id, Others(socklist', p) = Others(socklist, p),
         ReaderIn(socklist, q, id)
  PROVE  ReaderIn(socklist', q, id)
<1>1. PICK i \in DOMAIN socklist : Reading(socklist[i], q, id)
  BY DEF ReaderIn
<1>2. socklist[i] \in Others(socklist, p)
  BY <1>1 DEF Others, Reading
<1>3. \E j \in DOMAIN socklist' : socklist'[j] = socklist[i]
  BY <1>2 DEF Others
<1> QED BY <1>1, <1>3 DEF ReaderIn

LEMMA SyscallReader ==
  ASSUME Typed, CallsOK, ReaderHeld, NEW p \in Pids, Syscall(p)
  PROVE  ReaderHeld'
<1>1. SyscallStep(p) /\ Others(socklist', p) = Others(socklist, p)
  BY SyscallSteps
<1>2. SUFFICES ASSUME NEW q \in Pids, calls'[q] # Idle, calls'[q].op = "read"
               PROVE  ReaderIn(socklist', q, calls'[q].id)
  BY DEF ReaderHeld, ReaderIn, Reading, Pending
<1>3. CASE q # p
  <2>1. calls'[q] = calls[q]
    BY <1>1, <1>3 DEF SyscallStep
  <2>2. ReaderIn(socklist, q, calls[q].id)
    BY <1>2, <2>1, ReaderHeldIs DEF Pending
  <2> QED BY <1>1, <1>3, <2>1, <2>2, OthersReading
<1>4. CASE q = p
  <2> DEFINE other == calls'[p] = Idle \/ calls'[p].op # "read"
  <2>11. Socket(p) \/ Bind(p) \/ Listen(p) => other
    BY SocketStep, BindStep, ListenStep
  <2>12. Connect(p) \/ Write(p) \/ Close(p) \/ Skip(p) => other
    BY ConnectStep, WriteStep, CloseStep, SkipStep
  <2>13. Accept(p) => other
    BY AcceptStep
  <2>1. Read(p)
    BY <1>2, <1>4, <2>11, <2>12, <2>13 DEF Syscall
  <2>2. /\ calls'[p].id = Id(p)
        /\ Node(p) \in DOMAIN socklist' /\ socklist'[Node(p)] = ReadWaits(p)
        /\ ReadWaits(p).owner = p /\ ReadWaits(p).status = "ESTAB"
        /\ ReadWaits(p).read_uuid = Id(p)
        /\ ReadWaits(p).recv_len < ReadWaits(p).read_len
    BY <1>2, <1>4, <2>1, ReadStep
  <2> QED BY <1>4, <2>2 DEF ReaderIn, Reading
<1> QED BY <1>3, <1>4

\* A reader whose call a step of the network does not answer was pending.
LEMMA StillPending ==
  ASSUME Typed, CallsOK, NEW A \in SUBSET AnswerRecs, Reply(A, calls), UNCHANGED prog,
         NEW p \in Pids, NEW op, Pending(p, op)'
  PROVE  /\ Pending(p, op) /\ calls'[p] = calls[p]
         /\ \A a \in A : a.id # calls[p].id
<1>1. calls'[p] = IF Answers(A, calls[p]) THEN Idle ELSE calls[p]
  BY AnswersStep
<1> QED BY <1>1 DEF Pending, Answers

LEMMA SynAckReader ==
  ASSUME Typed, CallsOK, ReaderHeld, NEW c \in Conns, SynAck(c)
  PROVE  ReaderHeld' /\ CallsOK'
<1> DEFINE m == Head(toHost[c])
           A == {Answer(socklist[i].uuid, 0) : i \in Mine(c)}
<1>1. /\ socklist' = [i \in DOMAIN socklist |->
                        IF i \in Mine(c) THEN Opened(i, m) ELSE socklist[i]]
      /\ Reply(A, calls) /\ UNCHANGED prog
  BY SynAckCases
<1>2. A \in SUBSET AnswerRecs
  <2> SUFFICES ASSUME NEW i \in Mine(c) PROVE Answer(socklist[i].uuid, 0) \in AnswerRecs
    OBVIOUS
  <2>1. socklist[i] \in SockNode
    BY DEF Mine, Typed, KernelType
  <2>2. socklist[i].uuid \in Ids
    BY <2>1, NodeFields DEF SockNode
  <2> QED BY <2>2, AnswerType, Empties
<1> HIDE DEF A, m
<1>3. CallsOK'
  BY <1>1, <1>2, AnswersStep
<1>4. ASSUME NEW p \in Pids, Pending(p, "read")'
      PROVE  ReaderIn(socklist', p, calls'[p].id)
  <2>1. Pending(p, "read") /\ calls'[p] = calls[p]
    BY <1>1, <1>2, <1>4, StillPending
  <2>2. PICK i \in DOMAIN socklist : Reading(socklist[i], p, calls[p].id)
    BY <2>1, ReaderHeldIs DEF ReaderIn
  <2>3. i \notin Mine(c)
    BY <2>2 DEF Mine, Expecting, Reading
  <2>4. i \in DOMAIN socklist' /\ socklist'[i] = socklist[i]
    BY <1>1, <2>3
  <2> QED BY <2>1, <2>2, <2>4 DEF ReaderIn
<1> QED BY <1>3, <1>4 DEF ReaderHeld, ReaderIn, Reading

\* The new socket of an ACK comes before the others.
LEMMA CompletedKeeps ==
  ASSUME Typed, NEW c \in Conns, NEW m \in ShortSegments, NEW i \in DOMAIN socklist
  PROVE  LET sl == Completed(c, m).sl
         IN  \E j \in DOMAIN sl : sl[j] = socklist[i] /\ (j = i \/ j = i + 1)
<1> DEFINE sl == Completed(c, m).sl
<1>1. socklist \in Seq(SockNode) /\ i \in 1..Len(socklist) /\ Len(socklist) \in Nat
  BY DEF Typed, KernelType
<1>2. CASE sl = socklist
  BY <1>2
<1>3. CASE HalfOpen(c) # 0 /\ sl = <<NewSocket(c, m)>> \o socklist
  <2>1. NewSocket(c, m) \in SockNode
    BY <1>3, NewSocketType
  <2>2. /\ DOMAIN sl = 1..Len(socklist)+1
        /\ \A k \in 1..Len(socklist) : sl[k+1] = socklist[k]
    BY <1>1, <1>3, <2>1, ConsSeq
  <2>3. i + 1 \in DOMAIN sl /\ sl[i+1] = socklist[i]
    BY <1>1, <2>2
  <2> QED BY <2>3
<1>4. sl = socklist \/ (HalfOpen(c) # 0 /\ sl = <<NewSocket(c, m)>> \o socklist)
  BY CompletedCases
<1> QED BY <1>2, <1>3, <1>4

\* What an ACK leaves of a node of the table its first half leaves.
LEMMA AckKeeps ==
  ASSUME Typed, NEW c \in Conns, Ack(c),
         NEW k \in DOMAIN Completed(c, Head(toHost[c])).sl
  PROVE  LET m == Head(toHost[c])
             sl == Completed(c, m).sl
         IN  /\ sl[k] \in SockNode
             /\ k # AckedAt(c, m) =>
                  \E j \in DOMAIN socklist' : socklist'[j] = sl[k]
             /\ k = AckedAt(c, m) /\ sl[k].status # "LAST_ACK" =>
                  \E j \in DOMAIN socklist' : socklist'[j] = AckOf(sl[k], c, m).node
<1> DEFINE m == Head(toHost[c])
           sl == Completed(c, m).sl
           i == AckedAt(c, m)
           n == AckOf(sl[i], c, m).node
<1>1. m \in ShortSegments
  BY AckCases, ArrivingFacts
<1>2. sl \in Seq(SockNode)
  BY <1>1, CompletedType
<1>3. i # 0 => i \in DOMAIN sl /\ sl[i] \in SockNode
  BY <1>1, AckedAtLookup
<1>4. i # 0 => n \in SockNode
  BY <1>1, <1>3, AckOfFacts
<1>5. \/ i = 0 /\ socklist' = sl
      \/ i # 0 /\ sl[i].status = "LAST_ACK" /\ socklist' = Take(sl, i)
      \/ i # 0 /\ sl[i].status # "LAST_ACK" /\ socklist' = [sl EXCEPT ![i] = n]
  BY AckCases
<1> HIDE DEF n, i, sl, m
<1>6. k \in 1..Len(sl) /\ Len(sl) \in Nat /\ sl[k] \in SockNode /\ k # 0
  <2>1. k \in DOMAIN sl
    BY DEF sl, m
  <2> QED BY <1>2, <2>1
<1>7. CASE i = 0 /\ socklist' = sl
  <2>1. k # i /\ k \in DOMAIN socklist' /\ socklist'[k] = sl[k]
    BY <1>2, <1>6, <1>7
  <2> QED BY <1>6, <2>1 DEF sl, i, m
<1>8. CASE i # 0 /\ sl[i].status = "LAST_ACK" /\ socklist' = Take(sl, i)
  <2>1. i \in 1..Len(sl) /\ i \in DOMAIN sl
    BY <1>2, <1>3, <1>8
  <2>2. /\ socklist' \in Seq(SockNode) /\ Len(socklist') = Len(sl) - 1
        /\ \A j \in 1..Len(sl)-1 : socklist'[j] = IF j < i THEN sl[j] ELSE sl[j+1]
    BY <1>2, <1>8, <2>1, TakeSeq
  <2>3. DOMAIN socklist' = 1..Len(sl)-1
    BY <2>2
  <2>4. CASE k < i
    <3>1. k \in 1..Len(sl)-1
      BY <1>6, <2>1, <2>4
    <3> QED BY <1>6, <1>8, <2>2, <2>3, <2>4, <3>1 DEF sl, i, m
  <2>5. CASE k > i
    <3>1. k-1 \in 1..Len(sl)-1 /\ ~(k-1 < i) /\ (k-1)+1 = k
      BY <1>6, <2>1, <2>5
    <3>2. socklist'[k-1] = sl[k]
      BY <2>2, <3>1
    <3> QED BY <1>6, <1>8, <2>3, <2>5, <3>1, <3>2 DEF sl, i, m
  <2>6. CASE k = i
    BY <1>6, <1>8, <2>6 DEF sl, i, m
  <2> QED BY <1>6, <2>1, <2>4, <2>5, <2>6
<1>9. CASE i # 0 /\ sl[i].status # "LAST_ACK" /\ socklist' = [sl EXCEPT ![i] = n]
  <2>1. i \in DOMAIN sl /\ n \in SockNode
    BY <1>3, <1>4, <1>9
  <2>2. /\ DOMAIN socklist' = DOMAIN sl
        /\ \A j \in DOMAIN sl : socklist'[j] = IF j = i THEN n ELSE sl[j]
    BY <1>2, <1>9, <2>1, UpdateSeq
  <2>3. k \in DOMAIN socklist' /\ socklist'[k] = IF k = i THEN n ELSE sl[k]
    BY <1>2, <1>6, <2>2
  <2>4. k = i => n = AckOf(sl[k], c, m).node
    BY DEF n
  <2> QED BY <1>6, <2>3, <2>4 DEF sl, i, m
<1> QED BY <1>5, <1>7, <1>8, <1>9

LEMMA AckAnswers ==
  ASSUME Typed, NEW c \in Conns, Ack(c)
  PROVE  LET m == Head(toHost[c])
             A == Completed(c, m).answers \cup AckResult(c, m).answers
         IN  /\ A \in SUBSET AnswerRecs /\ Reply(A, calls)
             /\ m \in ShortSegments /\ UNCHANGED prog
<1> DEFINE m == Head(toHost[c])
<1>1. m \in ShortSegments
  BY AckCases, ArrivingFacts
<1>2. Completed(c, m).answers \in SUBSET AnswerRecs
  BY <1>1, CompletedType
<1>3. AckedAt(c, m) # 0 => Completed(c, m).sl[AckedAt(c, m)] \in SockNode
  BY <1>1, AckedAtLookup
<1>4. AckResult(c, m).answers \in SUBSET AnswerRecs
  <2>1. CASE AckedAt(c, m) = 0
    BY <2>1, Empties DEF AckResult
  <2>2. CASE AckedAt(c, m) # 0
    BY <1>1, <1>3, <2>2, AckOfFacts DEF AckResult
  <2> QED BY <2>1, <2>2
<1>5. Reply(Completed(c, m).answers \cup AckResult(c, m).answers, calls) /\ UNCHANGED prog
  BY AckCases
<1> QED BY <1>1, <1>2, <1>4, <1>5

LEMMA AckReader ==
  ASSUME Typed, CallsOK, ReaderHeld, NEW c \in Conns, Ack(c)
  PROVE  ReaderHeld' /\ CallsOK'
<1> DEFINE m == Head(toHost[c])
           sl == Completed(c, m).sl
           A == Completed(c, m).answers \cup AckResult(c, m).answers
<1>1. A \in SUBSET AnswerRecs /\ Reply(A, calls) /\ UNCHANGED prog /\ m \in ShortSegments
  BY AckAnswers
<1> HIDE DEF A
<1>2. CallsOK'
  BY <1>1, AnswersStep
<1>3. ASSUME NEW p \in Pids, Pending(p, "read")'
      PROVE  ReaderIn(socklist', p, calls'[p].id)
  <2> DEFINE id == calls[p].id
  <2>1. Pending(p, "read") /\ calls'[p] = calls[p] /\ \A a \in A : a.id # id
    BY <1>1, <1>3, StillPending
  <2>2. id[1] >= 0
    BY <2>1, PendingId
  <2>3. PICK i \in DOMAIN socklist : Reading(socklist[i], p, id)
    BY <2>1, ReaderHeldIs DEF ReaderIn
  <2>4. PICK k \in DOMAIN sl : sl[k] = socklist[i]
    BY <1>1, CompletedKeeps
  <2>5. /\ sl[k] \in SockNode
        /\ k # AckedAt(c, m) => \E j \in DOMAIN socklist' : socklist'[j] = sl[k]
        /\ k = AckedAt(c, m) /\ sl[k].status # "LAST_ACK" =>
             \E j \in DOMAIN socklist' : socklist'[j] = AckOf(sl[k], c, m).node
    BY AckKeeps
  <2> HIDE DEF id
  <2>6. Reading(sl[k], p, id)
    BY <2>3, <2>4
  <2>7. CASE k # AckedAt(c, m)
    <3>1. ReaderIn(socklist', p, id)
      BY <2>5, <2>6, <2>7 DEF ReaderIn
    <3> QED BY <2>1, <3>1 DEF id
  <2>8. CASE k = AckedAt(c, m)
    <3>1. sl[k].status = "ESTAB" /\ sl[k].read_uuid = id /\ sl[k].owner = p
          /\ sl[k].recv_len < sl[k].read_len
      BY <2>6 DEF Reading
    <3> DEFINE r == AckOf(sl[k], c, m)
    <3>2. /\ SameSocket(r.node, sl[k]) /\ r.node.status = "ESTAB"
          /\ \/ \E b \in r.answers : b.id = id
             \/ ReadGoesOn(r.node, sl[k]) /\ r.node.recv_len < r.node.read_len
      BY <1>1, <2>2, <2>5, <3>1, AckOfFacts DEF id
    <3>3. k # 0
      <4>1. sl \in Seq(SockNode) /\ k \in DOMAIN sl
        BY <1>1, CompletedType
      <4> HIDE DEF sl
      <4> QED BY <4>1
    <3>4. r.answers \subseteq A
      BY <2>8, <3>3 DEF A, AckResult
    <3>5. \E j \in DOMAIN socklist' : socklist'[j] = r.node
      BY <2>5, <2>8, <3>1
    <3> HIDE DEF r
    <3>6. Reading(r.node, p, id)
      BY <2>1, <3>1, <3>2, <3>4 DEF Reading, SameSocket, ReadGoesOn, id
    <3>7. ReaderIn(socklist', p, id)
      BY <3>5, <3>6 DEF ReaderIn
    <3> QED BY <2>1, <3>7 DEF id
  <2> QED BY <2>7, <2>8
<1> QED BY <1>2, <1>3 DEF ReaderHeld, ReaderIn, Reading

LEMMA FinReader ==
  ASSUME Typed, CallsOK, ReaderHeld, NEW c \in Conns, Fin(c)
  PROVE  ReaderHeld' /\ CallsOK'
<1> DEFINE m == Head(toHost[c])
           i == FinAt(c)
           n == socklist[i]
           closes == i # 0 /\ n.status \in {"ESTAB", "FIN_WAIT_1", "FIN_WAIT_2"}
<1>1. /\ m \in ShortSegments /\ UNCHANGED prog
      /\ \/ /\ closes /\ socklist' = [socklist EXCEPT ![i] = Finished(n, m)]
            /\ Reply(FinAnswers(n), calls)
         \/ ~closes /\ socklist' = socklist /\ apps' = apps
  BY FinCases, ArrivingFacts
<1>2. CASE ~closes /\ socklist' = socklist /\ apps' = apps
  BY <1>1, <1>2 DEF ReaderHeld, CallsOK, Pending, apps
<1>3. CASE /\ closes /\ socklist' = [socklist EXCEPT ![i] = Finished(n, m)]
           /\ Reply(FinAnswers(n), calls)
  <2>1. n \in SockNode /\ i \in DOMAIN socklist
    BY <1>3, FinAtLookup
  <2>2. FinAnswers(n) \in SUBSET AnswerRecs
    BY <1>1, <1>3, <2>1, FinPartTypes
  <2>3. n.status = "ESTAB" /\ n.read_uuid[1] >= 0 => \E a \in FinAnswers(n) : a.id = n.read_uuid
    BY <1>1, <1>3, <2>1, FinPartTypes
  <2>4. CallsOK'
    BY <1>1, <1>3, <2>2, AnswersStep
  <2>5. ASSUME NEW p \in Pids, Pending(p, "read")'
        PROVE  ReaderIn(socklist', p, calls'[p].id)
    <3>1. /\ Pending(p, "read") /\ calls'[p] = calls[p]
          /\ \A a \in FinAnswers(n) : a.id # calls[p].id
      BY <1>1, <1>3, <2>2, <2>5, StillPending
    <3>2. PICK k \in DOMAIN socklist : Reading(socklist[k], p, calls[p].id)
      BY <3>1, ReaderHeldIs DEF ReaderIn
    <3>3. calls[p].id[1] >= 0
      BY <3>1, PendingId
    <3>4. k # i
      BY <2>3, <3>1, <3>2, <3>3 DEF Reading
    <3>5. k \in DOMAIN socklist' /\ socklist'[k] = socklist[k]
      BY <1>3, <3>4
    <3> QED BY <3>1, <3>2, <3>5 DEF ReaderIn
  <2> QED BY <2>4, <2>5 DEF ReaderHeld, ReaderIn, Reading
<1> HIDE DEF closes
<1> QED BY <1>1, <1>2, <1>3

LEMMA InitCalls == Init => CallsOK /\ ReaderHeld
BY DEF Init, CallsOK, ReaderHeld, Pending

LEMMA NextReader == Typed /\ CallsOK /\ ReaderHeld /\ [Next]_vars => CallsOK' /\ ReaderHeld'
<1> SUFFICES ASSUME Typed, CallsOK, ReaderHeld, [Next]_vars PROVE CallsOK' /\ ReaderHeld'
  OBVIOUS
<1>1. ASSUME NEW p \in Pids, Syscall(p) PROVE CallsOK' /\ ReaderHeld'
  BY <1>1, SyscallSteps, SyscallReader DEF SyscallStep
<1>2. ASSUME UNCHANGED <<socklist, calls, prog>> PROVE CallsOK' /\ ReaderHeld'
  BY <1>2 DEF CallsOK, ReaderHeld, Pending
<1>3. ASSUME NEW c \in Conns, packetArrived(c) PROVE CallsOK' /\ ReaderHeld'
  <2>1. Syn(c) => UNCHANGED <<socklist, calls, prog>>
    BY DEF Syn, apps
  <2> QED BY <1>2, <1>3, <2>1, SynAckReader, AckReader, FinReader DEF packetArrived
<1>4. ASSUME NEW c \in Conns, Remote(c) PROVE UNCHANGED <<socklist, calls, prog>>
  BY <1>4 DEF Remote, PeerOpen, PeerRetry, PeerSend, PeerClose, PeerReceive, kernel, apps
<1>5. CASE UNCHANGED vars
  BY <1>2, <1>5 DEF vars, kernel, apps
<1> QED BY <1>1, <1>2, <1>3, <1>4, <1>5 DEF Next

\* No blocked read is forgotten, whatever calls its process and the others make
\* and whatever arrives: it stays in the node that will answer it, which has
\* fewer bytes than it asked for and has not heard the end of the stream.
THEOREM TcpReaderHeld == Spec => []ReaderHeld
<1>1. Init => Typed /\ CallsOK /\ ReaderHeld
  BY InitTyped, InitCalls
<1>2. Typed /\ CallsOK /\ ReaderHeld /\ [Next]_vars => (Typed /\ CallsOK /\ ReaderHeld)'
  BY NextTyped, NextReader
<1> QED BY <1>1, <1>2, PTL DEF Spec

-----------------------------------------------------------------------------
(* What a system call does to the table, whatever call it is.              *)

\* m is what a call of p makes of its node n: who owns it stays, and each of
\* the other fields changes in the calls named.
Changed(p, m, n) ==
  LET op == Next_(p).op
      own == Node(p) # 0 /\ n = socklist[Node(p)]
  IN  /\ n.owner = p /\ m.owner = p /\ m.sockfd = n.sockfd
      /\ m.uuid = n.uuid \/ (m.uuid = Id(p) /\ op \in {"connect", "close"})
      /\ m.read_uuid = n.read_uuid \/ (m.read_uuid = Id(p) /\ op = "read")
      /\ m.write_uuid = n.write_uuid \/ (m.write_uuid = Id(p) /\ op = "write")
      /\ m.backlog = n.backlog \/ (op = "listen" /\ own /\ m.backlog = Next_(p).n)
      /\ m.used = n.used \/ (op = "accept" /\ m.used)
      /\ \/ m.dest = n.dest /\ m.srcport = n.srcport
         \/ op = "bind" /\ own /\ m.dest = n.dest /\ m.srcport = Next_(p).port
         \/ /\ op = "connect" /\ own /\ m.dest = Next_(p).to /\ m.dest \in Remotes
            /\ m.srcport \in Ephemeral /\ m.status = "SYN_SENT"
      /\ m.status = "LISTENING" => n.status = "LISTENING" \/ (op = "listen" /\ own)

ChangesOne(p) ==
  \E i \in DOMAIN socklist : \E m \in SockNode :
    Changed(p, m, socklist[i]) /\ socklist' = [socklist EXCEPT ![i] = m]

\* A change of some fields only.
LEMMA SameFields ==
  ASSUME NEW p, NEW m, NEW n, SameSocket(m, n), n.owner = p, m.status = n.status,
         m.read_uuid = n.read_uuid \/ (m.read_uuid = Id(p) /\ Next_(p).op = "read"),
         m.write_uuid = n.write_uuid \/ (m.write_uuid = Id(p) /\ Next_(p).op = "write")
  PROVE  Changed(p, m, n)
BY DEF Changed, SameSocket

LEMMA BindChanges ==
  ASSUME Typed, NEW p \in Pids, Bind(p)
  PROVE  socklist' = socklist \/ ChangesOne(p)
<1> DEFINE n == socklist[Node(p)]
<1>1. Next_(p).op = "bind"
  BY BindCases DEF Enter
<1>2. Node(p) # 0 =>
        /\ n \in SockNode /\ n.owner = p /\ Node(p) \in DOMAIN socklist
  BY NodeLookup
<1>3. Node(p) # 0 =>
        /\ Bound(p).uuid = n.uuid /\ Bound(p).read_uuid = n.read_uuid
        /\ Bound(p).write_uuid = n.write_uuid
  BY <1>2 DEF Bound, SockNode, NodeOf
<1>4. ASSUME /\ Node(p) # 0 /\ Bound(p) \in SockNode
             /\ Bound(p).owner = p /\ Bound(p).srcport = Next_(p).port
             /\ Bound(p).sockfd = n.sockfd /\ Bound(p).status = n.status
             /\ Bound(p).dest = n.dest /\ Bound(p).used = n.used
             /\ Bound(p).backlog = n.backlog
      PROVE  Changed(p, Bound(p), n)
  BY <1>1, <1>2, <1>3, <1>4 DEF Changed
<1>5. socklist' # socklist =>
        /\ Node(p) # 0 /\ Bound(p) \in SockNode
        /\ Bound(p).owner = p /\ Bound(p).srcport = Next_(p).port
        /\ Bound(p).sockfd = n.sockfd /\ Bound(p).status = n.status
        /\ Bound(p).dest = n.dest /\ Bound(p).used = n.used
        /\ Bound(p).backlog = n.backlog
        /\ socklist' = [socklist EXCEPT ![Node(p)] = Bound(p)]
  BY BindCases
<1> QED BY <1>2, <1>4, <1>5 DEF ChangesOne

LEMMA ListenChanges ==
  ASSUME Typed, NEW p \in Pids, Listen(p)
  PROVE  ChangesOne(p)
<1> DEFINE n == socklist[Node(p)]
<1>1. Next_(p).op = "listen" /\ Node(p) # 0
  BY ListenCases DEF Enter
<1>2. n \in SockNode /\ n.owner = p /\ Node(p) \in DOMAIN socklist
  BY <1>1, NodeLookup
<1>3. /\ Listening(p).uuid = n.uuid /\ Listening(p).read_uuid = n.read_uuid
      /\ Listening(p).write_uuid = n.write_uuid
  BY <1>2 DEF Listening, SockNode, NodeOf
<1>4. /\ Listening(p) \in SockNode /\ Listening(p).owner = p
      /\ Listening(p).backlog = Next_(p).n /\ Listening(p).sockfd = n.sockfd
      /\ Listening(p).srcport = n.srcport /\ Listening(p).dest = n.dest
      /\ Listening(p).used = n.used
      /\ socklist' = [socklist EXCEPT ![Node(p)] = Listening(p)]
  BY ListenCases
<1>5. Changed(p, Listening(p), n)
  BY <1>1, <1>2, <1>3, <1>4 DEF Changed
<1> QED BY <1>2, <1>4, <1>5 DEF ChangesOne

LEMMA ConnectChanges ==
  ASSUME Typed, NEW p \in Pids, Connect(p)
  PROVE  ChangesOne(p)
<1> DEFINE n == socklist[Node(p)]
<1>1. Next_(p).op = "connect" /\ Node(p) # 0 /\ Next_(p).to \in Remotes
  BY ConnectCases DEF Enter
<1>2. n \in SockNode /\ n.owner = p /\ Node(p) \in DOMAIN socklist
  BY <1>1, NodeLookup
<1>3. PICK port \in allocate_port(socklist) :
        /\ Connecting(p, port) \in SockNode /\ Connecting(p, port).owner = p
        /\ Connecting(p, port).sockfd = n.sockfd /\ Connecting(p, port).used = n.used
        /\ Connecting(p, port).srcport = port /\ Connecting(p, port).dest = Next_(p).to
        /\ Connecting(p, port).status = "SYN_SENT" /\ Connecting(p, port).uuid = Id(p)
        /\ socklist' = [socklist EXCEPT ![Node(p)] = Connecting(p, port)]
  BY ConnectCases
<1>4. /\ Connecting(p, port).read_uuid = n.read_uuid
      /\ Connecting(p, port).write_uuid = n.write_uuid
      /\ Connecting(p, port).backlog = n.backlog
  BY <1>2 DEF Connecting, SockNode, NodeOf
<1>5. port \in Ephemeral
  BY DEF allocate_port
<1>6. Changed(p, Connecting(p, port), n)
  BY <1>1, <1>2, <1>3, <1>4, <1>5 DEF Changed
<1> QED BY <1>2, <1>3, <1>6 DEF ChangesOne

LEMMA AcceptChanges ==
  ASSUME Typed, NEW p \in Pids, Accept(p)
  PROVE  socklist' = socklist \/ ChangesOne(p)
<1>1. CASE Found(p) = 0
  BY <1>1, AcceptCases
<1>2. CASE Found(p) # 0
  <2> DEFINE n == socklist[Found(p)]
  <2>1. Next_(p).op = "accept"
    BY AcceptCases
  <2>2. /\ Found(p) \in DOMAIN socklist /\ n \in SockNode /\ n.owner = p
        /\ Taken(p) \in SockNode /\ Taken(p).owner = p /\ Taken(p).used
        /\ Taken(p).sockfd = n.sockfd /\ Taken(p).srcport = n.srcport
        /\ Taken(p).dest = n.dest /\ Taken(p).status = n.status
        /\ Taken(p).backlog = n.backlog
        /\ socklist' = [socklist EXCEPT ![Found(p)] = Taken(p)]
    BY <1>2, TakenFacts
  <2>3. /\ Taken(p).uuid = n.uuid /\ Taken(p).read_uuid = n.read_uuid
        /\ Taken(p).write_uuid = n.write_uuid
    BY <2>2 DEF Taken, SockNode, NodeOf
  <2>4. Changed(p, Taken(p), n)
    BY <2>1, <2>2, <2>3 DEF Changed
  <2> QED BY <2>2, <2>4 DEF ChangesOne
<1> QED BY <1>1, <1>2

LEMMA ReadChanges ==
  ASSUME Typed, NEW p \in Pids, Read(p)
  PROVE  socklist' = socklist \/ ChangesOne(p)
<1> DEFINE n == socklist[Node(p)]
           len == Next_(p).n
<1>1. Next_(p).op = "read" /\ Node(p) # 0
  BY ReadCases
<1>2. n \in SockNode /\ n.owner = p /\ Node(p) \in DOMAIN socklist
  BY <1>1, NodeLookup
<1>3. ReadWaits(p).write_uuid = n.write_uuid /\ ReadWaits(p).read_uuid = Id(p)
  BY <1>2 DEF ReadWaits, SockNode, NodeOf
<1>4. /\ Consumed(n, len).write_uuid = n.write_uuid
      /\ Consumed(n, len).read_uuid = n.read_uuid
  BY <1>2 DEF Consumed, SockNode, NodeOf
<1>5. \/ /\ ReadWaits(p) \in SockNode /\ SameSocket(ReadWaits(p), n)
         /\ ReadWaits(p).status = n.status
         /\ socklist' = [socklist EXCEPT ![Node(p)] = ReadWaits(p)]
      \/ /\ Consumed(n, len) \in SockNode /\ SameSocket(Consumed(n, len), n)
         /\ Consumed(n, len).status = n.status
         /\ socklist' = [socklist EXCEPT ![Node(p)] = Consumed(n, len)]
      \/ socklist' = socklist
  BY ReadCases
<1> HIDE DEF n, len
<1>6. ASSUME ReadWaits(p) \in SockNode, SameSocket(ReadWaits(p), n),
             ReadWaits(p).status = n.status
      PROVE  Changed(p, ReadWaits(p), n)
  BY <1>1, <1>2, <1>3, <1>6, SameFields
<1>7. ASSUME Consumed(n, len) \in SockNode, SameSocket(Consumed(n, len), n),
             Consumed(n, len).status = n.status
      PROVE  Changed(p, Consumed(n, len), n)
  BY <1>1, <1>2, <1>4, <1>7, SameFields
<1> QED BY <1>2, <1>5, <1>6, <1>7 DEF ChangesOne, n

LEMMA WriteChanges ==
  ASSUME Typed, NEW p \in Pids, Write(p)
  PROVE  socklist' = socklist \/ ChangesOne(p)
<1> DEFINE n == socklist[Node(p)]
           w == [WriteNode(p) EXCEPT !.sending = TRUE]
<1>1. Next_(p).op = "write" /\ Node(p) # 0
  BY WriteCases
<1>2. /\ n \in SockNode /\ n.owner = p /\ Node(p) \in DOMAIN socklist
      /\ WriteNode(p) \in SockNode /\ WriteWaits(p) \in SockNode
      /\ WriteSent(p).node \in SockNode
  BY <1>1, NodeLookup, WritePartTypes
<1>3. /\ WriteNode(p).write_uuid = n.write_uuid /\ WriteWaits(p).write_uuid = Id(p)
  BY <1>2 DEF WriteNode, WriteWaits, SockNode, NodeOf
<1>4. w \in SockNode /\ w.write_uuid = n.write_uuid
  BY <1>2, <1>3 DEF SockNode, NodeOf
<1>5. n.cwnd \div MSS \in Nat
  BY <1>2, NodeFields, IndexFacts DEF SockNode
<1> HIDE DEF w
<1>6. PICK e \in Index, q \in Int, b \in BOOLEAN :
        send_segments(w, n.cwnd \div MSS).node = Sent(w, e, q, b)
  BY <1>4, <1>5, SendSegmentsType DEF SockNode
<1>7. WriteSent(p).node = Sent(w, e, q, b)
  BY <1>6 DEF WriteSent, w
<1>8. WriteSent(p).node.write_uuid = n.write_uuid
  BY <1>4, <1>7 DEF Sent, SockNode, NodeOf
<1>9. /\ SameSocket(WriteNode(p), n) /\ WriteNode(p).status = n.status
      /\ SameSocket(WriteWaits(p), n) /\ WriteWaits(p).status = n.status
      /\ SameSocket(WriteSent(p).node, n) /\ WriteSent(p).node.status = n.status
      /\ WriteNode(p).read_uuid = n.read_uuid /\ WriteWaits(p).read_uuid = n.read_uuid
      /\ WriteSent(p).node.read_uuid = n.read_uuid
  BY WriteFields DEF ReadGoesOn
<1>10. \/ socklist' = socklist
       \/ \E m \in {WriteNode(p), WriteSent(p).node, WriteWaits(p)} :
            socklist' = [socklist EXCEPT ![Node(p)] = m]
  BY WriteCases
<1>11. Changed(p, WriteNode(p), n)
  BY <1>1, <1>2, <1>3, <1>9, SameFields
<1>12. Changed(p, WriteWaits(p), n)
  BY <1>1, <1>2, <1>3, <1>9, SameFields
<1>13. Changed(p, WriteSent(p).node, n)
  BY <1>1, <1>2, <1>8, <1>9, SameFields
<1> QED BY <1>2, <1>10, <1>11, <1>12, <1>13 DEF ChangesOne

LEMMA CloseChanges ==
  ASSUME Typed, NEW p \in Pids, Close(p)
  PROVE  ChangesOne(p)
<1> DEFINE n == socklist[Node(p)]
           s == CloseSent(p).node
<1>1. Next_(p).op = "close" /\ Node(p) # 0
  BY CloseCases
<1>2. /\ n \in SockNode /\ n.owner = p /\ Node(p) \in DOMAIN socklist
      /\ s \in SockNode /\ ActiveClosed(p) \in SockNode /\ PassiveClosed(p) \in SockNode
      /\ Unbound(p) \in SockNode
  BY <1>1, NodeLookup, ClosePartTypes
<1>3. BUFSIZE \div MSS \in Nat
  BY IndexFacts
<1>4. PICK e \in Index, q \in Int, b \in BOOLEAN : s = Sent(n, e, q, b)
  BY <1>2, <1>3, SendSegmentsType DEF SockNode, CloseSent
<1>5. s.write_uuid = n.write_uuid /\ s.read_uuid = n.read_uuid
  BY <1>2, <1>4 DEF Sent, SockNode, NodeOf
<1> HIDE DEF s
<1>6. ActiveClosed(p) = [s EXCEPT !.bound = FALSE, !.uuid = Id(p), !.status = "FIN_WAIT_1"]
  BY DEF ActiveClosed, s
<1>7. /\ ActiveClosed(p).write_uuid = s.write_uuid /\ ActiveClosed(p).read_uuid = s.read_uuid
      /\ ActiveClosed(p).uuid = Id(p)
  BY <1>2, <1>6 DEF SockNode, NodeOf
<1>8. /\ PassiveClosed(p).write_uuid = n.write_uuid
      /\ PassiveClosed(p).read_uuid = n.read_uuid /\ PassiveClosed(p).uuid = Id(p)
  BY <1>2 DEF PassiveClosed, SockNode, NodeOf
<1>9. Unbound(p).write_uuid = n.write_uuid /\ Unbound(p).read_uuid = n.read_uuid
  BY <1>2 DEF Unbound, SockNode, NodeOf
<1>10. /\ SameButId(ActiveClosed(p), n) /\ ActiveClosed(p).status = "FIN_WAIT_1"
       /\ SameButId(PassiveClosed(p), n) /\ PassiveClosed(p).status = "LAST_ACK"
       /\ SameSocket(Unbound(p), n) /\ Unbound(p).status = n.status
  BY CloseFields
<1>11. Changed(p, ActiveClosed(p), n)
  BY <1>1, <1>2, <1>5, <1>7, <1>10 DEF Changed, SameButId
<1>12. Changed(p, PassiveClosed(p), n)
  BY <1>1, <1>2, <1>8, <1>10 DEF Changed, SameButId
<1>13. Changed(p, Unbound(p), n)
  BY <1>1, <1>2, <1>9, <1>10, SameFields
<1>14. \E m \in {ActiveClosed(p), PassiveClosed(p), Unbound(p)} :
         socklist' = [socklist EXCEPT ![Node(p)] = m]
  BY CloseCases
<1> QED BY <1>2, <1>11, <1>12, <1>13, <1>14 DEF ChangesOne

\* A new socket.
CreatesOne(p) ==
  /\ Next_(p).op = "socket" /\ Create(p, fds) # -1
  /\ \E st \in FreshStatus :
       /\ FreshNode(p, Create(p, fds), st) \in SockNode
       /\ socklist' = <<FreshNode(p, Create(p, fds), st)>> \o socklist

LEMMA SyscallTable ==
  ASSUME Typed, NEW p \in Pids, Syscall(p)
  PROVE  socklist' = socklist \/ ChangesOne(p) \/ CreatesOne(p)
<1>1. ASSUME Socket(p) PROVE socklist' = socklist \/ CreatesOne(p)
  <2>1. Next_(p).op = "socket"
    BY <1>1 DEF Socket, Enter
  <2>2. \/ socklist' = socklist
        \/ /\ Create(p, fds) # -1
           /\ \E st \in FreshStatus :
                socklist' = <<FreshNode(p, Create(p, fds), st)>> \o socklist
    BY <1>1 DEF Socket
  <2>3. Create(p, fds) \in Descriptors
    BY CreateType DEF Typed, KernelType
  <2>4. \A st \in FreshStatus : FreshNode(p, Create(p, fds), st) \in SockNode
    <3> SUFFICES ASSUME NEW st \in FreshStatus
                 PROVE  FreshNode(p, Create(p, fds), st) \in SockNode
      OBVIOUS
    <3>1. FreshNode(p, Create(p, fds), st) \in NodeOf({p}, {Create(p, fds)})
      BY FreshType, EndpointsAssumption
    <3> QED BY <2>3, <3>1, NodeMonotone DEF SockNode
  <2> QED BY <2>1, <2>2, <2>4 DEF CreatesOne
<1>2. Bind(p) \/ Listen(p) \/ Connect(p) \/ Accept(p) => socklist' = socklist \/ ChangesOne(p)
  BY BindChanges, ListenChanges, ConnectChanges, AcceptChanges
<1>3. Read(p) \/ Write(p) \/ Close(p) => socklist' = socklist \/ ChangesOne(p)
  BY ReadChanges, WriteChanges, CloseChanges
<1>4. Skip(p) => socklist' = socklist
  BY DEF Skip, kernel
<1> QED BY <1>1, <1>2, <1>3, <1>4 DEF Syscall

-----------------------------------------------------------------------------
(* What an arrival does to the table, whatever it is.                      *)

NodeIds(n) == {n.uuid, n.read_uuid, n.write_uuid}

\* m is what an arrival makes of node n: the same socket, whose reads and
\* writes may be over, and which listens as before.
Evolves(m, n) ==
  /\ SameSocket(m, n)
  /\ m.read_uuid \in {n.read_uuid, None} /\ m.write_uuid \in {n.write_uuid, None}
  /\ m.status = "LISTENING" <=> n.status = "LISTENING"

LEMMA EvolvesSelf == ASSUME NEW n PROVE Evolves(n, n)
BY DEF Evolves, SameSocket

LEMMA LeftIds ==
  ASSUME NEW n \in SockNode, NEW m \in ShortSegments
  PROVE  /\ Left(n, m).read_uuid \in {n.read_uuid, None}
         /\ Left(n, m).write_uuid = n.write_uuid
<1> DEFINE s == Stored(n, m)
<1>1. s \in SockNode /\ s.read_uuid = n.read_uuid /\ s.read_len = n.read_len
  BY StoredType
<1>2. s.write_uuid = n.write_uuid
  BY DEF Stored, SockNode, NodeOf
<1>3. CASE Satisfied(s)
  <2> DEFINE t == Consumed(s, n.read_len)
  <2>1. n.read_len \in 0..BUFSIZE /\ n.read_len <= s.recv_len
    BY <1>1, <1>3, NodeFields DEF Satisfied, SockNode
  <2> HIDE DEF s
  <2>2. t \in SockNode
    BY <1>1, <2>1, ConsumedType DEF SockNode
  <2>3. t.write_uuid = n.write_uuid
    BY <1>1, <1>2 DEF Consumed, SockNode, NodeOf
  <2> HIDE DEF t
  <2>4. Left(n, m) = [t EXCEPT !.read_uuid = None]
    BY <1>3 DEF Left, s, t
  <2>5. [t EXCEPT !.read_uuid = None].read_uuid = None
        /\ [t EXCEPT !.read_uuid = None].write_uuid = t.write_uuid
    BY <2>2 DEF SockNode, NodeOf
  <2> QED BY <2>3, <2>4, <2>5
<1>4. CASE ~Satisfied(s)
  BY <1>1, <1>2, <1>4, LeftType
<1> QED BY <1>3, <1>4

LEMMA AckedIds ==
  ASSUME NEW n \in SockNode, NEW m \in ShortSegments
  PROVE  AckedNode(n, m).write_uuid \in {n.write_uuid, None}
<1>1. CASE n.sending
  <2> DEFINE t == Filled(n, m)
  <2>1. AckedNode(n, m) = [t EXCEPT !.write_uuid = None]
    BY <1>1 DEF AckedNode
  <2>2. CASE "write_uuid" \in DOMAIN t
    BY <2>1, <2>2
  <2>3. CASE n.write_uuid[1] > 0
    <3>1. Resumed(n, m).node \in SockNode
      BY ResumedType
    <3> QED BY <2>2, <2>3, <3>1 DEF Filled, SockNode, NodeOf
  <2>4. CASE ~(n.write_uuid[1] > 0)
    <3>1. Resumed(n, m).node \in SockNode
      BY ResumedType
    <3> QED BY <2>2, <2>4, <3>1 DEF Filled, SockNode, NodeOf
  <2> QED BY <2>3, <2>4
<1>2. CASE ~n.sending
  BY <1>2 DEF AckedNode, Grown, SockNode, NodeOf
<1> QED BY <1>1, <1>2

LEMMA QuietIds ==
  ASSUME NEW n \in SockNode, NEW st, NEW seq
  PROVE  /\ Quiet(n, st, seq).read_uuid = n.read_uuid
         /\ Quiet(n, st, seq).write_uuid = n.write_uuid
BY DEF Quiet, SockNode, NodeOf

\* What an ACK makes of a node that does not listen, and whom it answers.
LEMMA AckOfEvolves ==
  ASSUME NEW n \in SockNode, NEW m \in ShortSegments, NEW c, n.status # "LISTENING"
  PROVE  /\ Evolves(AckOf(n, c, m).node, n)
         /\ \A b \in AckOf(n, c, m).answers : b.id \in NodeIds(n)
<1> DEFINE a == AckOf(n, c, m)
<1>1. /\ SameSocket(a.node, n)
      /\ a.node.status = CASE n.status = "FIN_WAIT_1" -> "FIN_WAIT_2"
                           [] n.status = "CLOSING" -> "TIMED_WAIT"
                           [] OTHER -> n.status
  BY AckOfFacts
<1>2. a.node.status # "LISTENING"
  BY <1>1
<1>3. CASE n.status = "ESTAB" /\ m.data # <<>>
  <2>1. a.node = Left(n, m) /\ a.answers = ReadAnswers(n, m)
    BY <1>3, ReceiveFacts DEF AckOf
  <2>2. \A b \in ReadAnswers(n, m) : b.id = n.read_uuid
    BY DEF ReadAnswers, Answer, ReadAnswer
  <2> HIDE DEF a
  <2>3. /\ a.node.read_uuid \in {n.read_uuid, None}
        /\ a.node.write_uuid \in {n.write_uuid, None}
    BY <2>1, LeftIds
  <2>4. \A b \in a.answers : b.id \in NodeIds(n)
    BY <2>1, <2>2 DEF NodeIds
  <2>5. Evolves(a.node, n)
    BY <1>1, <1>2, <2>3 DEF Evolves
  <2> QED BY <2>4, <2>5 DEF a
<1>4. CASE n.status = "ESTAB" /\ m.data = <<>>
  <2>1. a = Acked(n, m)
    BY <1>4 DEF AckOf
  <2>2. a.node = AckedNode(n, m) /\ AckedNode(n, m).read_uuid = n.read_uuid
    BY <2>1, AckedFacts DEF ReadGoesOn
  <2>20. Acked(n, m).answers = IF n.sending /\ n.write_uuid[1] > 0
                               THEN {Answer(n.write_uuid, MSS)} ELSE {}
    BY DEF Acked, AckedNode, Filled, Resumed, Grown
  <2>21. Answer(n.write_uuid, MSS).id = n.write_uuid
    BY DEF Answer
  <2> HIDE DEF a
  <2>3. \A b \in a.answers : b.id = n.write_uuid
    BY <2>1, <2>20, <2>21
  <2> HIDE DEF a
  <2>4. a.node.write_uuid \in {n.write_uuid, None}
    BY <2>2, AckedIds
  <2>5. \A b \in a.answers : b.id \in NodeIds(n)
    BY <2>3 DEF NodeIds
  <2>6. Evolves(a.node, n)
    BY <1>1, <1>2, <2>2, <2>4 DEF Evolves
  <2> QED BY <2>5, <2>6 DEF a
<1>5. CASE n.status # "ESTAB"
  <2>1. PICK st, seq : a.node = Quiet(n, st, seq)
    BY <1>5 DEF AckOf, Quiet
  <2>2. \A b \in a.answers : b.id = n.uuid
    BY <1>5 DEF AckOf, Answer
  <2> HIDE DEF a
  <2>3. a.node.read_uuid = n.read_uuid /\ a.node.write_uuid = n.write_uuid
    BY <2>1, QuietIds
  <2>4. \A b \in a.answers : b.id \in NodeIds(n)
    BY <2>2 DEF NodeIds
  <2>5. Evolves(a.node, n)
    BY <1>1, <1>2, <2>3 DEF Evolves
  <2> QED BY <2>4, <2>5 DEF a
<1> QED BY <1>3, <1>4, <1>5

LEMMA FinishedEvolves ==
  ASSUME NEW n \in SockNode, NEW m \in ShortSegments,
         n.status \in {"ESTAB", "FIN_WAIT_1", "FIN_WAIT_2"}
  PROVE  /\ Evolves(Finished(n, m), n)
         /\ \A b \in FinAnswers(n) : b.id \in NodeIds(n)
<1>1. /\ SameSocket(Finished(n, m), n)
      /\ Finished(n, m).status \in {"CLOSE_WAIT", "CLOSING", "TIMED_WAIT"}
  BY FinPartTypes
<1>2. /\ Finished(n, m).read_uuid \in {n.read_uuid, None}
      /\ Finished(n, m).write_uuid = n.write_uuid
  BY DEF Finished, SockNode, NodeOf
<1>3. \A b \in FinAnswers(n) : b.id \in NodeIds(n)
  BY DEF FinAnswers, EofAnswers, Answer, ReadAnswer, NodeIds
<1>4. n.status # "LISTENING" /\ Finished(n, m).status # "LISTENING"
  BY <1>1
<1> QED BY <1>1, <1>2, <1>3, <1>4 DEF Evolves

LEMMA OpenedEvolves ==
  ASSUME Typed, NEW c, NEW i \in Mine(c), NEW m
  PROVE  Evolves(Opened(i, m), socklist[i])
<1>1. socklist[i] \in SockNode /\ socklist[i].status = "SYN_SENT"
  BY DEF Mine, Expecting, Typed, KernelType
<1> QED BY <1>1 DEF Evolves, SameSocket, Opened, SockNode, NodeOf

\* Every node of the table comes from one of its own of table sl.
ComesFrom(table, sl) ==
  \E f \in [DOMAIN table -> DOMAIN sl] :
    /\ \A j \in DOMAIN table : Evolves(table[j], sl[f[j]])
    /\ \A j, k \in DOMAIN table : f[j] = f[k] => j = k

LEMMA ComesFromSelf == ASSUME NEW sl PROVE ComesFrom(sl, sl)
<1> DEFINE f == [j \in DOMAIN sl |-> j]
<1>1. f \in [DOMAIN sl -> DOMAIN sl] /\ \A j \in DOMAIN sl : f[j] = j
  OBVIOUS
<1> HIDE DEF f
<1>2. \A j \in DOMAIN sl : Evolves(sl[j], sl[f[j]])
  BY <1>1, EvolvesSelf
<1> QED BY <1>1, <1>2 DEF ComesFrom

LEMMA ComesFromUpdate ==
  ASSUME NEW sl, NEW table, DOMAIN table = DOMAIN sl,
         \A j \in DOMAIN sl : Evolves(table[j], sl[j])
  PROVE  ComesFrom(table, sl)
<1> DEFINE f == [j \in DOMAIN sl |-> j]
<1>1. f \in [DOMAIN table -> DOMAIN sl] /\ \A j \in DOMAIN sl : f[j] = j
  OBVIOUS
<1> HIDE DEF f
<1> QED BY <1>1 DEF ComesFrom

LEMMA ComesFromTake ==
  ASSUME NEW sl \in Seq(SockNode), NEW i \in DOMAIN sl
  PROVE  ComesFrom(Take(sl, i), sl)
<1> DEFINE t == Take(sl, i)
           f == [j \in DOMAIN t |-> IF j < i THEN j ELSE j+1]
<1>1. /\ t \in Seq(SockNode) /\ Len(t) = Len(sl) - 1
      /\ \A k \in 1..Len(sl)-1 : t[k] = IF k < i THEN sl[k] ELSE sl[k+1]
  BY TakeSeq
<1> HIDE DEF t
<1>2. DOMAIN t = 1..Len(sl)-1 /\ Len(sl) \in Nat /\ i \in 1..Len(sl) /\ DOMAIN sl = 1..Len(sl)
  BY <1>1
<1>3. \A j \in DOMAIN t : f[j] \in DOMAIN sl
  BY <1>2
<1>4. \A j \in DOMAIN t : t[j] = sl[f[j]]
  BY <1>1, <1>2
<1>5. \A j, k \in DOMAIN t : f[j] = f[k] => j = k
  BY <1>2
<1>6. f \in [DOMAIN t -> DOMAIN sl]
  BY <1>3
<1> HIDE DEF f
<1>7. \A j \in DOMAIN t : Evolves(t[j], sl[f[j]])
  BY <1>4, EvolvesSelf
<1>8. ComesFrom(t, sl)
  BY <1>5, <1>6, <1>7 DEF ComesFrom
<1> QED BY <1>8 DEF t

LEMMA SynAckTable ==
  ASSUME Typed, NEW c \in Conns, SynAck(c)
  PROVE  ComesFrom(socklist', socklist)
<1>1. socklist' = [i \in DOMAIN socklist |->
                     IF i \in Mine(c) THEN Opened(i, Head(toHost[c])) ELSE socklist[i]]
  BY SynAckCases
<1>2. \A j \in DOMAIN socklist : Evolves(socklist'[j], socklist[j])
  BY <1>1, OpenedEvolves, EvolvesSelf
<1>3. DOMAIN socklist' = DOMAIN socklist
  BY <1>1
<1> QED BY <1>2, <1>3, ComesFromUpdate

LEMMA FinTable ==
  ASSUME Typed, NEW c \in Conns, Fin(c)
  PROVE  ComesFrom(socklist', socklist)
<1> DEFINE m == Head(toHost[c])
           i == FinAt(c)
           n == socklist[i]
<1>1. /\ m \in ShortSegments
      /\ \/ /\ i # 0 /\ n.status \in {"ESTAB", "FIN_WAIT_1", "FIN_WAIT_2"}
            /\ socklist' = [socklist EXCEPT ![i] = Finished(n, m)]
         \/ socklist' = socklist
  BY FinCases, ArrivingFacts
<1>2. CASE socklist' = socklist
  BY <1>2, ComesFromSelf
<1>3. CASE /\ i # 0 /\ n.status \in {"ESTAB", "FIN_WAIT_1", "FIN_WAIT_2"}
           /\ socklist' = [socklist EXCEPT ![i] = Finished(n, m)]
  <2>1. i \in DOMAIN socklist /\ n \in SockNode
    BY <1>3, FinAtLookup
  <2>2. Evolves(Finished(n, m), n)
    BY <1>1, <1>3, <2>1, FinishedEvolves
  <2>3. DOMAIN socklist' = DOMAIN socklist
    BY <1>3
  <2>4. \A j \in DOMAIN socklist : socklist'[j] = IF j = i THEN Finished(n, m) ELSE socklist[j]
    BY <1>3, <2>1
  <2> HIDE DEF n, m, i
  <2>5. \A j \in DOMAIN socklist : Evolves(socklist'[j], socklist[j])
    BY <2>2, <2>4, EvolvesSelf DEF n
  <2> QED BY <2>3, <2>5, ComesFromUpdate
<1> QED BY <1>1, <1>2, <1>3

LEMMA AckTable ==
  ASSUME Typed, NEW c \in Conns, Ack(c)
  PROVE  ComesFrom(socklist', Completed(c, Head(toHost[c])).sl)
<1> DEFINE m == Head(toHost[c])
           sl == Completed(c, m).sl
           i == AckedAt(c, m)
           n == AckOf(sl[i], c, m).node
<1>1. m \in ShortSegments
  BY AckCases, ArrivingFacts
<1>2. sl \in Seq(SockNode)
  BY <1>1, CompletedType
<1>3. i # 0 => i \in DOMAIN sl /\ sl[i] \in SockNode /\ sl[i].status # "LISTENING"
  BY <1>1, AckedAtLookup
<1>4. i # 0 => Evolves(n, sl[i])
  BY <1>1, <1>3, AckOfEvolves
<1>5. \/ i = 0 /\ socklist' = sl
      \/ i # 0 /\ socklist' = Take(sl, i)
      \/ i # 0 /\ socklist' = [sl EXCEPT ![i] = n]
  BY AckCases
<1> HIDE DEF n, i, sl
<1>6. CASE i = 0 /\ socklist' = sl
  BY <1>6, ComesFromSelf DEF sl
<1>7. CASE i # 0 /\ socklist' = Take(sl, i)
  <2>1. i \in DOMAIN sl
    BY <1>3, <1>7
  <2> QED BY <1>2, <1>7, <2>1, ComesFromTake DEF sl
<1>8. CASE i # 0 /\ socklist' = [sl EXCEPT ![i] = n]
  <2>1. i \in DOMAIN sl
    BY <1>3, <1>8
  <2>2. DOMAIN socklist' = DOMAIN sl
    BY <1>8
  <2>3. \A j \in DOMAIN sl : socklist'[j] = IF j = i THEN n ELSE sl[j]
    BY <1>8, <2>1
  <2>4. \A j \in DOMAIN sl : Evolves(socklist'[j], sl[j])
    BY <1>4, <1>8, <2>3, EvolvesSelf
  <2>5. ComesFrom(socklist', sl)
    BY <2>2, <2>4, ComesFromUpdate
  <2> QED BY <2>5 DEF sl
<1> QED BY <1>5, <1>6, <1>7, <1>8

-----------------------------------------------------------------------------
(* Who is answered: the numbers of the calls the nodes, the half-open      *)
(* connections and the queue hold are of calls made, and of a call that is *)
(* pending only where calls of its kind are put.                           *)

IdOld(id, pg) == id[1] \in Pids => id[2] > Len(pg[id[1]])
IdFor(id, ops, cs) == \A p \in Pids : cs[p] # Idle /\ cs[p].id = id => cs[p].op \in ops
NodeUse(n, pg, cs) ==
  /\ \A id \in NodeIds(n) : IdOld(id, pg)
  /\ IdFor(n.uuid, {"connect", "close"}, cs)
  /\ IdFor(n.read_uuid, {"read"}, cs) /\ IdFor(n.write_uuid, {"write"}, cs)
QueueUse(q, pg, cs) ==
  q.uuid[1] = q.pid /\ IdOld(q.uuid, pg) /\ IdFor(q.uuid, {"accept"}, cs)

SockUses == \A i \in DOMAIN socklist : NodeUse(socklist[i], prog, calls)
HalfUses == \A i \in DOMAIN backlog_list : NodeUse(backlog_list[i], prog, calls)
QueueUses == \A i \in DOMAIN accept_queue : QueueUse(accept_queue[i], prog, calls)
QueueOnce == \A i, j \in DOMAIN accept_queue :
               accept_queue[i].uuid = accept_queue[j].uuid => i = j
UsesOK == SockUses /\ HalfUses /\ QueueUses /\ QueueOnce

LEMMA SpecialIds ==
  ASSUME CallsOK, NEW id \in {None, Zero}
  PROVE  /\ \A pg : IdOld(id, pg)
         /\ \A ops : IdFor(id, ops, calls)
<1>1. id[1] \notin Pids
  BY PidsAssumption DEF None, Zero
<1>2. \A p \in Pids : calls[p] # Idle => calls[p].id[1] = p
  BY DEF CallsOK
<1> QED BY <1>1, <1>2 DEF IdOld, IdFor

LEMMA IdParts == \A id \in Ids : id[1] \in Int /\ id[2] \in Nat
<1>1. \A p \in Pids : p \in Int
  BY PidsAssumption
<1> QED BY <1>1 DEF Ids, None, Zero

LEMMA NodeIdsType ==
  ASSUME NEW O, NEW D, NEW n \in NodeOf(O, D)
  PROVE  /\ NodeIds(n) \subseteq Ids
         /\ n.uuid \in NodeIds(n) /\ n.read_uuid \in NodeIds(n) /\ n.write_uuid \in NodeIds(n)
BY NodeFields DEF NodeIds

\* An id that is there when p makes a call is of another call.
LEMMA IdsOfCall ==
  ASSUME Typed, CallsOK, NEW p \in Pids, Runs(p), SyscallStep(p), NEW id \in Ids,
         IdOld(id, prog)
  PROVE  /\ IdOld(id, prog') /\ id # Id(p)
         /\ \A ops : IdFor(id, ops, calls) => IdFor(id, ops, calls')
<1>1. id[1] \in Int /\ id[2] \in Nat
  BY IdParts
<1>2. /\ Len(prog[p]) \in Nat /\ Len(prog'[p]) = Len(prog[p]) - 1
      /\ \A q \in Pids : q # p => prog'[q] = prog[q]
  BY Running
<1>3. id # Id(p)
  BY <1>2 DEF Id, IdOld
<1>4. IdOld(id, prog')
  BY <1>1, <1>2 DEF IdOld
<1>5. ASSUME NEW ops, IdFor(id, ops, calls) PROVE IdFor(id, ops, calls')
  BY <1>3, <1>5 DEF IdFor, SyscallStep
<1> QED BY <1>3, <1>4, <1>5

\* The call p makes.
LEMMA IdOfCall ==
  ASSUME Typed, CallsOK, NEW p \in Pids, Runs(p), SyscallStep(p), NEW ops,
         Next_(p).op \in ops
  PROVE  IdOld(Id(p), prog') /\ IdFor(Id(p), ops, calls')
<1>1. Len(prog[p]) \in Nat /\ Len(prog'[p]) = Len(prog[p]) - 1
  BY Running
<1>2. Len(prog[p]) > Len(prog'[p])
  BY <1>1
<1>3. \A q \in Pids : q # p /\ calls[q] # Idle => calls[q].id # Id(p)
  BY DEF CallsOK, Id
<1> QED BY <1>2, <1>3 DEF IdOld, IdFor, Id, SyscallStep

LEMMA ChangedUse ==
  ASSUME Typed, CallsOK, NEW p \in Pids, Runs(p), SyscallStep(p),
         NEW m \in SockNode, NEW n \in SockNode, Changed(p, m, n),
         NodeUse(n, prog, calls)
  PROVE  NodeUse(m, prog', calls')
<1>1. /\ n.uuid \in Ids /\ n.read_uuid \in Ids /\ n.write_uuid \in Ids
      /\ IdOld(n.uuid, prog) /\ IdOld(n.read_uuid, prog) /\ IdOld(n.write_uuid, prog)
  BY NodeIdsType DEF SockNode, NodeUse
<1>2. IdOld(m.uuid, prog') /\ IdFor(m.uuid, {"connect", "close"}, calls')
  <2>1. m.uuid = n.uuid \/ (m.uuid = Id(p) /\ Next_(p).op \in {"connect", "close"})
    BY DEF Changed
  <2>2. IdFor(n.uuid, {"connect", "close"}, calls)
    BY DEF NodeUse
  <2> QED BY <1>1, <2>1, <2>2, IdsOfCall, IdOfCall
<1>3. IdOld(m.read_uuid, prog') /\ IdFor(m.read_uuid, {"read"}, calls')
  <2>1. m.read_uuid = n.read_uuid \/ (m.read_uuid = Id(p) /\ Next_(p).op \in {"read"})
    BY DEF Changed
  <2>2. IdFor(n.read_uuid, {"read"}, calls)
    BY DEF NodeUse
  <2> QED BY <1>1, <2>1, <2>2, IdsOfCall, IdOfCall
<1>4. IdOld(m.write_uuid, prog') /\ IdFor(m.write_uuid, {"write"}, calls')
  <2>1. m.write_uuid = n.write_uuid \/ (m.write_uuid = Id(p) /\ Next_(p).op \in {"write"})
    BY DEF Changed
  <2>2. IdFor(n.write_uuid, {"write"}, calls)
    BY DEF NodeUse
  <2> QED BY <1>1, <2>1, <2>2, IdsOfCall, IdOfCall
<1> QED BY <1>2, <1>3, <1>4 DEF NodeUse, NodeIds

LEMMA SameUse ==
  ASSUME Typed, CallsOK, NEW p \in Pids, Runs(p), SyscallStep(p), NEW n, NodeIds(n) \subseteq Ids,
         NodeUse(n, prog, calls)
  PROVE  NodeUse(n, prog', calls')
<1>1. /\ n.uuid \in Ids /\ n.read_uuid \in Ids /\ n.write_uuid \in Ids
      /\ IdOld(n.uuid, prog) /\ IdOld(n.read_uuid, prog) /\ IdOld(n.write_uuid, prog)
  BY DEF NodeUse, NodeIds
<1>2. /\ IdOld(n.uuid, prog') /\ IdOld(n.read_uuid, prog') /\ IdOld(n.write_uuid, prog')
  BY <1>1, IdsOfCall
<1>3. /\ IdFor(n.uuid, {"connect", "close"}, calls')
      /\ IdFor(n.read_uuid, {"read"}, calls') /\ IdFor(n.write_uuid, {"write"}, calls')
  BY <1>1, IdsOfCall DEF NodeUse
<1> QED BY <1>2, <1>3 DEF NodeUse, NodeIds

LEMMA ListElements ==
  ASSUME Typed
  PROVE  /\ \A i \in DOMAIN socklist : socklist[i] \in SockNode /\ i \in Nat
         /\ \A i \in DOMAIN backlog_list : backlog_list[i] \in HalfNode /\ i \in Nat
         /\ \A i \in DOMAIN accept_queue : accept_queue[i] \in QueueRecs /\ i \in Nat
BY DEF Typed, KernelType

\* A call and the lists.
LEMMA SyscallLists ==
  ASSUME Typed, NEW p \in Pids, Syscall(p)
  PROVE  /\ Runs(p) /\ backlog_list' = backlog_list
         /\ \/ accept_queue' = accept_queue
            \/ /\ Accept(p) /\ Found(p) = 0
               /\ accept_queue' = Append(accept_queue,
                                    [uuid |-> Id(p), pid |-> p, sockfd |-> On(p)])
         /\ fds' = IF Socket(p) THEN Grow(p, fds) ELSE fds
         /\ Next_(p).op = "socket" <=> Socket(p)
<1>1. Socket(p) => /\ Runs(p) /\ UNCHANGED <<backlog_list, accept_queue>>
                   /\ fds' = Grow(p, fds) /\ Next_(p).op = "socket"
  BY DEF Socket, Enter
<1>2. Bind(p) \/ Listen(p) \/ Connect(p) =>
        Runs(p) /\ UNCHANGED <<backlog_list, accept_queue, fds>> /\ Next_(p).op # "socket"
  BY DEF Bind, Listen, Connect, Enter
<1>3. Read(p) \/ Write(p) \/ Close(p) \/ Skip(p) =>
        Runs(p) /\ UNCHANGED <<backlog_list, accept_queue, fds>> /\ Next_(p).op # "socket"
  BY DEF Read, Write, Close, Skip, Enter, kernel
<1>4. Accept(p) => /\ Runs(p) /\ UNCHANGED <<backlog_list, fds>> /\ Next_(p).op # "socket"
                   /\ \/ accept_queue' = accept_queue
                      \/ /\ Found(p) = 0
                         /\ accept_queue' = Append(accept_queue,
                                    [uuid |-> Id(p), pid |-> p, sockfd |-> On(p)])
  BY AcceptCases
<1> QED BY <1>1, <1>2, <1>3, <1>4 DEF Syscall

LEMMA FreshUse ==
  ASSUME CallsOK', NEW p, NEW fd, NEW st
  PROVE  NodeUse(FreshNode(p, fd, st), prog', calls')
<1> DEFINE n == FreshNode(p, fd, st)
<1>1. n.uuid = Zero /\ n.read_uuid = Zero /\ n.write_uuid = Zero
  BY DEF FreshNode
<1>2. \A q \in Pids : calls'[q] # Idle => calls'[q].id[1] = q
  BY DEF CallsOK
<1>3. Zero[1] \notin Pids
  BY PidsAssumption DEF Zero
<1>4. IdOld(Zero, prog') /\ \A ops : IdFor(Zero, ops, calls')
  BY <1>2, <1>3 DEF IdOld, IdFor
<1> HIDE DEF n
<1>5. NodeUse(n, prog', calls')
  BY <1>1, <1>4 DEF NodeUse, NodeIds
<1> QED BY <1>5 DEF n

LEMMA SyscallUses ==
  ASSUME Typed, CallsOK, UsesOK, NEW p \in Pids, Syscall(p)
  PROVE  UsesOK'
<1>1. SyscallStep(p) /\ Runs(p) /\ CallsOK'
  BY SyscallSteps, SyscallLists DEF SyscallStep
<1>2. /\ socklist \in Seq(SockNode) /\ backlog_list \in Seq(HalfNode)
      /\ accept_queue \in Seq(QueueRecs)
  BY DEF Typed, KernelType
<1>3. SockUses'
  <2> SUFFICES ASSUME NEW j \in DOMAIN socklist' PROVE NodeUse(socklist'[j], prog', calls')
    BY DEF SockUses
  <2>1. \A i \in DOMAIN socklist : NodeUse(socklist[i], prog, calls) /\ socklist[i] \in SockNode
    BY <1>2 DEF UsesOK, SockUses
  <2>2. \A i \in DOMAIN socklist : NodeUse(socklist[i], prog', calls')
    BY <1>1, <2>1, SameUse, NodeIdsType DEF SockNode
  <2>3. CASE ChangesOne(p)
    <3>1. PICK i \in DOMAIN socklist, m \in SockNode :
            Changed(p, m, socklist[i]) /\ socklist' = [socklist EXCEPT ![i] = m]
      BY <2>3 DEF ChangesOne
    <3>2. NodeUse(m, prog', calls')
      BY <1>1, <2>1, <3>1, ChangedUse
    <3>3. DOMAIN socklist' = DOMAIN socklist /\ socklist'[j] = IF j = i THEN m ELSE socklist[j]
      BY <3>1
    <3> QED BY <2>2, <3>2, <3>3
  <2>4. CASE CreatesOne(p)
    <3>1. PICK st \in FreshStatus :
            /\ FreshNode(p, Create(p, fds), st) \in SockNode
            /\ socklist' = <<FreshNode(p, Create(p, fds), st)>> \o socklist
      BY <2>4 DEF CreatesOne
    <3> DEFINE m == FreshNode(p, Create(p, fds), st)
    <3>2. NodeUse(m, prog', calls')
      BY <1>1, FreshUse
    <3> HIDE DEF m
    <3>3. m \in SockNode /\ socklist' = <<m>> \o socklist
      BY <3>1 DEF m
    <3>4. /\ \A k \in DOMAIN socklist' :
               k = 1 \/ (k - 1 \in DOMAIN socklist /\ socklist'[k] = socklist[k-1])
          /\ socklist'[1] = m
      BY <3>3, ConsOthers
    <3> QED BY <2>2, <3>2, <3>4
  <2>5. CASE socklist' = socklist
    BY <2>2, <2>5
  <2> QED BY <2>3, <2>4, <2>5, SyscallTable
<1>4. HalfUses'
  <2>1. \A i \in DOMAIN backlog_list : backlog_list[i] \in NodeOf(Pids \cup {-1}, Descriptors \cup {-2})
    BY ListElements DEF HalfNode
  <2>2. \A i \in DOMAIN backlog_list : NodeIds(backlog_list[i]) \subseteq Ids
    BY <2>1, NodeIdsType
  <2>3. \A i \in DOMAIN backlog_list : NodeUse(backlog_list[i], prog', calls')
    BY <1>1, <2>2, SameUse DEF UsesOK, HalfUses
  <2> QED BY <2>3, SyscallLists DEF HalfUses
<1>5. QueueUses' /\ QueueOnce'
  <2>1. \A i \in DOMAIN accept_queue : accept_queue[i].uuid \in Ids
    BY ListElements DEF QueueRecs
  <2>2. \A i \in DOMAIN accept_queue : /\ QueueUse(accept_queue[i], prog', calls')
                                       /\ accept_queue[i].uuid # Id(p)
    BY <1>1, <2>1, IdsOfCall DEF UsesOK, QueueUses, QueueUse
  <2>3. CASE accept_queue' = accept_queue
    BY <2>2, <2>3 DEF UsesOK, QueueUses, QueueOnce
  <2>4. CASE /\ Accept(p) /\ Found(p) = 0
             /\ accept_queue' = Append(accept_queue,
                                  [uuid |-> Id(p), pid |-> p, sockfd |-> On(p)])
    <3> DEFINE q == [uuid |-> Id(p), pid |-> p, sockfd |-> On(p)]
    <3>1. q.uuid = Id(p) /\ q.pid = p
      OBVIOUS
    <3>2. accept_queue' = Append(accept_queue, q)
      BY <2>4
    <3> HIDE DEF q
    <3>3. Id(p)[1] = p
      BY DEF Id
    <3>4. Next_(p).op = "accept"
      BY <2>4, AcceptCases
    <3>5. QueueUse(q, prog', calls')
      BY <1>1, <3>1, <3>3, <3>4, IdOfCall DEF QueueUse
    <3>6. /\ DOMAIN accept_queue' = 1..Len(accept_queue)+1
          /\ \A j \in DOMAIN accept_queue' :
               accept_queue'[j] = IF j = Len(accept_queue)+1 THEN q ELSE accept_queue[j]
          /\ DOMAIN accept_queue = 1..Len(accept_queue) /\ Len(accept_queue) \in Nat
      BY <1>2, <3>2
    <3>7. \A j \in DOMAIN accept_queue' :
            \/ j = Len(accept_queue)+1 /\ accept_queue'[j] = q
            \/ /\ j \in DOMAIN accept_queue /\ j # Len(accept_queue)+1
               /\ accept_queue'[j] = accept_queue[j]
      BY <3>6
    <3>8. QueueUses'
      BY <2>2, <3>5, <3>7 DEF QueueUses
    <3>9. QueueOnce'
      BY <2>2, <3>1, <3>7 DEF QueueOnce, UsesOK
    <3> QED BY <3>8, <3>9
  <2> QED BY <2>3, <2>4, SyscallLists
<1> QED BY <1>3, <1>4, <1>5 DEF UsesOK

\* The elements of a sequence that grows or shrinks by one.
LEMMA AppendElements ==
  ASSUME NEW T, NEW s \in Seq(T), NEW x \in T
  PROVE  /\ \A j \in DOMAIN Append(s, x) :
              \/ j \in DOMAIN s /\ Append(s, x)[j] = s[j] /\ j # Len(s)+1
              \/ j = Len(s)+1 /\ Append(s, x)[j] = x
         /\ DOMAIN Append(s, x) = 1..Len(s)+1 /\ Append(s, x) \in Seq(T)
         /\ \A j \in DOMAIN s : j \in DOMAIN Append(s, x) /\ Append(s, x)[j] = s[j]
         /\ Append(s, x)[Len(s)+1] = x /\ Len(s)+1 \in DOMAIN Append(s, x)
OBVIOUS

LEMMA TakeElements ==
  ASSUME NEW T, NEW s \in Seq(T), NEW i \in DOMAIN s
  PROVE  /\ \A j \in DOMAIN Take(s, i) :
              \/ j \in DOMAIN s /\ j < i /\ Take(s, i)[j] = s[j]
              \/ j+1 \in DOMAIN s /\ j+1 > i /\ Take(s, i)[j] = s[j+1]
         /\ DOMAIN Take(s, i) \subseteq Nat
<1>1. /\ Take(s, i) \in Seq(T) /\ Len(Take(s, i)) = Len(s) - 1
      /\ \A k \in 1..Len(s)-1 : Take(s, i)[k] = IF k < i THEN s[k] ELSE s[k+1]
  BY TakeSeq
<1> DEFINE t == Take(s, i)
<1> HIDE DEF t
<1>2. DOMAIN t = 1..Len(s)-1 /\ DOMAIN s = 1..Len(s) /\ Len(s) \in Nat /\ i \in Nat
  BY <1>1 DEF t
<1>3. \A k \in 1..Len(s)-1 : t[k] = IF k < i THEN s[k] ELSE s[k+1]
  BY <1>1 DEF t
<1>4. \A j \in DOMAIN t :
              \/ j \in DOMAIN s /\ j < i /\ t[j] = s[j]
              \/ j+1 \in DOMAIN s /\ j+1 > i /\ t[j] = s[j+1]
  BY <1>2, <1>3
<1>5. DOMAIN t \subseteq Nat
  BY <1>2
<1> QED BY <1>4, <1>5 DEF t

LEMMA TailElements ==
  ASSUME NEW T, NEW s \in Seq(T), s # <<>>
  PROVE  /\ \A j \in DOMAIN Tail(s) : j+1 \in DOMAIN s /\ Tail(s)[j] = s[j+1] /\ j \in Nat
         /\ \A k \in DOMAIN s : k # 1 => k-1 \in DOMAIN Tail(s) /\ Tail(s)[k-1] = s[k]
         /\ 1 \in DOMAIN s /\ Head(s) = s[1]
OBVIOUS

\* The table of the first half of an ACK: one socket more, or the same.
NewlyOpen(c) == HalfOpen(c) # 0 /\ (accept_queue = <<>> \/ NewFd(c) # -1)

LEMMA CompletedTable ==
  ASSUME Typed, NEW c \in Conns, NEW m \in ShortSegments
  PROVE  LET sl == Completed(c, m).sl
         IN  /\ ~NewlyOpen(c) => sl = socklist
             /\ NewlyOpen(c) =>
                  /\ HalfOpen(c) # 0
                  /\ sl = <<NewSocket(c, m)>> \o socklist
                  /\ sl[1] = NewSocket(c, m) /\ 1 \in DOMAIN sl
                  /\ \A k \in DOMAIN sl :
                       k = 1 \/ (k-1 \in DOMAIN socklist /\ sl[k] = socklist[k-1])
                  /\ DOMAIN sl \subseteq Nat
<1> DEFINE sl == Completed(c, m).sl
<1>1. ~NewlyOpen(c) => sl = socklist
  BY CompletedCases DEF NewlyOpen
<1>2. NewlyOpen(c) => HalfOpen(c) # 0 /\ sl = <<NewSocket(c, m)>> \o socklist
  BY CompletedCases DEF NewlyOpen
<1>3. ASSUME NewlyOpen(c)
      PROVE  /\ sl[1] = NewSocket(c, m) /\ 1 \in DOMAIN sl
             /\ \A k \in DOMAIN sl :
                  k = 1 \/ (k-1 \in DOMAIN socklist /\ sl[k] = socklist[k-1])
             /\ DOMAIN sl \subseteq Nat
  <2>1. NewSocket(c, m) \in SockNode
    BY <1>2, <1>3, NewSocketType
  <2>2. socklist \in Seq(SockNode)
    BY DEF Typed, KernelType
  <2> HIDE DEF sl
  <2>3. /\ DOMAIN sl = 1..Len(socklist)+1 /\ sl[1] = NewSocket(c, m)
        /\ \A k \in 1..Len(socklist) : sl[k+1] = socklist[k]
    BY <1>2, <1>3, <2>1, <2>2, ConsSeq
  <2> QED BY <2>2, <2>3
<1> QED BY <1>1, <1>2, <1>3

\* The lists after an arrival.
LEMMA HalfLists ==
  ASSUME Typed, NEW c \in Conns, packetArrived(c)
  PROVE  LET m == Head(toHost[c])
         IN  /\ m \in ShortSegments /\ prog' = prog
             /\ \/ backlog_list' = backlog_list
                \/ /\ Syn(c) /\ Fits(c)
                   /\ Half(ListenerOf(c[2]), c[1], m.seq + 1) \in HalfNode
                   /\ backlog_list' = Append(backlog_list, Half(ListenerOf(c[2]), c[1], m.seq + 1))
                \/ /\ Ack(c) /\ HalfOpen(c) # 0
                   /\ backlog_list' = Take(backlog_list, HalfOpen(c))
             /\ \/ accept_queue' = accept_queue
                \/ /\ Ack(c) /\ HalfOpen(c) # 0 /\ accept_queue # <<>>
                   /\ accept_queue' = Tail(accept_queue)
             /\ \/ fds' = fds
                \/ Ack(c) /\ HalfOpen(c) # 0 /\ fds' = Grow(NewOwner(c), fds)
<1> DEFINE m == Head(toHost[c])
<1>1. Delivers(c)
  BY SynCases, SynAckCases, AckCases, FinCases DEF packetArrived
<1>2. m \in ShortSegments
  BY <1>1, ArrivingFacts
<1>3. m.seq + 1 \in Int /\ c[1] \in Remotes
  BY <1>2, SegmentFields, ConnFacts
<1>4. Half(ListenerOf(c[2]), c[1], m.seq + 1) \in HalfNode
  BY <1>3, HalfType
<1>5. ASSUME Syn(c)
      PROVE  /\ UNCHANGED <<prog, accept_queue, fds>>
             /\ \/ backlog_list' = backlog_list
                \/ /\ Fits(c)
                   /\ backlog_list' = Append(backlog_list, Half(ListenerOf(c[2]), c[1], m.seq + 1))
  BY <1>5, SynCases
<1>6. SynAck(c) \/ Fin(c) => UNCHANGED <<prog, accept_queue, fds, backlog_list>>
  BY SynAckCases, FinCases
<1>7. ASSUME Ack(c)
      PROVE  LET h == Completed(c, m)
             IN  /\ backlog_list' = h.bl /\ accept_queue' = h.aq /\ fds' = h.fds /\ prog' = prog
  BY <1>7, AckCases
<1>8. LET h == Completed(c, m)
      IN  \/ h.bl = backlog_list /\ h.aq = accept_queue /\ h.fds = fds
          \/ /\ HalfOpen(c) # 0 /\ h.bl = Take(backlog_list, HalfOpen(c))
             /\ h.fds = Grow(NewOwner(c), fds)
             /\ \/ h.aq = accept_queue
                \/ accept_queue # <<>> /\ h.aq = Tail(accept_queue)
  BY <1>2, CompletedCases
<1> HIDE DEF m
<1>9. CASE Syn(c)
  BY <1>2, <1>4, <1>5, <1>9 DEF m
<1>10. CASE Ack(c)
  BY <1>2, <1>7, <1>8, <1>10 DEF m
<1>11. CASE SynAck(c) \/ Fin(c)
  BY <1>2, <1>6, <1>11 DEF m
<1> QED BY <1>9, <1>10, <1>11 DEF packetArrived

LEMMA NewSocketIds ==
  ASSUME Typed, NEW c \in Conns, NEW m \in ShortSegments, HalfOpen(c) # 0
  PROVE  /\ NewSocket(c, m).uuid = Entry(c).uuid
         /\ NewSocket(c, m).read_uuid = Entry(c).read_uuid
         /\ NewSocket(c, m).write_uuid = Entry(c).write_uuid
         /\ NewSocket(c, m).backlog = Entry(c).backlog
<1>1. Entry(c) \in NodeOf(Pids \cup {-1}, Descriptors \cup {-2})
  BY HalfOpenLookup DEF Entry, HalfNode
<1> QED BY <1>1 DEF NewSocket, NodeOf

\* An arrival answers calls and makes none.
Answered_ == /\ prog' = prog
             /\ \A p \in Pids : calls'[p] = Idle \/ calls'[p] = calls[p]

LEMMA ArrivalCalls ==
  ASSUME Typed, CallsOK, NEW c \in Conns, packetArrived(c)
  PROVE  Answered_ /\ CallsOK'
<1>1. ASSUME NEW A \in SUBSET AnswerRecs, Reply(A, calls), prog' = prog
      PROVE  Answered_ /\ CallsOK'
  BY <1>1, AnswersStep DEF Answered_
<1>2. CASE UNCHANGED <<prog, calls>>
  BY <1>2 DEF Answered_, CallsOK
<1>3. CASE Syn(c)
  BY <1>2, <1>3, SynCases DEF apps
<1>4. CASE SynAck(c)
  <2> DEFINE A == {Answer(socklist[i].uuid, 0) : i \in Mine(c)}
  <2>1. Reply(A, calls) /\ prog' = prog
    BY <1>4, SynAckCases
  <2>2. \A i \in DOMAIN socklist : socklist[i].uuid \in Ids
    BY ListElements, NodeFields DEF SockNode
  <2>3. A \in SUBSET AnswerRecs
    BY <2>2, AnswerType, Empties DEF Mine
  <2> HIDE DEF A
  <2> QED BY <1>1, <2>1, <2>3
<1>5. CASE Ack(c)
  BY <1>1, <1>5, AckAnswers
<1>6. CASE Fin(c)
  <2>1. \/ /\ FinAt(c) # 0 /\ socklist[FinAt(c)].status \in {"ESTAB", "FIN_WAIT_1", "FIN_WAIT_2"}
           /\ Reply(FinAnswers(socklist[FinAt(c)]), calls) /\ prog' = prog
        \/ UNCHANGED <<prog, calls>>
    BY <1>6, FinCases DEF apps
  <2>2. Head(toHost[c]) \in ShortSegments
    BY <1>6, FinCases, ArrivingFacts
  <2>3. FinAt(c) # 0 /\ socklist[FinAt(c)].status \in {"ESTAB", "FIN_WAIT_1", "FIN_WAIT_2"}
          => FinAnswers(socklist[FinAt(c)]) \in SUBSET AnswerRecs
    BY <2>2, FinAtLookup, FinPartTypes
  <2> QED BY <1>1, <1>2, <2>1, <2>3
<1> QED BY <1>3, <1>4, <1>5, <1>6 DEF packetArrived

LEMMA EvolvesUse ==
  ASSUME CallsOK, Answered_, NEW m, NEW n, NodeUse(n, prog, calls),
         m.uuid = n.uuid, m.read_uuid \in {n.read_uuid, None},
         m.write_uuid \in {n.write_uuid, None}
  PROVE  NodeUse(m, prog', calls')
<1>1. /\ IdOld(n.uuid, prog) /\ IdOld(n.read_uuid, prog) /\ IdOld(n.write_uuid, prog)
      /\ IdFor(n.uuid, {"connect", "close"}, calls)
      /\ IdFor(n.read_uuid, {"read"}, calls) /\ IdFor(n.write_uuid, {"write"}, calls)
  BY DEF NodeUse, NodeIds
<1>2. IdOld(None, prog) /\ \A ops : IdFor(None, ops, calls)
  BY SpecialIds
<1>3. /\ IdOld(m.uuid, prog) /\ IdOld(m.read_uuid, prog) /\ IdOld(m.write_uuid, prog)
      /\ IdFor(m.uuid, {"connect", "close"}, calls)
      /\ IdFor(m.read_uuid, {"read"}, calls) /\ IdFor(m.write_uuid, {"write"}, calls)
  BY <1>1, <1>2
<1>4. \A id, ops : IdFor(id, ops, calls) => IdFor(id, ops, calls')
  BY DEF IdFor, Answered_
<1>5. prog' = prog
  BY DEF Answered_
<1> QED BY <1>3, <1>4, <1>5 DEF NodeUse, NodeIds

LEMMA ArrivalTable ==
  ASSUME Typed, NEW c \in Conns, packetArrived(c)
  PROVE  LET sl == IF Ack(c) THEN Completed(c, Head(toHost[c])).sl ELSE socklist
         IN  ComesFrom(socklist', sl)
<1>1. Syn(c) => socklist' = socklist /\ ~Ack(c)
  BY SynCases, AckCases
<1>2. SynAck(c) => ComesFrom(socklist', socklist) /\ ~Ack(c)
  BY SynAckTable, SynAckCases, AckCases
<1>3. Fin(c) => ComesFrom(socklist', socklist) /\ ~Ack(c)
  BY FinTable, FinCases, AckCases
<1>4. Ack(c) => ComesFrom(socklist', Completed(c, Head(toHost[c])).sl)
  BY AckTable
<1>5. ComesFrom(socklist, socklist)
  BY ComesFromSelf
<1> QED BY <1>1, <1>2, <1>3, <1>4, <1>5 DEF packetArrived

LEMMA ArrivalUses ==
  ASSUME Typed, CallsOK, UsesOK, NEW c \in Conns, packetArrived(c)
  PROVE  UsesOK'
<1> DEFINE m == Head(toHost[c])
           sl == IF Ack(c) THEN Completed(c, m).sl ELSE socklist
<1>1. /\ socklist \in Seq(SockNode) /\ backlog_list \in Seq(HalfNode)
      /\ accept_queue \in Seq(QueueRecs)
  BY DEF Typed, KernelType
<1>2. Answered_ /\ CallsOK' /\ m \in ShortSegments
  BY ArrivalCalls, HalfLists
<1>3. \A i \in DOMAIN socklist : NodeUse(socklist[i], prog, calls)
  BY DEF UsesOK, SockUses
<1>4. \A i \in DOMAIN backlog_list : NodeUse(backlog_list[i], prog, calls)
  BY DEF UsesOK, HalfUses
<1>5. SockUses'
  <2>1. ASSUME Ack(c), NewlyOpen(c)
        PROVE  NodeUse(NewSocket(c, m), prog, calls)
    <3>1. HalfOpen(c) # 0 /\ Entry(c) = backlog_list[HalfOpen(c)] /\ HalfOpen(c) \in DOMAIN backlog_list
      BY <2>1, HalfOpenLookup DEF NewlyOpen, Entry
    <3>2. NodeUse(Entry(c), prog, calls)
      BY <1>4, <3>1
    <3> QED BY <1>2, <3>1, <3>2, NewSocketIds DEF NodeUse, NodeIds
  <2>2. \A k \in DOMAIN sl : NodeUse(sl[k], prog, calls)
    <3>1. CASE Ack(c) /\ NewlyOpen(c)
      <4>1. /\ sl[1] = NewSocket(c, m)
            /\ \A k \in DOMAIN sl : k = 1 \/ (k-1 \in DOMAIN socklist /\ sl[k] = socklist[k-1])
        BY <1>2, <3>1, CompletedTable
      <4> HIDE DEF sl, m
      <4> QED BY <1>3, <2>1, <3>1, <4>1 DEF m
    <3>2. CASE ~(Ack(c) /\ NewlyOpen(c))
      <4>1. sl = socklist
        BY <1>2, <3>2, CompletedTable
      <4> HIDE DEF sl
      <4> QED BY <1>3, <4>1
    <3> QED BY <3>1, <3>2
  <2>3. ComesFrom(socklist', sl)
    BY ArrivalTable
  <2> HIDE DEF sl
  <2>4. ASSUME NEW j \in DOMAIN socklist' PROVE NodeUse(socklist'[j], prog', calls')
    <3>1. PICK k \in DOMAIN sl : Evolves(socklist'[j], sl[k])
      BY <2>3, <2>4 DEF ComesFrom
    <3>2. /\ socklist'[j].uuid = sl[k].uuid
          /\ socklist'[j].read_uuid \in {sl[k].read_uuid, None}
          /\ socklist'[j].write_uuid \in {sl[k].write_uuid, None}
      BY <3>1 DEF Evolves, SameSocket
    <3>3. NodeUse(sl[k], prog, calls)
      BY <2>2
    <3> QED BY <1>2, <3>2, <3>3, EvolvesUse
  <2> QED BY <2>4 DEF SockUses
<1>6. HalfUses'
  <2>1. \A n : NodeUse(n, prog, calls) => NodeUse(n, prog', calls')
    BY <1>2, EvolvesUse
  <2>2. \A i \in DOMAIN backlog_list : NodeUse(backlog_list[i], prog', calls')
    BY <1>4, <2>1
  <2>3. CASE backlog_list' = backlog_list
    BY <2>2, <2>3 DEF HalfUses
  <2>4. CASE Ack(c) /\ HalfOpen(c) # 0 /\ backlog_list' = Take(backlog_list, HalfOpen(c))
    <3>1. HalfOpen(c) \in DOMAIN backlog_list
      BY <2>4, HalfOpenLookup
    <3>2. \A j \in DOMAIN backlog_list' : \E i \in DOMAIN backlog_list :
            backlog_list'[j] = backlog_list[i]
      BY <1>1, <2>4, <3>1, TakeElements
    <3> QED BY <2>2, <3>2 DEF HalfUses
  <2>5. CASE /\ Syn(c) /\ Half(ListenerOf(c[2]), c[1], m.seq + 1) \in HalfNode
             /\ backlog_list' = Append(backlog_list, Half(ListenerOf(c[2]), c[1], m.seq + 1))
    <3> DEFINE l == ListenerOf(c[2])
               n == Half(l, c[1], m.seq + 1)
    <3>1. NodeUse(l, prog, calls)
      <4>1. CASE Listener(socklist, c[2]) = 0
        <5>1. l = NoListener
          BY <4>1 DEF ListenerOf
        <5>2. NoListener.uuid = Zero /\ NoListener.read_uuid = Zero /\ NoListener.write_uuid = Zero
          BY DEF NoListener, FreshNode
        <5>3. IdOld(Zero, prog) /\ \A ops : IdFor(Zero, ops, calls)
          BY SpecialIds
        <5> HIDE DEF l
        <5> QED BY <5>1, <5>2, <5>3 DEF NodeUse, NodeIds
      <4>2. CASE Listener(socklist, c[2]) # 0
        <5>1. Listener(socklist, c[2]) \in DOMAIN socklist
          BY <4>2, ListenerLookup
        <5> QED BY <1>3, <4>2, <5>1 DEF ListenerOf
      <4> QED BY <4>1, <4>2
    <3>2. n.uuid = l.uuid /\ n.read_uuid = l.read_uuid /\ n.write_uuid = l.write_uuid
      <4>1. "uuid" \in DOMAIN l /\ "read_uuid" \in DOMAIN l /\ "write_uuid" \in DOMAIN l
        <5>1. CASE Listener(socklist, c[2]) = 0
          BY <5>1 DEF ListenerOf, NoListener, FreshNode
        <5>2. CASE Listener(socklist, c[2]) # 0
          <6>1. l \in SockNode
            BY <5>2, ListenerLookup, ListElements DEF ListenerOf
          <6> QED BY <6>1 DEF SockNode, NodeOf
        <5> QED BY <5>1, <5>2
      <4> HIDE DEF l
      <4> QED BY <4>1 DEF Half
    <3> HIDE DEF l
    <3>3. NodeUse(n, prog', calls')
      BY <1>2, <3>1, <3>2, EvolvesUse
    <3>4. n \in HalfNode /\ backlog_list' = Append(backlog_list, n)
      BY <2>5 DEF l
    <3> HIDE DEF n
    <3>5. \A j \in DOMAIN backlog_list' :
            backlog_list'[j] = n \/ \E i \in DOMAIN backlog_list : backlog_list'[j] = backlog_list[i]
      BY <1>1, <3>4, AppendElements
    <3> QED BY <2>2, <3>3, <3>5 DEF HalfUses
  <2> QED BY <2>3, <2>4, <2>5, HalfLists
<1>7. QueueUses' /\ QueueOnce'
  <2>1. \A q : QueueUse(q, prog, calls) => QueueUse(q, prog', calls')
    BY <1>2 DEF QueueUse, IdFor, Answered_
  <2>2. CASE accept_queue' = accept_queue
    BY <2>1, <2>2 DEF QueueUses, QueueOnce, UsesOK
  <2>3. CASE accept_queue # <<>> /\ accept_queue' = Tail(accept_queue)
    <3>1. \A j \in DOMAIN accept_queue' :
            j+1 \in DOMAIN accept_queue /\ accept_queue'[j] = accept_queue[j+1] /\ j \in Nat
      BY <1>1, <2>3, TailElements
    <3> QED BY <2>1, <3>1 DEF QueueUses, QueueOnce, UsesOK
  <2> QED BY <2>2, <2>3, HalfLists
<1> QED BY <1>5, <1>6, <1>7 DEF UsesOK

LEMMA NextUses == Typed /\ CallsOK /\ UsesOK /\ [Next]_vars => UsesOK'
<1> SUFFICES ASSUME Typed, CallsOK, UsesOK, [Next]_vars PROVE UsesOK'
  OBVIOUS
<1>1. ASSUME UNCHANGED <<kernel, calls, prog>> PROVE UsesOK'
  BY <1>1 DEF UsesOK, SockUses, HalfUses, QueueUses, QueueOnce, kernel
<1>2. ASSUME NEW c \in Conns, Remote(c) PROVE UNCHANGED <<kernel, calls, prog>>
  BY <1>2 DEF Remote, PeerOpen, PeerRetry, PeerSend, PeerClose, PeerReceive, apps
<1>3. UNCHANGED vars => UNCHANGED <<kernel, calls, prog>>
  BY DEF vars, apps
<1> QED BY <1>1, <1>2, <1>3, SyscallUses, ArrivalUses DEF Next

LEMMA InitUses == Init => UsesOK
BY DEF Init, UsesOK, SockUses, HalfUses, QueueUses, QueueOnce

-----------------------------------------------------------------------------
(* A blocked accept is in the queue, and no connection waits for it.       *)

Queued(queue, id) == \E k \in DOMAIN queue : queue[k].uuid = id
Waits(n, p, port) ==
  n.owner = p /\ ~n.used /\ n.srcport = port /\ n.status # "LISTENING"
NoneWaits(sl, p, port) == \A i \in DOMAIN sl : ~Waits(sl[i], p, port)
AcceptsQueued ==
  \A p \in Pids : Pending(p, "accept") =>
    Queued(accept_queue, calls[p].id) /\ NoneWaits(socklist, p, calls[p].port)

\* An orderly accept looks for the connections of the port it asks for.
LEMMA OrderlyAccept ==
  ASSUME Typed, Orderly, NEW p \in Pids, Accept(p), Found(p) = 0
  PROVE  NoneWaits(socklist, p, Asked(p))
<1>1. Enter(p, "accept") /\ calls[p] = Idle /\ prog[p] # <<>> /\ Next_(p).op = "accept"
      /\ On(p) # -1
  BY AcceptCases DEF Enter, Runs
<1>2. \A j \in DOMAIN socklist :
        ~Acceptable(socklist[j], socklist[ListenerNamed(On(p))].srcport, p)
  BY AcceptCases
<1>3. Node(p) # 0 => ListenerNamed(On(p)) = Node(p)
  BY <1>1 DEF Orderly
<1>4. Asked(p) \in {socklist[ListenerNamed(On(p))].srcport, 0}
  BY <1>3 DEF Asked
<1> QED BY <1>2, <1>4 DEF NoneWaits, Waits, Acceptable

\* The calls of the other processes leave it so.
LEMMA OthersWait ==
  ASSUME Typed, NEW p \in Pids, NEW q, p # q, NEW port,
         Others(socklist', p) = Others(socklist, p), NoneWaits(socklist, q, port)
  PROVE  NoneWaits(socklist', q, port)
<1> SUFFICES ASSUME NEW i \in DOMAIN socklist', Waits(socklist'[i], q, port)
             PROVE  FALSE
  BY DEF NoneWaits
<1>1. socklist'[i].owner # p
  BY DEF Waits
<1>2. socklist'[i] \in Others(socklist', p)
  BY <1>1 DEF Others
<1>3. \E j \in DOMAIN socklist : socklist[j] = socklist'[i]
  BY <1>2 DEF Others
<1> QED BY <1>3 DEF NoneWaits

LEMMA SyscallAccepts ==
  ASSUME Typed, CallsOK, Orderly, AcceptsQueued, NEW p \in Pids, Syscall(p)
  PROVE  AcceptsQueued'
<1>1. SyscallStep(p) /\ Others(socklist', p) = Others(socklist, p) /\ Runs(p)
  BY SyscallSteps, SyscallLists
<1>2. accept_queue \in Seq(QueueRecs)
  BY DEF Typed, KernelType
<1>3. SUFFICES ASSUME NEW q \in Pids, Pending(q, "accept")'
               PROVE  Queued(accept_queue', calls'[q].id) /\ NoneWaits(socklist', q, calls'[q].port)
  BY DEF AcceptsQueued, Pending
<1>4. CASE q # p
  <2>1. calls'[q] = calls[q]
    BY <1>1, <1>4 DEF SyscallStep
  <2>2. Queued(accept_queue, calls[q].id) /\ NoneWaits(socklist, q, calls[q].port)
    BY <1>3, <2>1 DEF AcceptsQueued, Pending
  <2>3. NoneWaits(socklist', q, calls[q].port)
    BY <1>1, <1>4, <2>2, OthersWait
  <2>4. \A k \in DOMAIN accept_queue : k \in DOMAIN accept_queue' /\ accept_queue'[k] = accept_queue[k]
    <3>1. CASE accept_queue' = accept_queue
      BY <3>1
    <3>2. CASE accept_queue' = Append(accept_queue, [uuid |-> Id(p), pid |-> p, sockfd |-> On(p)])
      BY <1>2, <3>2
    <3> QED BY <3>1, <3>2, SyscallLists
  <2> QED BY <2>1, <2>2, <2>3, <2>4 DEF Queued
<1>5. CASE q = p
  <2>1. Accept(p)
    BY <1>3, <1>5, SocketStep, BindStep, ListenStep, ConnectStep, ReadStep, WriteStep,
       CloseStep, SkipStep DEF Syscall, Pending
  <2>2. Found(p) = 0 /\ calls'[p].id = Id(p) /\ calls'[p].port = Asked(p)
    BY <1>3, <1>5, <2>1, AcceptStep DEF Pending
  <2>3. /\ socklist' = socklist
        /\ accept_queue' = Append(accept_queue, [uuid |-> Id(p), pid |-> p, sockfd |-> On(p)])
    BY <2>1, <2>2, AcceptCases
  <2>4. Queued(accept_queue', Id(p))
    <3>1. /\ Len(accept_queue)+1 \in DOMAIN accept_queue'
          /\ accept_queue'[Len(accept_queue)+1] = [uuid |-> Id(p), pid |-> p, sockfd |-> On(p)]
      BY <1>2, <2>3
    <3>2. accept_queue'[Len(accept_queue)+1].uuid = Id(p)
      BY <3>1
    <3> QED BY <3>1, <3>2 DEF Queued
  <2>5. NoneWaits(socklist', p, Asked(p))
    BY <2>1, <2>2, <2>3, OrderlyAccept
  <2> QED BY <1>5, <2>2, <2>4, <2>5
<1> QED BY <1>4, <1>5

\* An arrival answers the call it takes from the queue.
LEMMA ArrivalQueue ==
  ASSUME Typed, CallsOK, NEW c \in Conns, packetArrived(c), NEW p \in Pids,
         Pending(p, "accept")', Queued(accept_queue, calls[p].id)
  PROVE  Queued(accept_queue', calls'[p].id)
<1>1. Pending(p, "accept") /\ calls'[p] = calls[p]
  BY ArrivalCalls DEF Answered_, Pending
<1>2. CASE accept_queue' = accept_queue
  BY <1>1, <1>2
<1>3. CASE /\ Ack(c) /\ HalfOpen(c) # 0 /\ accept_queue # <<>>
           /\ accept_queue' = Tail(accept_queue)
  <2> DEFINE m == Head(toHost[c])
             A == Completed(c, m).answers \cup AckResult(c, m).answers
  <2>1. A \in SUBSET AnswerRecs /\ Reply(A, calls) /\ UNCHANGED prog /\ m \in ShortSegments
    BY <1>3, AckAnswers
  <2>2. Answer(Head(accept_queue).uuid, NewFd(c)) \in A
    <3>1. \/ Completed(c, m).answers = {Answer(Head(accept_queue).uuid, NewFd(c))}
          \/ /\ NewFd(c) = -1
             /\ Completed(c, m).answers = {Answer(Head(accept_queue).uuid, -1)}
      BY <1>3, <2>1, CompletedCases
    <3> QED BY <3>1
  <2> HIDE DEF A
  <2>3. \A a \in A : a.id # calls[p].id
    BY <2>1, StillPending
  <2>4. Head(accept_queue).uuid # calls[p].id
    BY <2>2, <2>3 DEF Answer
  <2>5. accept_queue \in Seq(QueueRecs)
    BY DEF Typed, KernelType
  <2>6. PICK k \in DOMAIN accept_queue : accept_queue[k].uuid = calls[p].id
    BY DEF Queued
  <2>7. k # 1 /\ k-1 \in DOMAIN accept_queue' /\ accept_queue'[k-1] = accept_queue[k]
    BY <1>3, <2>4, <2>5, <2>6, TailElements
  <2> QED BY <1>1, <2>6, <2>7 DEF Queued
<1> QED BY <1>2, <1>3, HalfLists

\* The socket an ACK opens while calls are queued has been returned.
LEMMA CompletedWaits ==
  ASSUME Typed, NEW c \in Conns, NEW m \in ShortSegments, NEW p \in Pids, NEW port,
         accept_queue # <<>>, NoneWaits(socklist, p, port)
  PROVE  NoneWaits(Completed(c, m).sl, p, port)
<1> DEFINE sl == Completed(c, m).sl
<1>1. CASE ~NewlyOpen(c)
  <2>1. sl = socklist
    BY <1>1, CompletedTable
  <2> QED BY <2>1
<1>2. CASE NewlyOpen(c)
  <2>1. /\ HalfOpen(c) # 0 /\ sl[1] = NewSocket(c, m)
        /\ \A k \in DOMAIN sl : k = 1 \/ (k-1 \in DOMAIN socklist /\ sl[k] = socklist[k-1])
    BY <1>2, CompletedTable
  <2>2. NewSocket(c, m).used
    BY <2>1, NewSocketType
  <2> HIDE DEF sl
  <2>3. NoneWaits(sl, p, port)
    BY <2>1, <2>2 DEF NoneWaits, Waits
  <2> QED BY <2>3 DEF sl
<1> QED BY <1>1, <1>2

LEMMA ArrivalAccepts ==
  ASSUME Typed, CallsOK, AcceptsQueued, NEW c \in Conns, packetArrived(c)
  PROVE  AcceptsQueued'
<1> DEFINE m == Head(toHost[c])
           sl == IF Ack(c) THEN Completed(c, m).sl ELSE socklist
<1>1. SUFFICES ASSUME NEW p \in Pids, Pending(p, "accept")'
               PROVE  Queued(accept_queue', calls'[p].id) /\ NoneWaits(socklist', p, calls'[p].port)
  BY DEF AcceptsQueued, Pending
<1>2. Pending(p, "accept") /\ calls'[p] = calls[p]
  BY <1>1, ArrivalCalls DEF Answered_, Pending
<1>3. Queued(accept_queue, calls[p].id) /\ NoneWaits(socklist, p, calls[p].port)
  BY <1>2 DEF AcceptsQueued
<1>4. Queued(accept_queue', calls'[p].id)
  BY <1>1, <1>3, ArrivalQueue
<1>5. accept_queue # <<>> /\ m \in ShortSegments
  BY <1>3, HalfLists DEF Queued
<1>6. NoneWaits(sl, p, calls[p].port)
  BY <1>3, <1>5, CompletedWaits
<1>7. ComesFrom(socklist', sl)
  BY ArrivalTable
<1> HIDE DEF sl
<1>8. ASSUME NEW j \in DOMAIN socklist', Waits(socklist'[j], p, calls[p].port) PROVE FALSE
  <2>1. PICK k \in DOMAIN sl : Evolves(socklist'[j], sl[k])
    BY <1>7 DEF ComesFrom
  <2>2. Waits(sl[k], p, calls[p].port)
    BY <1>8, <2>1 DEF Waits, Evolves, SameSocket
  <2> QED BY <1>6, <2>2 DEF NoneWaits
<1> QED BY <1>2, <1>4, <1>8 DEF NoneWaits

LEMMA NextAccepts ==
  Typed /\ CallsOK /\ Orderly /\ AcceptsQueued /\ [Next]_vars => AcceptsQueued'
<1> SUFFICES ASSUME Typed, CallsOK, Orderly, AcceptsQueued, [Next]_vars PROVE AcceptsQueued'
  OBVIOUS
<1>1. ASSUME UNCHANGED <<kernel, calls, prog>> PROVE AcceptsQueued'
  BY <1>1 DEF AcceptsQueued, Pending, Queued, NoneWaits, kernel
<1>2. ASSUME NEW c \in Conns, Remote(c) PROVE UNCHANGED <<kernel, calls, prog>>
  BY <1>2 DEF Remote, PeerOpen, PeerRetry, PeerSend, PeerClose, PeerReceive, apps
<1>3. UNCHANGED vars => UNCHANGED <<kernel, calls, prog>>
  BY DEF vars, apps
<1> QED BY <1>1, <1>2, <1>3, SyscallAccepts, ArrivalAccepts DEF Next

LEMMA AcceptsMissNone ==
  ASSUME Typed, UsesOK, AcceptsQueued
  PROVE  NoAcceptMissed
<1> SUFFICES ASSUME NEW p \in Pids, Pending(p, "accept")
             PROVE  /\ Cardinality({i \in DOMAIN accept_queue :
                                      accept_queue[i].uuid = calls[p].id}) = 1
                    /\ NoneWaits(socklist, p, calls[p].port)
  BY DEF NoAcceptMissed, NoneWaits, Waits
<1>1. Queued(accept_queue, calls[p].id) /\ NoneWaits(socklist, p, calls[p].port)
  BY DEF AcceptsQueued
<1>2. PICK k \in DOMAIN accept_queue : accept_queue[k].uuid = calls[p].id
  BY <1>1 DEF Queued
<1>3. {i \in DOMAIN accept_queue : accept_queue[i].uuid = calls[p].id} = {k}
  BY <1>2 DEF UsesOK, QueueOnce
<1>4. Cardinality({k}) = 1
  BY FS_Singleton
<1> QED BY <1>1, <1>3, <1>4

LEMMA NextCalls == Typed /\ CallsOK /\ [Next]_vars => CallsOK'
<1> SUFFICES ASSUME Typed, CallsOK, [Next]_vars PROVE CallsOK'
  OBVIOUS
<1>1. ASSUME UNCHANGED <<calls, prog>> PROVE CallsOK'
  BY <1>1 DEF CallsOK
<1>2. ASSUME NEW c \in Conns, Remote(c) PROVE UNCHANGED <<calls, prog>>
  BY <1>2 DEF Remote, PeerOpen, PeerRetry, PeerSend, PeerClose, PeerReceive, apps
<1>3. UNCHANGED vars => UNCHANGED <<calls, prog>>
  BY DEF vars, apps
<1>4. \A p \in Pids : Syscall(p) => CallsOK'
  BY SyscallSteps DEF SyscallStep
<1> QED BY <1>1, <1>2, <1>3, <1>4, ArrivalCalls DEF Next

LEMMA InitAccepts == Init => AcceptsQueued
BY DEF Init, AcceptsQueued, Pending

\* A process that keeps to the contract of the sockets and is blocked in accept
\* is in the queue once, and no connection it could be given waits in the table:
\* the call and the connection find each other whichever comes first.
THEOREM TcpNoAcceptMissed == Spec /\ []Orderly => []NoAcceptMissed
<1> DEFINE Inv == Typed /\ CallsOK /\ UsesOK /\ AcceptsQueued
<1>1. Init => Inv
  BY InitTyped, InitCalls, InitUses, InitAccepts
<1>2. Inv /\ Orderly /\ [Next]_vars => Inv'
  BY NextTyped, NextCalls, NextUses, NextAccepts
<1>3. Inv => NoAcceptMissed
  BY AcceptsMissNone
<1> QED BY <1>1, <1>2, <1>3, PTL DEF Spec

-----------------------------------------------------------------------------
(* Descriptors: a process has one socket for each, none above its last.    *)

InFds(sl, fd) == \A i \in DOMAIN sl : sl[i].sockfd <= fd[sl[i].owner]
OneNode(sl) == \A i, j \in DOMAIN sl :
  sl[i].owner = sl[j].owner /\ sl[i].sockfd = sl[j].sockfd /\ sl[i].sockfd # -1 => i = j
ListensNamed(sl) == \A i \in DOMAIN sl : sl[i].status = "LISTENING" => sl[i].sockfd # -1
TableFds(sl, fd) == InFds(sl, fd) /\ OneNode(sl) /\ ListensNamed(sl)
HalfFds(bl, fd) == \A i \in DOMAIN bl :
  bl[i].owner \in Pids => bl[i].sockfd # -1 /\ bl[i].sockfd <= fd[bl[i].owner]
FdsOK == TableFds(socklist, fds) /\ HalfFds(backlog_list, fds)

LEMMA FdFields ==
  ASSUME Typed
  PROVE  /\ \A p \in Pids : fds[p] \in Nat /\ fds[p] \in Int
         /\ \A i \in DOMAIN socklist : /\ socklist[i].owner \in Pids
                                       /\ socklist[i].sockfd \in Int
                                       /\ socklist[i].backlog \in Nat
         /\ \A i \in DOMAIN backlog_list : backlog_list[i].sockfd \in Int
<1>1. fds \in [Pids -> 0..MaxFd] /\ backlog_list \in Seq(HalfNode)
  BY DEF Typed, KernelType
<1>2. \A i \in DOMAIN backlog_list : backlog_list[i] \in NodeOf(Pids \cup {-1}, Descriptors \cup {-2})
  <2>1. \A i \in DOMAIN backlog_list : backlog_list[i] \in HalfNode
    BY <1>1
  <2> QED BY <2>1 DEF HalfNode
<1>3. Descriptors \cup {-2} \subseteq Int
  BY MaxFdAssumption DEF Descriptors
<1>4. \A i \in DOMAIN backlog_list : backlog_list[i].sockfd \in Int
  BY <1>2, <1>3, NodeFields
<1>5. \A i \in DOMAIN socklist : /\ socklist[i].owner \in Pids
                                 /\ socklist[i].sockfd \in Int
                                 /\ socklist[i].backlog \in Nat
  BY <1>3, NodeLookup, ListElements, NodeFields DEF SockNode
<1>6. \A p \in Pids : fds[p] \in Nat /\ fds[p] \in Int
  BY <1>1, MaxFdAssumption
<1> QED BY <1>4, <1>5, <1>6

\* A table of which every node comes from one of sl.
LEMMA TableFdsComesFrom ==
  ASSUME NEW table, NEW sl, NEW fd, TableFds(sl, fd), ComesFrom(table, sl)
  PROVE  TableFds(table, fd)
<1>1. PICK f \in [DOMAIN table -> DOMAIN sl] :
        /\ \A j \in DOMAIN table : Evolves(table[j], sl[f[j]])
        /\ \A j, k \in DOMAIN table : f[j] = f[k] => j = k
  BY DEF ComesFrom
<1>2. \A j \in DOMAIN table :
        /\ f[j] \in DOMAIN sl
        /\ table[j].owner = sl[f[j]].owner /\ table[j].sockfd = sl[f[j]].sockfd
        /\ table[j].status = "LISTENING" => sl[f[j]].status = "LISTENING"
  BY <1>1 DEF Evolves, SameSocket
<1>3. InFds(table, fd)
  BY <1>2 DEF TableFds, InFds
<1>4. OneNode(table)
  BY <1>1, <1>2 DEF TableFds, OneNode
<1>5. ListensNamed(table)
  BY <1>2 DEF TableFds, ListensNamed
<1> QED BY <1>3, <1>4, <1>5 DEF TableFds

\* A descriptor more.
LEMMA GrownFds ==
  ASSUME Typed, NEW p \in Pids, NEW fd, fd \in {fds, Grow(p, fds)}
  PROVE  /\ \A q \in Pids : fds[q] <= fd[q]
         /\ TableFds(socklist, fds) => TableFds(socklist, fd)
         /\ HalfFds(backlog_list, fds) => HalfFds(backlog_list, fd)
<1>1. fds \in [Pids -> 0..MaxFd]
  BY DEF Typed, KernelType
<1>2. \A q \in Pids : fds[q] <= fd[q] /\ fd[q] \in Int /\ fds[q] \in Int
  BY <1>1, CreateType, MaxFdAssumption
<1>3. TableFds(socklist, fds) => TableFds(socklist, fd)
  <2>1. InFds(socklist, fds) => InFds(socklist, fd)
    BY <1>2, FdFields DEF InFds
  <2> QED BY <2>1 DEF TableFds
<1>4. HalfFds(backlog_list, fds) => HalfFds(backlog_list, fd)
  BY <1>2, FdFields DEF HalfFds
<1> QED BY <1>2, <1>3, <1>4

\* A node more, with the next descriptor of its owner or none.
LEMMA TableFdsCons ==
  ASSUME Typed, TableFds(socklist, fds), NEW p \in Pids, NEW n \in SockNode, n.owner = p,
         n.sockfd = Create(p, fds), n.status = "LISTENING" => n.sockfd # -1
  PROVE  TableFds(<<n>> \o socklist, Grow(p, fds))
<1> DEFINE sl == <<n>> \o socklist
           fd == Grow(p, fds)
<1>1. socklist \in Seq(SockNode) /\ fds \in [Pids -> 0..MaxFd]
  BY DEF Typed, KernelType
<1>2. TableFds(socklist, fd)
  BY GrownFds
<1>3. /\ n.sockfd # -1 => n.sockfd = fds[p] + 1 /\ n.sockfd = fd[p]
      /\ fd[p] \in Nat /\ fds[p] \in Nat
  BY <1>1, CreateType, MaxFdAssumption
<1>4. /\ DOMAIN sl = 1..Len(socklist)+1 /\ sl[1] = n
      /\ \A k \in 1..Len(socklist) : sl[k+1] = socklist[k]
      /\ DOMAIN socklist = 1..Len(socklist) /\ Len(socklist) \in Nat
  BY <1>1, ConsSeq
<1> HIDE DEF sl, fd
<1>5. \A k \in DOMAIN sl :
        \/ k = 1 /\ sl[k] = n
        \/ k-1 \in DOMAIN socklist /\ sl[k] = socklist[k-1] /\ k # 1 /\ k \in Int
  BY <1>4
<1>6. InFds(sl, fd)
  BY <1>2, <1>3, <1>5 DEF TableFds, InFds
<1>7. \A i \in DOMAIN socklist : socklist[i].owner = p /\ n.sockfd # -1 => socklist[i].sockfd # n.sockfd
  BY <1>3, FdFields DEF TableFds, InFds
<1>8. OneNode(sl)
  <2> SUFFICES ASSUME NEW i \in DOMAIN sl, NEW j \in DOMAIN sl, sl[i].owner = sl[j].owner,
                      sl[i].sockfd = sl[j].sockfd, sl[i].sockfd # -1
               PROVE  i = j
    BY DEF OneNode
  <2>1. CASE i # 1 /\ j # 1
    <3>1. i-1 = j-1
      BY <1>5, <2>1 DEF TableFds, OneNode
    <3> QED BY <1>5, <2>1, <3>1
  <2>2. CASE i = 1 \/ j = 1
    BY <1>5, <1>7, <2>2
  <2> QED BY <2>1, <2>2
<1>9. ListensNamed(sl)
  BY <1>2, <1>5 DEF TableFds, ListensNamed
<1> QED BY <1>6, <1>8, <1>9 DEF TableFds, sl, fd

\* A call on a descriptor is on one the process was given.
LEMMA CallOn ==
  ASSUME NEW p, Syscall(p)
  PROVE  Next_(p).op = "socket" \/ On(p) # -1 \/ socklist' = socklist
BY DEF Syscall, Socket, Bind, Listen, Connect, Accept, Read, Write, Close, Skip, Enter, kernel

LEMMA SyscallFds ==
  ASSUME Typed, FdsOK, NEW p \in Pids, Syscall(p)
  PROVE  FdsOK'
<1>1. /\ backlog_list' = backlog_list
      /\ fds' = IF Socket(p) THEN Grow(p, fds) ELSE fds
      /\ Next_(p).op = "socket" <=> Socket(p)
  BY SyscallLists
<1>2. /\ TableFds(socklist, fds) /\ HalfFds(backlog_list, fds)
      /\ TableFds(socklist, fds') /\ HalfFds(backlog_list, fds')
  BY <1>1, GrownFds DEF FdsOK
<1>3. CASE socklist' = socklist
  BY <1>1, <1>2, <1>3 DEF FdsOK
<1>4. CASE ChangesOne(p) /\ socklist' # socklist
  <2>1. PICK i \in DOMAIN socklist, m \in SockNode :
          Changed(p, m, socklist[i]) /\ socklist' = [socklist EXCEPT ![i] = m]
    BY <1>4 DEF ChangesOne
  <2>2. DOMAIN socklist' = DOMAIN socklist
        /\ \A j \in DOMAIN socklist : socklist'[j] = IF j = i THEN m ELSE socklist[j]
    BY <2>1
  <2>3. m.owner = socklist[i].owner /\ m.sockfd = socklist[i].sockfd
    BY <2>1 DEF Changed
  <2>4. m.status = "LISTENING" => m.sockfd # -1
    <3>1. socklist[i].status = "LISTENING" => socklist[i].sockfd # -1
      BY <1>2 DEF TableFds, ListensNamed
    <3>2. Next_(p).op = "listen" => On(p) # -1
      BY <1>4, CallOn
    <3>3. Node(p) # 0 => socklist[Node(p)].sockfd = On(p)
      BY NodeLookup
    <3> QED BY <2>1, <2>3, <3>1, <3>2, <3>3 DEF Changed
  <2>5. InFds(socklist', fds') /\ ListensNamed(socklist')
    BY <1>2, <2>2, <2>3, <2>4 DEF TableFds, InFds, ListensNamed
  <2>6. OneNode(socklist')
    BY <1>2, <2>2, <2>3 DEF TableFds, OneNode
  <2> QED BY <1>1, <1>2, <2>5, <2>6 DEF FdsOK, TableFds
<1>5. CASE CreatesOne(p)
  <2>1. PICK st \in FreshStatus :
          /\ FreshNode(p, Create(p, fds), st) \in SockNode
          /\ socklist' = <<FreshNode(p, Create(p, fds), st)>> \o socklist
    BY <1>5 DEF CreatesOne
  <2> DEFINE n == FreshNode(p, Create(p, fds), st)
  <2>2. n.owner = p /\ n.sockfd = Create(p, fds)
    BY DEF FreshNode
  <2>3. n \in SockNode /\ socklist' = <<n>> \o socklist /\ n.sockfd # -1
    BY <1>5, <2>1, <2>2 DEF CreatesOne
  <2> HIDE DEF n
  <2>4. TableFds(socklist', Grow(p, fds))
    BY <1>2, <2>2, <2>3, TableFdsCons
  <2>5. fds' = Grow(p, fds)
    BY <1>1, <1>5 DEF CreatesOne
  <2> QED BY <1>1, <1>2, <2>4, <2>5 DEF FdsOK
<1> QED BY <1>3, <1>4, <1>5, SyscallTable

\* The table an ACK has before it is taken for a connection.
LEMMA CompletedFds ==
  ASSUME Typed, FdsOK, NEW c \in Conns, Ack(c)
  PROVE  TableFds(Completed(c, Head(toHost[c])).sl, fds')
<1> DEFINE m == Head(toHost[c])
           sl == Completed(c, m).sl
<1>1. m \in ShortSegments /\ fds' = Completed(c, m).fds
  BY AckCases, ArrivingFacts
<1>2. TableFds(socklist, fds)
  BY DEF FdsOK
<1>3. CASE ~NewlyOpen(c)
  <2>1. sl = socklist
    BY <1>1, <1>3, CompletedTable
  <2>2. CASE HalfOpen(c) = 0
    <3>1. fds' = fds
      BY <1>1, <2>2, CompletedCases
    <3> QED BY <1>2, <2>1, <3>1
  <2>3. CASE HalfOpen(c) # 0
    <3>1. fds' = Grow(NewOwner(c), fds) /\ NewOwner(c) \in Pids
      BY <1>1, <2>3, CompletedCases, NewSocketType
    <3> QED BY <1>2, <2>1, <3>1, GrownFds
  <2> QED BY <2>2, <2>3
<1>4. CASE NewlyOpen(c)
  <2>1. HalfOpen(c) # 0 /\ sl = <<NewSocket(c, m)>> \o socklist
    BY <1>1, <1>4, CompletedTable
  <2>2. fds' = Grow(NewOwner(c), fds)
    BY <1>1, <2>1, CompletedCases
  <2>3. /\ NewOwner(c) \in Pids /\ NewSocket(c, m) \in SockNode
        /\ NewSocket(c, m).owner = NewOwner(c) /\ NewSocket(c, m).sockfd = NewFd(c)
        /\ NewSocket(c, m).status = "ESTAB"
    BY <1>1, <2>1, NewSocketType
  <2>4. NewSocket(c, m).status # "LISTENING" /\ NewSocket(c, m).sockfd = Create(NewOwner(c), fds)
    BY <2>3 DEF NewFd
  <2> HIDE DEF sl
  <2> QED BY <1>2, <2>1, <2>2, <2>3, <2>4, TableFdsCons DEF sl
<1> QED BY <1>3, <1>4

\* The half-open connection a SYN makes is of the listener.
LEMMA HalfOfListener ==
  ASSUME Typed, NEW r, NEW ack, NEW port
  PROVE  /\ Half(ListenerOf(port), r, ack).owner = ListenerOf(port).owner
         /\ Half(ListenerOf(port), r, ack).sockfd = ListenerOf(port).sockfd
<1> DEFINE l == ListenerOf(port)
<1>1. "owner" \in DOMAIN l /\ "sockfd" \in DOMAIN l
  <2>1. CASE Listener(socklist, port) = 0
    BY <2>1 DEF ListenerOf, NoListener, FreshNode
  <2>2. CASE Listener(socklist, port) # 0
    <3>1. l \in SockNode
      BY <2>2, ListenerLookup, ListElements DEF ListenerOf
    <3> QED BY <3>1 DEF SockNode, NodeOf
  <2> QED BY <2>1, <2>2
<1> HIDE DEF l
<1>2. Half(l, r, ack).owner = l.owner /\ Half(l, r, ack).sockfd = l.sockfd
  BY <1>1 DEF Half
<1> QED BY <1>2 DEF l

LEMMA ArrivalFds ==
  ASSUME Typed, FdsOK, NEW c \in Conns, packetArrived(c)
  PROVE  FdsOK'
<1> DEFINE m == Head(toHost[c])
           sl == IF Ack(c) THEN Completed(c, m).sl ELSE socklist
<1>1. TableFds(socklist, fds) /\ HalfFds(backlog_list, fds)
  BY DEF FdsOK
<1>2. TableFds(sl, fds')
  <2>1. CASE Ack(c)
    BY <2>1, CompletedFds
  <2>2. CASE ~Ack(c)
    <3>1. fds' = fds
      BY <2>2, HalfLists
    <3> QED BY <1>1, <2>2, <3>1
  <2> QED BY <2>1, <2>2
<1>3. ComesFrom(socklist', sl)
  BY ArrivalTable
<1> HIDE DEF sl
<1>4. TableFds(socklist', fds')
  BY <1>2, <1>3, TableFdsComesFrom
<1>5. HalfFds(backlog_list, fds')
  <2>1. CASE fds' = fds
    BY <1>1, <2>1
  <2>2. CASE HalfOpen(c) # 0 /\ fds' = Grow(NewOwner(c), fds)
    <3>1. NewOwner(c) \in Pids
      BY <2>2, HalfLists, NewSocketType
    <3> QED BY <1>1, <2>2, <3>1, GrownFds
  <2> QED BY <2>1, <2>2, HalfLists
<1>6. backlog_list \in Seq(HalfNode)
  BY DEF Typed, KernelType
<1>7. HalfFds(backlog_list', fds')
  <2>1. CASE backlog_list' = backlog_list
    BY <1>5, <2>1
  <2>2. CASE HalfOpen(c) # 0 /\ backlog_list' = Take(backlog_list, HalfOpen(c))
    <3>1. HalfOpen(c) \in DOMAIN backlog_list
      BY <2>2, HalfOpenLookup
    <3>2. \A j \in DOMAIN backlog_list' : \E i \in DOMAIN backlog_list :
            backlog_list'[j] = backlog_list[i]
      BY <1>6, <2>2, <3>1, TakeElements
    <3> QED BY <1>5, <3>2 DEF HalfFds
  <2>3. CASE /\ Syn(c)
             /\ Half(ListenerOf(c[2]), c[1], m.seq + 1) \in HalfNode
             /\ backlog_list' = Append(backlog_list, Half(ListenerOf(c[2]), c[1], m.seq + 1))
    <3> DEFINE l == ListenerOf(c[2])
               n == Half(l, c[1], m.seq + 1)
    <3>1. n.owner = l.owner /\ n.sockfd = l.sockfd
      BY HalfOfListener
    <3>2. l.owner \in Pids => l.sockfd # -1 /\ l.sockfd <= fds'[l.owner]
      <4>1. CASE Listener(socklist, c[2]) = 0
        <5>1. l.owner = -1
          BY <4>1 DEF ListenerOf, NoListener, FreshNode
        <5> QED BY <5>1, PidsAssumption
      <4>2. CASE Listener(socklist, c[2]) # 0
        <5>1. /\ Listener(socklist, c[2]) \in DOMAIN socklist
              /\ l = socklist[Listener(socklist, c[2])] /\ l.status = "LISTENING"
          BY <4>2, ListenerLookup DEF ListenerOf
        <5>2. fds' = fds
          BY <2>3, SynCases
        <5> HIDE DEF l
        <5> QED BY <1>1, <5>1, <5>2 DEF TableFds, InFds, ListensNamed
      <4> QED BY <4>1, <4>2
    <3> HIDE DEF l
    <3>3. n \in HalfNode /\ backlog_list' = Append(backlog_list, n)
      BY <2>3 DEF l
    <3> HIDE DEF n
    <3>4. \A j \in DOMAIN backlog_list' :
            backlog_list'[j] = n \/ \E i \in DOMAIN backlog_list : backlog_list'[j] = backlog_list[i]
      BY <1>6, <3>3, AppendElements
    <3> QED BY <1>5, <3>1, <3>2, <3>4 DEF HalfFds
  <2> QED BY <2>1, <2>2, <2>3, HalfLists
<1> QED BY <1>4, <1>7 DEF FdsOK

LEMMA NextFds == Typed /\ FdsOK /\ [Next]_vars => FdsOK'
<1> SUFFICES ASSUME Typed, FdsOK, [Next]_vars PROVE FdsOK'
  OBVIOUS
<1>1. ASSUME UNCHANGED kernel PROVE FdsOK'
  BY <1>1 DEF FdsOK, kernel
<1>2. ASSUME NEW c \in Conns, Remote(c) PROVE UNCHANGED kernel
  BY <1>2 DEF Remote, PeerOpen, PeerRetry, PeerSend, PeerClose, PeerReceive
<1>3. UNCHANGED vars => UNCHANGED kernel
  BY DEF vars
<1> QED BY <1>1, <1>2, <1>3, SyscallFds, ArrivalFds DEF Next

LEMMA InitFds == Init => FdsOK
BY DEF Init, FdsOK, TableFds, InFds, OneNode, ListensNamed, HalfFds

-----------------------------------------------------------------------------
(* The half-open connections of a socket, counted.                         *)

HalvesOf(bl, fd, p) == {i \in DOMAIN bl : bl[i].sockfd = fd /\ bl[i].owner = p}

LEMMA CountNodes ==
  ASSUME NEW T, NEW bl \in Seq(T), NEW fd, NEW p
  PROVE  /\ IsFiniteSet(HalvesOf(bl, fd, p)) /\ num_of_nodes(bl, fd, p) \in Nat
         /\ num_of_nodes(bl, fd, p) = Cardinality(HalvesOf(bl, fd, p))
<1>1. DOMAIN bl = 1..Len(bl) /\ Len(bl) \in Nat
  OBVIOUS
<1>2. IsFiniteSet(1..Len(bl))
  BY <1>1, FS_Interval
<1>3. HalvesOf(bl, fd, p) \in SUBSET (1..Len(bl))
  BY <1>1 DEF HalvesOf
<1>4. IsFiniteSet(HalvesOf(bl, fd, p))
  BY <1>2, <1>3, FS_Subset
<1>5. num_of_nodes(bl, fd, p) = Cardinality(HalvesOf(bl, fd, p))
  BY DEF num_of_nodes, HalvesOf
<1> QED BY <1>4, <1>5, FS_CardinalityType

LEMMA CountNone ==
  ASSUME NEW bl, NEW fd, NEW p, \A i \in DOMAIN bl : ~(bl[i].sockfd = fd /\ bl[i].owner = p)
  PROVE  num_of_nodes(bl, fd, p) = 0
<1>1. {i \in DOMAIN bl : bl[i].sockfd = fd /\ bl[i].owner = p} = {}
  OBVIOUS
<1> QED BY <1>1, FS_EmptySet DEF num_of_nodes

LEMMA CountAppend ==
  ASSUME NEW T, NEW bl \in Seq(T), NEW n \in T, NEW fd, NEW p
  PROVE  num_of_nodes(Append(bl, n), fd, p) =
           num_of_nodes(bl, fd, p) + (IF n.sockfd = fd /\ n.owner = p THEN 1 ELSE 0)
<1> DEFINE S == HalvesOf(bl, fd, p)
           b == Append(bl, n)
           k == Len(bl) + 1
<1>1. /\ DOMAIN bl = 1..Len(bl) /\ Len(bl) \in Nat /\ DOMAIN b = 1..k
      /\ \A i \in DOMAIN bl : b[i] = bl[i]
      /\ b[k] = n /\ b \in Seq(T)
  OBVIOUS
<1>2. k \notin DOMAIN bl /\ DOMAIN b = DOMAIN bl \cup {k}
  BY <1>1
<1>3. /\ IsFiniteSet(S) /\ num_of_nodes(bl, fd, p) = Cardinality(S)
      /\ Cardinality(S) \in Nat
  BY CountNodes
<1>4. num_of_nodes(b, fd, p) = Cardinality(HalvesOf(b, fd, p))
  BY <1>1, CountNodes
<1> HIDE DEF b, k
<1>5. HalvesOf(b, fd, p) = IF n.sockfd = fd /\ n.owner = p THEN S \cup {k} ELSE S
  BY <1>1, <1>2 DEF HalvesOf
<1>6. k \notin S
  BY <1>2 DEF HalvesOf
<1> HIDE DEF S
<1>7. Cardinality(S \cup {k}) = Cardinality(S) + 1
  BY <1>3, <1>6, FS_AddElement
<1>8. num_of_nodes(b, fd, p) =
        num_of_nodes(bl, fd, p) + (IF n.sockfd = fd /\ n.owner = p THEN 1 ELSE 0)
  BY <1>3, <1>4, <1>5, <1>7
<1> QED BY <1>8 DEF b

LEMMA CountTake ==
  ASSUME NEW T, NEW bl \in Seq(T), NEW i \in DOMAIN bl, NEW fd, NEW p
  PROVE  num_of_nodes(Take(bl, i), fd, p) <= num_of_nodes(bl, fd, p)
<1> DEFINE b == Take(bl, i)
           S == HalvesOf(bl, fd, p)
           R == HalvesOf(b, fd, p)
           f == [k \in R |-> IF k < i THEN k ELSE k + 1]
<1>1. /\ b \in Seq(T) /\ Len(b) = Len(bl) - 1
      /\ \A k \in 1..Len(bl)-1 : b[k] = IF k < i THEN bl[k] ELSE bl[k+1]
  BY TakeSeq
<1>2. DOMAIN bl = 1..Len(bl) /\ Len(bl) \in Nat /\ i \in 1..Len(bl)
  OBVIOUS
<1>3. /\ IsFiniteSet(S) /\ num_of_nodes(bl, fd, p) = Cardinality(S)
      /\ num_of_nodes(b, fd, p) = Cardinality(R)
  BY <1>1, CountNodes
<1> HIDE DEF b
<1>4. DOMAIN b = 1..Len(bl)-1
  BY <1>1, <1>2
<1>5. \A k \in R : k \in 1..Len(bl)-1 /\ b[k].sockfd = fd /\ b[k].owner = p
  BY <1>4 DEF HalvesOf
<1>6. \A k \in R : f[k] \in DOMAIN bl /\ bl[f[k]] = b[k]
  BY <1>1, <1>2, <1>5
<1>7. \A k \in R : f[k] \in S
  BY <1>5, <1>6 DEF HalvesOf
<1>8. \A k, j \in R : f[k] = f[j] => k = j
  BY <1>2, <1>5
<1>9. f \in [R -> S]
  BY <1>7
<1>10. f \in Injection(R, S)
  BY <1>8, <1>9 DEF Injection, IsInjective
<1> HIDE DEF f, R, S
<1>11. Cardinality(R) <= Cardinality(S)
  BY <1>3, <1>10, FS_Injection
<1> QED BY <1>3, <1>11 DEF b

-----------------------------------------------------------------------------
(* No socket has more half-open connections than its backlog.              *)

Bounded(n, bl) == n.sockfd # -1 => num_of_nodes(bl, n.sockfd, n.owner) <= n.backlog
BacklogOK == \A i \in DOMAIN socklist : Bounded(socklist[i], backlog_list)

\* The half-open connections of a descriptor that is still to be given.
LEMMA NextFdNone ==
  ASSUME Typed, FdsOK, NEW p \in Pids, NEW fd, fd = Create(p, fds), fd # -1
  PROVE  \A i \in DOMAIN backlog_list :
           ~(backlog_list[i].sockfd = fd /\ backlog_list[i].owner = p)
<1>1. fd = fds[p] + 1 /\ fds[p] \in Nat
  BY CreateType, MaxFdAssumption DEF Typed, KernelType
<1> QED BY <1>1, FdFields DEF FdsOK, HalfFds

LEMMA OrderlyListen ==
  ASSUME Typed, Orderly, NEW p \in Pids, Syscall(p), socklist' # socklist,
         Next_(p).op = "listen", Node(p) # 0
  PROVE  Next_(p).n >= socklist[Node(p)].backlog
<1>1. On(p) # -1 /\ Runs(p)
  BY CallOn, SyscallLists
<1>2. calls[p] = Idle /\ prog[p] # <<>> /\ Next_(p).op # "socket"
  BY <1>1 DEF Runs
<1> QED BY <1>1, <1>2 DEF Orderly

LEMMA SyscallBacklog ==
  ASSUME Typed, FdsOK, BacklogOK, Orderly, NEW p \in Pids, Syscall(p)
  PROVE  BacklogOK'
<1>1. backlog_list' = backlog_list
  BY SyscallLists
<1>2. CASE socklist' = socklist
  BY <1>1, <1>2 DEF BacklogOK
<1>3. CASE ChangesOne(p) /\ socklist' # socklist
  <2>1. PICK i \in DOMAIN socklist, m \in SockNode :
          Changed(p, m, socklist[i]) /\ socklist' = [socklist EXCEPT ![i] = m]
    BY <1>3 DEF ChangesOne
  <2>2. DOMAIN socklist' = DOMAIN socklist
        /\ \A j \in DOMAIN socklist : socklist'[j] = IF j = i THEN m ELSE socklist[j]
    BY <2>1
  <2>3. m.owner = socklist[i].owner /\ m.sockfd = socklist[i].sockfd
    BY <2>1 DEF Changed
  <2>4. m.backlog >= socklist[i].backlog
    <3>1. CASE m.backlog = socklist[i].backlog
      BY <3>1, FdFields
    <3>2. CASE Next_(p).op = "listen" /\ Node(p) # 0 /\ socklist[i] = socklist[Node(p)]
               /\ m.backlog = Next_(p).n
      BY <1>3, <3>2, OrderlyListen
    <3> QED BY <2>1, <3>1, <3>2 DEF Changed
  <2>5. Bounded(m, backlog_list)
    <3>1. Bounded(socklist[i], backlog_list)
      BY DEF BacklogOK
    <3>2. backlog_list \in Seq(HalfNode)
      BY DEF Typed, KernelType
    <3>3. num_of_nodes(backlog_list, m.sockfd, m.owner) \in Nat
      BY <3>2, CountNodes
    <3>4. m.backlog \in Nat /\ socklist[i].backlog \in Nat
      BY FdFields, NodeFields DEF SockNode
    <3> QED BY <2>3, <2>4, <3>1, <3>3, <3>4 DEF Bounded
  <2> QED BY <1>1, <2>2, <2>5 DEF BacklogOK
<1>4. CASE CreatesOne(p)
  <2>1. PICK st \in FreshStatus :
          /\ FreshNode(p, Create(p, fds), st) \in SockNode
          /\ socklist' = <<FreshNode(p, Create(p, fds), st)>> \o socklist
    BY <1>4 DEF CreatesOne
  <2> DEFINE n == FreshNode(p, Create(p, fds), st)
  <2>2. n.owner = p /\ n.sockfd = Create(p, fds) /\ n.backlog = 0
    BY DEF FreshNode
  <2>3. n \in SockNode /\ socklist' = <<n>> \o socklist
    BY <2>1
  <2> HIDE DEF n
  <2>4. Bounded(n, backlog_list)
    BY <2>2, NextFdNone, CountNone DEF Bounded
  <2>5. \A k \in DOMAIN socklist' :
          \/ k = 1 /\ socklist'[k] = n
          \/ k - 1 \in DOMAIN socklist /\ socklist'[k] = socklist[k-1]
    BY <2>3, ConsOthers
  <2> QED BY <1>1, <2>4, <2>5 DEF BacklogOK
<1> QED BY <1>2, <1>3, <1>4, SyscallTable

\* The lists after an arrival, counted: one more where there is room, or fewer.
LEMMA ArrivalCount ==
  ASSUME Typed, FdsOK, BacklogOK, NEW c \in Conns, packetArrived(c),
         NEW i \in DOMAIN socklist
  PROVE  Bounded(socklist[i], backlog_list')
<1> DEFINE n == socklist[i]
           m == Head(toHost[c])
<1>1. Bounded(n, backlog_list) /\ backlog_list \in Seq(HalfNode)
  BY DEF BacklogOK, Typed, KernelType
<1>2. /\ num_of_nodes(backlog_list, n.sockfd, n.owner) \in Nat
      /\ n.backlog \in Nat
  BY <1>1, CountNodes, FdFields
<1>3. CASE backlog_list' = backlog_list
  BY <1>1, <1>3
<1>4. CASE HalfOpen(c) # 0 /\ backlog_list' = Take(backlog_list, HalfOpen(c))
  <2>1. HalfOpen(c) \in DOMAIN backlog_list
    BY <1>4, HalfOpenLookup
  <2>2. num_of_nodes(backlog_list', n.sockfd, n.owner)
          <= num_of_nodes(backlog_list, n.sockfd, n.owner)
    BY <1>1, <1>4, <2>1, CountTake
  <2>3. backlog_list' \in Seq(HalfNode)
    BY <1>1, <1>4, <2>1, TakeSeq
  <2>4. num_of_nodes(backlog_list', n.sockfd, n.owner) \in Nat
    BY <2>3, CountNodes
  <2> QED BY <1>1, <1>2, <2>2, <2>4 DEF Bounded
<1>5. CASE /\ Syn(c) /\ Fits(c)
           /\ Half(ListenerOf(c[2]), c[1], m.seq + 1) \in HalfNode
           /\ backlog_list' = Append(backlog_list, Half(ListenerOf(c[2]), c[1], m.seq + 1))
  <2> DEFINE l == ListenerOf(c[2])
             h == Half(l, c[1], m.seq + 1)
  <2>1. h.owner = l.owner /\ h.sockfd = l.sockfd /\ h \in HalfNode
    BY <1>5, HalfOfListener
  <2> HIDE DEF h
  <2>2. num_of_nodes(backlog_list', n.sockfd, n.owner) =
          num_of_nodes(backlog_list, n.sockfd, n.owner)
            + (IF h.sockfd = n.sockfd /\ h.owner = n.owner THEN 1 ELSE 0)
    BY <1>1, <1>5, <2>1, CountAppend DEF h
  <2>3. CASE ~(h.sockfd = n.sockfd /\ h.owner = n.owner)
    BY <1>1, <1>2, <2>2, <2>3 DEF Bounded
  <2>4. CASE h.sockfd = n.sockfd /\ h.owner = n.owner
    <3>1. Listener(socklist, c[2]) # 0
      <4>1. n.owner \in Pids
        BY FdFields
      <4>2. Listener(socklist, c[2]) = 0 => l.owner = -1
        BY DEF ListenerOf, NoListener, FreshNode
      <4> QED BY <2>1, <2>4, <4>1, <4>2, PidsAssumption
    <3>2. /\ Listener(socklist, c[2]) \in DOMAIN socklist
          /\ l = socklist[Listener(socklist, c[2])] /\ l.status = "LISTENING"
          /\ Room(backlog_list, l)
      BY <1>5, <3>1, ListenerLookup DEF ListenerOf, Fits
    <3> HIDE DEF l
    <3>3. l.sockfd # -1
      BY <3>2 DEF FdsOK, TableFds, ListensNamed
    <3>4. Listener(socklist, c[2]) = i
      BY <2>1, <2>4, <3>2, <3>3 DEF FdsOK, TableFds, OneNode
    <3>5. num_of_nodes(backlog_list, n.sockfd, n.owner) < n.backlog
      BY <3>2, <3>4 DEF Room
    <3>6. num_of_nodes(backlog_list', n.sockfd, n.owner) <= n.backlog
      BY <1>2, <2>2, <2>4, <3>5
    <3> QED BY <3>6 DEF Bounded
  <2> QED BY <2>3, <2>4
<1> QED BY <1>3, <1>4, <1>5, HalfLists

LEMMA ArrivalBacklog ==
  ASSUME Typed, FdsOK, BacklogOK, NEW c \in Conns, packetArrived(c)
  PROVE  BacklogOK'
<1> DEFINE m == Head(toHost[c])
           sl == IF Ack(c) THEN Completed(c, m).sl ELSE socklist
<1>1. \A i \in DOMAIN socklist : Bounded(socklist[i], backlog_list')
  BY ArrivalCount
<1>2. m \in ShortSegments
  BY HalfLists
<1>3. \A k \in DOMAIN sl : Bounded(sl[k], backlog_list')
  <2>1. CASE ~(Ack(c) /\ NewlyOpen(c))
    <3>1. sl = socklist
      BY <1>2, <2>1, CompletedTable
    <3> QED BY <1>1, <3>1
  <2>2. CASE Ack(c) /\ NewlyOpen(c)
    <3>1. /\ HalfOpen(c) # 0 /\ sl[1] = NewSocket(c, m)
          /\ \A k \in DOMAIN sl : k = 1 \/ (k-1 \in DOMAIN socklist /\ sl[k] = socklist[k-1])
      BY <1>2, <2>2, CompletedTable
    <3> DEFINE n == NewSocket(c, m)
    <3>2. n \in SockNode /\ n.owner = NewOwner(c) /\ n.sockfd = NewFd(c) /\ NewOwner(c) \in Pids
      BY <1>2, <3>1, NewSocketType
    <3>3. backlog_list' = Take(backlog_list, HalfOpen(c)) /\ HalfOpen(c) \in DOMAIN backlog_list
      BY <1>2, <2>2, <3>1, AckCases, CompletedCases, HalfOpenLookup
    <3>4. backlog_list \in Seq(HalfNode)
      BY DEF Typed, KernelType
    <3>5. \A j \in DOMAIN backlog_list' : \E i \in DOMAIN backlog_list :
            backlog_list'[j] = backlog_list[i]
      BY <3>3, <3>4, TakeElements
    <3>6. n.backlog \in Nat
      BY <3>2, NodeFields DEF SockNode
    <3> HIDE DEF n, sl
    <3>7. n.sockfd # -1 => \A j \in DOMAIN backlog_list' :
            ~(backlog_list'[j].sockfd = n.sockfd /\ backlog_list'[j].owner = n.owner)
      BY <3>2, <3>5, NextFdNone DEF NewFd
    <3>8. Bounded(n, backlog_list')
      BY <3>6, <3>7, CountNone DEF Bounded
    <3> QED BY <1>1, <3>1, <3>8 DEF n
  <2> QED BY <2>1, <2>2
<1>4. ComesFrom(socklist', sl)
  BY ArrivalTable
<1> HIDE DEF sl
<1>5. ASSUME NEW j \in DOMAIN socklist' PROVE Bounded(socklist'[j], backlog_list')
  <2>1. PICK k \in DOMAIN sl : Evolves(socklist'[j], sl[k])
    BY <1>4, <1>5 DEF ComesFrom
  <2>2. Bounded(sl[k], backlog_list')
    BY <1>3
  <2> QED BY <2>1, <2>2 DEF Bounded, Evolves, SameSocket
<1> QED BY <1>5 DEF BacklogOK

LEMMA NextBacklog ==
  Typed /\ FdsOK /\ BacklogOK /\ Orderly /\ [Next]_vars => BacklogOK'
<1> SUFFICES ASSUME Typed, FdsOK, BacklogOK, Orderly, [Next]_vars PROVE BacklogOK'
  OBVIOUS
<1>1. ASSUME UNCHANGED kernel PROVE BacklogOK'
  BY <1>1 DEF BacklogOK, kernel
<1>2. ASSUME NEW c \in Conns, Remote(c) PROVE UNCHANGED kernel
  BY <1>2 DEF Remote, PeerOpen, PeerRetry, PeerSend, PeerClose, PeerReceive
<1>3. UNCHANGED vars => UNCHANGED kernel
  BY DEF vars
<1> QED BY <1>1, <1>2, <1>3, SyscallBacklog, ArrivalBacklog DEF Next

\* A listening socket never has more half-open connections than the backlog it
\* was given, whatever remotes connect, retry or complete, if no listen lowers
\* the backlog of a socket.  The descriptors are what makes it so: a new socket
\* gets one that no half-open connection has.
THEOREM TcpBacklogBound == Spec /\ []Orderly => []BacklogBound
<1> DEFINE Inv == Typed /\ FdsOK /\ BacklogOK
<1>1. Init => Inv
  <2>1. Init => BacklogOK
    BY DEF Init, BacklogOK
  <2> QED BY <2>1, InitTyped, InitFds
<1>2. Inv /\ Orderly /\ [Next]_vars => Inv'
  BY NextTyped, NextFds, NextBacklog
<1>3. Inv => BacklogBound
  BY DEF FdsOK, TableFds, ListensNamed, BacklogOK, Bounded, BacklogBound
<1> QED BY <1>1, <1>2, <1>3, PTL DEF Spec

-----------------------------------------------------------------------------
(* What a process is returned: the descriptors it holds.                   *)

\* A reply returns descriptors to a call for one only.
LEMMA HeldReply ==
  ASSUME NEW A, NEW cs, Reply(A, cs), NEW q \in Pids
  PROVE  \/ held'[q] = held[q]
         \/ \E a \in A : /\ cs[q] # Idle /\ a.id = cs[q].id
                         /\ cs[q].op \in {"socket", "accept"}
                         /\ held'[q] = Append(held[q], a.val)
<1> DEFINE hit(p) == {a \in A : cs[p] # Idle /\ a.id = cs[p].id}
           of(p) == CHOOSE a \in hit(p) : TRUE
           by(p, op) == hit(p) # {} /\ cs[p].op = op
<1>1. held'[q] = IF by(q, "socket") \/ by(q, "accept") THEN Append(held[q], of(q).val) ELSE held[q]
  BY DEF Reply
<1>2. hit(q) # {} => of(q) \in hit(q)
  OBVIOUS
<1> QED BY <1>1, <1>2

\* The answers to a call of p.
AnswersOwn(p) ==
  \E A : \E port \in Nat : Reply(A, Called(p, port)) /\ \A a \in A : a.id = Id(p)

LEMMA OwnAnswers ==
  ASSUME NEW p
  PROVE  /\ Blocks(p) => AnswersOwn(p)
         /\ \A val : Returns(p, val) => AnswersOwn(p)
         /\ \A val : \A port \in Nat :
              Reply({Answer(Id(p), val)}, Called(p, port)) => AnswersOwn(p)
         /\ \A n, len : \A port \in Nat :
              Reply({ReadAnswer(Id(p), n, len)}, Called(p, port)) => AnswersOwn(p)
<1>1. /\ \A val : \A a \in {Answer(Id(p), val)} : a.id = Id(p)
      /\ \A n, len : \A a \in {ReadAnswer(Id(p), n, len)} : a.id = Id(p)
  BY DEF Answer, ReadAnswer
<1> QED BY <1>1 DEF AnswersOwn, Blocks, Returns

LEMMA OwnHeld ==
  ASSUME Typed, CallsOK, NEW p \in Pids, Runs(p), AnswersOwn(p)
  PROVE  /\ \A q \in Pids : q # p => held'[q] = held[q]
         /\ Next_(p).op \notin {"socket", "accept"} => held'[p] = held[p]
<1>0. PICK A : \E port \in Nat : Reply(A, Called(p, port)) /\ \A a \in A : a.id = Id(p)
  BY DEF AnswersOwn
<1>1. PICK port \in Nat : Reply(A, Called(p, port)) /\ \A a \in A : a.id = Id(p)
  BY <1>0
<1>2. /\ Called(p, port)[p].op = Next_(p).op
      /\ \A q \in Pids : q # p => Called(p, port)[q] = calls[q]
  <2>1. calls \in [Pids -> CallRecs]
    BY DEF Typed, AppsType
  <2> QED BY <2>1 DEF Called
<1>3. \A q \in Pids : q # p /\ calls[q] # Idle => calls[q].id # Id(p)
  BY DEF CallsOK, Id
<1>4. ASSUME NEW q \in Pids, q # p PROVE held'[q] = held[q]
  BY <1>1, <1>2, <1>3, <1>4, HeldReply
<1>5. Next_(p).op \notin {"socket", "accept"} => held'[p] = held[p]
  BY <1>1, <1>2, HeldReply
<1> QED BY <1>4, <1>5

\* What a call of p adds to its descriptors.
LEMMA SyscallHeld ==
  ASSUME Typed, CallsOK, NEW p \in Pids, Syscall(p)
  PROVE  /\ \A q \in Pids : q # p => held'[q] = held[q]
         /\ \/ held'[p] = held[p]
            \/ Socket(p) /\ held'[p] = Append(held[p], Create(p, fds))
            \/ /\ Accept(p) /\ Found(p) # 0
               /\ held'[p] = Append(held[p], socklist[Found(p)].sockfd)
<1>1. Runs(p)
  BY SyscallLists
<1>2. ASSUME Bind(p) \/ Listen(p) \/ Connect(p) \/ Write(p) \/ Close(p) \/ Read(p)
      PROVE  AnswersOwn(p) /\ Next_(p).op \notin {"socket", "accept"}
  <2>1. Bind(p) => AnswersOwn(p) /\ Next_(p).op = "bind"
    BY OwnAnswers DEF Bind, Enter
  <2>2. Listen(p) => AnswersOwn(p) /\ Next_(p).op = "listen"
    BY OwnAnswers DEF Listen, Enter
  <2>3. Connect(p) => AnswersOwn(p) /\ Next_(p).op = "connect"
    BY OwnAnswers DEF Connect, Enter
  <2>4. Write(p) => AnswersOwn(p) /\ Next_(p).op = "write"
    BY OwnAnswers DEF Write, Enter
  <2>5. Close(p) => AnswersOwn(p) /\ Next_(p).op = "close"
    BY OwnAnswers DEF Close, Enter
  <2>6. Read(p) => AnswersOwn(p) /\ Next_(p).op = "read"
    BY OwnAnswers DEF Read, Enter
  <2> QED BY <1>2, <2>1, <2>2, <2>3, <2>4, <2>5, <2>6
<1>3. CASE Bind(p) \/ Listen(p) \/ Connect(p) \/ Write(p) \/ Close(p) \/ Read(p)
  BY <1>1, <1>2, <1>3, OwnHeld
<1>4. CASE Skip(p)
  BY <1>4 DEF Skip, apps
<1>5. CASE Socket(p)
  <2>1. Returns(p, Create(p, fds))
    BY <1>5 DEF Socket
  <2>2. AnswersOwn(p)
    BY <2>1, OwnAnswers
  <2>3. held'[p] = held[p] \/ held'[p] = Append(held[p], Create(p, fds))
    BY <2>1, HeldReply DEF Returns, Answer
  <2> QED BY <1>1, <1>5, <2>2, <2>3, OwnHeld
<1>6. CASE Accept(p)
  <2>1. Asked(p) \in Nat
    BY <1>6, AcceptCases
  <2>2. CASE Found(p) # 0
    <3>1. Reply({Answer(Id(p), socklist[Found(p)].sockfd)}, Called(p, Asked(p)))
      BY <1>6, <2>2, AcceptCases
    <3>2. AnswersOwn(p)
      BY <2>1, <3>1, OwnAnswers
    <3>3. held'[p] = held[p] \/ held'[p] = Append(held[p], socklist[Found(p)].sockfd)
      BY <3>1, HeldReply DEF Answer
    <3> QED BY <1>1, <1>6, <2>2, <3>2, <3>3, OwnHeld
  <2>3. CASE Found(p) = 0
    <3>1. Reply({}, Called(p, Asked(p)))
      BY <1>6, <2>3, AcceptCases
    <3> QED BY <3>1, HeldReply
  <2> QED BY <2>2, <2>3
<1> QED BY <1>3, <1>4, <1>5, <1>6 DEF Syscall

\* What the answers of the nodes return: nothing to a call for a descriptor.
LEMMA NodeAnswersHeld ==
  ASSUME NEW n, NodeUse(n, prog, calls), NEW q \in Pids, calls[q] # Idle,
         calls[q].id \in NodeIds(n)
  PROVE  calls[q].op \notin {"socket", "accept"}
<1>1. /\ IdFor(n.uuid, {"connect", "close"}, calls)
      /\ IdFor(n.read_uuid, {"read"}, calls) /\ IdFor(n.write_uuid, {"write"}, calls)
  BY DEF NodeUse
<1> QED BY <1>1 DEF IdFor, NodeIds

LEMMA AckResultIds ==
  ASSUME Typed, UsesOK, NEW c \in Conns, NEW m \in ShortSegments
  PROVE  \A b \in AckResult(c, m).answers : \A q \in Pids :
           calls[q] # Idle /\ calls[q].id = b.id => calls[q].op \notin {"socket", "accept"}
<1> SUFFICES ASSUME NEW b \in AckResult(c, m).answers, NEW q \in Pids,
                    calls[q] # Idle, calls[q].id = b.id
             PROVE  calls[q].op \notin {"socket", "accept"}
  OBVIOUS
<1> DEFINE sl == Completed(c, m).sl
           i == AckedAt(c, m)
<1>1. i # 0
  BY DEF AckResult
<1>2. i \in DOMAIN sl /\ sl[i] \in SockNode /\ sl[i].status # "LISTENING"
  BY <1>1, AckedAtLookup
<1>3. b \in AckOf(sl[i], c, m).answers
  BY <1>1 DEF AckResult
<1>4. b.id \in NodeIds(sl[i])
  BY <1>2, <1>3, AckOfEvolves
<1>5. \A k \in DOMAIN socklist : NodeUse(socklist[k], prog, calls)
  BY DEF UsesOK, SockUses
<1>6. NodeUse(sl[i], prog, calls)
  <2>1. CASE ~NewlyOpen(c)
    <3>1. sl = socklist
      BY <2>1, CompletedTable
    <3> QED BY <1>2, <1>5, <3>1
  <2>2. CASE NewlyOpen(c)
    <3>1. /\ HalfOpen(c) # 0 /\ sl[1] = NewSocket(c, m)
          /\ \A k \in DOMAIN sl : k = 1 \/ (k-1 \in DOMAIN socklist /\ sl[k] = socklist[k-1])
      BY <2>2, CompletedTable
    <3>2. HalfOpen(c) \in DOMAIN backlog_list /\ Entry(c) = backlog_list[HalfOpen(c)]
      BY <3>1, HalfOpenLookup DEF Entry
    <3>3. NodeUse(Entry(c), prog, calls)
      BY <3>2 DEF UsesOK, HalfUses
    <3>4. NodeUse(NewSocket(c, m), prog, calls)
      BY <3>1, <3>3, NewSocketIds DEF NodeUse, NodeIds
    <3> HIDE DEF sl, i
    <3> QED BY <1>2, <1>5, <3>1, <3>4
  <2> QED BY <2>1, <2>2
<1> HIDE DEF sl, i
<1> QED BY <1>4, <1>6, NodeAnswersHeld

\* An arrival returns a descriptor to the first accept of the queue only.
LEMMA ArrivalHeld ==
  ASSUME Typed, CallsOK, UsesOK, NEW c \in Conns, packetArrived(c), NEW q \in Pids
  PROVE  \/ held'[q] = held[q]
         \/ /\ Ack(c) /\ HalfOpen(c) # 0 /\ accept_queue # <<>> /\ q = NewOwner(c)
            /\ held'[q] = Append(held[q], NewFd(c))
<1> DEFINE m == Head(toHost[c])
<1>1. m \in ShortSegments
  BY HalfLists
<1>2. \A i \in DOMAIN socklist : /\ NodeUse(socklist[i], prog, calls)
                                 /\ socklist[i] \in SockNode
  BY ListElements DEF UsesOK, SockUses
<1>3. CASE Syn(c)
  BY <1>3, SynCases DEF apps
<1>4. CASE SynAck(c)
  <2>1. Reply({Answer(socklist[i].uuid, 0) : i \in Mine(c)}, calls)
    BY <1>4, SynAckCases
  <2>2. CASE held'[q] # held[q]
    <3>1. PICK i \in Mine(c) : /\ calls[q] # Idle /\ socklist[i].uuid = calls[q].id
                               /\ calls[q].op \in {"socket", "accept"}
      BY <2>1, <2>2, HeldReply DEF Answer
    <3>2. i \in DOMAIN socklist
      BY DEF Mine
    <3> QED BY <1>2, <3>1, <3>2, NodeAnswersHeld DEF NodeIds
  <2> QED BY <2>2
<1>5. CASE Fin(c)
  <2> DEFINE n == socklist[FinAt(c)]
  <2>1. \/ /\ FinAt(c) # 0 /\ n.status \in {"ESTAB", "FIN_WAIT_1", "FIN_WAIT_2"}
           /\ Reply(FinAnswers(n), calls)
        \/ held' = held
    BY <1>5, FinCases DEF apps
  <2>2. CASE /\ FinAt(c) # 0 /\ n.status \in {"ESTAB", "FIN_WAIT_1", "FIN_WAIT_2"}
             /\ Reply(FinAnswers(n), calls) /\ held'[q] # held[q]
    <3>1. FinAt(c) \in DOMAIN socklist
      BY <2>2, FinAtLookup
    <3>2. n \in SockNode /\ NodeUse(n, prog, calls)
      BY <1>2, <3>1
    <3> HIDE DEF n
    <3>3. PICK a \in FinAnswers(n) : /\ calls[q] # Idle /\ a.id = calls[q].id
                                     /\ calls[q].op \in {"socket", "accept"}
      BY <2>2, HeldReply
    <3>4. a.id \in NodeIds(n)
      BY <1>1, <2>2, <3>2, FinishedEvolves
    <3> QED BY <3>2, <3>3, <3>4, NodeAnswersHeld
  <2> QED BY <2>1, <2>2
<1>6. CASE Ack(c)
  <2> DEFINE A == Completed(c, m).answers \cup AckResult(c, m).answers
  <2>1. Reply(A, calls)
    BY <1>6, AckAnswers
  <2>2. CASE held'[q] # held[q]
    <3>1. PICK a \in A : /\ calls[q] # Idle /\ a.id = calls[q].id
                         /\ calls[q].op \in {"socket", "accept"}
                         /\ held'[q] = Append(held[q], a.val)
      BY <2>1, <2>2, HeldReply
    <3>2. a \notin AckResult(c, m).answers
      BY <1>1, <3>1, AckResultIds
    <3>3. a \in Completed(c, m).answers
      BY <3>1, <3>2
    <3>4. /\ HalfOpen(c) # 0 /\ accept_queue # <<>>
          /\ a = Answer(Head(accept_queue).uuid, NewFd(c))
      BY <1>1, <3>3, CompletedCases
    <3>5. a.id = Head(accept_queue).uuid /\ a.val = NewFd(c)
      BY <3>4 DEF Answer
    <3>6. Head(accept_queue).uuid[1] = Head(accept_queue).pid
      <4>1. accept_queue \in Seq(QueueRecs)
        BY DEF Typed, KernelType
      <4>2. 1 \in DOMAIN accept_queue /\ Head(accept_queue) = accept_queue[1]
        BY <3>4, <4>1, TailElements
      <4> QED BY <4>2 DEF UsesOK, QueueUses, QueueUse
    <3>7. calls[q].id[1] = q
      BY <3>1 DEF CallsOK
    <3>8. q = NewOwner(c)
      BY <3>1, <3>4, <3>5, <3>6, <3>7 DEF NewOwner
    <3> QED BY <1>6, <3>1, <3>4, <3>5, <3>8
  <2> QED BY <2>2
<1> QED BY <1>3, <1>4, <1>5, <1>6 DEF packetArrived

-----------------------------------------------------------------------------
(* No descriptor is returned twice.                                        *)

DistinctIn(s) == \A i, j \in DOMAIN s : s[i] = s[j] /\ s[i] # -1 => i = j
HeldIn(hd, fd) == \A p \in Pids : \A i \in DOMAIN hd[p] : hd[p][i] <= fd[p]

\* A connection that accept may still return has a descriptor nobody was given.
NodeHeld(n, hd) ==
  ~n.used /\ n.dest # NoRemote /\ n.sockfd # -1 /\ n.srcport \notin Ephemeral =>
    \A k \in DOMAIN hd[n.owner] : hd[n.owner][k] # n.sockfd
NodePlain(n) == /\ n.dest = NoRemote => n.srcport \notin Ephemeral
                /\ n.status = "LISTENING" => n.dest = NoRemote
HeldOK == /\ HeldIn(held, fds) /\ AcceptDistinct
          /\ \A i \in DOMAIN socklist : /\ NodeHeld(socklist[i], held)
                                        /\ NodePlain(socklist[i])

LEMMA HeldTypes ==
  ASSUME Typed, NEW p \in Pids
  PROVE  held[p] \in Seq(Int) /\ \A i \in DOMAIN held[p] : held[p][i] \in Int
<1>1. held[p] \in Seq(Int)
  BY DEF Typed, AppsType
<1> QED BY <1>1

LEMMA HeldAppend ==
  ASSUME NEW s \in Seq(Int), NEW v \in Int
  PROVE  /\ (DistinctIn(s) /\ (v # -1 => \A i \in DOMAIN s : s[i] # v))
              => DistinctIn(Append(s, v))
         /\ \A k \in DOMAIN Append(s, v) :
              Append(s, v)[k] = v \/ \E i \in DOMAIN s : Append(s, v)[k] = s[i]
<1> DEFINE t == Append(s, v)
<1>1. /\ \A j \in DOMAIN t : \/ j \in DOMAIN s /\ t[j] = s[j] /\ j # Len(s)+1
                             \/ j = Len(s)+1 /\ t[j] = v
  BY AppendElements
<1> HIDE DEF t
<1>2. \A k \in DOMAIN t : t[k] = v \/ \E i \in DOMAIN s : t[k] = s[i]
  BY <1>1
<1>3. (DistinctIn(s) /\ (v # -1 => \A i \in DOMAIN s : s[i] # v)) => DistinctIn(t)
  BY <1>1 DEF DistinctIn
<1> QED BY <1>2, <1>3 DEF t

\* The next descriptor of a process is nobody's.
LEMMA NextFdNew ==
  ASSUME Typed, FdsOK, HeldIn(held, fds), NEW p \in Pids, Create(p, fds) # -1
  PROVE  /\ \A i \in DOMAIN held[p] : held[p][i] # Create(p, fds)
         /\ \A i \in DOMAIN socklist : socklist[i].owner = p => socklist[i].sockfd # Create(p, fds)
<1>1. Create(p, fds) = fds[p] + 1 /\ fds[p] \in Nat
  BY CreateType, MaxFdAssumption DEF Typed, KernelType
<1>2. \A i \in DOMAIN held[p] : held[p][i] \in Int /\ held[p][i] <= fds[p]
  BY HeldTypes DEF HeldIn
<1>3. \A i \in DOMAIN socklist : socklist[i].owner = p =>
        socklist[i].sockfd \in Int /\ socklist[i].sockfd <= fds[p]
  BY FdFields DEF FdsOK, TableFds, InFds
<1> QED BY <1>1, <1>2, <1>3

\* A process of which held grows by a descriptor that is new to it.
LEMMA HeldGrows ==
  ASSUME Typed, HeldIn(held, fds), AcceptDistinct, NEW p \in Pids,
         \A q \in Pids : q # p => held'[q] = held[q],
         NEW v \in Int, held'[p] = Append(held[p], v),
         v # -1 => \A i \in DOMAIN held[p] : held[p][i] # v,
         NEW fd, \A q \in Pids : fds[q] <= fd[q] /\ fd[q] \in Int, v <= fd[p]
  PROVE  HeldIn(held', fd) /\ AcceptDistinct'
<1>1. held[p] \in Seq(Int)
  BY HeldTypes
<1>2. \A k \in DOMAIN held'[p] : held'[p][k] = v \/ \E i \in DOMAIN held[p] : held'[p][k] = held[p][i]
  BY <1>1, HeldAppend
<1>3. \A q \in Pids : \A i \in DOMAIN held[q] : held[q][i] <= fd[q]
  <2> SUFFICES ASSUME NEW q \in Pids, NEW i \in DOMAIN held[q] PROVE held[q][i] <= fd[q]
    OBVIOUS
  <2>1. held[q][i] \in Int /\ fds[q] \in Int /\ fd[q] \in Int
    BY HeldTypes, FdFields
  <2>2. held[q][i] <= fds[q] /\ fds[q] <= fd[q]
    BY DEF HeldIn
  <2> QED BY <2>1, <2>2
<1>4. HeldIn(held', fd)
  <2> SUFFICES ASSUME NEW q \in Pids, NEW k \in DOMAIN held'[q] PROVE held'[q][k] <= fd[q]
    BY DEF HeldIn
  <2>1. CASE q = p
    BY <1>2, <1>3, <2>1
  <2>2. CASE q # p
    BY <1>3, <2>2
  <2> QED BY <2>1, <2>2
<1>5. \A q \in Pids : DistinctIn(held[q])
  BY DEF AcceptDistinct, DistinctIn
<1>6. DistinctIn(held'[p])
  BY <1>1, <1>5, HeldAppend
<1>7. \A q \in Pids : DistinctIn(held'[q])
  BY <1>5, <1>6
<1>8. AcceptDistinct'
  BY <1>7 DEF AcceptDistinct, DistinctIn
<1> QED BY <1>4, <1>8

LEMMA HeldStays ==
  ASSUME Typed, HeldIn(held, fds), AcceptDistinct, \A q \in Pids : held'[q] = held[q],
         NEW fd, \A q \in Pids : fds[q] <= fd[q] /\ fd[q] \in Int
  PROVE  HeldIn(held', fd) /\ AcceptDistinct'
<1>1. \A q \in Pids : \A i \in DOMAIN held[q] : held[q][i] <= fd[q]
  BY HeldTypes, FdFields DEF HeldIn
<1>2. HeldIn(held', fd)
  BY <1>1 DEF HeldIn
<1>3. AcceptDistinct'
  BY DEF AcceptDistinct
<1> QED BY <1>2, <1>3

\* A node of a process that was returned descriptor v, which is not the node's.
LEMMA NodeHeldStays ==
  ASSUME Typed, NEW n \in SockNode, NodeHeld(n, held),
         \/ held'[n.owner] = held[n.owner]
         \/ \E v \in Int : /\ held'[n.owner] = Append(held[n.owner], v)
                           /\ n.sockfd # -1 => n.sockfd # v
  PROVE  NodeHeld(n, held')
<1>1. n.owner \in Pids
  BY NodeFields DEF SockNode
<1>2. CASE held'[n.owner] = held[n.owner]
  BY <1>2 DEF NodeHeld
<1>3. ASSUME NEW v \in Int, held'[n.owner] = Append(held[n.owner], v), n.sockfd # -1 => n.sockfd # v
      PROVE  NodeHeld(n, held')
  <2>1. held[n.owner] \in Seq(Int)
    BY <1>1, HeldTypes
  <2>2. \A k \in DOMAIN held'[n.owner] :
          held'[n.owner][k] = v \/ \E i \in DOMAIN held[n.owner] : held'[n.owner][k] = held[n.owner][i]
    BY <1>3, <2>1, HeldAppend
  <2> QED BY <1>3, <2>2 DEF NodeHeld
<1> QED BY <1>2, <1>3

\* What the contract says of a call that changes the table.
LEMMA OrderlyCall ==
  ASSUME Typed, Orderly, NEW p \in Pids, Syscall(p), socklist' # socklist,
         Next_(p).op # "socket"
  PROVE  LET n == socklist[Node(p)]
             op == Next_(p).op
         IN  /\ op = "bind" /\ Node(p) # 0 => Unused(n) /\ Next_(p).port \notin Ephemeral
             /\ op = "listen" /\ Node(p) # 0 => n.dest = NoRemote
             /\ op = "accept" =>
                  /\ ListenerNamed(On(p)) = Node(p)
                  /\ \A i \in DOMAIN socklist :
                       socklist[i].owner = p => \/ socklist[i].status = "LISTENING"
                                                \/ socklist[i].dest # NoRemote
<1>1. On(p) # -1 /\ Runs(p)
  BY CallOn, SyscallLists
<1>2. calls[p] = Idle /\ prog[p] # <<>>
  BY <1>1 DEF Runs
<1> QED BY <1>1, <1>2 DEF Orderly

LEMMA ChangedHeld ==
  ASSUME Typed, Orderly, NEW p \in Pids, Syscall(p), socklist' # socklist,
         Next_(p).op # "socket", NEW n \in SockNode, NEW m \in SockNode, Changed(p, m, n),
         NodeHeld(n, held), NodePlain(n)
  PROVE  NodeHeld(m, held) /\ NodePlain(m)
<1> DEFINE op == Next_(p).op
           own == Node(p) # 0 /\ n = socklist[Node(p)]
<1>1. /\ m.owner = n.owner /\ m.sockfd = n.sockfd /\ (n.used => m.used)
      /\ \/ m.dest = n.dest /\ m.srcport = n.srcport
         \/ op = "bind" /\ own /\ m.dest = n.dest /\ m.srcport = Next_(p).port
         \/ /\ op = "connect" /\ m.dest \in Remotes
            /\ m.srcport \in Ephemeral /\ m.status = "SYN_SENT"
      /\ m.status = "LISTENING" => n.status = "LISTENING" \/ (op = "listen" /\ own)
  BY DEF Changed
<1>2. /\ op = "bind" /\ own => n.dest = NoRemote /\ Next_(p).port \notin Ephemeral
      /\ op = "listen" /\ own => n.dest = NoRemote
  BY OrderlyCall DEF Unused
<1>3. NoRemote \notin Remotes
  BY EndpointsAssumption
<1> HIDE DEF own, op
<1>4. CASE m.dest = n.dest /\ m.srcport = n.srcport
  <2>0. ~m.used => ~n.used
    BY <1>1, Zenon
  <2>1. NodeHeld(m, held)
    <3> SUFFICES ASSUME ~m.used, m.dest # NoRemote, m.sockfd # -1, m.srcport \notin Ephemeral,
                        NEW k \in DOMAIN held[m.owner]
                 PROVE  held[m.owner][k] # m.sockfd
      BY DEF NodeHeld
    <3>1. ~n.used /\ n.dest # NoRemote /\ n.sockfd # -1 /\ n.srcport \notin Ephemeral
      BY <1>1, <1>4, <2>0
    <3>2. m.owner = n.owner /\ m.sockfd = n.sockfd
      BY <1>1
    <3> QED BY <3>1, <3>2 DEF NodeHeld
  <2>2. n.dest = NoRemote => n.srcport \notin Ephemeral
    BY DEF NodePlain
  <2>3. n.status = "LISTENING" => n.dest = NoRemote
    BY DEF NodePlain
  <2>4. m.dest = NoRemote => m.srcport \notin Ephemeral
    BY <1>4, <2>2
  <2>5. m.status = "LISTENING" => m.dest = NoRemote
    BY <1>1, <1>2, <1>4, <2>3
  <2> QED BY <2>1, <2>4, <2>5 DEF NodePlain
<1>5. CASE op = "bind" /\ own /\ m.dest = n.dest /\ m.srcport = Next_(p).port
  BY <1>1, <1>2, <1>5 DEF NodeHeld, NodePlain
<1>6. CASE op = "connect" /\ m.dest \in Remotes /\ m.srcport \in Ephemeral /\ m.status = "SYN_SENT"
  BY <1>3, <1>6 DEF NodeHeld, NodePlain
<1> QED BY <1>1, <1>4, <1>5, <1>6

LEMMA FdsGrow ==
  ASSUME Typed, NEW p \in Pids, fds' = fds \/ fds' = Grow(p, fds)
  PROVE  \A q \in Pids : fds[q] <= fds'[q] /\ fds'[q] \in Int
<1>1. fds \in [Pids -> 0..MaxFd] /\ Grow(p, fds) \in [Pids -> 0..MaxFd]
  BY CreateType DEF Typed, KernelType
<1>2. \A q \in Pids : fds[q] <= fds'[q]
  BY GrownFds
<1> QED BY <1>1, <1>2, MaxFdAssumption

\* Steps of two operations are steps of two calls.
LEMMA SocketIsNotAccept ==
  ASSUME NEW p
  PROVE  ~(Socket(p) /\ Accept(p))
BY DEF Socket, Accept, Enter

LEMMA SocketTable ==
  ASSUME Typed, NEW p \in Pids, Socket(p)
  PROVE  socklist' = socklist \/ CreatesOne(p)
<1>1. Next_(p).op = "socket"
  BY DEF Socket, Enter
<1>3. \/ socklist' = socklist
      \/ /\ Create(p, fds) # -1
         /\ \E st \in FreshStatus : socklist' = <<FreshNode(p, Create(p, fds), st)>> \o socklist
  BY DEF Socket
<1>4. \A st \in FreshStatus : FreshNode(p, Create(p, fds), st) \in SockNode
  <2> SUFFICES ASSUME NEW st \in FreshStatus PROVE FreshNode(p, Create(p, fds), st) \in SockNode
    OBVIOUS
  <2>1. FreshNode(p, Create(p, fds), st) \in NodeOf({p}, {Create(p, fds)})
    BY FreshType, EndpointsAssumption
  <2>2. Create(p, fds) \in Descriptors
    BY CreateType DEF Typed, KernelType
  <2> QED BY <2>1, <2>2, NodeMonotone DEF SockNode
<1> QED BY <1>1, <1>3, <1>4 DEF CreatesOne

LEMMA AcceptHeld ==
  ASSUME Typed, CallsOK, FdsOK, HeldOK, Orderly, NEW p \in Pids, Accept(p), Found(p) # 0
  PROVE  HeldOK'
<1> DEFINE n == socklist[Found(p)]
           l == socklist[ListenerNamed(On(p))]
<1>1. Syscall(p) /\ Next_(p).op = "accept" /\ Next_(p).op # "socket" /\ fds' = fds
  BY AcceptCases DEF Syscall
<1>2. /\ Found(p) \in DOMAIN socklist /\ n \in SockNode /\ n.owner = p
      /\ Taken(p).used /\ Taken(p).srcport = n.srcport /\ Taken(p).dest = n.dest
      /\ Taken(p).status = n.status
      /\ socklist' = [socklist EXCEPT ![Found(p)] = Taken(p)]
  BY TakenFacts
<1>3. /\ ListenerNamed(On(p)) # 0 /\ Acceptable(n, l.srcport, p)
  BY AcceptCases
<1>4. /\ ~n.used /\ n.status # "LISTENING" /\ n.srcport \in {l.srcport, 0}
  BY <1>3 DEF Acceptable
<1>5. l.status = "LISTENING" /\ ListenerNamed(On(p)) \in DOMAIN socklist
  BY <1>3, ListenerNamedLookup
<1>6. n.dest # NoRemote
  <2>1. socklist' # socklist
    <3>1. socklist \in Seq(SockNode)
      BY DEF Typed, KernelType
    <3>2. socklist'[Found(p)] = Taken(p)
      BY <1>2
    <3> QED BY <1>2, <1>4, <3>2
  <2> QED BY <1>1, <1>2, <1>4, <2>1, OrderlyCall
<1>7. n.srcport \notin Ephemeral
  <2>1. l.dest = NoRemote /\ l.srcport \notin Ephemeral
    BY <1>5 DEF HeldOK, NodePlain
  <2>2. 0 \notin Ephemeral
    BY EndpointsAssumption
  <2> QED BY <1>4, <2>1, <2>2
<1>8. n.sockfd # -1 => \A i \in DOMAIN held[p] : held[p][i] # n.sockfd
  BY <1>2, <1>4, <1>6, <1>7 DEF HeldOK, NodeHeld
<1>9. /\ \A q \in Pids : q # p => held'[q] = held[q]
      /\ held'[p] = held[p] \/ held'[p] = Append(held[p], n.sockfd)
  BY <1>1, SyscallHeld, SocketIsNotAccept
<1>10. n.sockfd \in Int /\ n.sockfd <= fds[p]
  BY <1>2, FdFields DEF FdsOK, TableFds, InFds
<1>11. \A q \in Pids : fds[q] <= fds'[q] /\ fds'[q] \in Int
  BY <1>1, FdsGrow
<1> HIDE DEF n, l
<1>12. HeldIn(held', fds') /\ AcceptDistinct'
  <2>1. HeldIn(held, fds) /\ AcceptDistinct
    BY DEF HeldOK
  <2>2. CASE held'[p] = held[p]
    BY <1>9, <1>11, <2>1, <2>2, HeldStays
  <2>3. CASE held'[p] = Append(held[p], n.sockfd)
    BY <1>1, <1>8, <1>9, <1>10, <1>11, <2>1, <2>3, HeldGrows
  <2> QED BY <1>9, <2>2, <2>3
<1>13. ASSUME NEW j \in DOMAIN socklist'
       PROVE  NodeHeld(socklist'[j], held') /\ NodePlain(socklist'[j])
  <2>1. j \in DOMAIN socklist /\ socklist'[j] = IF j = Found(p) THEN Taken(p) ELSE socklist[j]
    BY <1>2, <1>13
  <2>2. socklist[j] \in SockNode /\ NodeHeld(socklist[j], held) /\ NodePlain(socklist[j])
    BY <2>1, ListElements DEF HeldOK
  <2>3. CASE j = Found(p)
    BY <1>2, <2>1, <2>2, <2>3 DEF NodeHeld, NodePlain, n
  <2>4. CASE j # Found(p)
    <3>1. socklist[j].owner = p /\ socklist[j].sockfd # -1 => socklist[j].sockfd # n.sockfd
      BY <1>2, <2>1, <2>4 DEF FdsOK, TableFds, OneNode, n
    <3>2. socklist[j].owner \in Pids
      BY <2>1, FdFields
    <3>3. NodeHeld(socklist[j], held')
      BY <1>9, <1>10, <2>2, <3>1, <3>2, NodeHeldStays
    <3> QED BY <2>1, <2>2, <2>4, <3>3
  <2> QED BY <2>3, <2>4
<1> QED BY <1>12, <1>13 DEF HeldOK

LEMMA SocketHeld ==
  ASSUME Typed, CallsOK, FdsOK, HeldOK, NEW p \in Pids, Socket(p)
  PROVE  HeldOK'
<1> DEFINE v == Create(p, fds)
<1>1. Syscall(p) /\ fds' = Grow(p, fds) /\ Next_(p).op = "socket"
  BY DEF Socket, Syscall, Enter
<1>2. /\ \A q \in Pids : q # p => held'[q] = held[q]
      /\ held'[p] = held[p] \/ held'[p] = Append(held[p], v)
  BY <1>1, SyscallHeld, SocketIsNotAccept
<1>3. HeldIn(held, fds) /\ AcceptDistinct
  BY DEF HeldOK
<1>4. v # -1 => /\ \A i \in DOMAIN held[p] : held[p][i] # v
                /\ \A i \in DOMAIN socklist : socklist[i].owner = p => socklist[i].sockfd # v
  BY <1>3, NextFdNew
<1>5. v \in Int /\ v <= fds'[p]
  <2>1. fds \in [Pids -> 0..MaxFd]
    BY DEF Typed, KernelType
  <2>2. /\ v # -1 => v = fds[p] + 1 /\ fds'[p] = fds[p] + 1
        /\ v = -1 => fds' = fds
    BY <1>1, <2>1, CreateType
  <2>3. fds[p] \in Nat
    BY FdFields
  <2> QED BY <2>2, <2>3
<1>6. \A q \in Pids : fds[q] <= fds'[q] /\ fds'[q] \in Int
  BY <1>1, FdsGrow
<1> HIDE DEF v
<1>7. HeldIn(held', fds') /\ AcceptDistinct'
  <2>1. CASE held'[p] = held[p]
    BY <1>2, <1>3, <1>6, <2>1, HeldStays
  <2>2. CASE held'[p] = Append(held[p], v)
    BY <1>2, <1>3, <1>4, <1>5, <1>6, <2>2, HeldGrows
  <2> QED BY <1>2, <2>1, <2>2
<1>8. \A j \in DOMAIN socklist : NodeHeld(socklist[j], held') /\ NodePlain(socklist[j])
  <2> SUFFICES ASSUME NEW j \in DOMAIN socklist PROVE NodeHeld(socklist[j], held') /\ NodePlain(socklist[j])
    OBVIOUS
  <2>1. socklist[j] \in SockNode /\ NodeHeld(socklist[j], held) /\ NodePlain(socklist[j])
    BY ListElements DEF HeldOK
  <2>2. socklist[j].owner \in Pids
    BY FdFields
  <2>3. socklist[j].owner = p /\ socklist[j].sockfd # -1 => socklist[j].sockfd # v
    BY <1>4
  <2> QED BY <1>2, <1>5, <2>1, <2>2, <2>3, NodeHeldStays
<1>9. ASSUME NEW j \in DOMAIN socklist'
      PROVE  NodeHeld(socklist'[j], held') /\ NodePlain(socklist'[j])
  <2>1. CASE socklist' = socklist
    BY <1>8, <1>9, <2>1
  <2>2. CASE CreatesOne(p)
    <3>1. PICK st \in FreshStatus :
            /\ FreshNode(p, Create(p, fds), st) \in SockNode
            /\ socklist' = <<FreshNode(p, Create(p, fds), st)>> \o socklist
      BY <2>2 DEF CreatesOne
    <3> DEFINE n == FreshNode(p, Create(p, fds), st)
    <3>2. n.dest = NoRemote /\ n.srcport = 0 /\ 0 \notin Ephemeral
      BY EndpointsAssumption DEF FreshNode
    <3>3. n \in SockNode /\ socklist' = <<n>> \o socklist
      BY <3>1
    <3> HIDE DEF n
    <3>4. \/ j = 1 /\ socklist'[j] = n
          \/ j - 1 \in DOMAIN socklist /\ socklist'[j] = socklist[j-1]
      BY <1>9, <3>3, ConsOthers
    <3>5. NodeHeld(n, held') /\ NodePlain(n)
      BY <3>2 DEF NodeHeld, NodePlain
    <3> QED BY <1>8, <3>4, <3>5
  <2>3. socklist' = socklist \/ CreatesOne(p)
    BY SocketTable
  <2> QED BY <2>1, <2>2, <2>3
<1> QED BY <1>7, <1>9 DEF HeldOK

LEMMA SyscallHeldOK ==
  ASSUME Typed, CallsOK, FdsOK, HeldOK, Orderly, NEW p \in Pids, Syscall(p)
  PROVE  HeldOK'
<1>1. CASE Socket(p)
  BY <1>1, SocketHeld
<1>2. CASE Accept(p) /\ Found(p) # 0
  BY <1>2, AcceptHeld
<1>3. CASE ~Socket(p) /\ ~(Accept(p) /\ Found(p) # 0)
  <2>1. \A q \in Pids : held'[q] = held[q]
    BY <1>3, SyscallHeld
  <2>2. fds' = fds /\ Next_(p).op # "socket"
    BY <1>3, SyscallLists
  <2>3. HeldIn(held', fds') /\ AcceptDistinct'
    <3>1. HeldIn(held, fds) /\ AcceptDistinct
      BY DEF HeldOK
    <3> QED BY <2>1, <2>2, <3>1, FdsGrow, HeldStays
  <2>4. \A n \in SockNode : NodeHeld(n, held) => NodeHeld(n, held')
    <3>1. \A n \in SockNode : n.owner \in Pids
      BY NodeFields DEF SockNode
    <3> QED BY <2>1, <3>1, NodeHeldStays
  <2>5. \A j \in DOMAIN socklist : /\ socklist[j] \in SockNode /\ NodeHeld(socklist[j], held)
                                   /\ NodePlain(socklist[j])
    BY ListElements DEF HeldOK
  <2>6. ASSUME NEW j \in DOMAIN socklist'
        PROVE  NodeHeld(socklist'[j], held') /\ NodePlain(socklist'[j])
    <3>1. CASE socklist' = socklist
      BY <2>4, <2>5, <2>6, <3>1
    <3>2. CASE ChangesOne(p) /\ socklist' # socklist
      <4>1. PICK i \in DOMAIN socklist, m \in SockNode :
              Changed(p, m, socklist[i]) /\ socklist' = [socklist EXCEPT ![i] = m]
        BY <3>2 DEF ChangesOne
      <4>2. NodeHeld(m, held) /\ NodePlain(m)
        BY <2>2, <2>5, <3>2, <4>1, ChangedHeld
      <4>3. j \in DOMAIN socklist /\ socklist'[j] = IF j = i THEN m ELSE socklist[j]
        BY <2>6, <4>1
      <4> QED BY <2>4, <2>5, <4>1, <4>2, <4>3
    <3>3. ~CreatesOne(p)
      BY <2>2 DEF CreatesOne
    <3> QED BY <3>1, <3>2, <3>3, SyscallTable
  <2> QED BY <2>3, <2>6 DEF HeldOK
<1> QED BY <1>1, <1>2, <1>3

LEMMA ArrivalHeldOK ==
  ASSUME Typed, CallsOK, UsesOK, FdsOK, HeldOK, NEW c \in Conns, packetArrived(c)
  PROVE  HeldOK'
<1> DEFINE m == Head(toHost[c])
           sl == IF Ack(c) THEN Completed(c, m).sl ELSE socklist
           o == NewOwner(c)
           v == NewFd(c)
           gives == Ack(c) /\ HalfOpen(c) # 0 /\ accept_queue # <<>>
<1>1. m \in ShortSegments
  BY HalfLists
<1>2. \A q \in Pids : held'[q] = held[q] \/ (gives /\ q = o /\ held'[q] = Append(held[q], v))
  BY ArrivalHeld
<1>3. HeldIn(held, fds) /\ AcceptDistinct
  BY DEF HeldOK
<1>4. HalfOpen(c) # 0 => /\ o \in Pids /\ v = Create(o, fds) /\ v \in Int
  <2>1. HalfOpen(c) # 0 => o \in Pids
    BY <1>1, NewSocketType
  <2>2. v = Create(o, fds)
    BY DEF NewFd
  <2>3. fds \in [Pids -> 0..MaxFd]
    BY DEF Typed, KernelType
  <2> HIDE DEF o, v
  <2> QED BY <2>1, <2>2, <2>3, CreateType
<1>5. fds' = fds \/ (Ack(c) /\ HalfOpen(c) # 0 /\ fds' = Grow(o, fds))
  BY HalfLists
<1>6. Ack(c) /\ HalfOpen(c) # 0 => fds' = Grow(o, fds)
  BY <1>1, AckCases, CompletedCases
<1>7. HalfOpen(c) # 0 /\ v # -1 =>
        /\ \A i \in DOMAIN held[o] : held[o][i] # v
        /\ \A i \in DOMAIN socklist : socklist[i].owner = o => socklist[i].sockfd # v
  <2> HIDE DEF o, v
  <2> QED BY <1>3, <1>4, NextFdNew
<1>8. \A q \in Pids : fds[q] <= fds'[q] /\ fds'[q] \in Int
  <2>1. CASE fds' = fds
    <3>1. \A q \in Pids : fds[q] \in Int
      BY FdFields
    <3> QED BY <2>1, <3>1
  <2>2. CASE HalfOpen(c) # 0 /\ fds' = Grow(o, fds)
    <3> HIDE DEF o
    <3> QED BY <1>4, <2>2, FdsGrow
  <2> QED BY <1>5, <2>1, <2>2
<1>9. gives => v <= fds'[o]
  <2> SUFFICES ASSUME gives PROVE v <= fds'[o]
    OBVIOUS
  <2>1. o \in Pids /\ v = Create(o, fds) /\ fds' = Grow(o, fds) /\ v \in Int
    BY <1>4, <1>6
  <2>2. fds \in [Pids -> 0..MaxFd]
    BY DEF Typed, KernelType
  <2> HIDE DEF o, v
  <2>3. /\ v # -1 => v = fds[o] + 1 /\ fds'[o] = fds[o] + 1
        /\ v = -1 => fds' = fds
    BY <2>1, <2>2, CreateType
  <2>4. fds[o] \in Nat
    BY <2>1, FdFields
  <2> QED BY <2>1, <2>3, <2>4
<1> HIDE DEF o, v
<1>10. HeldIn(held', fds') /\ AcceptDistinct'
  <2>1. CASE \A q \in Pids : held'[q] = held[q]
    BY <1>3, <1>8, <2>1, HeldStays
  <2>2. CASE gives /\ held'[o] = Append(held[o], v) /\ \A q \in Pids : q # o => held'[q] = held[q]
    BY <1>3, <1>4, <1>7, <1>8, <1>9, <2>2, HeldGrows
  <2> QED BY <1>2, <2>1, <2>2
<1>11. \A j \in DOMAIN socklist : NodeHeld(socklist[j], held') /\ NodePlain(socklist[j])
  <2> SUFFICES ASSUME NEW j \in DOMAIN socklist PROVE NodeHeld(socklist[j], held') /\ NodePlain(socklist[j])
    OBVIOUS
  <2>1. socklist[j] \in SockNode /\ NodeHeld(socklist[j], held) /\ NodePlain(socklist[j])
    BY ListElements DEF HeldOK
  <2>2. socklist[j].owner \in Pids
    BY FdFields
  <2>3. HalfOpen(c) # 0 /\ socklist[j].owner = o /\ socklist[j].sockfd # -1 => socklist[j].sockfd # v
    BY <1>7
  <2>4. \/ held'[socklist[j].owner] = held[socklist[j].owner]
        \/ /\ HalfOpen(c) # 0 /\ socklist[j].owner = o
           /\ held'[socklist[j].owner] = Append(held[socklist[j].owner], v)
    BY <1>2, <2>2
  <2> QED BY <1>4, <2>1, <2>3, <2>4, NodeHeldStays
<1>12. \A k \in DOMAIN sl : NodeHeld(sl[k], held') /\ NodePlain(sl[k])
  <2>1. CASE ~(Ack(c) /\ NewlyOpen(c))
    <3>1. sl = socklist
      BY <1>1, <2>1, CompletedTable
    <3> QED BY <1>11, <3>1
  <2>2. CASE Ack(c) /\ NewlyOpen(c)
    <3> DEFINE n == NewSocket(c, m)
    <3>1. /\ HalfOpen(c) # 0 /\ sl[1] = n
          /\ \A k \in DOMAIN sl : k = 1 \/ (k-1 \in DOMAIN socklist /\ sl[k] = socklist[k-1])
      BY <1>1, <2>2, CompletedTable
    <3>2. /\ n.owner = o /\ n.sockfd = v /\ n.status = "ESTAB" /\ n.dest = Entry(c).dest
          /\ n.used = (Entry(c).used \/ accept_queue # <<>>)
      BY <1>1, <3>1, NewSocketType DEF o, v
    <3>3. Entry(c).dest \in Remotes /\ NoRemote \notin Remotes
      BY <3>1, HalfOpenLookup, EndpointsAssumption DEF Entry, HalfNode
    <3> HIDE DEF n, sl, gives
    <3>4. NodePlain(n)
      BY <3>2, <3>3 DEF NodePlain
    <3>5. ~n.used => ~gives
      BY <3>2 DEF gives
    <3>6. o \in Pids
      BY <1>4, <3>1
    <3>7. NodeHeld(n, held')
      BY <1>2, <1>7, <3>1, <3>2, <3>5, <3>6 DEF NodeHeld
    <3> QED BY <1>11, <3>1, <3>4, <3>7
  <2> QED BY <2>1, <2>2
<1>13. ComesFrom(socklist', sl)
  BY ArrivalTable
<1> HIDE DEF sl
<1>14. ASSUME NEW j \in DOMAIN socklist'
       PROVE  NodeHeld(socklist'[j], held') /\ NodePlain(socklist'[j])
  <2>1. PICK k \in DOMAIN sl : Evolves(socklist'[j], sl[k])
    BY <1>13, <1>14 DEF ComesFrom
  <2>2. NodeHeld(sl[k], held') /\ NodePlain(sl[k])
    BY <1>12
  <2>3. NodeHeld(socklist'[j], held')
    BY <2>1, <2>2 DEF NodeHeld, Evolves, SameSocket
  <2>4. NodePlain(socklist'[j])
    BY <2>1, <2>2 DEF NodePlain, Evolves, SameSocket
  <2> QED BY <2>3, <2>4
<1> QED BY <1>10, <1>14 DEF HeldOK

LEMMA NextHeld ==
  Typed /\ CallsOK /\ UsesOK /\ FdsOK /\ HeldOK /\ Orderly /\ [Next]_vars => HeldOK'
<1> SUFFICES ASSUME Typed, CallsOK, UsesOK, FdsOK, HeldOK, Orderly, [Next]_vars PROVE HeldOK'
  OBVIOUS
<1>1. ASSUME UNCHANGED <<kernel, held>> PROVE HeldOK'
  BY <1>1 DEF HeldOK, HeldIn, AcceptDistinct, NodeHeld, NodePlain, kernel
<1>2. ASSUME NEW c \in Conns, Remote(c) PROVE UNCHANGED <<kernel, held>>
  BY <1>2 DEF Remote, PeerOpen, PeerRetry, PeerSend, PeerClose, PeerReceive, apps
<1>3. UNCHANGED vars => UNCHANGED <<kernel, held>>
  BY DEF vars, apps
<1> QED BY <1>1, <1>2, <1>3, SyscallHeldOK, ArrivalHeldOK DEF Next

LEMMA InitHeld == Init => HeldOK
BY MaxFdAssumption DEF Init, HeldOK, HeldIn, AcceptDistinct

\* No two calls of a process that keeps to the contract are answered with the
\* same descriptor, whether it comes from socket, from an accept that finds a
\* connection, or from the ACK that finds the accept waiting; and a connection
\* that waits in the table has a descriptor that nobody has been given.
THEOREM TcpAcceptDistinct == Spec /\ []Orderly => []AcceptDistinct
<1> DEFINE Inv == Typed /\ CallsOK /\ UsesOK /\ FdsOK /\ HeldOK
<1>1. Init => Inv
  BY InitTyped, InitCalls, InitUses, InitFds, InitHeld
<1>2. Inv /\ Orderly /\ [Next]_vars => Inv'
  BY NextTyped, NextCalls, NextUses, NextFds, NextHeld
<1>3. Inv => AcceptDistinct
  BY DEF HeldOK
<1> QED BY <1>1, <1>2, <1>3, PTL DEF Spec
=============================================================================

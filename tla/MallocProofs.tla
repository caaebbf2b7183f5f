---------------------------- MODULE MallocProofs ----------------------------
(***************************************************************************)
(* The allocator of mm.c keeps its heap tiled and its lists exact, and     *)
(* implements the driver's range list, for any requests, size limits of    *)
(* the lists and size of the heap.                                         *)
(***************************************************************************)
EXTENDS Malloc, TLAPS

-----------------------------------------------------------------------------
(* The fields of a heap.                                                   *)

Shape(h) == DOMAIN h = {"end", "head", "foot", "flist", "zero", "state"}

Out(h, x, y) == DOMAIN h.head \ (x..(y - 1))
FOut(h, x, y) == DOMAIN h.foot \ (x..(y - 1))

\* Outside the units x..y-1, of which nothing is said, the tags tile the heap.
TilesBut(h, x, y) ==
  /\ x \in Nat /\ y \in Nat /\ h.end \in Nat /\ x <= y /\ y <= h.end
  /\ \A b \in Out(h, x, y) :
       /\ b \in Nat /\ h.head[b].size \in Nat \ {0}
       /\ h.head[b] = Tag(h.head[b].size, h.head[b].alloc)
       /\ h.head[b].alloc \in BOOLEAN
       /\ b + h.head[b].size <= x \/ b >= y
       /\ b + h.head[b].size \in Out(h, x, y) \cup {x, h.end}
       /\ \A c \in Out(h, x, y) : b < c => b + h.head[b].size <= c
       /\ b + h.head[b].size - 1 \in FOut(h, x, y)
       /\ h.foot[b + h.head[b].size - 1] = h.head[b]
       /\ b = 0 \/ b = y \/ b - 1 \in FOut(h, x, y)
       /\ b + h.head[b].size <= h.end
  /\ \A f \in FOut(h, x, y) :
       \E b \in Out(h, x, y) : f = b + h.head[b].size - 1
  /\ y \in Out(h, x, y) \cup {h.end}
  /\ x = 0 \/ x - 1 \in FOut(h, x, y)
  /\ h.end = y \/ h.end - 1 \in FOut(h, x, y)
  /\ x = 0 \/ 0 \in Out(h, x, y)

Tiles(h) == TilesBut(h, h.end, h.end)

\* What Mark writes and what it leaves alone.
LEMMA MarkFields ==
  ASSUME NEW h, Shape(h), NEW b, NEW n, NEW a
  PROVE  /\ Shape(Mark(h, b, n, a))
         /\ Mark(h, b, n, a).end = h.end
         /\ Mark(h, b, n, a).flist = h.flist
         /\ Mark(h, b, n, a).state = h.state
         /\ Mark(h, b, n, a).zero = h.zero
         /\ DOMAIN Mark(h, b, n, a).head = (DOMAIN h.head \ (b..(b + n - 1))) \cup {b}
         /\ DOMAIN Mark(h, b, n, a).foot = (DOMAIN h.foot \ (b..(b + n - 1))) \cup {b + n - 1}
         /\ Mark(h, b, n, a).head[b] = Tag(n, a)
         /\ \A x \in DOMAIN h.head \ (b..(b + n - 1)) :
              x # b => Mark(h, b, n, a).head[x] = h.head[x]
         /\ Mark(h, b, n, a).foot[b + n - 1] = Tag(n, a)
         /\ \A x \in DOMAIN h.foot \ (b..(b + n - 1)) :
              x # b + n - 1 => Mark(h, b, n, a).foot[x] = h.foot[x]
<1> DEFINE hd2 == Retag(h.head, b, n, b, Tag(n, a))
           ft2 == Retag(h.foot, b, n, b + n - 1, Tag(n, a))
<1>1. /\ Shape(Mark(h, b, n, a))
      /\ Mark(h, b, n, a).end = h.end
      /\ Mark(h, b, n, a).flist = h.flist
      /\ Mark(h, b, n, a).state = h.state
      /\ Mark(h, b, n, a).zero = h.zero
      /\ Mark(h, b, n, a).head = hd2
      /\ Mark(h, b, n, a).foot = ft2
  <2> HIDE DEF hd2, ft2
  <2>1. Mark(h, b, n, a) = [h EXCEPT !.head = hd2, !.foot = ft2]
    BY DEF Mark, hd2, ft2
  <2> QED BY <2>1 DEF Shape
<1>2. /\ DOMAIN hd2 = (DOMAIN h.head \ (b..(b + n - 1))) \cup {b}
      /\ \A u \in DOMAIN hd2 : hd2[u] = IF u = b THEN Tag(n, a) ELSE h.head[u]
      /\ DOMAIN ft2 = (DOMAIN h.foot \ (b..(b + n - 1))) \cup {b + n - 1}
      /\ \A u \in DOMAIN ft2 : ft2[u] = IF u = b + n - 1 THEN Tag(n, a) ELSE h.foot[u]
  BY DEF Retag
<1> HIDE DEF hd2, ft2
<1> QED BY <1>1, <1>2

\* Mark puts a block at the start of the gap and leaves the rest of it.
LEMMA MarkTiles ==
  ASSUME NEW h, Shape(h), NEW x, NEW y, TilesBut(h, x, y),
         NEW n \in Nat \ {0}, x + n <= y, NEW a \in BOOLEAN
  PROVE  /\ TilesBut(Mark(h, x, n, a), x + n, y)
         /\ Out(Mark(h, x, n, a), x + n, y) = Out(h, x, y) \cup {x}
         /\ \A b \in Out(h, x, y) : Mark(h, x, n, a).head[b] = h.head[b]
<1> DEFINE m == Mark(h, x, n, a)
<1>0. /\ x \in Nat /\ y \in Nat /\ h.end \in Nat /\ x <= y /\ y <= h.end
  BY DEF TilesBut
<1>1. Out(m, x + n, y) = Out(h, x, y) \cup {x}
  BY <1>0, MarkFields DEF Out
<1>2. FOut(m, x + n, y) = FOut(h, x, y) \cup {x + n - 1}
  BY <1>0, MarkFields DEF FOut
<1>3. \A b \in Out(h, x, y) : b # x /\ m.head[b] = h.head[b]
  BY <1>0, MarkFields DEF Out, TilesBut
<1>4. \A f \in FOut(h, x, y) : f # x + n - 1 /\ m.foot[f] = h.foot[f]
  BY <1>0, MarkFields DEF FOut, TilesBut
<1>5. m.end = h.end /\ m.head[x] = Tag(n, a) /\ m.foot[x + n - 1] = Tag(n, a)
  BY MarkFields
<1>6. Tag(n, a).size = n /\ Tag(n, a).alloc = a
  BY DEF Tag
<1> HIDE DEF m
<1>7. TilesBut(m, x + n, y)
  <2>1. ASSUME NEW b \in Out(h, x, y)
        PROVE  /\ b \in Nat /\ m.head[b].size \in Nat \ {0}
               /\ m.head[b] = Tag(m.head[b].size, m.head[b].alloc)
               /\ m.head[b].alloc \in BOOLEAN
               /\ b + m.head[b].size <= x + n \/ b >= y
               /\ b + m.head[b].size \in Out(m, x + n, y) \cup {x + n, m.end}
               /\ \A c \in Out(m, x + n, y) : b < c => b + m.head[b].size <= c
               /\ b + m.head[b].size - 1 \in FOut(m, x + n, y)
               /\ m.foot[b + m.head[b].size - 1] = m.head[b]
               /\ b = 0 \/ b = y \/ b - 1 \in FOut(m, x + n, y)
               /\ b + m.head[b].size <= m.end
    <3>0. m.head[b] = h.head[b]
      BY <1>3
    <3>1. /\ b \in Nat /\ h.head[b].size \in Nat \ {0}
          /\ h.head[b] = Tag(h.head[b].size, h.head[b].alloc)
          /\ h.head[b].alloc \in BOOLEAN
          /\ b + h.head[b].size <= x \/ b >= y
          /\ b + h.head[b].size \in Out(h, x, y) \cup {x, h.end}
          /\ \A c \in Out(h, x, y) : b < c => b + h.head[b].size <= c
          /\ b + h.head[b].size - 1 \in FOut(h, x, y)
          /\ h.foot[b + h.head[b].size - 1] = h.head[b]
          /\ b = 0 \/ b = y \/ b - 1 \in FOut(h, x, y)
          /\ b + h.head[b].size <= h.end
      BY DEF TilesBut
    <3> QED BY <3>0, <3>1, <1>0, <1>1, <1>2, <1>4, <1>5
  <2>2. /\ x \in Nat /\ m.head[x].size \in Nat \ {0}
        /\ m.head[x] = Tag(m.head[x].size, m.head[x].alloc)
        /\ m.head[x].alloc \in BOOLEAN
        /\ x + m.head[x].size <= x + n \/ x >= y
        /\ x + m.head[x].size \in Out(m, x + n, y) \cup {x + n, m.end}
        /\ \A c \in Out(m, x + n, y) : x < c => x + m.head[x].size <= c
        /\ x + m.head[x].size - 1 \in FOut(m, x + n, y)
        /\ m.foot[x + m.head[x].size - 1] = m.head[x]
        /\ x = 0 \/ x = y \/ x - 1 \in FOut(m, x + n, y)
        /\ x + m.head[x].size <= m.end
    <3>1. \A c \in Out(h, x, y) : x < c => x + n <= c
      BY <1>0 DEF TilesBut
    <3>2. x = 0 \/ x - 1 \in FOut(h, x, y)
      BY DEF TilesBut
    <3> QED BY <3>1, <3>2, <1>0, <1>1, <1>2, <1>5, <1>6
  <2>3. \A f \in FOut(m, x + n, y) :
          \E b \in Out(m, x + n, y) : f = b + m.head[b].size - 1
    <3>1. \A f \in FOut(h, x, y) : \E b \in Out(h, x, y) : f = b + h.head[b].size - 1
      BY DEF TilesBut
    <3> QED BY <3>1, <1>0, <1>1, <1>2, <1>3, <1>5, <1>6
  <2>4. /\ y \in Out(m, x + n, y) \cup {m.end}
        /\ x + n = 0 \/ x + n - 1 \in FOut(m, x + n, y)
        /\ m.end = y \/ m.end - 1 \in FOut(m, x + n, y)
        /\ x + n = 0 \/ 0 \in Out(m, x + n, y)
    BY <1>0, <1>1, <1>2, <1>5 DEF TilesBut
  <2>5. x + n \in Nat /\ y \in Nat /\ m.end \in Nat /\ x + n <= y /\ y <= m.end
    BY <1>0, <1>5
  <2>6. \A b \in Out(m, x + n, y) : b \in Out(h, x, y) \/ b = x
    BY <1>1
  <2> QED BY <2>1, <2>2, <2>3, <2>4, <2>5, <2>6 DEF TilesBut
<1> QED BY <1>1, <1>3, <1>7 DEF m

\* A gap closed is no gap.
LEMMA ClosedTiles ==
  ASSUME NEW h, NEW y, y > 0, TilesBut(h, y, y)
  PROVE  /\ Tiles(h) /\ Out(h, y, y) = DOMAIN h.head
<1>0. y \in Nat /\ h.end \in Nat /\ y <= h.end
  BY DEF TilesBut
<1>1. /\ Out(h, y, y) = DOMAIN h.head /\ Out(h, h.end, h.end) = DOMAIN h.head
      /\ FOut(h, y, y) = DOMAIN h.foot /\ FOut(h, h.end, h.end) = DOMAIN h.foot
  BY <1>0 DEF Out, FOut
<1> QED BY <1>0, <1>1 DEF TilesBut, Tiles

\* What Tiles says of the blocks.
LEMMA TilesBlocks ==
  ASSUME NEW h, Tiles(h)
  PROVE  /\ h.end \in Nat /\ Out(h, h.end, h.end) = DOMAIN h.head
         /\ \A b \in DOMAIN h.head :
              /\ b \in Nat /\ h.head[b].size \in Nat \ {0}
              /\ h.head[b] = Tag(h.head[b].size, h.head[b].alloc)
              /\ h.head[b].alloc \in BOOLEAN
              /\ b + h.head[b].size \in DOMAIN h.head \cup {h.end}
              /\ \A c \in DOMAIN h.head : b < c => b + h.head[b].size <= c
              /\ b + h.head[b].size - 1 \in DOMAIN h.foot
              /\ h.foot[b + h.head[b].size - 1] = h.head[b]
              /\ b = 0 \/ b - 1 \in DOMAIN h.foot
              /\ b + h.head[b].size <= h.end /\ b < h.end
         /\ \A f \in DOMAIN h.foot : \E b \in DOMAIN h.head : f = b + h.head[b].size - 1
         /\ h.end = 0 \/ (h.end - 1 \in DOMAIN h.foot /\ 0 \in DOMAIN h.head)
<1>0. h.end \in Nat
  BY DEF Tiles, TilesBut
<1>1. Out(h, h.end, h.end) = DOMAIN h.head /\ FOut(h, h.end, h.end) = DOMAIN h.foot
  BY <1>0 DEF Out, FOut
<1> DEFINE D == DOMAIN h.head
           F == DOMAIN h.foot
<1> HIDE DEF D, F
<1>2. ASSUME NEW b \in D
      PROVE  /\ b \in Nat /\ h.head[b].size \in Nat \ {0}
             /\ h.head[b] = Tag(h.head[b].size, h.head[b].alloc)
             /\ h.head[b].alloc \in BOOLEAN
             /\ b + h.head[b].size \in D \cup {h.end}
             /\ \A c \in D : b < c => b + h.head[b].size <= c
             /\ b + h.head[b].size - 1 \in F
             /\ h.foot[b + h.head[b].size - 1] = h.head[b]
             /\ b = 0 \/ b = h.end \/ b - 1 \in F
             /\ b + h.head[b].size <= h.end
  BY <1>0, <1>1 DEF TilesBut, Tiles, D, F
<1>3. \A b \in D : b < h.end /\ b # h.end
  BY <1>0, <1>2
<1>4. \A f \in F : \E b \in D : f = b + h.head[b].size - 1
  BY <1>0, <1>1 DEF TilesBut, Tiles, D, F
<1>5. h.end = 0 \/ (h.end - 1 \in F /\ 0 \in D)
  BY <1>0, <1>1 DEF TilesBut, Tiles, D, F
<1> QED BY <1>0, <1>1, <1>2, <1>3, <1>4, <1>5 DEF D, F

\* A gap may be opened from one boundary to another.
LEMMA GapTiles ==
  ASSUME NEW h, Tiles(h), NEW x \in DOMAIN h.head, NEW y \in DOMAIN h.head \cup {h.end}, x < y
  PROVE  TilesBut(h, x, y)
<1> DEFINE D == DOMAIN h.head
           F == DOMAIN h.foot
           O == Out(h, x, y)
           P == FOut(h, x, y)
<1>1. /\ h.end \in Nat /\ x \in Nat /\ y \in Nat /\ x <= y /\ y <= h.end
  BY TilesBlocks
<1>2. ASSUME NEW b \in D
      PROVE  /\ b \in Nat /\ h.head[b].size \in Nat \ {0}
             /\ h.head[b] = Tag(h.head[b].size, h.head[b].alloc)
             /\ h.head[b].alloc \in BOOLEAN
             /\ b + h.head[b].size \in D \cup {h.end}
             /\ \A c \in D : b < c => b + h.head[b].size <= c
             /\ b + h.head[b].size - 1 \in F
             /\ h.foot[b + h.head[b].size - 1] = h.head[b]
             /\ b = 0 \/ b - 1 \in F
             /\ b + h.head[b].size <= h.end
  BY TilesBlocks
<1>3. \A b \in D : b \in O <=> (b < x \/ b >= y)
  <2>1. \A b \in D : b \in Int
    BY <1>2
  <2> QED BY <1>1, <2>1 DEF Out
<1>4. \A f \in F : f \in Int => (f \in P <=> f < x \/ f >= y)
  BY <1>1 DEF FOut
<1>5. O \subseteq D /\ P \subseteq F
  BY DEF Out, FOut
<1>6. \A b \in D : b < x => b + h.head[b].size <= x
  BY <1>2
<1>7. \A b \in D : b < y => b + h.head[b].size <= y
  BY <1>1, <1>2
<1>8. \A f \in F : \E b \in D : f = b + h.head[b].size - 1
  BY TilesBlocks
<1>9. h.end = 0 \/ (h.end - 1 \in F /\ 0 \in D)
  BY TilesBlocks
<1> HIDE DEF D, F, O, P
<1>10. ASSUME NEW b \in O
       PROVE  /\ b \in Nat /\ h.head[b].size \in Nat \ {0}
              /\ h.head[b] = Tag(h.head[b].size, h.head[b].alloc)
              /\ h.head[b].alloc \in BOOLEAN
              /\ b + h.head[b].size <= x \/ b >= y
              /\ b + h.head[b].size \in O \cup {x, h.end}
              /\ \A c \in O : b < c => b + h.head[b].size <= c
              /\ b + h.head[b].size - 1 \in P
              /\ h.foot[b + h.head[b].size - 1] = h.head[b]
              /\ b = 0 \/ b = y \/ b - 1 \in P
              /\ b + h.head[b].size <= h.end
  <2>1. b \in D /\ (b < x \/ b >= y)
    BY <1>3, <1>5
  <2>2. b + h.head[b].size <= x \/ b >= y
    BY <2>1, <1>6
  <2>3. b + h.head[b].size \in O \cup {x, h.end}
    BY <2>1, <2>2, <1>1, <1>2, <1>3
  <2>4. b + h.head[b].size - 1 \in P
    BY <2>1, <2>2, <1>1, <1>2, <1>4
  <2>5. b = 0 \/ b = y \/ b - 1 \in P
    BY <2>1, <1>1, <1>2, <1>4
  <2> QED BY <2>1, <2>2, <2>3, <2>4, <2>5, <1>2, <1>5
<1>11. \A f \in P : \E b \in O : f = b + h.head[b].size - 1
  BY <1>1, <1>2, <1>3, <1>4, <1>5, <1>7, <1>8
<1>12. y \in O \cup {h.end}
  BY <1>1, <1>3 DEF D
<1>13. x = 0 \/ x - 1 \in P
  BY <1>1, <1>2, <1>4 DEF D
<1>14. h.end = y \/ h.end - 1 \in P
  BY <1>1, <1>4, <1>9
<1>15. x = 0 \/ 0 \in O
  BY <1>1, <1>3, <1>9
<1> QED BY <1>1, <1>10, <1>11, <1>12, <1>13, <1>14, <1>15 DEF TilesBut, O, P

-----------------------------------------------------------------------------
(* The lists.                                                              *)

ClassOf(h, b) == fg(h.head[b].size - 1)

\* The lists hold the blocks of F, each once and on the list of its size.
ListsHold(h, F) ==
  /\ h.flist \in [Classes -> Seq(Int)]
  /\ \A c \in Classes : \A i \in 1..Len(h.flist[c]) :
       /\ h.flist[c][i] \in F
       /\ c = ClassOf(h, h.flist[c][i])
       /\ \A j \in 1..Len(h.flist[c]) : h.flist[c][j] = h.flist[c][i] => j = i
  /\ \A b \in F : /\ ClassOf(h, b) \in Classes
                  /\ \E i \in 1..Len(h.flist[ClassOf(h, b)]) :
                       h.flist[ClassOf(h, b)][i] = b

\* Without takes one entry out.
LEMMA WithoutProperties ==
  ASSUME NEW s \in Seq(Int), NEW k \in 1..Len(s),
         \A i, j \in 1..Len(s) : s[i] = s[j] => i = j
  PROVE  /\ Without(s, s[k]) \in Seq(Int)
         /\ Len(Without(s, s[k])) = Len(s) - 1
         /\ \A i \in 1..Len(Without(s, s[k])) :
              Without(s, s[k])[i] = s[IF i < k THEN i ELSE i + 1]
<1>1. (CHOOSE i \in 1..Len(s) : s[i] = s[k]) = k
  OBVIOUS
<1>2. Without(s, s[k]) = [j \in 1..(Len(s) - 1) |-> IF j < k THEN s[j] ELSE s[j + 1]]
  BY <1>1 DEF Without
<1>3. Len(s) - 1 \in Nat /\ \A j \in 1..(Len(s) - 1) : (IF j < k THEN s[j] ELSE s[j + 1]) \in Int
  OBVIOUS
<1>4. Without(s, s[k]) \in [1..(Len(s) - 1) -> Int]
  BY <1>2, <1>3
<1>5. Without(s, s[k]) \in Seq(Int) /\ Len(Without(s, s[k])) = Len(s) - 1
  BY <1>3, <1>4, SMTT(30)
<1> QED BY <1>2, <1>5

\* Only the lists change in delete.
LEMMA DeleteFields ==
  ASSUME NEW h, Shape(h), NEW c, NEW b
  PROVE  /\ Shape(delete(h, c, b))
         /\ delete(h, c, b).end = h.end /\ delete(h, c, b).zero = h.zero
         /\ delete(h, c, b).head = h.head /\ delete(h, c, b).foot = h.foot
         /\ delete(h, c, b).state = h.state \/ delete(h, c, b).state = "lost"
<1>1. CASE h.flist[c] = <<>>
  BY <1>1 DEF delete
<1>2. CASE h.flist[c] # <<>> /\ b \in Listed(h, c)
  <2>1. delete(h, c, b) = [h EXCEPT !.flist[c] = Without(@, b)]
    BY <1>2 DEF delete
  <2> QED BY <2>1 DEF Shape
<1>3. CASE h.flist[c] # <<>> /\ b \notin Listed(h, c) /\ LinksNull(h, b)
  <2>1. delete(h, c, b) = [h EXCEPT !.flist[c] = <<>>]
    BY <1>3 DEF delete
  <2> QED BY <2>1 DEF Shape
<1>4. CASE h.flist[c] # <<>> /\ b \notin Listed(h, c) /\ ~LinksNull(h, b)
  <2>1. delete(h, c, b) = [h EXCEPT !.state = "lost"]
    BY <1>4 DEF delete
  <2> QED BY <2>1 DEF Shape
<1> QED BY <1>1, <1>2, <1>3, <1>4

LEMMA DelistFields ==
  ASSUME NEW h, Shape(h), NEW b
  PROVE  /\ Shape(dellist(h, b))
         /\ dellist(h, b).end = h.end /\ dellist(h, b).zero = h.zero
         /\ dellist(h, b).head = h.head /\ dellist(h, b).foot = h.foot
         /\ dellist(h, b).state = h.state \/ dellist(h, b).state = "lost"
<1> DEFINE c == fg(h.head[b].size - 1)
<1>1. dellist(h, b) = delete(h, c, b)
  BY DEF dellist
<1> HIDE DEF c
<1> QED BY <1>1, DeleteFields

\* A listed block is taken off its list.
LEMMA DelistHolds ==
  ASSUME NEW h, Shape(h), NEW F, ListsHold(h, F), NEW b \in F
  PROVE  ListsHold(dellist(h, b), F \ {b}) /\ dellist(h, b).state = h.state
<1> DEFINE c == ClassOf(h, b)
           d == dellist(h, b)
<1>1. c \in Classes
  BY DEF ListsHold
<1>2. PICK k \in 1..Len(h.flist[c]) : h.flist[c][k] = b
  BY DEF ListsHold
<1>3. h.flist[c] \in Seq(Int) /\ h.flist \in [Classes -> Seq(Int)]
  BY <1>1 DEF ListsHold
<1>4. h.flist[c] # <<>> /\ b \in Listed(h, c)
  BY <1>2, <1>3 DEF Listed
<1>5. d = [h EXCEPT !.flist[c] = Without(@, b)]
  BY <1>4 DEF dellist, delete, ClassOf
<1>6. /\ d.flist = [h.flist EXCEPT ![c] = Without(h.flist[c], b)]
      /\ d.head = h.head /\ d.state = h.state
  BY <1>5 DEF Shape
<1>7. \A i, j \in 1..Len(h.flist[c]) : h.flist[c][i] = h.flist[c][j] => i = j
  BY <1>1 DEF ListsHold
<1> DEFINE s == h.flist[c]
           w == Without(h.flist[c], b)
<1>8. /\ w \in Seq(Int) /\ Len(w) = Len(s) - 1
      /\ \A i \in 1..Len(w) : w[i] = s[IF i < k THEN i ELSE i + 1]
  <2>1. s \in Seq(Int) /\ k \in 1..Len(s) /\ b = s[k]
    BY <1>2, <1>3
  <2>2. \A i, j \in 1..Len(s) : s[i] = s[j] => i = j
    BY <1>7
  <2> HIDE DEF s
  <2>3. /\ Without(s, s[k]) \in Seq(Int)
        /\ Len(Without(s, s[k])) = Len(s) - 1
        /\ \A i \in 1..Len(Without(s, s[k])) :
             Without(s, s[k])[i] = s[IF i < k THEN i ELSE i + 1]
    BY <2>1, <2>2, WithoutProperties
  <2> QED BY <2>1, <2>3 DEF s
<1>9. /\ d.flist \in [Classes -> Seq(Int)] /\ d.flist[c] = w
      /\ \A e \in Classes : e # c => d.flist[e] = h.flist[e]
  BY <1>1, <1>3, <1>6, <1>8
<1>10. \A x : ClassOf(d, x) = ClassOf(h, x)
  BY <1>6 DEF ClassOf
<1> HIDE DEF c, d, w
<1>11. \A e \in Classes : \A i \in 1..Len(d.flist[e]) :
         /\ d.flist[e][i] \in F \ {b}
         /\ e = ClassOf(d, d.flist[e][i])
         /\ \A j \in 1..Len(d.flist[e]) : d.flist[e][j] = d.flist[e][i] => j = i
  <2> SUFFICES ASSUME NEW e \in Classes, NEW i \in 1..Len(d.flist[e])
               PROVE  /\ d.flist[e][i] \in F \ {b}
                      /\ e = ClassOf(d, d.flist[e][i])
                      /\ \A j \in 1..Len(d.flist[e]) : d.flist[e][j] = d.flist[e][i] => j = i
    OBVIOUS
  <2>1. CASE e # c
    <3>1. d.flist[e] = h.flist[e]
      BY <1>9, <2>1
    <3>2. h.flist[e][i] # b
      BY <2>1, <3>1 DEF ListsHold, c
    <3> QED BY <3>1, <3>2, <1>10 DEF ListsHold
  <2>2. CASE e = c
    <3>1. d.flist[e] = w
      BY <1>9, <2>2
    <3>2. \A j \in 1..Len(w) : /\ (IF j < k THEN j ELSE j + 1) \in 1..Len(s)
                               /\ (IF j < k THEN j ELSE j + 1) # k
      BY <1>2, <1>3, <1>8
    <3>3. s[IF i < k THEN i ELSE i + 1] \in F /\ c = ClassOf(h, s[IF i < k THEN i ELSE i + 1])
      BY <1>1, <3>1, <3>2 DEF ListsHold
    <3>4. w[i] # b
      BY <1>2, <1>7, <1>8, <3>1, <3>2
    <3>5. \A j \in 1..Len(w) : w[j] = w[i] => j = i
      <4> SUFFICES ASSUME NEW j \in 1..Len(w), w[j] = w[i] PROVE j = i
        OBVIOUS
      <4>1. (IF j < k THEN j ELSE j + 1) = (IF i < k THEN i ELSE i + 1)
        BY <1>7, <1>8, <3>1, <3>2
      <4>2. i \in Int /\ j \in Int /\ k \in Int
        BY <1>2, <3>1
      <4> QED BY <4>1, <4>2
    <3> QED BY <2>2, <3>1, <3>3, <3>4, <3>5, <1>8, <1>10
  <2> QED BY <2>1, <2>2
<1>12. ASSUME NEW x \in F \ {b}
       PROVE  /\ ClassOf(d, x) \in Classes
              /\ \E i \in 1..Len(d.flist[ClassOf(d, x)]) : d.flist[ClassOf(d, x)][i] = x
  <2>1. PICK i \in 1..Len(h.flist[ClassOf(h, x)]) : h.flist[ClassOf(h, x)][i] = x
    BY DEF ListsHold
  <2>2. ClassOf(h, x) \in Classes
    BY DEF ListsHold
  <2>3. CASE ClassOf(h, x) # c
    BY <2>1, <2>2, <2>3, <1>9, <1>10
  <2>4. CASE ClassOf(h, x) = c
    <3>1. i # k
      BY <1>2, <2>1, <2>4
    <3>2. (IF i < k THEN i ELSE i - 1) \in 1..Len(w)
      BY <1>2, <1>3, <1>8, <2>1, <2>4, <3>1, SMTT(30)
    <3>3. w[IF i < k THEN i ELSE i - 1] = x
      <4>1. i \in Int /\ k \in Int /\ s[i] = x
        BY <1>2, <2>1, <2>4
      <4>2. CASE i < k
        BY <4>1, <4>2, <3>2, <1>8
      <4>3. CASE i > k
        <5>1. /\ (IF i < k THEN i ELSE i - 1) = i - 1
              /\ (IF i - 1 < k THEN i - 1 ELSE (i - 1) + 1) = i
          BY <4>1, <4>3
        <5>2. i - 1 \in 1..Len(w)
          BY <3>2, <5>1
        <5>3. w[i - 1] = s[IF i - 1 < k THEN i - 1 ELSE (i - 1) + 1]
          BY <1>8, <5>2
        <5> QED BY <4>1, <5>1, <5>3
      <4> QED BY <4>1, <4>2, <4>3, <3>1
    <3> QED BY <2>2, <2>4, <3>2, <3>3, <1>9, <1>10
  <2> QED BY <2>3, <2>4
<1> QED BY <1>6, <1>9, <1>11, <1>12 DEF ListsHold, d

\* Every payload has one size class, and a greater payload no smaller class.
LEMMA ClassProperties ==
  /\ \A n \in Int : fg(n) \in Classes
  /\ \A n, k \in Nat : n <= k => fg(n) <= fg(k)
  /\ \A n \in Nat : n > Limit[3] => fg(n) >= 4
<1> USE MallocAssumption
<1>1. /\ Limit[0] \in Nat /\ Limit[1] \in Nat /\ Limit[2] \in Nat
      /\ Limit[3] \in Nat /\ Limit[4] \in Nat /\ Limit[5] \in Nat
  OBVIOUS
<1>2. /\ Limit[0] <= Limit[1] /\ Limit[1] <= Limit[2] /\ Limit[2] <= Limit[3]
      /\ Limit[3] <= Limit[4] /\ Limit[4] <= Limit[5]
  <2>1. \A c \in 0..4 : Limit[c] <= Limit[c + 1]
    OBVIOUS
  <2>2. 0 + 1 = 1 /\ 1 + 1 = 2 /\ 2 + 1 = 3 /\ 3 + 1 = 4 /\ 4 + 1 = 5
    OBVIOUS
  <2> QED BY <2>1, <2>2
<1>3. ASSUME NEW n \in Nat
      PROVE  /\ Class(n, 0) <=> n <= Limit[0]
             /\ Class(n, 1) <=> n <= Limit[1] /\ n > Limit[0]
             /\ Class(n, 2) <=> n <= Limit[2] /\ n > Limit[1]
             /\ Class(n, 3) <=> n <= Limit[3] /\ n > Limit[2]
             /\ Class(n, 4) <=> n <= Limit[4] /\ n > Limit[3]
             /\ Class(n, 5) <=> n <= Limit[5] /\ n > Limit[4]
             /\ Class(n, 6) <=> n > Limit[5]
  <2>1. 1 - 1 = 0 /\ 2 - 1 = 1 /\ 3 - 1 = 2 /\ 4 - 1 = 3 /\ 5 - 1 = 4 /\ 6 - 1 = 5
    OBVIOUS
  <2> QED BY <2>1 DEF Class
<1>4. ASSUME NEW n \in Nat
      PROVE  fg(n) \in Classes /\ Class(n, fg(n))
  <2>1. \E c \in Classes : Class(n, c)
    BY <1>1, <1>2, <1>3 DEF Classes
  <2> QED BY <2>1 DEF fg, Between
<1>5. \A n \in Int : fg(n) \in Classes
  BY <1>4 DEF fg, Classes
<1>6. ASSUME NEW n \in Nat, NEW k \in Nat, n <= k
      PROVE  fg(n) <= fg(k)
  <2>1. fg(n) \in Classes /\ fg(k) \in Classes /\ Class(n, fg(n)) /\ Class(k, fg(k))
    BY <1>4
  <2> QED BY <2>1, <1>1, <1>2, <1>3, <1>6 DEF Classes
<1>7. ASSUME NEW n \in Nat, n > Limit[3]
      PROVE  fg(n) >= 4
  <2>1. fg(n) \in Classes /\ Class(n, fg(n))
    BY <1>4
  <2> QED BY <2>1, <1>1, <1>2, <1>3, <1>7 DEF Classes
<1> QED BY <1>5, <1>6, <1>7

\* What insert_in_head leaves alone.
LEMMA InsertFields ==
  ASSUME NEW h, Shape(h), NEW c \in Classes, NEW b, h.flist \in [Classes -> Seq(Int)]
  PROVE  /\ Shape(insert_in_head(h, c, b)) /\ insert_in_head(h, c, b).end = h.end
         /\ insert_in_head(h, c, b).head = h.head /\ insert_in_head(h, c, b).foot = h.foot
         /\ insert_in_head(h, c, b).state = h.state
         /\ insert_in_head(h, c, b).zero = h.zero
         /\ insert_in_head(h, c, b).flist = [h.flist EXCEPT ![c] = <<b>> \o h.flist[c]]
BY DEF Shape, insert_in_head

\* A block is put on its list.
LEMMA InsertHolds ==
  ASSUME NEW h, Shape(h), NEW F, ListsHold(h, F), NEW b \in Int, b \notin F,
         h.head[b].size \in Nat
  PROVE  ListsHold(putlist(h, b), F \cup {b})
<1> DEFINE c == ClassOf(h, b)
           g == putlist(h, b)
           s == h.flist[c]
<1>1. c \in Classes
  BY ClassProperties DEF ClassOf
<1>2. h.flist \in [Classes -> Seq(Int)] /\ s \in Seq(Int)
  BY <1>1 DEF ListsHold
<1>3. g = insert_in_head(h, c, b)
  BY DEF putlist, ClassOf
<1>4. g.flist = [h.flist EXCEPT ![c] = <<b>> \o s] /\ g.head = h.head
  <2> HIDE DEF c, s, g
  <2>1. /\ insert_in_head(h, c, b).head = h.head
        /\ insert_in_head(h, c, b).flist = [h.flist EXCEPT ![c] = <<b>> \o h.flist[c]]
    BY DEF Shape, insert_in_head
  <2> QED BY <2>1, <1>3 DEF s
<1>5. /\ <<b>> \o s \in Seq(Int) /\ Len(<<b>> \o s) = Len(s) + 1
      /\ (<<b>> \o s)[1] = b
      /\ \A i \in 1..Len(s) : (<<b>> \o s)[i + 1] = s[i]
      /\ \A i \in 1..(Len(s) + 1) : i = 1 \/ (i - 1 \in 1..Len(s) /\ (<<b>> \o s)[i] = s[i - 1])
  BY <1>2
<1> DEFINE w == <<b>> \o s
<1>6. /\ g.flist \in [Classes -> Seq(Int)] /\ g.flist[c] = w
      /\ \A e \in Classes : e # c => g.flist[e] = h.flist[e]
  BY <1>1, <1>2, <1>4, <1>5
<1>7. \A x : ClassOf(g, x) = ClassOf(h, x)
  BY <1>4 DEF ClassOf
<1>8. \A i \in 1..Len(s) : /\ s[i] \in F /\ c = ClassOf(h, s[i])
                           /\ \A j \in 1..Len(s) : s[j] = s[i] => j = i
  BY <1>1 DEF ListsHold
<1> HIDE DEF c, g, w
<1>9. \A e \in Classes : \A i \in 1..Len(g.flist[e]) :
        /\ g.flist[e][i] \in F \cup {b}
        /\ e = ClassOf(g, g.flist[e][i])
        /\ \A j \in 1..Len(g.flist[e]) : g.flist[e][j] = g.flist[e][i] => j = i
  <2> SUFFICES ASSUME NEW e \in Classes, NEW i \in 1..Len(g.flist[e])
               PROVE  /\ g.flist[e][i] \in F \cup {b}
                      /\ e = ClassOf(g, g.flist[e][i])
                      /\ \A j \in 1..Len(g.flist[e]) : g.flist[e][j] = g.flist[e][i] => j = i
    OBVIOUS
  <2>1. CASE e # c
    BY <2>1, <1>6, <1>7 DEF ListsHold
  <2>2. CASE e = c
    <3>1. g.flist[e] = w /\ Len(w) = Len(s) + 1 /\ w[1] = b
      BY <2>2, <1>5, <1>6 DEF w
    <3>2. \A j \in 1..(Len(s) + 1) : j = 1 \/ (j - 1 \in 1..Len(s) /\ w[j] = s[j - 1])
      BY <1>5 DEF w
    <3>3. \A j \in 1..(Len(s) + 1) : w[j] = w[i] => j = i
      <4> SUFFICES ASSUME NEW j \in 1..(Len(s) + 1), w[j] = w[i] PROVE j = i
        OBVIOUS
      <4>1. i \in 1..(Len(s) + 1)
        BY <3>1
      <4>5. ASSUME NEW k \in 1..(Len(s) + 1) PROVE k = 1 \/ w[k] # b
        <5>1. CASE k # 1
          <6>1. k - 1 \in 1..Len(s) /\ w[k] = s[k - 1]
            BY <5>1, <3>2
          <6>2. s[k - 1] \in F
            BY <6>1, <1>8
          <6> QED BY <6>1, <6>2
        <5> QED BY <5>1
      <4>2. CASE i = 1
        BY <4>2, <4>5, <3>1
      <4>3. CASE j = 1
        BY <4>1, <4>3, <4>5, <3>1
      <4>4. CASE i # 1 /\ j # 1
        <5>1. /\ i - 1 \in 1..Len(s) /\ w[i] = s[i - 1]
              /\ j - 1 \in 1..Len(s) /\ w[j] = s[j - 1]
          BY <4>1, <4>4, <3>2
        <5>2. s[j - 1] = s[i - 1]
          BY <5>1
        <5>3. j - 1 = i - 1
          BY <5>1, <5>2, <1>8
        <5> QED BY <5>3, <4>1
      <4> QED BY <4>2, <4>3, <4>4
    <3>4. w[i] \in F \cup {b} /\ e = ClassOf(g, w[i])
      <4>1. i \in 1..(Len(s) + 1)
        BY <3>1
      <4>2. CASE i = 1
        BY <2>2, <4>2, <3>1, <1>7 DEF c
      <4>3. CASE i # 1
        <5>1. i - 1 \in 1..Len(s) /\ w[i] = s[i - 1]
          BY <4>1, <4>3, <3>2
        <5>2. s[i - 1] \in F /\ c = ClassOf(h, s[i - 1])
          BY <5>1, <1>8
        <5> QED BY <2>2, <5>1, <5>2, <1>7
      <4> QED BY <4>2, <4>3
    <3> QED BY <3>1, <3>3, <3>4
  <2> QED BY <2>1, <2>2
<1>10. ASSUME NEW x \in F \cup {b}
       PROVE  /\ ClassOf(g, x) \in Classes
              /\ \E i \in 1..Len(g.flist[ClassOf(g, x)]) : g.flist[ClassOf(g, x)][i] = x
  <2>1. CASE x = b
    <3>1. ClassOf(g, x) = c /\ 1 \in 1..Len(w) /\ w[1] = b
      BY <2>1, <1>2, <1>5, <1>7 DEF c, w
    <3> QED BY <2>1, <3>1, <1>1, <1>6
  <2>2. CASE x \in F
    <3>1. PICK i \in 1..Len(h.flist[ClassOf(h, x)]) : h.flist[ClassOf(h, x)][i] = x
      BY <2>2 DEF ListsHold
    <3>2. ClassOf(h, x) \in Classes
      BY <2>2 DEF ListsHold
    <3>3. CASE ClassOf(h, x) # c
      BY <3>1, <3>2, <3>3, <1>6, <1>7
    <3>4. CASE ClassOf(h, x) = c
      <4>1. i \in 1..Len(s)
        BY <3>1, <3>4
      <4>2. i + 1 \in 1..Len(w) /\ w[i + 1] = x
        BY <1>2, <1>5, <3>1, <3>4, <4>1 DEF w
      <4> QED BY <3>2, <3>4, <4>2, <1>6, <1>7
    <3> QED BY <3>3, <3>4
  <2> QED BY <2>1, <2>2
<1> QED BY <1>6, <1>9, <1>10 DEF ListsHold, g

\* The lists do not notice a change of other blocks' tags.
LEMMA ListsKept ==
  ASSUME NEW h, NEW g, NEW F, ListsHold(h, F), g.flist = h.flist,
         \A b \in F : g.head[b] = h.head[b]
  PROVE  ListsHold(g, F)
<1>1. \A b \in F : ClassOf(g, b) = ClassOf(h, b)
  BY DEF ClassOf
<1>2. \A c \in Classes : \A i \in 1..Len(h.flist[c]) : h.flist[c][i] \in F
  BY DEF ListsHold
<1> QED BY <1>1, <1>2 DEF ListsHold

-----------------------------------------------------------------------------
(* Freeing a block.                                                        *)

FreeOf(h) == {b \in DOMAIN h.head : ~h.head[b].alloc /\ h.head[b].size > 1}

\* The allocated blocks are those in use, and hold what was asked for.
Holds(h, lv) ==
  /\ DOMAIN lv \subseteq DOMAIN h.head
  /\ \A b \in DOMAIN h.head : h.head[b].alloc <=> b \in DOMAIN lv
  /\ \A b \in DOMAIN lv : h.head[b].size > ALIGN(lv[b])

\* No two free blocks touch, but for those next to l.
JoinedBut(h, l) ==
  \A b \in DOMAIN h.head :
    /\ ~h.head[b].alloc /\ b # l
    /\ Next_(h, b) # h.end /\ Next_(h, b) # l
    => h.head[Next_(h, b)].alloc

Sound(h, lv) ==
  /\ Shape(h) /\ Tiles(h) /\ CHUNKSIZE - 1 <= h.end /\ h.state = "ok"
  /\ h.zero \in BOOLEAN /\ Holds(h, lv)

Good(h, lv) == Sound(h, lv) /\ ListsHold(h, FreeOf(h)) /\ JoinedBut(h, NoBlock)

\* The free block l is not listed yet, and may touch other free blocks.
Mid(h, lv, l) ==
  /\ Sound(h, lv) /\ l \in FreeOf(h)
  /\ ListsHold(h, FreeOf(h) \ {l}) /\ JoinedBut(h, l)

LeftOK(h, l) == \A b \in DOMAIN h.head : Next_(h, b) = l => h.head[b].alloc
RightOK(h, l) == Next_(h, l) = h.end \/ h.head[Next_(h, l)].alloc

LEMMA TilesSameTags ==
  ASSUME NEW h, NEW g, g.head = h.head, g.foot = h.foot, g.end = h.end
  PROVE  /\ \A x, y : TilesBut(h, x, y) => TilesBut(g, x, y)
         /\ Tiles(h) => Tiles(g)
         /\ \A x, y : Out(g, x, y) = Out(h, x, y)
<1>1. \A x, y : Out(g, x, y) = Out(h, x, y) /\ FOut(g, x, y) = FOut(h, x, y)
  BY DEF Out, FOut
<1>2. ASSUME NEW x, NEW y, TilesBut(h, x, y) PROVE TilesBut(g, x, y)
  BY <1>1, <1>2 DEF TilesBut
<1> QED BY <1>1, <1>2 DEF Tiles

\* The footer before a block leads to the block on its left.
LEMMA PrevBlock ==
  ASSUME NEW h, Tiles(h), NEW b \in DOMAIN h.head, b # 0
  PROVE  /\ Prev(h, b) \in DOMAIN h.head /\ Next_(h, Prev(h, b)) = b
         /\ Prev(h, b) < b /\ Prev(h, b) # b
<1>1. b \in Nat /\ b - 1 \in DOMAIN h.foot
  BY TilesBlocks
<1>2. PICK p \in DOMAIN h.head : b - 1 = p + h.head[p].size - 1
  BY <1>1, TilesBlocks
<1>3. /\ p \in Nat /\ h.head[p].size \in Nat \ {0}
      /\ h.foot[p + h.head[p].size - 1] = h.head[p]
  BY TilesBlocks
<1>4. h.foot[b - 1].size = h.head[p].size
  BY <1>2, <1>3
<1>5. Prev(h, b) = p
  BY <1>1, <1>2, <1>3, <1>4 DEF Prev
<1> QED BY <1>1, <1>2, <1>3, <1>5 DEF Next_

\* A block joined with the one on its right.
LEMMA JoinTags ==
  ASSUME NEW h, Shape(h), Tiles(h), NEW l \in DOMAIN h.head, Next_(h, l) \in DOMAIN h.head
  PROVE  LET g == Join(h, l)
             q == Next_(h, l)
         IN  /\ Shape(g) /\ Tiles(g) /\ g.end = h.end /\ g.state = h.state
             /\ g.zero = h.zero /\ g.flist = h.flist /\ l # q
             /\ DOMAIN g.head = DOMAIN h.head \ {q}
             /\ g.head[l].size = h.head[l].size + h.head[q].size /\ ~g.head[l].alloc
             /\ \A b \in DOMAIN h.head \ {l, q} : g.head[b] = h.head[b]
             /\ Next_(g, l) = Next_(h, q)
             /\ \A b \in DOMAIN h.head \ {l, q} : Next_(g, b) = Next_(h, b)
<1> DEFINE g == Join(h, l)
           q == Next_(h, l)
           n == h.head[l].size + h.head[q].size
           D == DOMAIN h.head
<1>1. /\ l \in Nat /\ h.head[l].size \in Nat \ {0}
      /\ q \in Nat /\ h.head[q].size \in Nat \ {0} /\ q = l + h.head[l].size
      /\ q + h.head[q].size \in D \cup {h.end}
      /\ l + n = q + h.head[q].size
  BY TilesBlocks DEF Next_
<1>2. TilesBut(h, l, l + n)
  BY <1>1, GapTiles
<1>3. Out(h, l, l + n) = D \ {l, q}
  <2>1. \A b \in D : b \in Nat /\ (b < l => b + h.head[b].size <= l) /\ (b > l => b >= q)
                     /\ (b > q => b >= l + n)
    BY <1>1, TilesBlocks
  <2> QED BY <1>1, <2>1 DEF Out
<1>0. PICK no \in BOOLEAN : no = FALSE
  OBVIOUS
<1>4. g = Mark(h, l, n, no)
  BY <1>0 DEF Join
<1>5. n \in Nat \ {0} /\ l + n <= l + n /\ l + n > 0
  BY <1>1
<1> HIDE DEF g, n, q
<1>6. /\ TilesBut(g, l + n, l + n) /\ Out(g, l + n, l + n) = D \ {q}
      /\ \A b \in D \ {l, q} : g.head[b] = h.head[b]
  <2>1. /\ TilesBut(g, l + n, l + n) /\ Out(g, l + n, l + n) = Out(h, l, l + n) \cup {l}
        /\ \A b \in Out(h, l, l + n) : g.head[b] = h.head[b]
    BY <1>2, <1>4, <1>5, MarkTiles
  <2> QED BY <2>1, <1>1, <1>3
<1>7. Tiles(g) /\ DOMAIN g.head = D \ {q}
  BY <1>5, <1>6, ClosedTiles
<1>8. /\ Shape(g) /\ g.end = h.end /\ g.state = h.state /\ g.zero = h.zero
      /\ g.flist = h.flist /\ g.head[l] = Tag(n, no)
  BY <1>4, MarkFields
<1>9. Next_(g, l) = Next_(h, q)
  BY <1>1, <1>8 DEF Next_, Tag
<1>10. \A b \in D \ {l, q} : Next_(g, b) = Next_(h, b)
  BY <1>6 DEF Next_
<1>11. g.head[l].size = n /\ ~g.head[l].alloc
  BY <1>0, <1>8 DEF Tag
<1>12. l # q /\ n = h.head[l].size + h.head[q].size
  BY <1>1 DEF n
<1>13. /\ Shape(g) /\ Tiles(g) /\ g.end = h.end /\ g.state = h.state
       /\ g.zero = h.zero /\ g.flist = h.flist /\ l # q
       /\ DOMAIN g.head = D \ {q}
       /\ g.head[l].size = h.head[l].size + h.head[q].size /\ ~g.head[l].alloc
       /\ \A b \in D \ {l, q} : g.head[b] = h.head[b]
       /\ Next_(g, l) = Next_(h, q)
       /\ \A b \in D \ {l, q} : Next_(g, b) = Next_(h, b)
  <2> HIDE DEF D
  <2> QED BY <1>6, <1>7, <1>8, <1>9, <1>10, <1>11, <1>12
<1> QED BY ONLY <1>13 DEF g, q

\* Two free blocks that touch, both off the lists, become one.
LEMMA JoinMid ==
  ASSUME NEW h, NEW lv, Sound(h, lv), NEW x \in DOMAIN h.head,
         Next_(h, x) \in DOMAIN h.head,
         ~h.head[x].alloc, ~h.head[Next_(h, x)].alloc,
         ListsHold(h, FreeOf(h) \ {x, Next_(h, x)}),
         \A b \in DOMAIN h.head :
           /\ ~h.head[b].alloc /\ b \notin {x, Next_(h, x)}
           /\ Next_(h, b) # h.end /\ Next_(h, b) \notin {x, Next_(h, x)}
           => h.head[Next_(h, b)].alloc
  PROVE  Mid(Join(h, x), lv, x)
<1> DEFINE g == Join(h, x)
           q == Next_(h, x)
           D == DOMAIN h.head
<1>1. /\ Shape(g) /\ Tiles(g) /\ g.end = h.end /\ g.state = h.state
      /\ g.zero = h.zero /\ g.flist = h.flist /\ x # q
      /\ DOMAIN g.head = D \ {q}
      /\ g.head[x].size = h.head[x].size + h.head[q].size /\ ~g.head[x].alloc
      /\ \A b \in D \ {x, q} : g.head[b] = h.head[b]
      /\ \A b \in D \ {x, q} : Next_(g, b) = Next_(h, b)
  BY JoinTags DEF Sound
<1>2. g.head[x].size > 1 /\ ~g.head[x].alloc
  <2>1. Tiles(h)
    BY DEF Sound
  <2>2. h.head[x].size \in Nat \ {0} /\ h.head[q].size \in Nat \ {0}
    BY <2>1, TilesBlocks
  <2> QED BY <1>1, <2>2
<1>3. \A b \in D : b \in Int
  <2>1. Tiles(h)
    BY DEF Sound
  <2> QED BY <2>1, TilesBlocks
<1> HIDE DEF g, q
<1>4. x \in FreeOf(g) /\ FreeOf(g) \ {x} = FreeOf(h) \ {x, q}
  BY <1>1, <1>2 DEF FreeOf
<1>5. ListsHold(g, FreeOf(g) \ {x})
  <2>1. \A b \in FreeOf(h) \ {x, q} : g.head[b] = h.head[b]
    BY <1>1 DEF FreeOf
  <2>2. ListsHold(h, FreeOf(h) \ {x, q})
    BY DEF q
  <2> DEFINE F == FreeOf(h) \ {x, q}
  <2>3. FreeOf(g) \ {x} = F /\ g.flist = h.flist
    BY <1>1, <1>4
  <2> HIDE DEF F
  <2>4. ListsHold(g, F)
    BY <2>1, <2>2, <2>3, ListsKept DEF F
  <2> QED BY <2>3, <2>4
<1>6. Holds(g, lv)
  <2>1. Holds(h, lv) /\ x \notin DOMAIN lv /\ q \notin DOMAIN lv
    BY DEF Sound, Holds, q
  <2> QED BY <1>1, <1>2, <2>1 DEF Holds
<1>7. JoinedBut(g, x)
  <2> SUFFICES ASSUME NEW b \in DOMAIN g.head, ~g.head[b].alloc, b # x,
                      Next_(g, b) # g.end, Next_(g, b) # x
               PROVE  g.head[Next_(g, b)].alloc
    BY DEF JoinedBut
  <2>1. b \in D \ {x, q} /\ Next_(g, b) = Next_(h, b) /\ ~h.head[b].alloc
    BY <1>1
  <2>2. Next_(h, b) # q
    <3>1. \A c \in D : c < x => c + h.head[c].size <= x
      BY TilesBlocks DEF Sound
    <3>2. \A c \in D : x < c => q <= c
      BY TilesBlocks DEF Sound, q, Next_
    <3>3. b \in Nat /\ x \in Nat /\ q \in Nat /\ x < q /\ b < Next_(h, b)
      BY <2>1, TilesBlocks DEF Sound, q, Next_
    <3> QED BY <2>1, <3>1, <3>2, <3>3 DEF Next_
  <2>3. h.head[Next_(h, b)].alloc
    BY <1>1, <2>1, <2>2 DEF q
  <2>4. Next_(h, b) \in D
    BY <1>1, <2>1, TilesBlocks DEF Sound, Next_
  <2> QED BY <1>1, <2>1, <2>2, <2>3, <2>4
<1>8. Sound(g, lv)
  BY <1>1, <1>6 DEF Sound
<1> QED BY <1>4, <1>5, <1>7, <1>8 DEF Mid, g

\* Taking a free block off its list: of one with a payload, only its entry
\* goes; of one unit, nothing changes or the heap is overwritten.
LEMMA LeaveMid ==
  ASSUME NEW h, NEW lv, NEW l, Mid(h, lv, l),
         NEW q \in DOMAIN h.head, q # l, ~h.head[q].alloc
  PROVE  /\ Leave(h, q).state = "ok"
         /\ \A g : g \in {Leave(h, q), dellist(h, q)} /\ g.state = "ok" =>
              /\ Sound(g, lv) /\ g.head = h.head /\ g.end = h.end
              /\ ListsHold(g, FreeOf(h) \ {l, q})
<1>1. Shape(h) /\ h.state = "ok" /\ Tiles(h)
  BY DEF Mid, Sound
<1>2. q \in Nat /\ h.head[q].size \in Nat \ {0}
  BY <1>1, TilesBlocks
<1> DEFINE F == FreeOf(h) \ {l}
           d == dellist(h, q)
<1>3. ListsHold(h, F)
  BY DEF Mid
<1>4. /\ Shape(d) /\ d.end = h.end /\ d.zero = h.zero
      /\ d.head = h.head /\ d.foot = h.foot
  BY <1>1, DelistFields
<1>5. ASSUME NEW g, Shape(g), g.end = h.end, g.zero = h.zero, g.head = h.head,
             g.foot = h.foot, g.state = "ok"
      PROVE  Sound(g, lv)
  <2>1. Tiles(g)
    BY <1>1, <1>5, TilesSameTags
  <2>2. Holds(g, lv)
    BY <1>5 DEF Holds, Sound, Mid
  <2> QED BY <1>5, <2>1, <2>2 DEF Sound, Mid
<1>6. CASE h.head[q].size >= 2
  <2>1. q \in F /\ F \ {q} = FreeOf(h) \ {l, q} /\ Leave(h, q) = d
    BY <1>2, <1>6 DEF FreeOf, Leave
  <2>2. ListsHold(d, F \ {q}) /\ d.state = h.state
    BY <2>1, <1>1, <1>3, DelistHolds
  <2> QED BY <2>1, <2>2, <1>1, <1>4, <1>5
<1>7. CASE h.head[q].size < 2
  <2>1. Leave(h, q) = h /\ F = FreeOf(h) \ {l, q} /\ h.head[q].size = 1 /\ q \notin F
    BY <1>2, <1>7 DEF FreeOf, Leave
  <2>2. Sound(h, lv)
    BY DEF Mid
  <2>3. CASE d = h
    BY <2>1, <2>2, <2>3, <1>1, <1>3
  <2>4. CASE d # h
    <3> DEFINE c == fg(h.head[q].size - 1)
    <3>1. c \in Classes
      BY <1>2, ClassProperties
    <3>2. q \notin Listed(h, c)
      BY <2>1, <1>3, <3>1 DEF Listed, ListsHold
    <3>3. ~LinksNull(h, q)
      BY <2>1 DEF LinksNull
    <3>4. d = [h EXCEPT !.state = "lost"]
      BY <2>4, <3>2, <3>3 DEF dellist, delete
    <3>5. d.state = "lost"
      BY <3>4, <1>1 DEF Shape
    <3> QED BY <2>1, <2>2, <3>5, <1>1, <1>3
  <2> QED BY <2>3, <2>4
<1>8. h.head[q].size >= 2 \/ h.head[q].size < 2
  BY <1>2
<1> QED BY <1>6, <1>7, <1>8

LEMMA LeaveKeeps ==
  ASSUME NEW h, NEW lv, NEW l, Mid(h, lv, l),
         NEW q \in DOMAIN h.head, q # l, ~h.head[q].alloc
  PROVE  Sound(Leave(h, q), lv) /\ Leave(h, q).head = h.head /\ Leave(h, q).end = h.end
<1> DEFINE e == Leave(h, q)
<1>0. e.state = "ok"
  BY LeaveMid
<1>1. e = h \/ e = dellist(h, q)
  BY DEF Leave
<1>2. Sound(h, lv)
  BY DEF Mid
<1>3. Shape(h) /\ Tiles(h)
  BY <1>2 DEF Sound
<1> HIDE DEF e
<1>4. /\ Shape(e) /\ e.end = h.end /\ e.zero = h.zero /\ e.head = h.head /\ e.foot = h.foot
  BY <1>1, <1>3, DelistFields
<1>5. Tiles(e)
  BY <1>3, <1>4, TilesSameTags
<1>6. Sound(e, lv)
  BY <1>0, <1>2, <1>4, <1>5 DEF Sound, Holds
<1> QED BY <1>4, <1>6 DEF e

\* The free block on the right of l is absorbed.
LEMMA JoinRight ==
  ASSUME NEW h, NEW lv, NEW l, Mid(h, lv, l),
         Next_(h, l) \in DOMAIN h.head, ~h.head[Next_(h, l)].alloc,
         NEW d \in {Leave(h, Next_(h, l)), dellist(h, Next_(h, l))}, d.state = "ok"
  PROVE  /\ Mid(Join(d, l), lv, l) /\ RightOK(Join(d, l), l)
         /\ LeftOK(h, l) => LeftOK(Join(d, l), l)
<1> DEFINE q == Next_(h, l)
           g == Join(d, l)
<1>1. l \in DOMAIN h.head /\ ~h.head[l].alloc /\ Tiles(h) /\ h.head[l].size \in Nat \ {0}
  BY TilesBlocks DEF Mid, FreeOf, Sound
<1>2. l \in Nat /\ q # l /\ l < q /\ q \in Nat
  <2>1. l \in Nat
    BY <1>1, TilesBlocks
  <2> QED BY <2>1, <1>1 DEF Next_
<1>3. Sound(d, lv) /\ d.head = h.head /\ d.end = h.end /\ ListsHold(d, FreeOf(h) \ {l, q})
  <2>1. q \in DOMAIN h.head /\ q # l /\ ~h.head[q].alloc /\ d \in {Leave(h, q), dellist(h, q)}
    BY <1>2
  <2> HIDE DEF q
  <2> QED BY <2>1, LeaveMid
<1>4. /\ FreeOf(d) = FreeOf(h)
      /\ \A b : Next_(d, b) = Next_(h, b)
  BY <1>3 DEF FreeOf, Next_
<1>5. JoinedBut(h, l)
  BY DEF Mid
<1>6. Mid(g, lv, l)
  BY <1>1, <1>3, <1>4, <1>5, JoinMid DEF JoinedBut
<1>7. /\ g.end = d.end /\ DOMAIN g.head = DOMAIN h.head \ {q}
      /\ \A b \in DOMAIN h.head \ {l, q} : g.head[b] = h.head[b]
      /\ Next_(g, l) = Next_(h, q)
      /\ \A b \in DOMAIN h.head \ {l, q} : Next_(g, b) = Next_(h, b)
  BY <1>1, <1>3, <1>4, JoinTags DEF Sound
<1>8. h.head[q].size \in Nat \ {0} /\ q < Next_(h, q) /\ Next_(h, q) \in DOMAIN h.head \cup {h.end}
  BY <1>1, <1>2, TilesBlocks DEF Next_
<1>9. RightOK(g, l)
  <2>1. CASE Next_(h, q) = h.end
    BY <2>1, <1>3, <1>7 DEF RightOK
  <2>2. CASE Next_(h, q) # h.end
    <3>1. Next_(h, q) \in DOMAIN h.head \ {l, q}
      BY <2>2, <1>2, <1>8
    <3>2. h.head[Next_(h, q)].alloc
      BY <2>2, <3>1, <1>2, <1>5 DEF JoinedBut
    <3> QED BY <3>1, <3>2, <1>7 DEF RightOK
  <2> QED BY <2>1, <2>2
<1>10. LeftOK(h, l) => LeftOK(g, l)
  <2> SUFFICES ASSUME LeftOK(h, l), NEW b \in DOMAIN g.head, Next_(g, b) = l
               PROVE  g.head[b].alloc
    BY DEF LeftOK
  <2>1. b # l
    BY <1>2, <1>7, <1>8
  <2> QED BY <2>1, <1>7 DEF LeftOK
<1> QED BY <1>6, <1>9, <1>10

\* The free block on the left of l absorbs it.
LEMMA JoinLeft ==
  ASSUME NEW h, NEW lv, NEW l, Mid(h, lv, l),
         NEW p \in DOMAIN h.head, Next_(h, p) = l, ~h.head[p].alloc,
         NEW d \in {Leave(h, p), dellist(h, p)}, d.state = "ok"
  PROVE  /\ Mid(Join(d, p), lv, p) /\ LeftOK(Join(d, p), p)
         /\ Next_(Join(d, p), p) = Next_(h, l)
         /\ Join(d, p).end = h.end
         /\ DOMAIN Join(d, p).head = DOMAIN h.head \ {l}
         /\ \A b \in DOMAIN h.head \ {p, l} : Join(d, p).head[b] = h.head[b]
<1> DEFINE g == Join(d, p)
<1>1. l \in DOMAIN h.head /\ ~h.head[l].alloc /\ Tiles(h) /\ h.head[p].size \in Nat \ {0}
  BY TilesBlocks DEF Mid, FreeOf, Sound
<1>2. l \in Nat /\ p # l /\ p < l /\ p \in Nat
  <2>1. p \in Nat
    BY <1>1, TilesBlocks
  <2> QED BY <2>1, <1>1 DEF Next_
<1>3. Sound(d, lv) /\ d.head = h.head /\ d.end = h.end /\ ListsHold(d, FreeOf(h) \ {l, p})
  <2>1. p \in DOMAIN h.head /\ p # l /\ ~h.head[p].alloc /\ d \in {Leave(h, p), dellist(h, p)}
    BY <1>2
  <2>2. d.state = "ok"
    OBVIOUS
  <2> QED BY ONLY Mid(h, lv, l), <2>1, <2>2, LeaveMid
<1>4. /\ FreeOf(d) = FreeOf(h) /\ {l, p} = {p, l}
      /\ \A b : Next_(d, b) = Next_(h, b)
  BY <1>3 DEF FreeOf, Next_
<1>5. JoinedBut(h, l)
  BY DEF Mid
<1>6. \A b \in DOMAIN h.head : ~h.head[b].alloc => Next_(h, b) # p
  <2>1. p # h.end /\ \A b \in DOMAIN h.head : b \in Nat /\ h.head[b].size \in Nat \ {0}
    BY <1>1, TilesBlocks, SMTT(30)
  <2>2. \A b \in DOMAIN h.head : Next_(h, b) = p => b # l
    BY <2>1, <1>2 DEF Next_
  <2> QED BY <2>1, <2>2, <1>2, <1>5 DEF JoinedBut
<1>7. Mid(g, lv, p)
  BY <1>1, <1>3, <1>4, <1>5, <1>6, JoinMid DEF JoinedBut
<1>8. /\ g.end = d.end /\ DOMAIN g.head = DOMAIN h.head \ {l}
      /\ \A b \in DOMAIN h.head \ {p, l} : g.head[b] = h.head[b]
      /\ Next_(g, p) = Next_(h, l)
      /\ \A b \in DOMAIN h.head \ {p, l} : Next_(g, b) = Next_(h, b)
  BY <1>1, <1>3, <1>4, JoinTags DEF Sound
<1>9. LeftOK(g, p)
  <2> SUFFICES ASSUME NEW b \in DOMAIN g.head, Next_(g, b) = p
               PROVE  g.head[b].alloc
    BY DEF LeftOK
  <2>1. b # p
    <3>1. h.head[l].size \in Nat \ {0}
      BY <1>1, TilesBlocks
    <3> QED BY <3>1, <1>2, <1>8 DEF Next_
  <2> QED BY <2>1, <1>6, <1>8
<1> QED BY <1>3, <1>7, <1>8, <1>9

\* The joined block goes on its list.
LEMMA MidPut ==
  ASSUME NEW h, NEW lv, NEW l, Mid(h, lv, l), LeftOK(h, l), RightOK(h, l)
  PROVE  Good(putlist(h, l), lv)
<1> DEFINE g == putlist(h, l)
           F == FreeOf(h) \ {l}
<1>1. /\ Shape(h) /\ Tiles(h) /\ ListsHold(h, F) /\ l \in DOMAIN h.head
      /\ l \in FreeOf(h) /\ l \notin F /\ F \cup {l} = FreeOf(h)
  BY DEF Mid, Sound, FreeOf
<1>2. l \in Int /\ h.head[l].size \in Nat
  BY <1>1, TilesBlocks
<1>3. ListsHold(g, F \cup {l})
  BY <1>1, <1>2, InsertHolds
<1>4. fg(h.head[l].size - 1) \in Classes /\ h.flist \in [Classes -> Seq(Int)]
  BY <1>1, <1>2, ClassProperties DEF ListsHold
<1>5. /\ Shape(g) /\ g.end = h.end /\ g.head = h.head /\ g.foot = h.foot
      /\ g.state = h.state /\ g.zero = h.zero
  <2> DEFINE c == fg(h.head[l].size - 1)
  <2>1. g = insert_in_head(h, c, l)
    BY DEF putlist
  <2> HIDE DEF c, g
  <2> QED BY <2>1, <1>1, <1>4 DEF insert_in_head, Shape
<1>6. Tiles(g)
  BY <1>1, <1>5, TilesSameTags
<1>7. Sound(g, lv)
  BY <1>5, <1>6 DEF Mid, Sound, Holds
<1>8. FreeOf(g) = FreeOf(h) /\ \A b : Next_(g, b) = Next_(h, b)
  BY <1>5 DEF FreeOf, Next_
<1>9. JoinedBut(g, NoBlock)
  BY <1>5, <1>8 DEF Mid, JoinedBut, LeftOK, RightOK
<1> QED BY <1>1, <1>3, <1>7, <1>8, <1>9 DEF Good

\* The tags do not change when a block goes on its list.
LEMMA PutFields ==
  ASSUME NEW h, Shape(h), NEW b
  PROVE  /\ Shape(putlist(h, b)) /\ putlist(h, b).end = h.end
         /\ putlist(h, b).head = h.head /\ putlist(h, b).foot = h.foot
         /\ putlist(h, b).state = h.state /\ putlist(h, b).zero = h.zero
<1> DEFINE c == fg(h.head[b].size - 1)
<1>1. putlist(h, b) = insert_in_head(h, c, b)
  BY DEF putlist
<1> HIDE DEF c
<1> QED BY <1>1 DEF insert_in_head, Shape

\* A wild write is not undone by the rest of mm_free.
LEMMA CrashKept ==
  ASSUME NEW h, Shape(h), NEW q, NEW x, NEW y
  PROVE  LET g == putlist(Join(dellist(h, q), x), y)
         IN  g.end = h.end /\ (dellist(h, q).state = "lost" => g.state = "lost")
<1>1. Shape(dellist(h, q)) /\ dellist(h, q).end = h.end
  BY DelistFields
<1> DEFINE d == dellist(h, q)
           k == d.head[x].size + d.head[Next_(d, x)].size
<1>0. PICK no \in BOOLEAN : no = FALSE
  OBVIOUS
<1>2. Join(d, x) = Mark(d, x, k, no)
  BY <1>0 DEF Join
<1> HIDE DEF d, k
<1>3. Shape(Join(d, x)) /\ Join(d, x).end = d.end /\ Join(d, x).state = d.state
  <2>1. Shape(d)
    BY <1>1 DEF d
  <2> QED BY <1>2, <2>1, MarkFields
<1>4. /\ putlist(Join(d, x), y).end = Join(d, x).end
      /\ putlist(Join(d, x), y).state = Join(d, x).state
  BY <1>3, PutFields
<1> QED BY <1>1, <1>3, <1>4 DEF d

\* The whole heap is one free block, its header overwritten by a link.
WipedHeap(h, lv) ==
  /\ Shape(h) /\ h.end \in Nat /\ CHUNKSIZE - 1 <= h.end
  /\ h.zero \in BOOLEAN /\ h.state = "ok"
  /\ DOMAIN h.head = {0} /\ h.head[0].size = 0 /\ ~h.head[0].alloc
  /\ h.head[0] = Tag(0, h.head[0].alloc) /\ h.head[0].alloc \in BOOLEAN
  /\ DOMAIN h.foot = {h.end - 1} /\ h.foot[h.end - 1].size = h.end
  /\ ~h.foot[h.end - 1].alloc
  /\ h.foot[h.end - 1] = Tag(h.end, h.foot[h.end - 1].alloc)
  /\ h.foot[h.end - 1].alloc \in BOOLEAN
  /\ h.flist = [c \in Classes |-> IF c = 6 THEN <<Bogus>> ELSE <<>>]
  /\ DOMAIN lv = {}

Freed(h, p) == Mark(h, p, h.head[p].size, FALSE)

\* The freed block, before its neighbours are looked at.
LEMMA FreedMid ==
  ASSUME NEW h, NEW lv, Good(h, lv), NEW p \in DOMAIN lv, ALIGN(lv[p]) \in Nat \ {0},
         NEW lv2, DOMAIN lv2 = DOMAIN lv \ {p}, \A x \in DOMAIN lv2 : lv2[x] = lv[x]
  PROVE  LET m == Freed(h, p)
         IN  /\ Mid(m, lv2, p) /\ m.end = h.end /\ DOMAIN m.head = DOMAIN h.head
             /\ m.head[p].size = h.head[p].size
             /\ DOMAIN m.foot = DOMAIN h.foot
<1> DEFINE n == h.head[p].size
           m == Freed(h, p)
           D == DOMAIN h.head
<1>0. PICK no \in BOOLEAN : no = FALSE
  OBVIOUS
<1>1. /\ Shape(h) /\ Tiles(h) /\ Holds(h, lv) /\ ListsHold(h, FreeOf(h))
      /\ h.state = "ok" /\ CHUNKSIZE - 1 <= h.end /\ h.zero \in BOOLEAN
      /\ JoinedBut(h, NoBlock)
  BY DEF Good, Sound
<1>2. p \in D /\ n > ALIGN(lv[p])
  BY <1>1 DEF Holds
<1>3. /\ p \in Nat /\ n \in Nat \ {0} /\ n > 1 /\ p + n \in D \cup {h.end}
      /\ p < p + n /\ p + n > 0 /\ p + n <= p + n /\ p + n - 1 \in DOMAIN h.foot
  BY <1>1, <1>2, TilesBlocks
<1>4. m = Mark(h, p, n, no)
  BY <1>0 DEF Freed
<1> HIDE DEF n, m
<1>5. TilesBut(h, p, p + n)
  BY <1>1, <1>2, <1>3, GapTiles
<1>6. Out(h, p, p + n) = D \ {p}
  <2>1. \A b \in D : b \in Nat /\ (b > p => b >= p + n)
    BY <1>1, <1>2, TilesBlocks DEF n
  <2> QED BY <1>3, <2>1 DEF Out
<1>7. /\ TilesBut(m, p + n, p + n) /\ Out(m, p + n, p + n) = D
      /\ \A b \in D \ {p} : m.head[b] = h.head[b]
  <2>1. /\ TilesBut(m, p + n, p + n) /\ Out(m, p + n, p + n) = Out(h, p, p + n) \cup {p}
        /\ \A b \in Out(h, p, p + n) : m.head[b] = h.head[b]
    BY <1>1, <1>3, <1>4, <1>5, MarkTiles
  <2> QED BY <2>1, <1>2, <1>6
<1>8. Tiles(m) /\ DOMAIN m.head = D
  BY <1>3, <1>7, ClosedTiles
<1>9. /\ Shape(m) /\ m.end = h.end /\ m.state = h.state /\ m.zero = h.zero
      /\ m.flist = h.flist /\ m.head[p] = Tag(n, no)
      /\ DOMAIN m.foot = (DOMAIN h.foot \ (p..(p + n - 1))) \cup {p + n - 1}
  BY <1>1, <1>4, MarkFields
<1>10. m.head[p].size = n /\ ~m.head[p].alloc
  BY <1>0, <1>9 DEF Tag
<1>11. p \notin FreeOf(h) /\ FreeOf(m) = FreeOf(h) \cup {p}
  <2>1. h.head[p].alloc
    BY <1>1, <1>2 DEF Holds
  <2> QED BY <2>1, <1>2, <1>3, <1>7, <1>8, <1>10 DEF FreeOf
<1>12. ListsHold(m, FreeOf(m) \ {p})
  <2> DEFINE F == FreeOf(h)
  <2>1. \A b \in F : m.head[b] = h.head[b]
    BY <1>7, <1>11 DEF FreeOf
  <2>2. ListsHold(h, F) /\ FreeOf(m) \ {p} = F /\ m.flist = h.flist
    BY <1>1, <1>9, <1>11
  <2> HIDE DEF F
  <2> QED BY <2>1, <2>2, ListsKept
<1>13. Holds(m, lv2)
  BY <1>1, <1>2, <1>7, <1>8, <1>10 DEF Holds
<1>14. \A b \in D : Next_(m, b) = Next_(h, b)
  BY <1>7, <1>10 DEF Next_, n
<1>15. JoinedBut(m, p)
  <2> SUFFICES ASSUME NEW b \in D, ~m.head[b].alloc, b # p,
                      Next_(m, b) # m.end, Next_(m, b) # p
               PROVE  m.head[Next_(m, b)].alloc
    BY <1>8 DEF JoinedBut
  <2>1. Next_(h, b) \in D /\ Next_(h, b) # h.end /\ b \in Nat /\ Next_(h, b) \in Nat
    BY <1>1, <1>9, <1>14, TilesBlocks DEF Next_
  <2>2. h.head[Next_(h, b)].alloc
    BY <2>1, <1>1, <1>7 DEF JoinedBut, NoBlock
  <2> QED BY <2>1, <2>2, <1>7, <1>14
<1>16. DOMAIN m.foot = DOMAIN h.foot
  <2>1. \A f \in DOMAIN m.foot : \E b \in D : f = b + m.head[b].size - 1
    BY <1>8, TilesBlocks
  <2>2. \A b \in D : m.head[b].size = h.head[b].size
    BY <1>7, <1>10 DEF n
  <2>3. \A b \in D : b + h.head[b].size - 1 \in DOMAIN h.foot /\ b + m.head[b].size - 1 \in DOMAIN m.foot
    BY <1>1, <1>8, TilesBlocks
  <2>4. \A f \in DOMAIN h.foot : \E b \in D : f = b + h.head[b].size - 1
    BY <1>1, TilesBlocks
  <2> QED BY <2>1, <2>2, <2>3, <2>4, ZenonT(60)
<1>17. Sound(m, lv2)
  BY <1>1, <1>8, <1>9, <1>13 DEF Sound
<1> QED BY <1>8, <1>9, <1>10, <1>11, <1>12, <1>15, <1>16, <1>17 DEF Mid, m, n

\* mm_free keeps the heap sound, or wipes it, or writes through a tag.
LEMMA FreeGood ==
  ASSUME NEW h, NEW lv, Good(h, lv), NEW p \in DOMAIN lv, ALIGN(lv[p]) \in Nat \ {0},
         NEW lv2, DOMAIN lv2 = DOMAIN lv \ {p}, \A x \in DOMAIN lv2 : lv2[x] = lv[x],
         NEW z \in BOOLEAN
  PROVE  /\ mm_free(h, p, z).end = h.end
         /\ \/ mm_free(h, p, z).state = "lost"
            \/ Good(mm_free(h, p, z), lv2)
            \/ WipedHeap(mm_free(h, p, z), lv2)
<1> DEFINE n == h.head[p].size
           m == Freed(h, p)
           g == mm_free(h, p, z)
           D == DOMAIN h.head
<1> SUFFICES /\ g.end = h.end
             /\ g.state = "lost" \/ Good(g, lv2) \/ WipedHeap(g, lv2)
  OBVIOUS
<1>1. /\ Mid(m, lv2, p) /\ m.end = h.end /\ DOMAIN m.head = D
      /\ m.head[p].size = n /\ DOMAIN m.foot = DOMAIN h.foot
  BY FreedMid
<1>2. /\ g = IF p = 0 /\ p + n = h.end THEN FreeWhole(m, z)
             ELSE IF p = 0 THEN FreeFirst(m, p)
             ELSE IF p + n = h.end THEN FreeLast(m, p)
             ELSE FreeMiddle(m, p)
  BY DEF mm_free, Freed
<1> HIDE DEF g, m, n
<1>3. /\ Sound(m, lv2) /\ Shape(m) /\ Tiles(m) /\ m.state = "ok" /\ JoinedBut(m, p)
      /\ ~m.head[p].alloc /\ p \in D
  BY <1>1 DEF Mid, Sound, FreeOf
<1>4. /\ m.end \in Nat /\ p \in Nat /\ n \in Nat \ {0} /\ Next_(m, p) = p + n
      /\ p + n \in D \cup {h.end}
      /\ \A b \in D : /\ b \in Nat /\ m.head[b].size \in Nat \ {0}
                      /\ Next_(m, b) \in D \cup {h.end} /\ b < Next_(m, b)
                      /\ b < h.end
  BY <1>1, <1>3, TilesBlocks DEF Next_
<1>5. \A b \in D : ~m.head[b].alloc /\ b # p /\ Next_(m, b) # h.end /\ Next_(m, b) # p =>
        m.head[Next_(m, b)].alloc
  BY <1>1, <1>3 DEF JoinedBut
<1>6. CASE p = 0 /\ p + n = h.end
  <2>1. D = {0}
    <3>1. \A b \in D : p < b => p + n <= b
      BY <1>1, <1>3, TilesBlocks
    <3>2. \A b \in D : b = 0
      BY <3>1, <1>4, <1>6
    <3> QED BY <3>2, <1>3, <1>6
  <2>2. DOMAIN m.foot = {h.end - 1} /\ m.foot[h.end - 1] = m.head[0]
    <3>1. /\ \A f \in DOMAIN m.foot : \E b \in D : f = b + m.head[b].size - 1
          /\ \A b \in D : /\ b + m.head[b].size - 1 \in DOMAIN m.foot
                          /\ m.foot[b + m.head[b].size - 1] = m.head[b]
      <4>1. /\ \A f \in DOMAIN m.foot : \E b \in DOMAIN m.head : f = b + m.head[b].size - 1
            /\ \A b \in DOMAIN m.head : /\ b + m.head[b].size - 1 \in DOMAIN m.foot
                                       /\ m.foot[b + m.head[b].size - 1] = m.head[b]
        BY <1>3, TilesBlocks
      <4> QED BY <4>1, <1>1
    <3> QED BY <3>1, <2>1, <1>1, <1>4, <1>6
  <2>3. DOMAIN lv2 = {}
    BY <1>1, <1>3, <2>1, <1>6 DEF Sound, Holds
  <2>4. m.head[0] = Tag(n, m.head[0].alloc) /\ m.head[0].alloc \in BOOLEAN
    BY <1>1, <1>3, <1>6, TilesBlocks
  <2>5. g = FreeWhole(m, z)
    BY <1>2, <1>6
  <2> PICK no \in BOOLEAN : no = FALSE
    OBVIOUS
  <2>6. g = [m EXCEPT !.head = [m.head EXCEPT ![0] = Tag(0, FALSE)],
                      !.flist = [c \in Classes |-> IF c = 6 THEN <<Bogus>> ELSE <<>>],
                      !.zero = z]
    BY <2>5 DEF FreeWhole
  <2>7. /\ Shape(g) /\ g.end = m.end /\ g.foot = m.foot /\ g.state = m.state /\ g.zero = z
        /\ g.flist = [c \in Classes |-> IF c = 6 THEN <<Bogus>> ELSE <<>>]
        /\ g.head = [m.head EXCEPT ![0] = Tag(0, FALSE)]
    BY <2>6, <1>3 DEF Shape
  <2>8. DOMAIN g.head = {0} /\ g.head[0] = Tag(0, FALSE)
    BY <2>1, <2>7, <1>1
  <2>9. /\ g.head[0].size = 0 /\ ~g.head[0].alloc /\ g.head[0] = Tag(0, g.head[0].alloc)
        /\ g.head[0].alloc \in BOOLEAN
    BY <2>8 DEF Tag
  <2>10. n = h.end /\ CHUNKSIZE - 1 <= h.end /\ h.end \in Nat
    BY <1>1, <1>3, <1>4, <1>6 DEF Sound
  <2> QED BY <1>1, <1>3, <2>2, <2>3, <2>4, <2>7, <2>8, <2>9, <2>10, ZenonT(60) DEF WipedHeap
<1>7. CASE p = 0 /\ p + n # h.end
  <2>1. g = FreeFirst(m, p) /\ p + n \in D
    BY <1>2, <1>4, <1>7
  <2>2. LeftOK(m, p)
    BY <1>1, <1>4, <1>7 DEF LeftOK
  <2>3. CASE m.head[p + n].alloc
    <3>1. g = putlist(m, p)
      BY <2>1, <2>3, <1>4 DEF FreeFirst
    <3>2. RightOK(m, p)
      BY <2>3, <1>4 DEF RightOK
    <3>3. Good(g, lv2) /\ g.end = m.end
      BY <3>1, <3>2, <2>2, <1>1, <1>3, MidPut, PutFields
    <3> QED BY <3>3, <1>1
  <2>4. CASE ~m.head[p + n].alloc
    <3> DEFINE d == dellist(m, Next_(m, p))
    <3>1. g = putlist(Join(d, p), p)
      BY <2>1, <2>4, <1>4 DEF FreeFirst
    <3>2. g.end = m.end /\ (d.state = "lost" => g.state = "lost")
      BY <3>1, <1>3, CrashKept, DelistFields
    <3>3. CASE d.state = "ok"
      <4>1. /\ Mid(Join(d, p), lv2, p) /\ RightOK(Join(d, p), p) /\ LeftOK(Join(d, p), p)
        BY <3>3, <2>1, <2>2, <2>4, <1>1, <1>4, JoinRight
      <4>2. Good(g, lv2)
        BY <3>1, <4>1, MidPut
      <4> QED BY <3>2, <4>2, <1>1
    <3>4. d.state = "ok" \/ d.state = "lost"
      BY <1>3, DelistFields
    <3> QED BY <3>2, <3>3, <3>4, <1>1
  <2> QED BY <2>3, <2>4
<1>8. CASE p # 0
  <2> DEFINE q == Prev(m, p)
  <2>1. q \in D /\ Next_(m, q) = p /\ q < p /\ q # p
    BY <1>1, <1>3, <1>8, PrevBlock
  <2>2. \A b \in D : Next_(m, b) = p => b = q
    <3>1. \A b, c \in D : b < c => b + m.head[b].size <= c
      BY <1>1, <1>3, TilesBlocks
    <3>2. ASSUME NEW b \in D, Next_(m, b) = p PROVE b = q
      <4>1. b < q => Next_(m, b) <= q
        BY <3>1, <2>1 DEF Next_
      <4>2. q < b => p <= b
        BY <3>1, <2>1 DEF Next_
      <4>3. b < p /\ b \in Nat /\ q \in Nat /\ p \in Nat
        BY <3>2, <2>1, <1>4
      <4> HIDE DEF q
      <4> QED BY <4>1, <4>2, <4>3, <3>2, <2>1
    <3> QED BY <3>2
  <2> HIDE DEF q
  <2>3. CASE p + n = h.end
    <3>1. g = FreeLast(m, p)
      BY <1>2, <1>8, <2>3
    <3>2. RightOK(m, p)
      BY <2>3, <1>1, <1>4 DEF RightOK
    <3>3. CASE m.head[q].alloc
      <4>1. g = putlist(m, p)
        BY <3>1, <3>3 DEF FreeLast, q
      <4>2. LeftOK(m, p)
        BY <3>3, <2>2, <1>1 DEF LeftOK
      <4>3. Good(g, lv2) /\ g.end = m.end
        BY <4>1, <4>2, <3>2, <1>1, <1>3, MidPut, PutFields
      <4> QED BY <4>3, <1>1
    <3>4. CASE ~m.head[q].alloc
      <4> DEFINE d == dellist(m, q)
      <4>1. g = putlist(Join(d, q), q)
        BY <3>1, <3>4 DEF FreeLast, q
      <4>2. g.end = m.end /\ (d.state = "lost" => g.state = "lost")
        BY <4>1, <1>3, CrashKept, DelistFields
      <4>3. CASE d.state = "ok"
        <5>1. /\ Mid(Join(d, q), lv2, q) /\ LeftOK(Join(d, q), q)
              /\ Next_(Join(d, q), q) = Next_(m, p) /\ Join(d, q).end = m.end
          BY <4>3, <2>1, <3>4, <1>1, JoinLeft
        <5>2. RightOK(Join(d, q), q)
          BY <5>1, <2>3, <1>1, <1>4 DEF RightOK
        <5>3. Good(g, lv2)
          BY <4>1, <5>1, <5>2, MidPut
        <5> QED BY <4>2, <5>3, <1>1
      <4>4. d.state = "ok" \/ d.state = "lost"
        BY <1>3, DelistFields
      <4> QED BY <4>2, <4>3, <4>4, <1>1
    <3> QED BY <3>3, <3>4
  <2>4. CASE p + n # h.end
    <3> DEFINE r == Next_(m, p)
               hp == IF FreeAt(m, q) THEN Join(Leave(m, q), q) ELSE m
               l == IF FreeAt(m, q) THEN q ELSE p
               hq == IF FreeAt(hp, r) THEN Join(Leave(hp, r), l) ELSE hp
    <3>1. g = putlist(hq, l)
      BY <1>2, <1>8, <2>4 DEF FreeMiddle, q
    <3>2. r \in D /\ r # p /\ r # q /\ r = p + n
      BY <1>4, <2>1, <2>4
    <3>3. FreeAt(m, q) <=> ~m.head[q].alloc
      BY <2>1, <1>4 DEF FreeAt
    <3>4. /\ Mid(hp, lv2, l) /\ LeftOK(hp, l) /\ Next_(hp, l) = r /\ hp.end = m.end
          /\ r \in DOMAIN hp.head /\ hp.head[r] = m.head[r]
      <4>1. CASE FreeAt(m, q)
        <5>1. Leave(m, q).state = "ok"
          <6>1. Mid(m, lv2, p) /\ q \in DOMAIN m.head /\ q # p /\ ~m.head[q].alloc
            BY <4>1, <3>3, <2>1, <1>1
          <6> QED BY ONLY <6>1, LeaveMid
        <5>2. hp = Join(Leave(m, q), q) /\ l = q
          BY <4>1
        <5>3. /\ Mid(hp, lv2, q) /\ LeftOK(hp, q)
              /\ Next_(hp, q) = Next_(m, p) /\ hp.end = m.end
              /\ DOMAIN hp.head = D \ {p}
              /\ \A b \in D \ {q, p} : hp.head[b] = m.head[b]
          <6> HIDE DEF hp, l, r
          <6> QED BY <5>1, <5>2, <4>1, <3>3, <2>1, <1>1, JoinLeft
        <5> QED BY <5>2, <5>3, <3>2
      <4>2. CASE ~FreeAt(m, q)
        <5>1. hp = m /\ l = p
          BY <4>2
        <5>2. LeftOK(m, p)
          BY <4>2, <3>3, <2>2, <1>1 DEF LeftOK
        <5> QED BY <5>1, <5>2, <3>2, <1>1
      <4> QED BY <4>1, <4>2
    <3>5. FreeAt(hp, r) <=> ~m.head[r].alloc
      BY <3>2, <3>4, <1>4 DEF FreeAt
    <3> HIDE DEF hp, l, r
    <3>6. /\ Mid(hq, lv2, l) /\ LeftOK(hq, l) /\ RightOK(hq, l) /\ hq.end = m.end
      <4>1. CASE FreeAt(hp, r)
        <5>0. /\ r # l
          BY <3>4, <1>4, TilesBlocks DEF Mid, Sound, FreeOf, Next_
        <5>1. Leave(hp, r).state = "ok"
          <6>1. Mid(hp, lv2, l) /\ r \in DOMAIN hp.head /\ r # l /\ ~hp.head[r].alloc
            BY <4>1, <5>0, <3>4, <3>5
          <6> QED BY ONLY <6>1, LeaveMid
        <5>2. hq = Join(Leave(hp, Next_(hp, l)), l)
          BY <4>1, <3>4
        <5>3. /\ Mid(hq, lv2, l) /\ RightOK(hq, l)
              /\ LeftOK(hp, l) => LeftOK(hq, l)
          <6> HIDE DEF hq
          <6> QED BY <5>1, <5>2, <4>1, <3>4, <3>5, JoinRight
        <5>4. hq.end = hp.end
          <6>1. Sound(Leave(hp, r), lv2) /\ Leave(hp, r).head = hp.head /\ Leave(hp, r).end = hp.end
            <7>1. Mid(hp, lv2, l) /\ r \in DOMAIN hp.head /\ r # l /\ ~hp.head[r].alloc
              BY <4>1, <5>0, <3>4, <3>5
            <7> QED BY ONLY <7>1, LeaveKeeps
          <6>2. Next_(Leave(hp, r), l) = r /\ l \in DOMAIN hp.head
            BY <6>1, <3>4 DEF Next_, Mid, FreeOf
          <6> QED BY <6>1, <6>2, <5>2, <3>4, JoinTags DEF Sound
        <5> QED BY <5>3, <5>4, <3>4
      <4>2. CASE ~FreeAt(hp, r)
        <5>1. RightOK(hp, l)
          BY <4>2, <3>4, <3>5 DEF RightOK
        <5> QED BY <4>2, <5>1, <3>4
      <4> QED BY <4>1, <4>2
    <3> HIDE DEF hq
    <3>7. Good(g, lv2)
      BY <3>1, <3>6, MidPut
    <3>8. g.end = hq.end
      BY <3>1, <3>6, PutFields DEF Mid, Sound
    <3> QED BY <3>6, <3>7, <3>8, <1>1
  <2> QED BY <2>3, <2>4
<1> QED BY <1>6, <1>7, <1>8

-----------------------------------------------------------------------------
(* Taking a block for a payload.                                           *)

\* The tags after allocate, before a rest goes on its list: b becomes a block
\* in use of n+1 units and what is left of it a free block.
LEMMA SplitTags ==
  ASSUME NEW h, Shape(h), Tiles(h), NEW b \in DOMAIN h.head,
         NEW n \in Nat, n + 1 < h.head[b].size,
         NEW yes \in BOOLEAN, NEW no \in BOOLEAN
  PROVE  LET x == b + (n + 1)
             g == Mark(Mark(h, b, n + 1, yes), x, h.head[b].size - (n + 1), no)
         IN  /\ Shape(g) /\ Tiles(g) /\ g.end = h.end /\ g.state = h.state
             /\ g.zero = h.zero /\ g.flist = h.flist /\ x \notin DOMAIN h.head /\ x \in Nat
             /\ DOMAIN g.head = DOMAIN h.head \cup {x}
             /\ g.head[b] = Tag(n + 1, yes)
             /\ g.head[x] = Tag(h.head[b].size - (n + 1), no)
             /\ \A c \in DOMAIN h.head \ {b} : g.head[c] = h.head[c]
<1> DEFINE x == b + (n + 1)
           y == b + h.head[b].size
           k == h.head[b].size - (n + 1)
           m == Mark(h, b, n + 1, yes)
           g == Mark(m, x, k, no)
           D == DOMAIN h.head
<1>1. /\ b \in Nat /\ h.head[b].size \in Nat \ {0} /\ y \in D \cup {h.end} /\ b < y
      /\ k \in Nat \ {0} /\ x \in Nat /\ x + k = y /\ x + k <= y /\ x <= y /\ y > 0
      /\ n + 1 \in Nat \ {0} /\ b + (n + 1) <= y /\ b < x /\ x < y /\ y \in Nat
  BY TilesBlocks
<1>2. \A c \in D : c \in Nat /\ (c < b \/ c = b \/ c >= y)
  <2>1. \A c \in D : c \in Nat /\ (b < c => y <= c)
    BY TilesBlocks
  <2> QED BY <1>1, <2>1
<1>3. TilesBut(h, b, y) /\ Out(h, b, y) = D \ {b}
  <2>1. TilesBut(h, b, y)
    <3> HIDE DEF y
    <3> QED BY <1>1, GapTiles
  <2>2. Out(h, b, y) = D \ {b}
    BY <1>1, <1>2 DEF Out
  <2> QED BY <2>1, <2>2
<1>4. x \notin D
  BY <1>1, <1>2
<1> SUFFICES /\ Shape(g) /\ Tiles(g) /\ g.end = h.end /\ g.state = h.state
             /\ g.zero = h.zero /\ g.flist = h.flist
             /\ DOMAIN g.head = D \cup {x}
             /\ g.head[b] = Tag(n + 1, yes) /\ g.head[x] = Tag(k, no)
             /\ \A c \in D \ {b} : g.head[c] = h.head[c]
  BY <1>1, <1>4
<1> DEFINE n1 == n + 1
<1>5. m = Mark(h, b, n1, yes) /\ x = b + n1 /\ n1 \in Nat \ {0} /\ b + n1 <= y
  BY <1>1
<1> HIDE DEF m, y, x, n1, D, k
<1>6. /\ TilesBut(m, x, y) /\ Out(m, x, y) = D
      /\ \A c \in D \ {b} : m.head[c] = h.head[c]
  <2>1. /\ TilesBut(m, b + n1, y) /\ Out(m, b + n1, y) = Out(h, b, y) \cup {b}
        /\ \A c \in Out(h, b, y) : m.head[c] = h.head[c]
    BY <1>3, <1>5, MarkTiles
  <2> QED BY <2>1, <1>3, <1>5 DEF D
<1>7. /\ Shape(m) /\ m.end = h.end /\ m.state = h.state /\ m.zero = h.zero
      /\ m.flist = h.flist /\ m.head[b] = Tag(n1, yes)
  BY <1>5, MarkFields
<1> HIDE DEF g
<1>8. g = Mark(m, x, k, no)
  BY DEF g
<1>9. /\ TilesBut(g, y, y) /\ Out(g, y, y) = D \cup {x}
      /\ \A c \in D : g.head[c] = m.head[c]
  <2>1. /\ TilesBut(g, x + k, y) /\ Out(g, x + k, y) = Out(m, x, y) \cup {x}
        /\ \A c \in Out(m, x, y) : g.head[c] = m.head[c]
    BY <1>1, <1>6, <1>7, <1>8, MarkTiles
  <2> QED BY <2>1, <1>1, <1>6
<1>10. /\ Shape(g) /\ g.end = m.end /\ g.state = m.state /\ g.zero = m.zero
       /\ g.flist = m.flist /\ g.head[x] = Tag(k, no)
  BY <1>7, <1>8, MarkFields
<1>11. Tiles(g) /\ DOMAIN g.head = D \cup {x}
  BY <1>1, <1>9, ClosedTiles
<1> QED BY <1>6, <1>7, <1>9, <1>10, <1>11 DEF n1, D

\* The same when nothing is left of it.
LEMMA WholeTags ==
  ASSUME NEW h, Shape(h), Tiles(h), NEW b \in DOMAIN h.head, NEW yes \in BOOLEAN
  PROVE  LET g == Mark(h, b, h.head[b].size, yes)
         IN  /\ Shape(g) /\ Tiles(g) /\ g.end = h.end /\ g.state = h.state
             /\ g.zero = h.zero /\ g.flist = h.flist
             /\ DOMAIN g.head = DOMAIN h.head
             /\ g.head[b] = Tag(h.head[b].size, yes)
             /\ \A c \in DOMAIN h.head \ {b} : g.head[c] = h.head[c]
<1> DEFINE k == h.head[b].size
           y == b + k
           g == Mark(h, b, k, yes)
           D == DOMAIN h.head
<1>1. /\ b \in Nat /\ k \in Nat \ {0} /\ y \in D \cup {h.end} /\ b < y /\ y > 0
      /\ y = b + k /\ b + k <= y
  <2>1. b \in Nat /\ k \in Nat \ {0} /\ y \in D \cup {h.end}
    BY TilesBlocks
  <2> HIDE DEF g
  <2> QED BY <2>1
<1>2. \A c \in D : c \in Nat /\ (c < b \/ c = b \/ c >= y)
  <2>1. \A c \in D : c \in Nat /\ (b < c => y <= c)
    BY TilesBlocks
  <2> QED BY <1>1, <2>1
<1> SUFFICES /\ Shape(g) /\ Tiles(g) /\ g.end = h.end /\ g.state = h.state
             /\ g.zero = h.zero /\ g.flist = h.flist /\ DOMAIN g.head = D
             /\ g.head[b] = Tag(k, yes)
             /\ \A c \in D \ {b} : g.head[c] = h.head[c]
  OBVIOUS
<1>3. g = Mark(h, b, k, yes)
  OBVIOUS
<1> HIDE DEF k, y, g
<1>4. TilesBut(h, b, y)
  BY <1>1, GapTiles
<1>5. Out(h, b, y) = D \ {b}
  BY <1>1, <1>2 DEF Out
<1>6. /\ TilesBut(g, y, y) /\ Out(g, y, y) = D
      /\ \A c \in D \ {b} : g.head[c] = h.head[c]
  <2>1. /\ TilesBut(g, b + k, y) /\ Out(g, b + k, y) = Out(h, b, y) \cup {b}
        /\ \A c \in Out(h, b, y) : g.head[c] = h.head[c]
    BY <1>1, <1>3, <1>4, MarkTiles
  <2> QED BY <2>1, <1>1, <1>5
<1>7. Tiles(g) /\ DOMAIN g.head = D
  BY <1>1, <1>6, ClosedTiles
<1> QED BY <1>3, <1>6, <1>7, MarkFields

\* mm_malloc's allocate keeps the heap sound and its lists exact: the block
\* chosen is the caller's, and a rest with a payload is listed again.
LEMMA AllocGood ==
  ASSUME NEW h, NEW lv, Good(h, lv), NEW b \in FreeOf(h), NEW n \in Nat,
         n + 1 <= h.head[b].size,
         NEW lv2, DOMAIN lv2 = DOMAIN lv \cup {b},
         \A x \in DOMAIN lv : lv2[x] = lv[x], ALIGN(lv2[b]) = n
  PROVE  Good(allocate(h, b, n), lv2) /\ allocate(h, b, n).end = h.end
<1> DEFINE D == DOMAIN h.head
           size == h.head[b].size
           d == dellist(h, b)
           F == FreeOf(h) \ {b}
           x == b + (n + 1)
           k == size - (n + 1)
           g == allocate(h, b, n)
<1>1. /\ Shape(h) /\ Tiles(h) /\ Holds(h, lv) /\ ListsHold(h, FreeOf(h))
      /\ h.state = "ok" /\ CHUNKSIZE - 1 <= h.end /\ h.zero \in BOOLEAN
      /\ JoinedBut(h, NoBlock) /\ b \in D /\ ~h.head[b].alloc
  BY DEF Good, Sound, FreeOf
<1>2. /\ b \in Nat /\ size \in Nat \ {0} /\ Next_(h, b) \in D \cup {h.end}
  BY <1>1, TilesBlocks DEF Next_
<1>3. /\ Shape(d) /\ d.end = h.end /\ d.zero = h.zero /\ d.head = h.head
      /\ d.foot = h.foot /\ d.state = "ok" /\ ListsHold(d, F)
  BY <1>1, DelistFields, DelistHolds
<1>4. Tiles(d)
  BY <1>1, <1>3, TilesSameTags
<1>5. b \notin DOMAIN lv
  BY <1>1 DEF Holds
<1>6. PICK yes \in BOOLEAN, no \in BOOLEAN : yes = TRUE /\ no = FALSE
  OBVIOUS
<1>7. \A c \in D : ~h.head[c].alloc /\ Next_(h, c) # h.end =>
        Next_(h, c) \in D /\ h.head[Next_(h, c)].alloc
  <2>1. \A c \in D : Next_(h, c) \in D \cup {h.end} /\ c \in Nat
    BY <1>1, TilesBlocks DEF Next_
  <2>2. \A c \in D : Next_(h, c) \in D => Next_(h, c) \in Nat
    BY <2>1
  <2> QED BY <1>1, <2>1, <2>2 DEF JoinedBut, NoBlock
<1>8. CASE size = n + 1
  <2>1. g = Mark(d, b, d.head[b].size, yes)
    BY <1>3, <1>6, <1>8 DEF allocate
  <2> HIDE DEF g, d
  <2>2. /\ Shape(g) /\ Tiles(g) /\ g.end = d.end /\ g.state = d.state
        /\ g.zero = d.zero /\ g.flist = d.flist /\ DOMAIN g.head = D
        /\ g.head[b] = Tag(size, yes)
        /\ \A c \in D \ {b} : g.head[c] = h.head[c]
    <3>1. b \in DOMAIN d.head
      BY <1>1, <1>3
    <3> QED BY <1>3, <1>4, <2>1, <3>1, WholeTags
  <2>3. g.head[b].size = size /\ g.head[b].alloc
    BY <1>6, <2>2 DEF Tag
  <2>4. FreeOf(g) = F
    BY <2>2, <2>3 DEF FreeOf
  <2>5. ListsHold(g, FreeOf(g))
    <3>1. \A c \in F : g.head[c] = d.head[c]
      BY <1>3, <2>2 DEF FreeOf
    <3> HIDE DEF F
    <3> QED BY <1>3, <2>2, <2>4, <3>1, ListsKept
  <2>6. Holds(g, lv2)
    BY <1>1, <1>2, <1>5, <1>8, <2>2, <2>3 DEF Holds
  <2>7. \A c \in D : Next_(g, c) = Next_(h, c)
    BY <2>2, <2>3 DEF Next_
  <2>8. JoinedBut(g, NoBlock)
    BY <1>3, <1>7, <2>2, <2>3, <2>7 DEF JoinedBut
  <2>9. Sound(g, lv2)
    BY <1>1, <1>3, <2>2, <2>6 DEF Sound
  <2> QED BY <1>3, <2>2, <2>5, <2>8, <2>9 DEF Good, g
<1>9. CASE size # n + 1
  <2> DEFINE s == Mark(Mark(d, b, n + 1, yes), x, k, no)
  <2>1. g = IF k = 1 THEN s ELSE putlist(s, x)
    <3>1. k = 1 <=> size = n + 2
      BY <1>2
    <3>2. g = IF size = n + 1 THEN Mark(d, b, n + 1, yes)
              ELSE IF size = n + 2 THEN s ELSE putlist(s, x)
      BY <1>6 DEF allocate, Rest
    <3> HIDE DEF g, d, s, size
    <3> QED BY <1>9, <3>1, <3>2
  <2>2. n + 1 < size /\ k \in Nat \ {0} /\ x \in Nat
    BY <1>2, <1>9
  <2>3. /\ Shape(s) /\ Tiles(s) /\ s.end = d.end /\ s.state = d.state
        /\ s.zero = d.zero /\ s.flist = d.flist /\ x \notin D
        /\ DOMAIN s.head = D \cup {x}
        /\ s.head[b] = Tag(n + 1, yes) /\ s.head[x] = Tag(k, no)
        /\ \A c \in D \ {b} : s.head[c] = h.head[c]
    <3>1. b \in DOMAIN d.head /\ n + 1 < d.head[b].size /\ k = d.head[b].size - (n + 1)
      BY <1>1, <1>3, <2>2
    <3> DEFINE kk == d.head[b].size - (n + 1)
    <3> HIDE DEF d, kk
    <3>2. s = Mark(Mark(d, b, n + 1, yes), x, kk, no) /\ kk = k
      BY <3>1 DEF kk
    <3> HIDE DEF s, k
    <3>3. /\ Shape(s) /\ Tiles(s) /\ s.end = d.end /\ s.state = d.state
          /\ s.zero = d.zero /\ s.flist = d.flist /\ x \notin DOMAIN d.head
          /\ DOMAIN s.head = DOMAIN d.head \cup {x}
          /\ s.head[b] = Tag(n + 1, yes)
          /\ s.head[x] = Tag(kk, no)
          /\ \A c \in DOMAIN d.head \ {b} : s.head[c] = d.head[c]
      BY <1>3, <1>4, <3>1, <3>2, SplitTags, SMTT(30) DEF kk
    <3> QED BY <1>3, <3>2, <3>3
  <2> HIDE DEF s, g, d, k
  <2>4. /\ s.head[b].size = n + 1 /\ s.head[b].alloc
        /\ s.head[x].size = k /\ ~s.head[x].alloc
    BY <1>6, <2>3 DEF Tag
  <2>5. Holds(s, lv2)
    BY <1>1, <1>2, <1>5, <2>3, <2>4 DEF Holds
  <2>6. Sound(s, lv2)
    BY <1>1, <1>3, <2>3, <2>5 DEF Sound
  <2>7. ListsHold(s, F)
    <3>1. \A c \in F : s.head[c] = d.head[c]
      BY <1>3, <2>3 DEF FreeOf
    <3> HIDE DEF F
    <3> QED BY <1>3, <2>3, <3>1, ListsKept
  <2>8. FreeOf(s) \ {x} = F
    BY <2>3, <2>4 DEF FreeOf
  <2>9. /\ \A c \in D \ {b} : Next_(s, c) = Next_(h, c)
        /\ Next_(s, x) = Next_(h, b)
    <3>1. Next_(s, x) = Next_(h, b)
      BY <1>2, <2>4 DEF Next_, k
    <3> QED BY <2>3, <3>1 DEF Next_
  <2>10. b # x /\ \A c \in D : ~h.head[c].alloc => Next_(h, c) # b
    <3>1. b < h.end /\ h.end \in Nat
      BY <1>1, TilesBlocks
    <3> QED BY <1>1, <1>2, <1>7, <2>3, <3>1
  <2>11. \A c \in D \cup {x} : ~s.head[c].alloc /\ Next_(s, c) # h.end =>
           s.head[Next_(s, c)].alloc
    <3> SUFFICES ASSUME NEW c \in D \cup {x}, ~s.head[c].alloc, Next_(s, c) # h.end
                 PROVE  s.head[Next_(s, c)].alloc
      OBVIOUS
    <3>1. PICK o \in D : ~h.head[o].alloc /\ Next_(s, c) = Next_(h, o)
      BY <1>1, <2>3, <2>4, <2>9
    <3> QED BY <1>7, <2>3, <2>10, <3>1
  <2>12. JoinedBut(s, NoBlock) /\ JoinedBut(s, x)
    BY <1>3, <2>3, <2>11 DEF JoinedBut
  <2>13. CASE k = 1
    <3>1. g = s /\ x \notin FreeOf(s)
      BY <2>1, <2>4, <2>13 DEF FreeOf
    <3>2. FreeOf(s) = F
      BY <2>8, <3>1
    <3> QED BY <1>3, <2>3, <2>6, <2>7, <2>12, <3>1, <3>2 DEF Good, g
  <2>14. CASE k # 1
    <3>1. g = putlist(s, x) /\ x \in FreeOf(s)
      BY <2>1, <2>2, <2>3, <2>4, <2>14 DEF FreeOf
    <3>2. Mid(s, lv2, x)
      BY <2>6, <2>7, <2>8, <2>12, <3>1 DEF Mid
    <3>3. LeftOK(s, x)
      <4> SUFFICES ASSUME NEW c \in D \cup {x}, Next_(s, c) = x PROVE s.head[c].alloc
        BY <2>3 DEF LeftOK
      <4>1. Next_(h, b) # x /\ \A o \in D : Next_(h, o) # x
        <5>1. \A o \in D : Next_(h, o) \in D \cup {h.end}
          BY <1>1, TilesBlocks DEF Next_
        <5>2. x < h.end
          <6>1. \A o \in DOMAIN s.head : o < s.end
            BY <2>3, TilesBlocks
          <6> QED BY <6>1, <2>3, <1>3
        <5>3. h.end \in Nat /\ x # h.end
          BY <1>1, <2>2, <5>2, TilesBlocks
        <5> QED BY <1>1, <2>3, <5>1, <5>3
      <4> QED BY <4>1, <2>4, <2>9
    <3>4. RightOK(s, x)
      BY <1>3, <2>3, <2>4, <2>11 DEF RightOK
    <3>5. Good(g, lv2)
      BY <3>1, <3>2, <3>3, <3>4, MidPut
    <3>6. g.end = s.end
      BY <2>3, <3>1, PutFields
    <3> QED BY <1>3, <2>3, <3>5, <3>6 DEF g
  <2> QED BY <2>13, <2>14
<1> QED BY <1>8, <1>9

-----------------------------------------------------------------------------
(* Growing the heap.                                                       *)

LEMMA DivFact ==
  ASSUME NEW a \in Nat, NEW b \in Nat \ {0}
  PROVE  a \div b \in Nat /\ a = b * (a \div b) + (a % b) /\ a % b \in 0..(b - 1)
OBVIOUS

\* A request is rounded up to whole chunks.
LEMMA RoundUp ==
  ASSUME NEW a \in Nat \ {0}, NEW b \in Nat \ {0}
  PROVE  /\ ((a + b - 1) \div b) * b \in Nat
         /\ ((a + b - 1) \div b) * b >= a
<1> DEFINE c == a + b - 1
           q == c \div b
           s == c % b
<1>0. c \in Nat /\ c = a + b - 1
  OBVIOUS
<1> HIDE DEF c
<1>1. q \in Nat /\ c = b * q + s /\ s \in 0..(b - 1)
  BY <1>0, DivFact
<1> HIDE DEF q, s
<1> DEFINE t == q * b
<1>2. t \in Nat /\ b * q = t
  BY <1>1
<1> HIDE DEF t
<1>3. t >= a
  BY <1>0, <1>1, <1>2
<1> QED BY <1>2, <1>3 DEF t, q, c

\* The heap grows and its end, from x on, becomes one block.
LEMMA GrownTags ==
  ASSUME NEW h, Shape(h), NEW x, TilesBut(h, x, h.end),
         NEW e, Shape(e), e.head = h.head, e.foot = h.foot,
         e.state = h.state, e.zero = h.zero, e.flist = h.flist,
         NEW k \in Nat \ {0}, h.end <= e.end, e.end = x + k, NEW no \in BOOLEAN
  PROVE  LET g == Mark(e, x, k, no)
         IN  /\ Shape(g) /\ Tiles(g) /\ g.end = e.end /\ g.state = h.state
             /\ g.zero = h.zero /\ g.flist = h.flist
             /\ DOMAIN g.head = Out(h, x, h.end) \cup {x}
             /\ g.head[x] = Tag(k, no)
             /\ \A c \in Out(h, x, h.end) : g.head[c] = h.head[c]
<1> DEFINE y == e.end
           g == Mark(e, x, k, no)
           O == Out(h, x, h.end)
           P == FOut(h, x, h.end)
<1>1. /\ Shape(e) /\ e.end = y /\ e.head = h.head /\ e.foot = h.foot
      /\ e.state = h.state /\ e.zero = h.zero /\ e.flist = h.flist
  OBVIOUS
<1>2. x \in Nat /\ h.end \in Nat /\ x <= h.end /\ y \in Nat /\ h.end <= y /\ x + k = y
  BY DEF TilesBut
<1>3. ASSUME NEW b \in O
      PROVE  /\ b \in Nat /\ h.head[b].size \in Nat \ {0}
             /\ h.head[b] = Tag(h.head[b].size, h.head[b].alloc)
             /\ h.head[b].alloc \in BOOLEAN
             /\ b + h.head[b].size <= x
             /\ b + h.head[b].size \in O \cup {x}
             /\ \A c \in O : b < c => b + h.head[b].size <= c
             /\ b + h.head[b].size - 1 \in P
             /\ h.foot[b + h.head[b].size - 1] = h.head[b]
             /\ b = 0 \/ b - 1 \in P
  <2>1. /\ b \in Nat /\ h.head[b].size \in Nat \ {0}
        /\ h.head[b] = Tag(h.head[b].size, h.head[b].alloc)
        /\ h.head[b].alloc \in BOOLEAN
        /\ b + h.head[b].size <= x \/ b >= h.end
        /\ b + h.head[b].size \in O \cup {x, h.end}
        /\ \A c \in O : b < c => b + h.head[b].size <= c
        /\ b + h.head[b].size - 1 \in P
        /\ h.foot[b + h.head[b].size - 1] = h.head[b]
        /\ b = 0 \/ b = h.end \/ b - 1 \in P
        /\ b + h.head[b].size <= h.end
    BY DEF TilesBut
  <2> QED BY <2>1, <1>2
<1>4. \A f \in P : \E b \in O : f = b + h.head[b].size - 1
  BY DEF TilesBut
<1>5. (x = 0 \/ x - 1 \in P) /\ (x = 0 \/ 0 \in O)
  BY DEF TilesBut
<1>6. \A u \in DOMAIN h.head : u \notin x..(h.end - 1) <=> u \in O
  BY DEF Out
<1>7. \A u \in DOMAIN h.foot : u \notin x..(h.end - 1) <=> u \in P
  BY DEF FOut
<1>8. O \subseteq DOMAIN h.head /\ P \subseteq DOMAIN h.foot
  BY DEF Out, FOut
<1> HIDE DEF y, g, O, P
<1>9. Out(e, x, y) = O
  BY <1>1, <1>2, <1>3, <1>6, <1>8 DEF Out
<1>10. FOut(e, x, y) = P
  BY <1>1, <1>2, <1>3, <1>4, <1>7, <1>8 DEF FOut
<1>11. TilesBut(e, x, y)
  <2>1. ASSUME NEW b \in O
        PROVE  /\ b \in Nat /\ e.head[b].size \in Nat \ {0}
               /\ e.head[b] = Tag(e.head[b].size, e.head[b].alloc)
               /\ e.head[b].alloc \in BOOLEAN
               /\ b + e.head[b].size <= x \/ b >= y
               /\ b + e.head[b].size \in O \cup {x, e.end}
               /\ \A c \in O : b < c => b + e.head[b].size <= c
               /\ b + e.head[b].size - 1 \in P
               /\ e.foot[b + e.head[b].size - 1] = e.head[b]
               /\ b = 0 \/ b = y \/ b - 1 \in P
               /\ b + e.head[b].size <= e.end
    BY <1>1, <1>2, <1>3
  <2> QED BY <2>1, <1>1, <1>2, <1>4, <1>5, <1>9, <1>10 DEF TilesBut
<1>12. g = Mark(e, x, k, no) /\ x + k <= y /\ y > 0
  BY <1>2 DEF g
<1>13. /\ TilesBut(g, y, y) /\ Out(g, y, y) = O \cup {x}
       /\ \A c \in O : g.head[c] = e.head[c]
  <2>1. /\ TilesBut(g, x + k, y) /\ Out(g, x + k, y) = Out(e, x, y) \cup {x}
        /\ \A c \in Out(e, x, y) : g.head[c] = e.head[c]
    BY <1>1, <1>11, <1>12, MarkTiles
  <2> QED BY <2>1, <1>2, <1>9
<1>14. Tiles(g) /\ DOMAIN g.head = O \cup {x}
  BY <1>12, <1>13, ClosedTiles
<1>15. /\ Shape(g) /\ g.end = e.end /\ g.flist = e.flist /\ g.state = e.state
       /\ g.zero = e.zero /\ g.head[x] = Tag(k, no)
  BY <1>1, <1>12, MarkFields
<1>16. /\ Shape(g) /\ Tiles(g) /\ g.end = y /\ g.state = h.state
       /\ g.zero = h.zero /\ g.flist = h.flist
       /\ DOMAIN g.head = O \cup {x} /\ g.head[x] = Tag(k, no)
       /\ \A c \in O : g.head[c] = h.head[c]
  BY <1>1, <1>13, <1>14, <1>15
<1> QED BY <1>16 DEF g, y, O

\* The footer before the end leads to the last block.
LEMMA LastBlock ==
  ASSUME NEW h, Tiles(h), h.end > 0
  PROVE  \E p \in DOMAIN h.head : /\ Next_(h, p) = h.end
                                  /\ h.foot[h.end - 1] = h.head[p]
<1>1. h.end \in Nat /\ h.end - 1 \in DOMAIN h.foot
  BY TilesBlocks
<1>2. PICK p \in DOMAIN h.head : h.end - 1 = p + h.head[p].size - 1
  BY <1>1, TilesBlocks
<1>3. p \in Nat /\ h.head[p].size \in Nat /\ h.foot[p + h.head[p].size - 1] = h.head[p]
  BY TilesBlocks
<1>4. Next_(h, p) = h.end
  BY <1>1, <1>2, <1>3 DEF Next_
<1> QED BY <1>2, <1>3, <1>4

\* A listed block that holds the payload is found.
LEMMA ListedFound ==
  ASSUME NEW h, Tiles(h), ListsHold(h, FreeOf(h)), NEW b \in FreeOf(h), NEW n \in Nat,
         n + 1 <= h.head[b].size
  PROVE  CanFind(h, n)
<1> DEFINE c == ClassOf(h, b)
<1>1. b \in DOMAIN h.head
  BY DEF FreeOf
<1>2. h.head[b].size \in Nat \ {0}
  BY <1>1, TilesBlocks
<1>3. h.head[b].size - 1 \in Nat /\ n <= h.head[b].size - 1
  BY <1>2
<1>4. c \in Classes /\ c >= fg(n) /\ fg(n) \in Classes
  BY <1>3, ClassProperties DEF ClassOf, Classes
<1>5. PICK i \in 1..Len(h.flist[c]) : h.flist[c][i] = b
  BY DEF ListsHold
<1> HIDE DEF c
<1>6. Fits(h, c, i, n)
  BY <1>1, <1>5 DEF Fits
<1> QED BY <1>4, <1>5, <1>6 DEF CanFind

\* What the heap grows by suffices and makes a block of list 4 or later.
LEMMA GrowthFits ==
  ASSUME NEW h, NEW n \in Nat \ {0}, NEW r \in Nat, r = RightSize(h)
  PROVE  /\ Growth(h, n) \in Nat /\ n + 1 <= r + Growth(h, n)
         /\ n + 1 > r => CHUNKSIZE <= r + Growth(h, n)
<1> DEFINE a == (n + 1) - r
           t == ((a + CHUNKSIZE - 1) \div CHUNKSIZE) * CHUNKSIZE
<1>0. CHUNKSIZE \in Nat \ {0}
  BY MallocAssumption
<1>1. Growth(h, n) = IF a <= 0 THEN 0 ELSE t
  BY DEF Growth, Needed
<1>2. CASE a <= 0
  <2> HIDE DEF t
  <2> QED BY <1>1, <1>2
<1>3. CASE a > 0
  <2>1. a \in Nat \ {0}
    BY <1>3
  <2> HIDE DEF a
  <2>2. t \in Nat /\ t >= a
    BY <1>0, <2>1, RoundUp
  <2>3. (a + CHUNKSIZE - 1) \div CHUNKSIZE \in Nat \ {0}
    <3> DEFINE q == (a + CHUNKSIZE - 1) \div CHUNKSIZE
    <3>1. q \in Nat
      <4> DEFINE d == a + CHUNKSIZE - 1
      <4>1. d \in Nat
        BY <1>0, <2>1
      <4> HIDE DEF d
      <4>2. d \div CHUNKSIZE \in Nat
        BY <1>0, <4>1, DivFact
      <4> QED BY <4>2 DEF d
    <3>2. q # 0
      <4> SUFFICES ASSUME q = 0 PROVE FALSE
        OBVIOUS
      <4> HIDE DEF q
      <4>1. t = q * CHUNKSIZE
        BY DEF q
      <4> HIDE DEF t
      <4>2. t = 0
        BY <4>1, <1>0
      <4> QED BY <4>2, <2>1, <2>2
    <3> QED BY <3>1, <3>2
  <2>4. t >= CHUNKSIZE
    <3> DEFINE q == (a + CHUNKSIZE - 1) \div CHUNKSIZE
    <3>1. t = q * CHUNKSIZE /\ q \in Nat \ {0}
      BY <2>3
    <3> HIDE DEF q, t
    <3>2. q = 1 \/ q - 1 \in Nat
      BY <3>1
    <3>3. q * CHUNKSIZE = (q - 1) * CHUNKSIZE + CHUNKSIZE
      BY <1>0, <3>1
    <3>4. (q - 1) * CHUNKSIZE \in Nat
      BY <1>0, <3>1
    <3> QED BY <3>1, <3>3, <3>4, <1>0
  <2> HIDE DEF t
  <2> QED BY <1>0, <1>1, <1>3, <2>2, <2>4 DEF a
<1> QED BY <1>2, <1>3

\* A block of at least a chunk less a unit is listed when the heap grows.
LEMMA NewListed ==
  ASSUME NEW h, NEW b, h.head[b].size \in Nat, CHUNKSIZE - 1 <= h.head[b].size
  PROVE  ListNew(h, b) = putlist(h, b)
<1> DEFINE k == h.head[b].size - 1
<1>1. k \in Nat /\ k > Limit[3]
  <2>1. Limit[3] < CHUNKSIZE - 2 /\ Limit[3] \in Nat /\ CHUNKSIZE \in Nat /\ CHUNKSIZE > 3
    BY MallocAssumption
  <2> QED BY <2>1
<1> HIDE DEF k
<1>2. fg(k) >= 4
  BY <1>1, ClassProperties
<1> QED BY <1>2 DEF ListNew, putlist, k

\* The heap grows by a free block that joins the one at its end, and the
\* request is found then.
LEMMA ExtendGood ==
  ASSUME NEW h, NEW lv, Good(h, lv), NEW n \in Nat \ {0}, ~CanFind(h, n)
  PROVE  LET g == extend(h, n)
         IN  /\ g.end \in Nat /\ h.end <= g.end /\ (g.end = h.end \/ g.end < MaxHeap)
             /\ g.state = "lost" \/ (Good(g, lv) /\ CanFind(g, n))
<1> DEFINE g == extend(h, n)
           r == RightSize(h)
           j == Growth(h, n)
           b == h.end - r
           d == IF r > 1 THEN dellist(h, b) ELSE h
           D == DOMAIN h.head
<1>1. /\ Shape(h) /\ Tiles(h) /\ Holds(h, lv) /\ ListsHold(h, FreeOf(h))
      /\ h.state = "ok" /\ CHUNKSIZE - 1 <= h.end /\ h.zero \in BOOLEAN
      /\ JoinedBut(h, NoBlock) /\ h.end \in Nat
      /\ CHUNKSIZE \in Nat /\ CHUNKSIZE > 3 /\ h.end > 0 /\ MaxHeap \in Nat
  <2>1. CHUNKSIZE \in Nat /\ CHUNKSIZE > 3 /\ MaxHeap \in Nat
    BY MallocAssumption
  <2>2. Tiles(h)
    BY DEF Good, Sound
  <2>3. h.end \in Nat
    BY <2>2, TilesBlocks
  <2> QED BY <2>1, <2>3 DEF Good, Sound
<1>2. PICK p \in D : Next_(h, p) = h.end /\ h.foot[h.end - 1] = h.head[p]
  BY <1>1, LastBlock
<1>3. \A c \in D : /\ c \in Nat /\ h.head[c].size \in Nat \ {0} /\ h.head[c].alloc \in BOOLEAN
                   /\ Next_(h, c) \in D \cup {h.end} /\ c < h.end /\ c < Next_(h, c)
  BY <1>1, TilesBlocks DEF Next_
<1>4. IF h.head[p].alloc THEN r = 0 /\ b = h.end ELSE r = h.head[p].size /\ b = p /\ r > 0
  BY <1>1, <1>2, <1>3 DEF RightSize, Next_
<1>5. r \in Nat /\ b \in Nat /\ b + r = h.end
  BY <1>1, <1>3, <1>4
<1> HIDE DEF r, j, b
<1>6. n + 1 > r
  <2> SUFFICES ASSUME r >= n + 1 PROVE FALSE
    BY <1>5
  <2>1. ~h.head[p].alloc /\ r = h.head[p].size
    BY <1>4
  <2>2. p \in FreeOf(h)
    BY <2>1, <1>3 DEF FreeOf
  <2>3. CanFind(h, n)
    BY <1>1, <2>1, <2>2, ListedFound
  <2> QED BY <2>3
<1>7. j \in Nat /\ n + 1 <= r + j /\ CHUNKSIZE <= r + j
  <2>1. r = RightSize(h) /\ j = Growth(h, n)
    BY DEF r, j
  <2> QED BY <1>5, <1>6, <2>1, GrowthFits
<1>8. g = IF SbrkFails(h, j) THEN [h EXCEPT !.state = "lost"]
          ELSE ListNew(Mark([d EXCEPT !.end = @ + j], b, r + j, FALSE), b)
  BY DEF extend, r, j, b
<1> HIDE DEF g
<1> SUFFICES /\ g.end \in Nat /\ h.end <= g.end /\ (g.end = h.end \/ g.end < MaxHeap)
             /\ g.state = "lost" \/ (Good(g, lv) /\ CanFind(g, n))
  BY DEF g
<1>9. CASE SbrkFails(h, j)
  <2>1. g = [h EXCEPT !.state = "lost"]
    BY <1>8, <1>9
  <2> QED BY <1>1, <2>1 DEF Shape
<1>10. CASE ~SbrkFails(h, j)
  <2> DEFINE F == FreeOf(h) \ {b}
             O == Out(h, b, h.end)
  <2>1. PICK no \in BOOLEAN : no = FALSE
    OBVIOUS
  <2> DEFINE e == [d EXCEPT !.end = @ + j]
             m == Mark(e, b, r + j, no)
  <2>2. g = ListNew(m, b)
    BY <1>8, <1>10, <2>1
  <2>3. h.end + j < MaxHeap
    BY <1>1, <1>7, <1>10 DEF SbrkFails
  <2>4. r > 1 => b \in FreeOf(h)
    BY <1>4, <1>3 DEF FreeOf
  <2>5. r <= 1 => b \notin FreeOf(h)
    BY <1>1, <1>3, <1>4 DEF FreeOf
  <2>6. /\ Shape(d) /\ d.end = h.end /\ d.zero = h.zero /\ d.head = h.head
        /\ d.foot = h.foot /\ d.state = "ok" /\ ListsHold(d, F)
    <3>1. CASE r > 1
      BY <1>1, <2>4, <3>1, DelistFields, DelistHolds
    <3>2. CASE ~(r > 1)
      <4>1. F = FreeOf(h) /\ d = h
        BY <1>5, <2>5, <3>2
      <4> QED BY <1>1, <4>1
    <3> QED BY <3>1, <3>2
  <2>7. TilesBut(h, b, h.end) /\ O = D \ {b}
    <3>1. CASE h.head[p].alloc
      <4>1. b = h.end /\ b \notin D
        BY <1>1, <1>3, <1>4, <3>1
      <4>2. Out(h, h.end, h.end) = D /\ TilesBut(h, h.end, h.end)
        BY <1>1, TilesBlocks DEF Tiles
      <4> QED BY <4>1, <4>2
    <3>2. CASE ~h.head[p].alloc
      <4>1. b = p /\ b < h.end
        BY <1>3, <1>4, <3>2
      <4>2. TilesBut(h, b, h.end)
        BY <1>1, <4>1, GapTiles
      <4>3. \A c \in D : b < c => h.end <= c
        <5>1. \A c \in D : p < c => p + h.head[p].size <= c
          BY <1>1, TilesBlocks
        <5> QED BY <5>1, <4>1, <1>2 DEF Next_
      <4>4. \A c \in D : c \in b..(h.end - 1) <=> c = b
        BY <1>1, <1>3, <1>5, <4>1, <4>3
      <4> QED BY <4>2, <4>4 DEF Out
    <3> QED BY <3>1, <3>2
  <2> DEFINE k == r + j
  <2>8. k \in Nat \ {0} /\ b + k = h.end + j /\ n + 1 <= k /\ CHUNKSIZE <= k /\ k > 1
    BY <1>1, <1>5, <1>7
  <2>9. TilesBut(d, b, d.end) /\ Out(d, b, d.end) = O
    BY <2>6, <2>7, TilesSameTags
  <2>10. /\ m = Mark(e, b, k, no) /\ Shape(e) /\ e.end = d.end + j /\ e.head = d.head
         /\ e.foot = d.foot /\ e.state = d.state /\ e.zero = d.zero /\ e.flist = d.flist
    <3> HIDE DEF d
    <3> QED BY <2>6 DEF Shape
  <2> HIDE DEF d, k, m, O, e
  <2>11. /\ Shape(m) /\ Tiles(m) /\ m.end = h.end + j /\ m.state = d.state
         /\ m.zero = d.zero /\ m.flist = d.flist /\ DOMAIN m.head = D \cup {b}
         /\ m.head[b] = Tag(k, no)
         /\ \A c \in D \ {b} : m.head[c] = h.head[c]
    <3>1. b + k = d.end + j
      BY <2>6, <2>8
    <3>2. /\ Shape(m) /\ Tiles(m) /\ m.end = d.end + j /\ m.state = d.state
          /\ m.zero = d.zero /\ m.flist = d.flist
          /\ DOMAIN m.head = Out(d, b, d.end) \cup {b}
          /\ m.head[b] = Tag(k, no)
          /\ \A c \in Out(d, b, d.end) : m.head[c] = d.head[c]
      <4>1. /\ Shape(d) /\ TilesBut(d, b, d.end) /\ j \in Nat /\ k \in Nat \ {0}
            /\ d.end <= e.end /\ e.end = b + k /\ no \in BOOLEAN
            /\ m = Mark(e, b, k, no) /\ Shape(e) /\ e.head = d.head
            /\ e.foot = d.foot /\ e.state = d.state /\ e.zero = d.zero /\ e.flist = d.flist
        BY <1>1, <1>7, <2>6, <2>8, <2>9, <2>10, <3>1
      <4>2. m.end = d.end + j
        <5>1. m.end = e.end
          BY ONLY <4>1, MarkFields
        <5> QED BY <5>1, <2>10
      <4>3. /\ Shape(m) /\ Tiles(m) /\ m.state = d.state
            /\ m.zero = d.zero /\ m.flist = d.flist
            /\ DOMAIN m.head = Out(d, b, d.end) \cup {b}
            /\ m.head[b] = Tag(k, no)
            /\ \A c \in Out(d, b, d.end) : m.head[c] = d.head[c]
        <5> PICK dd, ee, kk, nn, bb : dd = d /\ ee = e /\ kk = k /\ nn = no /\ bb = b
          OBVIOUS
        <5>1. /\ Shape(dd) /\ TilesBut(dd, bb, dd.end) /\ kk \in Nat \ {0}
              /\ dd.end <= ee.end /\ ee.end = bb + kk /\ nn \in BOOLEAN
              /\ Shape(ee) /\ ee.head = dd.head /\ ee.foot = dd.foot
              /\ ee.state = dd.state /\ ee.zero = dd.zero /\ ee.flist = dd.flist
          BY <4>1
        <5> DEFINE z == Mark(ee, bb, kk, nn)
        <5>2. /\ Shape(z) /\ Tiles(z) /\ z.state = dd.state
              /\ z.zero = dd.zero /\ z.flist = dd.flist
              /\ DOMAIN z.head = Out(dd, bb, dd.end) \cup {bb}
              /\ z.head[bb] = Tag(kk, nn)
              /\ \A c \in Out(dd, bb, dd.end) : z.head[c] = dd.head[c]
          BY ONLY <5>1, GrownTags
        <5>3. z = m
          BY <4>1
        <5> QED BY <5>2, <5>3
      <4> QED BY <4>2, <4>3
    <3> QED BY <2>6, <2>7, <2>9, <3>2
  <2>12. m.head[b].size = k /\ ~m.head[b].alloc
    BY <2>1, <2>11 DEF Tag
  <2>13. b \in FreeOf(m) /\ FreeOf(m) \ {b} = F
    BY <2>8, <2>11, <2>12 DEF FreeOf
  <2>14. ListsHold(m, F)
    <3>1. \A c \in F : m.head[c] = d.head[c]
      BY <2>6, <2>11 DEF FreeOf
    <3> HIDE DEF F
    <3> QED BY <2>6, <2>11, <3>1, ListsKept
  <2>15. b \notin DOMAIN lv
    <3>1. b \in D => ~h.head[b].alloc
      BY <1>1, <1>3, <1>4
    <3> QED BY <1>1, <3>1 DEF Holds
  <2>16. Holds(m, lv)
    BY <1>1, <2>11, <2>12, <2>15 DEF Holds
  <2>17. Sound(m, lv)
    BY <1>1, <1>7, <2>6, <2>11, <2>16 DEF Sound
  <2>18. /\ \A c \in D \ {b} : Next_(m, c) = Next_(h, c)
         /\ Next_(m, b) = m.end
    BY <2>8, <2>11, <2>12 DEF Next_
  <2>19. \A c \in D \ {b} : ~h.head[c].alloc => /\ Next_(h, c) # b /\ Next_(h, c) \in D \ {b}
                                                /\ h.head[Next_(h, c)].alloc
    <3> SUFFICES ASSUME NEW c \in D \ {b}, ~h.head[c].alloc
                 PROVE  /\ Next_(h, c) # b /\ Next_(h, c) \in D \ {b}
                        /\ h.head[Next_(h, c)].alloc
      OBVIOUS
    <3>1. Next_(h, c) # h.end
      <4> SUFFICES ASSUME Next_(h, c) = h.end PROVE FALSE
        OBVIOUS
      <4>1. \A u, v \in D : u < v => Next_(h, u) <= v
        BY <1>1, TilesBlocks DEF Next_
      <4>2. c = p
        <5>1. c \in Nat /\ p \in Nat /\ c < h.end /\ p < h.end /\ h.end \in Nat
          BY <1>1, <1>3
        <5>2. (c < p => h.end <= p) /\ (p < c => h.end <= c)
          BY <4>1, <1>2
        <5> QED BY <5>1, <5>2
      <4> QED BY <4>2, <1>4
    <3>2. Next_(h, c) \in D /\ Next_(h, c) # NoBlock /\ c # NoBlock
      BY <3>1, <1>3 DEF NoBlock
    <3>3. h.head[Next_(h, c)].alloc
      BY <3>1, <3>2, <1>1 DEF JoinedBut
    <3>4. b \in D => ~h.head[b].alloc
      BY <1>1, <1>3, <1>4
    <3> QED BY <3>2, <3>3, <3>4
  <2>20. JoinedBut(m, b)
    BY <2>11, <2>18, <2>19 DEF JoinedBut
  <2>21. Mid(m, lv, b)
    BY <2>13, <2>14, <2>17, <2>20 DEF Mid
  <2>22. LeftOK(m, b)
    <3> SUFFICES ASSUME NEW c \in D \cup {b}, Next_(m, c) = b PROVE m.head[c].alloc
      BY <2>11 DEF LeftOK
    <3>1. c # b
      BY <1>1, <1>5, <1>7, <2>8, <2>11, <2>18
    <3> QED BY <3>1, <2>11, <2>18, <2>19
  <2>23. RightOK(m, b)
    BY <2>18 DEF RightOK
  <2>24. g = putlist(m, b)
    <3>1. CHUNKSIZE - 1 <= m.head[b].size /\ m.head[b].size \in Nat
      BY <1>1, <2>8, <2>12
    <3> QED BY <2>2, <3>1, NewListed
  <2>25. Good(g, lv)
    BY <2>21, <2>22, <2>23, <2>24, MidPut
  <2>26. g.end = m.end /\ g.head = m.head
    BY <2>11, <2>24, PutFields
  <2>27. CanFind(g, n)
    <3>1. b \in FreeOf(g) /\ n + 1 <= g.head[b].size
      BY <2>8, <2>12, <2>13, <2>26 DEF FreeOf
    <3>2. Tiles(g) /\ ListsHold(g, FreeOf(g))
      BY <2>25 DEF Good, Sound
    <3> QED BY <3>1, <3>2, ListedFound
  <2>28. g.end = h.end + j
    BY <2>11, <2>26
  <2> QED BY <1>1, <1>7, <2>3, <2>25, <2>27, <2>28
<1> QED BY <1>9, <1>10

\* After the whole heap was freed the next request that is not for nothing
\* makes it one listed block again, or writes through its payload.
LEMMA ExtendWiped ==
  ASSUME NEW h, NEW lv, WipedHeap(h, lv), NEW n \in Nat \ {0}
  PROVE  LET g == extend(h, n)
         IN  /\ g.end \in Nat /\ h.end <= g.end /\ (g.end = h.end \/ g.end < MaxHeap)
             /\ g.state = "lost" \/ (Good(g, lv) /\ CanFind(g, n))
<1> DEFINE g == extend(h, n)
           j == Growth(h, n)
           d == dellist(h, 0)
           k == h.end + j
<1>1. /\ Shape(h) /\ h.end \in Nat /\ CHUNKSIZE - 1 <= h.end /\ h.end > 1
      /\ h.zero \in BOOLEAN /\ h.state = "ok"
      /\ DOMAIN h.head = {0} /\ h.head[0].size = 0
      /\ DOMAIN h.foot = {h.end - 1} /\ RightSize(h) = h.end
      /\ h.flist = [c \in Classes |-> IF c = 6 THEN <<Bogus>> ELSE <<>>]
      /\ DOMAIN lv = {} /\ MaxHeap \in Nat /\ CHUNKSIZE \in Nat
  <2>1. CHUNKSIZE \in Nat /\ CHUNKSIZE > 3 /\ MaxHeap \in Nat
    BY MallocAssumption
  <2> QED BY <2>1 DEF WipedHeap, RightSize
<1>2. j \in Nat /\ n + 1 <= h.end + j
  <2>1. h.end \in Nat /\ h.end = RightSize(h)
    BY <1>1
  <2> QED BY <2>1, GrowthFits
<1>3. g = IF SbrkFails(h, j) THEN [h EXCEPT !.state = "lost"]
          ELSE ListNew(Mark([d EXCEPT !.end = @ + j], 0, k, FALSE), 0)
  <2>1. h.end - h.end = 0 /\ h.end > 1
    BY <1>1
  <2> QED BY <1>1, <2>1 DEF extend
<1>4. fg(h.head[0].size - 1) = 6
  <2>1. h.head[0].size - 1 < 0
    BY <1>1
  <2> QED BY <2>1 DEF fg
<1>5. /\ d.state = "lost" \/ (d.state = "ok" /\ ListsHold(d, {}))
      /\ Shape(d) /\ d.end = h.end /\ d.zero = h.zero /\ d.head = h.head /\ d.foot = h.foot
  <2>1. d = delete(h, 6, 0)
    BY <1>4 DEF dellist
  <2>2. h.flist[6] = <<Bogus>> /\ h.flist[6] # <<>> /\ 0 \notin Listed(h, 6)
    BY <1>1 DEF Classes, Listed, Bogus
  <2>3. CASE LinksNull(h, 0)
    <3>1. d = [h EXCEPT !.flist[6] = <<>>]
      BY <2>1, <2>2, <2>3 DEF delete
    <3>2. \A c \in Classes : d.flist[c] = <<>>
      BY <1>1, <3>1 DEF Shape, Classes
    <3>3. d.flist \in [Classes -> Seq(Int)]
      <4>1. d.flist = [c \in Classes |-> d.flist[c]]
        BY <1>1, <3>1 DEF Shape, Classes
      <4>2. <<>> \in Seq(Int)
        OBVIOUS
      <4> QED BY <3>2, <4>1, <4>2
    <3>4. ListsHold(d, {})
      BY <3>2, <3>3 DEF ListsHold
    <3> QED BY <1>1, <3>1, <3>4, DelistFields DEF Shape
  <2>4. CASE ~LinksNull(h, 0)
    <3>1. d = [h EXCEPT !.state = "lost"]
      BY <2>1, <2>2, <2>4 DEF delete
    <3> QED BY <1>1, <3>1 DEF Shape
  <2> QED BY <2>3, <2>4
<1> HIDE DEF g, j, d, k
<1> SUFFICES /\ g.end \in Nat /\ h.end <= g.end /\ (g.end = h.end \/ g.end < MaxHeap)
             /\ g.state = "lost" \/ (Good(g, lv) /\ CanFind(g, n))
  BY DEF g
<1>6. CASE SbrkFails(h, j)
  <2>1. g = [h EXCEPT !.state = "lost"]
    BY <1>3, <1>6
  <2> QED BY <1>1, <2>1 DEF Shape
<1>7. CASE ~SbrkFails(h, j)
  <2>1. PICK no \in BOOLEAN : no = FALSE
    OBVIOUS
  <2> DEFINE e == [d EXCEPT !.end = @ + j]
             m == Mark(e, 0, k, no)
  <2>2. g = ListNew(m, 0)
    BY <1>3, <1>7, <2>1
  <2>3. k \in Nat \ {0} /\ k < MaxHeap /\ k > 1 /\ h.end <= k /\ n + 1 <= k /\ CHUNKSIZE - 1 <= k
    BY <1>1, <1>2, <1>7 DEF SbrkFails, k
  <2>4. /\ Shape(e) /\ e.end = 0 + k /\ e.head = d.head /\ e.foot = d.foot
        /\ e.state = d.state /\ e.zero = d.zero /\ e.flist = d.flist
    BY <1>1, <1>2, <1>5 DEF Shape, k
  <2>5. Out(d, 0, d.end) = {} /\ FOut(d, 0, d.end) = {}
    BY <1>1, <1>5 DEF Out, FOut
  <2>6. TilesBut(d, 0, d.end)
    BY <1>1, <1>5, <2>5 DEF TilesBut
  <2> HIDE DEF e, m
  <2>7. /\ Shape(m) /\ Tiles(m) /\ m.end = k /\ m.state = d.state /\ m.zero = d.zero
        /\ m.flist = d.flist /\ DOMAIN m.head = {0} /\ m.head[0] = Tag(k, no)
    <3> PICK dd, ee, kk, nn, bb : dd = d /\ ee = e /\ kk = k /\ nn = no /\ bb = 0
      OBVIOUS
    <3>1. /\ Shape(dd) /\ TilesBut(dd, bb, dd.end) /\ kk \in Nat \ {0}
          /\ dd.end <= ee.end /\ ee.end = bb + kk /\ nn \in BOOLEAN
          /\ Shape(ee) /\ ee.head = dd.head /\ ee.foot = dd.foot
          /\ ee.state = dd.state /\ ee.zero = dd.zero /\ ee.flist = dd.flist
      BY <1>1, <1>5, <2>3, <2>4, <2>6
    <3> DEFINE z == Mark(ee, bb, kk, nn)
    <3>2. /\ Shape(z) /\ Tiles(z) /\ z.end = ee.end /\ z.state = dd.state
          /\ z.zero = dd.zero /\ z.flist = dd.flist
          /\ DOMAIN z.head = Out(dd, bb, dd.end) \cup {bb}
          /\ z.head[bb] = Tag(kk, nn)
      BY ONLY <3>1, GrownTags
    <3>3. z = m
      BY DEF m
    <3> HIDE DEF z
    <3> QED BY <2>3, <2>4, <2>5, <3>2, <3>3
  <2>8. m.head[0].size = k /\ ~m.head[0].alloc
    BY <2>1, <2>7 DEF Tag
  <2>9. g = putlist(m, 0)
    BY <2>2, <2>3, <2>8, NewListed
  <2>10. g.end = k /\ g.state = d.state
    BY <2>7, <2>9, PutFields
  <2>11. CASE d.state = "lost"
    BY <1>1, <2>3, <2>10, <2>11
  <2>12. CASE d.state = "ok" /\ ListsHold(d, {})
    <3>1. FreeOf(m) = {0}
      BY <2>3, <2>7, <2>8 DEF FreeOf
    <3>2. ListsHold(m, FreeOf(m) \ {0})
      <4> PICK F : F = {}
        OBVIOUS
      <4>1. ListsHold(d, F) /\ FreeOf(m) \ {0} = F
        BY <2>12, <3>1
      <4> QED BY <2>7, <4>1, ListsKept
    <3>3. Holds(m, lv)
      BY <1>1, <2>7, <2>8 DEF Holds
    <3>4. Sound(m, lv)
      BY <1>1, <1>5, <2>3, <2>7, <2>12, <3>3 DEF Sound
    <3>5. Next_(m, 0) = m.end /\ m.end # 0
      BY <2>3, <2>7, <2>8 DEF Next_
    <3>6. JoinedBut(m, 0) /\ LeftOK(m, 0) /\ RightOK(m, 0)
      BY <2>7, <3>5 DEF JoinedBut, LeftOK, RightOK
    <3>7. Good(g, lv)
      BY <2>9, <3>1, <3>2, <3>4, <3>6, MidPut DEF Mid
    <3>8. CanFind(g, n)
      <4>1. g.head = m.head
        BY <2>7, <2>9, PutFields
      <4>2. 0 \in FreeOf(g) /\ n + 1 <= g.head[0].size
        BY <2>3, <2>7, <2>8, <4>1 DEF FreeOf
      <4>3. Tiles(g) /\ ListsHold(g, FreeOf(g))
        BY <3>7 DEF Good, Sound
      <4> QED BY <4>2, <4>3, ListedFound
    <3> QED BY <1>1, <2>3, <2>10, <3>7, <3>8
  <2> QED BY <1>5, <2>11, <2>12
<1> QED BY <1>6, <1>7

-----------------------------------------------------------------------------
(* The invariant.                                                          *)

LEMMA AlignFacts ==
  ASSUME NEW b \in Nat \ {0}
  PROVE  ALIGN(b) \in Nat \ {0} /\ b <= 8 * ALIGN(b)
BY DEF ALIGN

HeapInv ==
  /\ heap.end \in Nat /\ heap.end < MaxHeap /\ heap.state \in {"ok", "lost"}
  /\ heap.state = "lost" \/ Good(heap, live) \/ WipedHeap(heap, live)

CallInv ==
  /\ \A p \in DOMAIN live : p \in Nat /\ live[p] \in Requests
  /\ call \in [size : Requests \cup {0}, old : DOMAIN live \cup {NoBlock}, grown : BOOLEAN]
  /\ call.size = 0 => call = NoCall

IInv == HeapInv /\ CallInv /\ GrownOnce

LEMMA GoodState ==
  ASSUME NEW h, NEW lv
  PROVE  /\ Good(h, lv) => h.state = "ok"
         /\ WipedHeap(h, lv) => h.state = "ok"
BY DEF Good, Sound, WipedHeap

\* The heap mm_init makes.
LEMMA FreshGood == Good(Fresh, NoLive) /\ Fresh.end \in Nat /\ Fresh.end < MaxHeap
<1> DEFINE n == CHUNKSIZE - 1
<1>1. /\ n \in Nat \ {0} /\ n > 1 /\ n - 1 \in Nat /\ n < MaxHeap /\ MaxHeap \in Nat
      /\ CHUNKSIZE - 2 = n - 1
      /\ Limit[3] \in Nat /\ Limit[4] \in Nat /\ Limit[3] < n - 1 /\ n - 1 <= Limit[4]
  BY MallocAssumption
<1>2. fg(n - 1) = 4
  <2>1. fg(n - 1) \in Classes /\ Class(n - 1, fg(n - 1)) /\ fg(n - 1) >= 4
    <3>1. Class(n - 1, 4)
      <4>1. 4 - 1 = 3
        OBVIOUS
      <4> QED BY <1>1, <4>1 DEF Class
    <3>2. \E c \in Classes : Class(n - 1, c)
      BY <3>1 DEF Classes
    <3>3. fg(n - 1) \in Classes /\ Class(n - 1, fg(n - 1))
      BY <1>1, <3>2 DEF fg, Between
    <3> QED BY <1>1, <3>3, ClassProperties
  <2>2. \A c \in Classes : c > 4 => ~Class(n - 1, c)
    <3>1. Limit[4] <= Limit[5] /\ Limit[5] \in Nat /\ 5 - 1 = 4 /\ 6 - 1 = 5 /\ 4 + 1 = 5
      BY MallocAssumption
    <3> QED BY <1>1, <3>1 DEF Class, Classes
  <2> QED BY <2>1, <2>2 DEF Classes
<1>3. PICK no \in BOOLEAN : no = FALSE
  OBVIOUS
<1>4. PICK h : h = Fresh
  OBVIOUS
<1>5. /\ Shape(h) /\ h.end = n /\ h.state = "ok" /\ h.zero \in BOOLEAN
      /\ h.head = [x \in {0} |-> Tag(n, no)] /\ h.foot = [x \in {n - 1} |-> Tag(n, no)]
      /\ h.flist = [c \in Classes |-> IF c = 4 THEN <<0>> ELSE <<>>]
  BY <1>1, <1>3, <1>4 DEF Fresh, Shape
<1> HIDE DEF n
<1>6. /\ DOMAIN h.head = {0} /\ h.head[0] = Tag(n, no) /\ h.head[0].size = n /\ ~h.head[0].alloc
      /\ h.head[0].alloc = no
      /\ DOMAIN h.foot = {n - 1} /\ h.foot[n - 1] = Tag(n, no)
  BY <1>3, <1>5 DEF Tag
<1>7. Out(h, n, n) = {0} /\ FOut(h, n, n) = {n - 1}
  BY <1>1, <1>6 DEF Out, FOut
<1>8. Tiles(h)
  BY <1>1, <1>5, <1>6, <1>7 DEF Tiles, TilesBut
<1>9. FreeOf(h) = {0} /\ ClassOf(h, 0) = 4
  BY <1>1, <1>2, <1>6 DEF FreeOf, ClassOf
<1>10. ListsHold(h, {0})
  <2>1. /\ h.flist[4] = <<0>>
        /\ \A c \in Classes : c # 4 => h.flist[c] = <<>>
    BY <1>5 DEF Classes
  <2>2. h.flist \in [Classes -> Seq(Int)]
    <3>1. <<0>> \in Seq(Int) /\ <<>> \in Seq(Int)
      OBVIOUS
    <3> QED BY <3>1, <1>5
  <2>3. Len(<<0>>) = 1 /\ <<0>>[1] = 0 /\ Len(<<>>) = 0
    OBVIOUS
  <2>4. 4 \in Classes /\ 1 \in 1..1
    BY DEF Classes
  <2> PICK s : s = <<0>>
    OBVIOUS
  <2>5. s[1] = 0 /\ Len(s) = 1 /\ h.flist[4] = s /\ 1..Len(s) = {1}
    BY <2>1, <2>3
  <2>6. ASSUME NEW c \in Classes, NEW i \in 1..Len(h.flist[c])
        PROVE  c = 4 /\ i = 1 /\ h.flist[c][i] = 0 /\ Len(h.flist[c]) = 1
    <3>1. c # 4 => 1..Len(h.flist[c]) = {}
      <4>1. c # 4 => h.flist[c] = <<>>
        BY <2>1
      <4> QED BY <4>1, <2>3
    <3>2. c = 4
      BY <3>1
    <3> QED BY <3>2, <2>5
  <2>7. \A c \in Classes : \A i \in 1..Len(h.flist[c]) :
          /\ h.flist[c][i] \in {0}
          /\ c = ClassOf(h, h.flist[c][i])
          /\ \A j \in 1..Len(h.flist[c]) : h.flist[c][j] = h.flist[c][i] => j = i
    BY <1>9, <2>6
  <2>8. \A b \in {0} : /\ ClassOf(h, b) \in Classes
                      /\ \E i \in 1..Len(h.flist[ClassOf(h, b)]) :
                           h.flist[ClassOf(h, b)][i] = b
    BY <1>9, <2>4, <2>5
  <2> QED BY <2>2, <2>7, <2>8 DEF ListsHold
<1>11. JoinedBut(h, NoBlock)
  BY <1>1, <1>5, <1>6 DEF JoinedBut, Next_
<1>12. Holds(h, NoLive)
  BY <1>6 DEF Holds, NoLive
<1>13. CHUNKSIZE - 1 <= h.end
  BY <1>1, <1>5 DEF n
<1>14. Good(h, NoLive)
  BY <1>5, <1>8, <1>9, <1>10, <1>11, <1>12, <1>13 DEF Good, Sound
<1> QED BY <1>1, <1>4, <1>5, <1>14

LEMMA InitInv == Init => IInv
<1> SUFFICES ASSUME Init PROVE IInv
  OBVIOUS
<1>1. heap = Fresh /\ live = NoLive /\ call = NoCall
  BY DEF Init
<1>2. HeapInv
  BY <1>1, FreshGood, GoodState DEF HeapInv
<1>3. DOMAIN live = {}
  BY <1>1 DEF NoLive
<1> PICK no \in BOOLEAN : no = FALSE
  OBVIOUS
<1>4. call = [size |-> 0, old |-> NoBlock, grown |-> no]
  BY <1>1 DEF NoCall
<1>5. call.size = 0 /\ call.old = NoBlock /\ call.grown = no
  BY <1>4
<1> QED BY <1>1, <1>2, <1>3, <1>4, <1>5 DEF IInv, CallInv, GrownOnce

\* What holds when a request begins.
LEMMA IdleStep ==
  ASSUME IInv, Idle, NEW size \in Requests, NEW old \in DOMAIN live \cup {NoBlock},
         NEW no \in BOOLEAN, ~no, call' = [size |-> size, old |-> old, grown |-> no],
         UNCHANGED <<heap, live>>
  PROVE  IInv'
<1>1. HeapInv'
  BY DEF IInv, HeapInv
<1>2. size # 0 /\ call'.size = size /\ call'.grown = no
  BY MallocAssumption
<1>3. call' \in [size : Requests \cup {0}, old : DOMAIN live' \cup {NoBlock}, grown : BOOLEAN]
  OBVIOUS
<1>4. CallInv'
  BY <1>2, <1>3 DEF IInv, CallInv
<1>5. GrownOnce'
  BY <1>2 DEF GrownOnce
<1> QED BY <1>1, <1>4, <1>5 DEF IInv

LEMMA NoCallFields ==
  /\ NoCall.size = 0 /\ NoCall.old = NoBlock /\ ~NoCall.grown
  /\ \A O : NoCall \in [size : Requests \cup {0}, old : O \cup {NoBlock}, grown : BOOLEAN]
<1> PICK no \in BOOLEAN : no = FALSE
  OBVIOUS
<1>1. NoCall = [size |-> 0, old |-> NoBlock, grown |-> no]
  BY DEF NoCall
<1> QED BY <1>1

\* What the search of mm_malloc has found.
LEMMA TakeFacts ==
  ASSUME IInv, call # NoCall, heap.state = "ok", NEW c \in Classes,
         NEW i \in 1..Len(heap.flist[c]), Found(heap, ALIGN(call.size), c, i),
         NEW b, b = heap.flist[c][i]
  PROVE  /\ Good(heap, live) /\ b \in FreeOf(heap) /\ b \in Nat /\ b \notin DOMAIN live
         /\ call.size \in Requests /\ ALIGN(call.size) \in Nat \ {0}
         /\ call.size \in Nat \ {0} /\ call.size <= 8 * ALIGN(call.size)
         /\ ALIGN(call.size) + 1 <= heap.head[b].size
<1>1. call.size \in Requests \cup {0} /\ call.size # 0
  BY DEF IInv, CallInv
<1>2. call.size \in Nat \ {0}
  BY <1>1, MallocAssumption
<1>3. b \in DOMAIN heap.head /\ ALIGN(call.size) + 1 <= heap.head[b].size
  BY DEF Found, Fits
<1>4. ~WipedHeap(heap, live)
  <2> SUFFICES ASSUME WipedHeap(heap, live) PROVE FALSE
    OBVIOUS
  <2>1. b = 0 /\ heap.head[b].size = 0
    BY <1>3 DEF WipedHeap
  <2> QED BY <1>2, <1>3, <2>1, AlignFacts
<1>5. Good(heap, live)
  BY <1>4 DEF IInv, HeapInv
<1>6. b \in FreeOf(heap)
  BY <1>5 DEF Good, ListsHold
<1>7. b \in Nat
  BY <1>3, <1>5, TilesBlocks DEF Good, Sound
<1>8. b \notin DOMAIN live
  BY <1>3, <1>5, <1>6 DEF Good, Sound, Holds, FreeOf
<1> QED BY <1>1, <1>2, <1>3, <1>5, <1>6, <1>7, <1>8, AlignFacts

LEMMA FreeStep ==
  ASSUME IInv, NEW p \in DOMAIN live, Free(p)
  PROVE  IInv' /\ heap'.end = heap.end
<1>1. /\ call = NoCall /\ heap.state = "ok" /\ call' = call
      /\ live' = [b \in DOMAIN live \ {p} |-> live[b]]
  BY DEF Free, Idle
<1>2. PICK z \in BOOLEAN : heap' = mm_free(heap, p, z)
  BY DEF Free
<1>3. /\ \A q \in DOMAIN live : q \in Nat /\ live[q] \in Requests
      /\ heap.end \in Nat /\ heap.end < MaxHeap
  BY DEF IInv, CallInv, HeapInv
<1>4. Good(heap, live)
  <2>1. ~WipedHeap(heap, live)
    BY DEF WipedHeap
  <2> QED BY <1>1, <2>1 DEF IInv, HeapInv
<1>5. ALIGN(live[p]) \in Nat \ {0}
  <2>1. live[p] \in Nat \ {0}
    BY <1>3, MallocAssumption
  <2> QED BY <2>1, AlignFacts
<1>6. DOMAIN live' = DOMAIN live \ {p} /\ \A x \in DOMAIN live' : live'[x] = live[x]
  BY <1>1
<1>7. /\ mm_free(heap, p, z).end = heap.end
      /\ \/ mm_free(heap, p, z).state = "lost"
         \/ Good(mm_free(heap, p, z), live')
         \/ WipedHeap(mm_free(heap, p, z), live')
  BY <1>4, <1>5, <1>6, FreeGood
<1>8. HeapInv'
  <2>1. /\ heap'.end = heap.end
        /\ heap'.state = "lost" \/ Good(heap', live') \/ WipedHeap(heap', live')
    BY <1>2, <1>7
  <2>2. heap'.state \in {"ok", "lost"}
    BY <2>1, GoodState
  <2> QED BY <1>3, <2>1, <2>2 DEF HeapInv
<1>9. CallInv'
  BY <1>1, <1>3, <1>6, NoCallFields DEF CallInv
<1>10. GrownOnce'
  BY <1>1, NoCallFields DEF GrownOnce
<1> QED BY <1>2, <1>7, <1>8, <1>9, <1>10 DEF IInv

\* allocate does not move the end of the heap.
LEMMA AllocEnd ==
  ASSUME NEW h, Shape(h), NEW b, NEW n
  PROVE  allocate(h, b, n).end = h.end
<1>0. PICK yes \in BOOLEAN, no \in BOOLEAN : yes = TRUE /\ no = FALSE
  OBVIOUS
<1> DEFINE d == dellist(h, b)
           n1 == n + 1
           m == Mark(d, b, n1, yes)
           x == b + Rest(n)
           k == h.head[b].size - Rest(n)
           s == Mark(m, x, k, no)
<1>1. allocate(h, b, n) \in {m, s, putlist(s, x)}
  BY <1>0 DEF allocate
<1>2. Shape(d) /\ d.end = h.end
  BY DelistFields
<1> HIDE DEF d, x, k, n1
<1>3. Shape(m) /\ m.end = h.end
  BY <1>2, MarkFields
<1> HIDE DEF m
<1>4. Shape(s) /\ s.end = h.end
  BY <1>3, MarkFields
<1> HIDE DEF s
<1>5. putlist(s, x).end = h.end
  BY <1>4, PutFields
<1> QED BY <1>1, <1>3, <1>4, <1>5

LEMMA TakeStep == ASSUME IInv, Take PROVE IInv' /\ heap'.end = heap.end
<1> DEFINE n == ALIGN(call.size)
<1>1. call # NoCall /\ heap.state = "ok" /\ call' = NoCall
  BY DEF Take
<1>0. PICK c \in Classes : \E i \in 1..Len(heap.flist[c]) :
        /\ Found(heap, n, c, i)
        /\ LET b == heap.flist[c][i]
               h == allocate(heap, b, n)
           IN  /\ heap' = IF call.old = NoBlock THEN h ELSE mm_free(h, call.old, FALSE)
               /\ live' = [x \in (DOMAIN live \cup {b}) \ {call.old} |->
                             IF x = b THEN call.size ELSE live[x]]
  BY DEF Take
<1>2. PICK i \in 1..Len(heap.flist[c]) :
        /\ Found(heap, n, c, i)
        /\ LET b == heap.flist[c][i]
               h == allocate(heap, b, n)
           IN  /\ heap' = IF call.old = NoBlock THEN h ELSE mm_free(h, call.old, FALSE)
               /\ live' = [x \in (DOMAIN live \cup {b}) \ {call.old} |->
                             IF x = b THEN call.size ELSE live[x]]
  BY <1>0
<1>3. PICK b : b = heap.flist[c][i]
  OBVIOUS
<1>4. PICK no \in BOOLEAN : no = FALSE
  OBVIOUS
<1>5. PICK h : h = allocate(heap, b, n)
  OBVIOUS
<1>6. /\ heap' = IF call.old = NoBlock THEN h ELSE mm_free(h, call.old, no)
      /\ live' = [x \in (DOMAIN live \cup {b}) \ {call.old} |->
                    IF x = b THEN call.size ELSE live[x]]
  BY <1>2, <1>3, <1>4, <1>5
<1>7. /\ Good(heap, live) /\ b \in FreeOf(heap) /\ b \in Nat /\ b \notin DOMAIN live
      /\ call.size \in Requests /\ n \in Nat \ {0} /\ call.size \in Nat \ {0}
      /\ n + 1 <= heap.head[b].size
  BY <1>1, <1>2, <1>3, TakeFacts
<1>8. PICK lv2 : lv2 = [x \in DOMAIN live \cup {b} |-> IF x = b THEN call.size ELSE live[x]]
  OBVIOUS
<1>9. /\ DOMAIN lv2 = DOMAIN live \cup {b} /\ lv2[b] = call.size
      /\ \A x \in DOMAIN live : lv2[x] = live[x]
  BY <1>7, <1>8
<1>10. ALIGN(lv2[b]) = n
  BY <1>9
<1> HIDE DEF n
<1>11. Good(h, lv2) /\ h.end = heap.end
  <2> PICK h0, lv, k : h0 = heap /\ lv = live /\ k = n
    OBVIOUS
  <2>1. /\ Good(h0, lv) /\ b \in FreeOf(h0) /\ k \in Nat /\ k + 1 <= h0.head[b].size
        /\ DOMAIN lv2 = DOMAIN lv \cup {b} /\ \A x \in DOMAIN lv : lv2[x] = lv[x]
        /\ ALIGN(lv2[b]) = k
    BY <1>7, <1>9, <1>10
  <2>2. Good(allocate(h0, b, k), lv2)
    BY ONLY <2>1, AllocGood
  <2>3. allocate(h0, b, k).end = h0.end
    BY ONLY <2>1, AllocEnd DEF Good, Sound
  <2> QED BY <1>5, <2>2, <2>3
<1>12. /\ \A q \in DOMAIN live : q \in Nat /\ live[q] \in Requests
       /\ heap.end \in Nat /\ heap.end < MaxHeap
       /\ call.old \in DOMAIN live \cup {NoBlock}
  BY DEF IInv, CallInv, HeapInv
<1>13. \A q \in DOMAIN lv2 : q \in Nat /\ lv2[q] \in Requests
  BY <1>7, <1>9, <1>12
<1>14. /\ DOMAIN live' = DOMAIN lv2 \ {call.old}
       /\ \A x \in DOMAIN live' : live'[x] = lv2[x]
  BY <1>6, <1>8, <1>9
<1>15. /\ heap'.end = heap.end
       /\ heap'.state = "lost" \/ Good(heap', live') \/ WipedHeap(heap', live')
  <2>1. CASE call.old = NoBlock
    <3>1. heap' = h
      BY <1>6, <2>1
    <3>2. (DOMAIN live \cup {b}) \ {call.old} = DOMAIN live \cup {b}
      BY <1>7, <1>12, <2>1 DEF NoBlock
    <3>3. live' = lv2
      BY <1>6, <1>8, <3>2
    <3> QED BY <1>11, <3>1, <3>3
  <2>2. CASE call.old # NoBlock
    <3>1. heap' = mm_free(h, call.old, no) /\ call.old \in DOMAIN lv2
      BY <1>6, <1>9, <1>12, <2>2
    <3>2. ALIGN(lv2[call.old]) \in Nat \ {0}
      <4>1. lv2[call.old] \in Nat \ {0}
        BY <1>13, <3>1, MallocAssumption
      <4> QED BY <4>1, AlignFacts
    <3>3. /\ mm_free(h, call.old, no).end = h.end
          /\ \/ mm_free(h, call.old, no).state = "lost"
             \/ Good(mm_free(h, call.old, no), live')
             \/ WipedHeap(mm_free(h, call.old, no), live')
      <4> PICK o, lv3 : o = call.old /\ lv3 = live'
        OBVIOUS
      <4>1. /\ Good(h, lv2) /\ o \in DOMAIN lv2 /\ ALIGN(lv2[o]) \in Nat \ {0}
            /\ DOMAIN lv3 = DOMAIN lv2 \ {o} /\ \A x \in DOMAIN lv3 : lv3[x] = lv2[x]
            /\ no \in BOOLEAN
        BY <1>11, <1>14, <3>1, <3>2
      <4>2. /\ mm_free(h, o, no).end = h.end
            /\ \/ mm_free(h, o, no).state = "lost"
               \/ Good(mm_free(h, o, no), lv3)
               \/ WipedHeap(mm_free(h, o, no), lv3)
        BY ONLY <4>1, FreeGood
      <4> QED BY <4>2
    <3> QED BY <1>11, <3>1, <3>3
  <2> QED BY <2>1, <2>2
<1>16. HeapInv'
  <2>1. heap'.state \in {"ok", "lost"}
    BY <1>15, GoodState
  <2> QED BY <1>12, <1>15, <2>1 DEF HeapInv
<1>17. CallInv'
  <2>1. \A q \in DOMAIN live' : q \in Nat /\ live'[q] \in Requests
    BY <1>13, <1>14
  <2> QED BY <1>1, <2>1, NoCallFields DEF CallInv
<1>18. GrownOnce'
  BY <1>1, NoCallFields DEF GrownOnce
<1> QED BY <1>15, <1>16, <1>17, <1>18 DEF IInv

LEMMA GrowStep == ASSUME IInv, Grow PROVE IInv' /\ heap.end <= heap'.end
<1> DEFINE n == ALIGN(call.size)
<1>1. /\ call # NoCall /\ heap.state = "ok" /\ ~CanFind(heap, n)
      /\ heap' = extend(heap, n) /\ live' = live
      /\ call' = [call EXCEPT !.grown = TRUE]
  BY DEF Grow
<1>2. call.size \in Requests \cup {0} /\ call.size # 0
  BY <1>1 DEF IInv, CallInv
<1>3. n \in Nat \ {0}
  <2>1. call.size \in Nat \ {0}
    BY <1>2, MallocAssumption
  <2> QED BY <2>1, AlignFacts
<1>4. heap.end \in Nat /\ heap.end < MaxHeap
  BY DEF IInv, HeapInv
<1>5. Good(heap, live) \/ WipedHeap(heap, live)
  BY <1>1 DEF IInv, HeapInv
<1>6. call' \in [size : Requests \cup {0}, old : DOMAIN live \cup {NoBlock}, grown : BOOLEAN]
      /\ call'.size = call.size
  <2> PICK yes \in BOOLEAN : yes = TRUE
    OBVIOUS
  <2>1. call' = [call EXCEPT !.grown = yes]
    BY <1>1
  <2>2. call \in [size : Requests \cup {0}, old : DOMAIN live \cup {NoBlock}, grown : BOOLEAN]
    BY DEF IInv, CallInv
  <2> HIDE DEF n
  <2> QED BY <2>1, <2>2
<1> HIDE DEF n
<1>7. /\ heap'.end \in Nat /\ heap.end <= heap'.end
      /\ heap'.end = heap.end \/ heap'.end < MaxHeap
      /\ heap'.state = "lost" \/ (Good(heap', live) /\ CanFind(heap', n))
  <2> PICK g : g = extend(heap, n)
    OBVIOUS
  <2>1. /\ g.end \in Nat /\ heap.end <= g.end /\ (g.end = heap.end \/ g.end < MaxHeap)
        /\ g.state = "lost" \/ (Good(g, live) /\ CanFind(g, n))
    BY <1>1, <1>3, <1>5, ExtendGood, ExtendWiped
  <2> QED BY <1>1, <2>1
<1>8. HeapInv'
  <2>1. heap'.state \in {"ok", "lost"}
    BY <1>7, GoodState
  <2> QED BY <1>1, <1>4, <1>7, <2>1 DEF HeapInv
<1>9. CallInv'
  BY <1>1, <1>2, <1>6 DEF IInv, CallInv
<1>10. GrownOnce'
  <2>1. heap'.state = "ok" => CanFind(heap', n)
    BY <1>7
  <2>2. n = ALIGN(call'.size)
    BY <1>6 DEF n
  <2> QED BY <2>1, <2>2 DEF GrownOnce
<1> QED BY <1>7, <1>8, <1>9, <1>10 DEF IInv

LEMMA NextInv == IInv /\ [Next]_vars => IInv'
<1> SUFFICES ASSUME IInv, [Next]_vars PROVE IInv'
  OBVIOUS
<1>1. PICK no \in BOOLEAN : no = FALSE
  OBVIOUS
<1>2. ASSUME NEW size \in Requests, Malloc(size) PROVE IInv'
  <2>1. /\ Idle /\ UNCHANGED <<heap, live>>
        /\ call' = [size |-> size, old |-> NoBlock, grown |-> no]
    BY <1>1, <1>2 DEF Malloc
  <2>2. ~no /\ NoBlock \in DOMAIN live \cup {NoBlock}
    BY <1>1
  <2> QED BY <2>1, <2>2, IdleStep
<1>3. ASSUME NEW p \in DOMAIN live, NEW size \in Requests, Realloc(p, size) PROVE IInv'
  <2>1. /\ Idle /\ UNCHANGED <<heap, live>>
        /\ call' = [size |-> size, old |-> p, grown |-> no]
    BY <1>1, <1>3 DEF Realloc
  <2>2. ~no /\ p \in DOMAIN live \cup {NoBlock}
    BY <1>1
  <2> QED BY <2>1, <2>2, IdleStep
<1>4. CASE UNCHANGED vars
  <2>1. heap' = heap /\ live' = live /\ call' = call
    BY <1>4 DEF vars
  <2>2. HeapInv' /\ CallInv'
    BY <2>1 DEF IInv, HeapInv, CallInv
  <2>3. GrownOnce'
    BY <2>1 DEF IInv, GrownOnce
  <2> QED BY <2>2, <2>3 DEF IInv
<1> QED BY <1>2, <1>3, <1>4, FreeStep, TakeStep, GrowStep DEF Next

LEMMA Invariance == Spec => []IInv
<1>1. Init => IInv
  BY InitInv
<1>2. IInv /\ [Next]_vars => IInv'
  BY NextInv
<1> QED BY <1>1, <1>2, PTL DEF Spec

\* A sound heap whose header is not overwritten.
LEMMA SaneGood ==
  ASSUME IInv, Sane
  PROVE  Good(heap, live) /\ Tiles(heap) /\ Holds(heap, live)
<1>1. ~WipedHeap(heap, live)
  BY DEF Sane, Wiped, WipedHeap
<1> QED BY <1>1 DEF IInv, HeapInv, Sane, Good, Sound

\* HeapTiled: the tags split the heap of mm.c into blocks, with footers equal
\* to headers, and the allocated ones are the driver's.
LEMMA InvTiled == IInv => HeapTiled
<1> SUFFICES ASSUME IInv, Sane PROVE HeapTiled
  BY DEF HeapTiled
<1> DEFINE D == DOMAIN heap.head
<1>1. Good(heap, live) /\ Tiles(heap) /\ Holds(heap, live)
  BY SaneGood
<1>2. heap.end > 0
  <2>1. CHUNKSIZE - 1 <= heap.end /\ CHUNKSIZE \in Nat /\ CHUNKSIZE > 3 /\ heap.end \in Nat
    BY <1>1, MallocAssumption, TilesBlocks DEF Good, Sound
  <2> QED BY <2>1
<1>3. 0 \in D
  BY <1>1, <1>2, TilesBlocks
<1>4. ASSUME NEW b \in D
      PROVE  /\ b + heap.head[b].size \in D \cup {heap.end}
             /\ \A c \in D : b < c => b + heap.head[b].size <= c
             /\ b + heap.head[b].size - 1 \in DOMAIN heap.foot
             /\ heap.foot[b + heap.head[b].size - 1] = heap.head[b]
  BY <1>1, TilesBlocks
<1>5. /\ \A b \in D : heap.head[b].alloc <=> b \in DOMAIN live
      /\ \A b \in DOMAIN live : heap.head[b].size > ALIGN(live[b])
  BY <1>1 DEF Holds
<1>6. DOMAIN heap.foot \subseteq Ends
  BY <1>1, TilesBlocks DEF Ends
<1> HIDE DEF D
<1>7. HeapTiled
  BY <1>3, <1>4, <1>5, <1>6 DEF HeapTiled, D
<1> QED BY <1>7

\* FreeListed: the segregated lists of mm.c hold exactly the free blocks that
\* have a payload, each once and on the list of its size.
LEMMA InvListed == IInv => FreeListed
<1> SUFFICES ASSUME IInv, Sane PROVE FreeListed
  BY DEF FreeListed
<1>1. ListsHold(heap, FreeOf(heap))
  BY SaneGood DEF Good
<1>2. ASSUME NEW c \in Classes, NEW i \in 1..Len(heap.flist[c])
      PROVE  LET b == heap.flist[c][i]
             IN  /\ b \in DOMAIN heap.head
                 /\ ~heap.head[b].alloc /\ heap.head[b].size > 1
                 /\ c = fg(heap.head[b].size - 1)
                 /\ \A j \in 1..Len(heap.flist[c]) : heap.flist[c][j] = b => j = i
  BY <1>1 DEF ListsHold, FreeOf, ClassOf
<1>3. ASSUME NEW b \in DOMAIN heap.head, ~heap.head[b].alloc, heap.head[b].size > 1
      PROVE  b \in Listed(heap, fg(heap.head[b].size - 1))
  <2>1. b \in FreeOf(heap)
    BY <1>3 DEF FreeOf
  <2>2. \E i \in 1..Len(heap.flist[ClassOf(heap, b)]) : heap.flist[ClassOf(heap, b)][i] = b
    BY <1>1, <2>1 DEF ListsHold
  <2> QED BY <2>2 DEF Listed, ClassOf
<1>4. FreeListed
  BY <1>2, <1>3 DEF FreeListed
<1> QED BY <1>4

\* Coalesced: mm_free of mm.c leaves no two free blocks side by side.
LEMMA InvCoalesced == IInv => Coalesced
<1> SUFFICES ASSUME IInv, Sane, NEW b \in DOMAIN heap.head,
                    ~heap.head[b].alloc, Next_(heap, b) # heap.end
             PROVE  heap.head[Next_(heap, b)].alloc
  BY DEF Coalesced
<1>1. Tiles(heap) /\ JoinedBut(heap, NoBlock)
  BY SaneGood DEF Good
<1>2. b \in Nat /\ Next_(heap, b) \in Nat
  <2>1. b \in Nat /\ heap.head[b].size \in Nat
    BY <1>1, TilesBlocks
  <2> QED BY <2>1 DEF Next_
<1> QED BY <1>1, <1>2 DEF JoinedBut, NoBlock

\* TypeOK: a heap that has not been written over is well typed.
LEMMA InvTyped == IInv => TypeOK
<1> SUFFICES ASSUME IInv PROVE TypeOK
  OBVIOUS
<1>1. /\ heap.end \in Nat /\ heap.end < MaxHeap /\ heap.state \in {"ok", "lost"}
      /\ heap.state = "lost" \/ Good(heap, live) \/ WipedHeap(heap, live)
      /\ \A p \in DOMAIN live : p \in Nat /\ live[p] \in Requests
      /\ call \in [size : Requests \cup {0}, old : DOMAIN live \cup {NoBlock}, grown : BOOLEAN]
  BY DEF IInv, HeapInv, CallInv
<1>2. \A s \in Nat, a \in BOOLEAN : Tag(s, a) \in [size : Nat, alloc : BOOLEAN]
  BY DEF Tag
<1>3. CASE Good(heap, live)
  <2>1. /\ Tiles(heap) /\ ListsHold(heap, FreeOf(heap)) /\ heap.zero \in BOOLEAN
        /\ Holds(heap, live)
    BY <1>3 DEF Good, Sound
  <2>2. \A b \in DOMAIN heap.head : /\ b \in Nat /\ b < heap.end
                                    /\ heap.head[b].size \in Nat \ {0}
                                    /\ heap.head[b].alloc \in BOOLEAN
                                    /\ heap.head[b] = Tag(heap.head[b].size, heap.head[b].alloc)
                                    /\ b + heap.head[b].size <= heap.end
                                    /\ heap.foot[b + heap.head[b].size - 1] = heap.head[b]
    BY <2>1, TilesBlocks
  <2>3. \A f \in DOMAIN heap.foot : \E b \in DOMAIN heap.head : f = b + heap.head[b].size - 1
    BY <2>1, TilesBlocks
  <2>4. \A x \in DOMAIN heap.head : heap.head[x] \in [size : Nat, alloc : BOOLEAN]
    BY <1>2, <2>2
  <2>5. \A x \in DOMAIN heap.foot : /\ x \in 0..(heap.end - 1)
                                    /\ heap.foot[x] \in [size : Nat, alloc : BOOLEAN]
    BY <1>1, <2>2, <2>3, <2>4
  <2>6. DOMAIN heap.head \subseteq 0..(heap.end - 1)
    BY <1>1, <2>2
  <2>7. heap.flist \in [Classes -> Seq(Nat \cup {Bogus})]
    <3>1. heap.flist \in [Classes -> Seq(Int)]
      BY <2>1 DEF ListsHold
    <3>2. ASSUME NEW c \in Classes PROVE heap.flist[c] \in Seq(Nat \cup {Bogus})
      <4>1. heap.flist[c] \in Seq(Int)
        BY <3>1
      <4>2. \A i \in 1..Len(heap.flist[c]) : heap.flist[c][i] \in Nat
        BY <2>1, <2>2 DEF ListsHold, FreeOf
      <4> PICK s : s = heap.flist[c]
        OBVIOUS
      <4>3. s \in Seq(Int) /\ \A i \in 1..Len(s) : s[i] \in Nat \cup {Bogus}
        BY <4>1, <4>2
      <4>4. s \in [1..Len(s) -> Nat \cup {Bogus}] /\ Len(s) \in Nat
        BY <4>3
      <4>5. s \in Seq(Nat \cup {Bogus})
        BY <4>4
      <4> QED BY <4>5
    <3> QED BY <3>1, <3>2
  <2> QED BY <1>1, <2>1, <2>4, <2>5, <2>6, <2>7 DEF TypeOK, Holds
<1>4. CASE WipedHeap(heap, live)
  <2>1. /\ DOMAIN heap.head = {0} /\ heap.head[0] \in [size : Nat, alloc : BOOLEAN]
        /\ DOMAIN heap.foot = {heap.end - 1}
        /\ heap.foot[heap.end - 1] \in [size : Nat, alloc : BOOLEAN]
    <3>1. 0 \in Nat
      OBVIOUS
    <3> QED BY <1>1, <1>2, <1>4, <3>1 DEF WipedHeap
  <2>2. heap.end > 0
    BY <1>1, <1>4, MallocAssumption DEF WipedHeap
  <2>3. heap.flist \in [Classes -> Seq(Nat \cup {Bogus})]
    <3>1. <<Bogus>> \in Seq(Nat \cup {Bogus}) /\ <<>> \in Seq(Nat \cup {Bogus})
      OBVIOUS
    <3>2. heap.flist = [c \in Classes |-> IF c = 6 THEN <<Bogus>> ELSE <<>>]
      BY <1>4 DEF WipedHeap
    <3> QED BY <3>1, <3>2
  <2> QED BY <1>1, <1>4, <2>1, <2>2, <2>3 DEF TypeOK, WipedHeap
<1>5. CASE heap.state = "lost"
  BY <1>1, <1>5 DEF TypeOK
<1> QED BY <1>1, <1>3, <1>4, <1>5

\* The heap and the driver's records keep their types.
THEOREM TypeCorrect == Spec => []TypeOK
BY Invariance, InvTyped, PTL

\* Until a write through a bad link, the tags always tile the heap.
THEOREM Tiling == Spec => []HeapTiled
BY Invariance, InvTiled, PTL

\* Until then, the lists are exactly the free blocks with a payload.
THEOREM Listing == Spec => []FreeListed
BY Invariance, InvListed, PTL

\* Until then, free neighbours are always joined.
THEOREM Coalescing == Spec => []Coalesced
BY Invariance, InvCoalesced, PTL

\* Having grown the heap mm_malloc finds a block: "goto alloc" ends.
THEOREM GrowsOnce == Spec => []GrownOnce
<1>1. IInv => GrownOnce
  BY DEF IInv
<1> QED BY <1>1, Invariance, PTL

-----------------------------------------------------------------------------
(* The range list of the driver.                                           *)

RangeOf(lv, p) == [lo |-> 8 * (p + 1), hi |-> 8 * (p + 1) + lv[p] - 1]
RangesOf(lv) == {RangeOf(lv, p) : p \in DOMAIN lv}

LEMMA RangeFields ==
  ASSUME NEW lv, NEW p \in Nat, lv[p] \in Nat \ {0}
  PROVE  /\ RangeOf(lv, p).lo = 8 * (p + 1) /\ RangeOf(lv, p).hi = 8 * (p + 1) + lv[p] - 1
         /\ RangeOf(lv, p).lo % 8 = 0
         /\ 0 <= RangeOf(lv, p).lo /\ RangeOf(lv, p).lo <= RangeOf(lv, p).hi
BY DEF RangeOf

\* Blocks have the ranges of their payloads, and no other block's.
LEMMA RangeOne ==
  ASSUME NEW lv, NEW lw, NEW p \in Nat, NEW q \in Nat, RangeOf(lv, p) = RangeOf(lw, q)
  PROVE  p = q
<1>1. 8 * (p + 1) = 8 * (q + 1)
  BY DEF RangeOf
<1> QED BY <1>1

\* The payload taken lies in the heap, clear of those in use.
LEMMA TakenClear ==
  ASSUME NEW h, NEW lv, Good(h, lv), NEW b \in FreeOf(h), NEW n \in Nat \ {0},
         n + 1 <= h.head[b].size, NEW lv2, lv2[b] \in Nat \ {0}, lv2[b] <= 8 * n,
         \A p \in DOMAIN lv : p \in Nat /\ lv[p] \in Nat \ {0}
  PROVE  /\ RangeOf(lv2, b).hi < 8 * (h.end + 1)
         /\ \A p \in DOMAIN lv : ~R!Overlap(RangeOf(lv2, b), RangeOf(lv, p))
<1>1. Tiles(h) /\ Holds(h, lv) /\ b \in DOMAIN h.head /\ ~h.head[b].alloc
  BY DEF Good, Sound, FreeOf
<1>2. /\ b \in Nat /\ h.head[b].size \in Nat \ {0} /\ h.end \in Nat
      /\ b + h.head[b].size <= h.end
  BY <1>1, TilesBlocks
<1>3. /\ RangeOf(lv2, b).lo = 8 * (b + 1) /\ RangeOf(lv2, b).hi = 8 * (b + 1) + lv2[b] - 1
  BY <1>2, RangeFields
<1>4. b + n + 1 <= h.end
  BY <1>2
<1>5. RangeOf(lv2, b).hi < 8 * (h.end + 1)
  BY <1>2, <1>3, <1>4
<1>6. ASSUME NEW p \in DOMAIN lv
      PROVE  ~R!Overlap(RangeOf(lv2, b), RangeOf(lv, p))
  <2>1. /\ p \in Nat /\ lv[p] \in Nat \ {0} /\ p \in DOMAIN h.head
        /\ h.head[p].size > ALIGN(lv[p]) /\ h.head[p].alloc
    BY <1>1 DEF Holds
  <2>2. h.head[p].size \in Nat /\ ALIGN(lv[p]) \in Nat /\ lv[p] <= 8 * ALIGN(lv[p])
    BY <1>1, <2>1, TilesBlocks, AlignFacts
  <2>3. p # b
    BY <1>1, <2>1
  <2>4. (p < b => p + h.head[p].size <= b) /\ (b < p => b + h.head[b].size <= p)
    BY <1>1, <2>1, TilesBlocks
  <2>5. RangeOf(lv, p).lo = 8 * (p + 1) /\ RangeOf(lv, p).hi = 8 * (p + 1) + lv[p] - 1
    BY <2>1, RangeFields
  <2>6. CASE p < b
    <3>1. p + ALIGN(lv[p]) + 1 <= b
      BY <1>2, <2>1, <2>2, <2>4, <2>6
    <3>2. 8 * (p + 1) + lv[p] - 1 < 8 * (b + 1)
      BY <1>2, <2>1, <2>2, <3>1
    <3>3. ~(RangeOf(lv2, b).lo <= RangeOf(lv, p).hi)
      BY <1>2, <1>3, <2>1, <2>5, <3>2
    <3> QED BY <3>3 DEF R!Overlap
  <2>7. CASE b < p
    <3>1. b + n + 1 <= p
      BY <1>2, <2>1, <2>4, <2>7
    <3>2. 8 * (b + 1) + lv2[b] - 1 < 8 * (p + 1)
      BY <1>2, <2>1, <3>1
    <3>3. ~(RangeOf(lv, p).lo <= RangeOf(lv2, b).hi)
      BY <1>2, <1>3, <2>1, <2>5, <3>2
    <3> QED BY <3>3 DEF R!Overlap
  <2> QED BY <1>2, <2>1, <2>3, <2>6, <2>7
<1> QED BY <1>5, <1>6

LEMMA AbstractNext ==
  ASSUME NEW S, S = RangesOf(live), NEW T, T = RangesOf(live'),
         heap.end \in Nat, heap'.end \in Nat, heap.end <= heap'.end
  PROVE  /\ T = S => R!Next
         /\ (\E r \in S : T = S \ {r}) => R!Next
         /\ (\E r \in T \ S : /\ T = S \cup {r} /\ R!Valid(r)
                              /\ \A q \in S : ~R!Overlap(r, q)) => R!Next
         /\ (\E r \in T \ S, o \in S : /\ T = (S \ {o}) \cup {r} /\ R!Valid(r)
                                       /\ \A q \in S : ~R!Overlap(r, q)) => R!Next
<1>1. 8 * (heap'.end + 1) >= 8 * (heap.end + 1)
  OBVIOUS
<1>2. T = S => R!Next
  BY <1>1 DEF R!Next, RangesOf, RangeOf
<1>3. (\E r \in S : T = S \ {r}) => R!Next
  BY <1>1 DEF R!Next, R!Remove, RangesOf, RangeOf
<1>4. (\E r \in T \ S : /\ T = S \cup {r} /\ R!Valid(r)
                        /\ \A q \in S : ~R!Overlap(r, q)) => R!Next
  BY <1>1 DEF R!Next, R!Add, RangesOf, RangeOf
<1>5. (\E r \in T \ S, o \in S : /\ T = (S \ {o}) \cup {r} /\ R!Valid(r)
                                 /\ \A q \in S : ~R!Overlap(r, q)) => R!Next
  BY <1>1 DEF R!Next, R!Replace, RangesOf, RangeOf
<1> QED BY <1>2, <1>3, <1>4, <1>5

\* mm_free takes one range out.
LEMMA FreeRefines ==
  ASSUME IInv, NEW p \in DOMAIN live, Free(p)
  PROVE  R!Next
<1>1. live' = [b \in DOMAIN live \ {p} |-> live[b]]
  BY DEF Free
<1>2. \A q \in DOMAIN live : q \in Nat
  BY DEF IInv, CallInv
<1>3. heap.end \in Nat /\ heap'.end = heap.end
  BY FreeStep DEF IInv, HeapInv
<1> DEFINE S == RangesOf(live)
           T == RangesOf(live')
           r == RangeOf(live, p)
<1>4. \A q \in DOMAIN live \ {p} : RangeOf(live', q) = RangeOf(live, q)
  BY <1>1 DEF RangeOf
<1>5. DOMAIN live' = DOMAIN live \ {p}
  BY <1>1
<1>6. \A q \in DOMAIN live \ {p} : RangeOf(live, q) # r
  BY <1>2, RangeOne
<1> HIDE DEF r
<1>7. r \in S
  BY DEF RangesOf, r
<1>8. T = S \ {r}
  <2>1. T = {RangeOf(live, q) : q \in DOMAIN live \ {p}}
    BY <1>4, <1>5 DEF RangesOf
  <2>2. S = {RangeOf(live, q) : q \in DOMAIN live}
    BY DEF RangesOf
  <2>3. RangeOf(live, p) = r
    BY DEF r
  <2> HIDE DEF S, T
  <2> QED BY <2>1, <2>2, <2>3, <1>6
<1> QED BY <1>3, <1>7, <1>8, AbstractNext

\* mm_malloc adds a range; mm_realloc puts one in the place of another.
LEMMA TakeRefines ==
  ASSUME IInv, Take
  PROVE  R!Next
<1> DEFINE n == ALIGN(call.size)
<1>1. call # NoCall /\ heap.state = "ok"
  BY DEF Take
<1>2. PICK c \in Classes : \E i \in 1..Len(heap.flist[c]) :
        /\ Found(heap, n, c, i)
        /\ live' = [x \in (DOMAIN live \cup {heap.flist[c][i]}) \ {call.old} |->
                      IF x = heap.flist[c][i] THEN call.size ELSE live[x]]
  BY DEF Take
<1>3. PICK i \in 1..Len(heap.flist[c]) :
        /\ Found(heap, n, c, i)
        /\ live' = [x \in (DOMAIN live \cup {heap.flist[c][i]}) \ {call.old} |->
                      IF x = heap.flist[c][i] THEN call.size ELSE live[x]]
  BY <1>2
<1>4. PICK b : b = heap.flist[c][i]
  OBVIOUS
<1>5. /\ Good(heap, live) /\ b \in FreeOf(heap) /\ b \in Nat /\ b \notin DOMAIN live
      /\ n \in Nat \ {0} /\ call.size \in Nat \ {0} /\ call.size <= 8 * n
      /\ n + 1 <= heap.head[b].size
  BY <1>1, <1>3, <1>4, TakeFacts
<1> HIDE DEF n
<1>6. /\ \A q \in DOMAIN live : q \in Nat /\ live[q] \in Nat \ {0}
      /\ call.old \in DOMAIN live \cup {NoBlock}
  BY MallocAssumption DEF IInv, CallInv
<1>7. heap.end \in Nat /\ heap'.end = heap.end
  BY TakeStep DEF IInv, HeapInv
<1>8. b # call.old
  BY <1>5, <1>6 DEF NoBlock
<1>9. /\ DOMAIN live' = (DOMAIN live \cup {b}) \ {call.old} /\ live'[b] = call.size
      /\ \A q \in DOMAIN live \ {call.old} : live'[q] = live[q]
  BY <1>3, <1>4, <1>5, <1>8
<1> DEFINE S == RangesOf(live)
           T == RangesOf(live')
           r == RangeOf(live', b)
<1>10. /\ r.hi < 8 * (heap.end + 1)
       /\ \A p \in DOMAIN live : ~R!Overlap(r, RangeOf(live, p))
  <2> PICK lv2, h, lv, k : lv2 = live' /\ h = heap /\ lv = live /\ k = n
    OBVIOUS
  <2>1. /\ Good(h, lv) /\ b \in FreeOf(h) /\ k \in Nat \ {0} /\ k + 1 <= h.head[b].size
        /\ lv2[b] \in Nat \ {0} /\ lv2[b] <= 8 * k
        /\ \A p \in DOMAIN lv : p \in Nat /\ lv[p] \in Nat \ {0}
    BY <1>5, <1>6, <1>9
  <2>2. RangeOf(lv2, b).hi < 8 * (h.end + 1)
    BY <2>1, TakenClear
  <2>3. \A p \in DOMAIN lv : ~R!Overlap(RangeOf(lv2, b), RangeOf(lv, p))
    BY <2>1, TakenClear
  <2> QED BY <2>2, <2>3
<1>11. r.lo % 8 = 0 /\ 0 <= r.lo /\ r.lo <= r.hi
  BY <1>5, <1>9, RangeFields
<1>12. R!Valid(r)
  BY <1>7, <1>10, <1>11 DEF R!Valid
<1>13. \A q \in S : ~R!Overlap(r, q)
  BY <1>10 DEF RangesOf
<1>14. \A q \in DOMAIN live : RangeOf(live, q) # r
  BY <1>5, <1>6, RangeOne
<1>15. \A q \in DOMAIN live \ {call.old} : RangeOf(live', q) = RangeOf(live, q)
  BY <1>9 DEF RangeOf
<1>16. r \in T \ S
  <2>1. r \in T
    BY <1>8, <1>9 DEF RangesOf
  <2>2. r \notin S
    BY <1>14 DEF RangesOf
  <2> QED BY <2>1, <2>2
<1>17. T = {RangeOf(live, q) : q \in DOMAIN live \ {call.old}} \cup {r}
  <2>1. T = {RangeOf(live', q) : q \in (DOMAIN live \cup {b}) \ {call.old}}
    BY <1>9 DEF RangesOf
  <2>2. (DOMAIN live \cup {b}) \ {call.old} = (DOMAIN live \ {call.old}) \cup {b}
    BY <1>8
  <2>3. RangeOf(live', b) = r
    OBVIOUS
  <2> HIDE DEF r, T
  <2> QED BY <2>1, <2>2, <2>3, <1>15
<1>18. CASE call.old = NoBlock
  <2>1. DOMAIN live \ {call.old} = DOMAIN live
    <3>1. NoBlock \notin Nat
      BY DEF NoBlock
    <3>2. call.old \notin DOMAIN live
      BY <1>6, <1>18, <3>1
    <3> QED BY <3>2
  <2>2. T = S \cup {r}
    BY <1>17, <2>1 DEF RangesOf
  <2> HIDE DEF r
  <2> QED BY <1>7, <1>12, <1>13, <1>16, <2>2, AbstractNext
<1>19. CASE call.old # NoBlock
  <2> DEFINE o == RangeOf(live, call.old)
  <2>1. call.old \in DOMAIN live
    BY <1>6, <1>19
  <2>2. o \in S
    BY <2>1 DEF RangesOf
  <2>3. \A q \in DOMAIN live \ {call.old} : RangeOf(live, q) # o
    BY <1>6, <2>1, RangeOne
  <2>4. {RangeOf(live, q) : q \in DOMAIN live \ {call.old}} = S \ {o}
    <3>1. S = {RangeOf(live, q) : q \in DOMAIN live}
      BY DEF RangesOf
    <3>2. RangeOf(live, call.old) = o
      OBVIOUS
    <3> HIDE DEF S, o
    <3> QED BY <3>1, <3>2, <2>3
  <2>5. T = (S \ {o}) \cup {r}
    BY <1>17, <2>4
  <2> HIDE DEF r, o
  <2> QED BY <1>7, <1>12, <1>13, <1>16, <2>2, <2>5, AbstractNext
<1> QED BY <1>18, <1>19

\* Implements: mm.c keeps the promise its driver checks, even beyond what the
\* driver can see: payloads are aligned, in the heap, and clear of one another.
THEOREM Refinement == Spec => Implements
<1>1. Init => R!Init
  <2> SUFFICES ASSUME Init PROVE R!Init
    OBVIOUS
  <2>1. DOMAIN live = {} /\ heap.end \in Nat
    BY FreshGood DEF Init, NoLive
  <2> QED BY <2>1 DEF R!Init
<1>2. IInv /\ IInv' /\ [Next]_vars => [R!Next]_(R!vars)
  <2> SUFFICES ASSUME IInv, IInv', [Next]_vars PROVE [R!Next]_(R!vars)
    OBVIOUS
  <2>1. ASSUME heap' = heap, live' = live PROVE [R!Next]_(R!vars)
    BY <2>1 DEF R!vars
  <2>2. ASSUME NEW size \in Requests, Malloc(size) PROVE [R!Next]_(R!vars)
    BY <2>1, <2>2 DEF Malloc
  <2>3. ASSUME NEW p \in DOMAIN live, NEW size \in Requests, Realloc(p, size)
        PROVE  [R!Next]_(R!vars)
    BY <2>1, <2>3 DEF Realloc
  <2>4. ASSUME Grow PROVE [R!Next]_(R!vars)
    <3>1. live' = live /\ heap.end <= heap'.end /\ heap.end \in Nat /\ heap'.end \in Nat
      BY <2>4, GrowStep DEF Grow, IInv, HeapInv
    <3>2. RangesOf(live') = RangesOf(live)
      BY <3>1
    <3> QED BY <3>1, <3>2, AbstractNext
  <2>5. ASSUME UNCHANGED vars PROVE [R!Next]_(R!vars)
    BY <2>1, <2>5 DEF vars
  <2> QED BY <2>2, <2>3, <2>4, <2>5, FreeRefines, TakeRefines DEF Next
<1> QED BY <1>1, <1>2, Invariance, PTL DEF Spec, Implements, R!Spec
=============================================================================

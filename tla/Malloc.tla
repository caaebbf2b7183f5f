------------------------------- MODULE Malloc -------------------------------
(***************************************************************************)
(* The segregated-list allocator of CS230, malloclab/mm.c, driven by the   *)
(* requests of mdriver.c.                                                  *)
(*                                                                         *)
(* The heap is counted in double words of 8 bytes.  Block b of n units has *)
(* its header word at byte 8b+4, its payload from 8(b+1) to 8(b+n)-1 and   *)
(* its footer word at 8(b+n); so b is named by its first unit and a heap   *)
(* of mem_heapsize() = 8(end+1) bytes holds the blocks of units 0..end-1.  *)
(* The tags inside a block are payload and are not represented: head and   *)
(* foot hold the tags of the present blocks only.                          *)
(***************************************************************************)
EXTENDS Integers, Sequences, FiniteSets

CONSTANTS
  Requests,    \* sizes in bytes the driver asks for
  CHUNKSIZE,   \* units by which the heap grows
  Limit,       \* Limit[c]: the greatest payload, in units, of size class c < 6
  MaxHeap,     \* MAX_HEAP, in units
  MaxLive      \* bound: payloads in use at a time

Classes == 0..6

\* The lists of the code: payloads of at most 2, 8, 64, 256, 512 and 1024
\* units, and CHUNKSIZE 512; what the code relies on is that a fresh chunk
\* belongs to list 4 or a later one.
ASSUME MallocAssumption ==
  /\ Requests \subseteq Nat \ {0}
  /\ CHUNKSIZE \in Nat /\ CHUNKSIZE > 3
  /\ Limit \in [0..5 -> Nat]
  /\ \A c \in 0..4 : Limit[c] <= Limit[c + 1]
  /\ Limit[3] < CHUNKSIZE - 2 /\ CHUNKSIZE - 2 <= Limit[4]
  /\ MaxHeap \in Nat /\ MaxHeap >= CHUNKSIZE

VARIABLES
  heap,   \* end, the tags head and foot, the lists flist, state "ok" or, after
          \* a wild write, "lost"; zero, of the word after a wiped header
  live,   \* the driver's blocks: the size asked for of each payload in use
  call    \* the mm_malloc in progress, or NoCall

vars == <<heap, live, call>>

NoBlock == -1
NoCall == [size |-> 0, old |-> NoBlock, grown |-> FALSE]
Bogus == -1   \* the list node the reset of the whole heap leaves at byte 4

ALIGN(bytes) == (bytes + 7) \div 8

\* The list for a payload of n units; the argument is unsigned in the code.
Class(n, c) == /\ c < 6 => n <= Limit[c]
               /\ c > 0 => n > Limit[c - 1]
Between(n) == CHOOSE c \in Classes : Class(n, c)
fg(n) == IF n < 0 THEN 6 ELSE Between(n)
-----------------------------------------------------------------------------
(***************************************************************************)
(* Tags and lists.  An operator takes the heap h and returns the new one.  *)
(***************************************************************************)
Tag(n, a) == [size |-> n, alloc |-> a]

\* The tags of the units b..b+n-1 give way to one, at unit x.
Retag(tags, b, n, x, tag) ==
  [u \in (DOMAIN tags \ (b..(b + n - 1))) \cup {x} |-> IF u = x THEN tag ELSE tags[u]]

\* PUT(HDRP(bp), PACK(n, a)); PUT(FTRP(bp), PACK(n, a)).
Mark(h, b, n, a) ==
  [h EXCEPT !.head = Retag(@, b, n, b, Tag(n, a)),
            !.foot = Retag(@, b, n, b + n - 1, Tag(n, a))]

insert_in_head(h, c, b) == [h EXCEPT !.flist[c] = <<b>> \o @]

Listed(h, c) == {h.flist[c][i] : i \in 1..Len(h.flist[c])}

Without(s, b) ==
  LET i == CHOOSE i \in 1..Len(s) : s[i] = b
  IN  [j \in 1..(Len(s) - 1) |-> IF j < i THEN s[j] ELSE s[j + 1]]

\* Both link words of a block that is on no list read as NULL.
LinksNull(h, b) == h.head[b].size = 0 /\ h.zero

\* delete(&flist, b).  Of a block that is not on the list it follows whatever
\* the payload holds: with two NULLs it empties the list, else it writes
\* through a word that is no pointer.
delete(h, c, b) ==
  IF h.flist[c] = <<>> THEN h
  ELSE IF b \in Listed(h, c) THEN [h EXCEPT !.flist[c] = Without(@, b)]
  ELSE IF LinksNull(h, b) THEN [h EXCEPT !.flist[c] = <<>>]
  ELSE [h EXCEPT !.state = "lost"]

putlist(h, b) == insert_in_head(h, fg(h.head[b].size - 1), b)
\* Near miss: the class of the whole block, not of its payload.
dellistWhole(h, b) == delete(h, fg(h.head[b].size), b)

dellist(h, b) == delete(h, fg(h.head[b].size - 1), b)
-----------------------------------------------------------------------------
(***************************************************************************)
(* mm_malloc.                                                              *)
(***************************************************************************)
\* find_from_flist, over the lists from fg(n) up: entry i of list c is the
\* first whose block holds n units of payload.
Fits(h, c, i, n) ==
  /\ h.flist[c][i] \in DOMAIN h.head
  /\ n + 1 <= h.head[h.flist[c][i]].size

Found(h, n, c, i) ==
  /\ c >= fg(n)
  /\ Fits(h, c, i, n)
  /\ \A j \in 1..(i - 1) : ~Fits(h, c, j, n)
  /\ \A d \in fg(n)..(c - 1) : \A j \in 1..Len(h.flist[d]) : ~Fits(h, d, j, n)

CanFind(h, n) ==
  \E c \in Classes : c >= fg(n) /\ \E i \in 1..Len(h.flist[c]) : Fits(h, c, i, n)

\* Near miss: the rest starts before the footer.
RestEarly(n) == n

\* allocate: the rest of the block, if it has any payload, goes to the list of
\* its size; a rest of one unit is a free block on no list.
Rest(n) == n + 1

allocate(h, b, n) ==
  LET size == h.head[b].size
      d == dellist(h, b)
      m == Mark(d, b, n + 1, TRUE)
      s == Mark(m, b + Rest(n), size - Rest(n), FALSE)
  IN  IF size = n + 1 THEN m
      ELSE IF size = n + 2 THEN s
      ELSE putlist(s, b + Rest(n))

\* The heap grows by whole chunks until the free block at its end, if there is
\* one, holds the request.
RightSize(h) == IF h.foot[h.end - 1].alloc THEN 0 ELSE h.foot[h.end - 1].size

\* Near miss: no room for the tags.
NeededPayload(n) == n

Needed(n) == n + 1

Growth(h, n) ==
  LET short == Needed(n) - RightSize(h)
  IN  IF short <= 0 THEN 0 ELSE ((short + CHUNKSIZE - 1) \div CHUNKSIZE) * CHUNKSIZE

ListNew(h, b) ==
  LET c == fg(h.head[b].size - 1)
  IN  IF c >= 4 THEN insert_in_head(h, c, b) ELSE h

\* Near miss: the limit looked at before the increment.
SbrkFailsLate(h, g) == h.end + 1 > MaxHeap

\* mem_sbrk refuses to pass mem_max_addr.
SbrkFails(h, g) == h.end + 1 + g > MaxHeap

\* Beyond MAX_HEAP mem_sbrk answers -1, which the code takes for an address:
\* it writes tags over the blocks at the end of the heap.
extend(h, n) ==
  LET r == RightSize(h)
      g == Growth(h, n)
      b == h.end - r
      d == IF r > 1 THEN dellist(h, b) ELSE h
  IN  IF SbrkFails(h, g) THEN [h EXCEPT !.state = "lost"]
      ELSE ListNew(Mark([d EXCEPT !.end = @ + g], b, r + g, FALSE), b)
-----------------------------------------------------------------------------
(***************************************************************************)
(* mm_free.                                                                *)
(***************************************************************************)
Prev(h, b) == b - h.foot[b - 1].size
Next_(h, b) == b + h.head[b].size

\* Near miss: a neighbour without payload is left alone.
FreeAtListed(h, b) == h.head[b].size > 1 /\ ~h.head[b].alloc

FreeAt(h, b) == h.head[b].size > 0 /\ ~h.head[b].alloc

\* Near miss: 16 < size.
LeaveLarge(h, b) == IF h.head[b].size > 2 THEN dellist(h, b) ELSE h

\* A neighbour of one unit is on no list.
Leave(h, b) == IF h.head[b].size >= 2 THEN dellist(h, b) ELSE h

\* b absorbs its right neighbour.
Join(h, b) == Mark(h, b, h.head[b].size + h.head[Next_(h, b)].size, FALSE)

\* A block with a neighbour on each side.
FreeMiddle(h, b) ==
  LET p == Prev(h, b)
      hp == IF FreeAt(h, p) THEN Join(Leave(h, p), p) ELSE h
      l == IF FreeAt(h, p) THEN p ELSE b
      q == Next_(h, b)
      hq == IF FreeAt(hp, q) THEN Join(Leave(hp, q), l) ELSE hp
  IN  putlist(hq, l)

\* The first and the last block look at one neighbour, and take even one of
\* one unit off its list.
FreeFirst(h, b) ==
  LET q == Next_(h, b)
  IN  putlist(IF h.head[q].alloc THEN h ELSE Join(dellist(h, q), b), b)

FreeLast(h, b) ==
  LET p == Prev(h, b)
  IN  IF h.head[p].alloc THEN putlist(h, b) ELSE putlist(Join(dellist(h, p), p), p)

\* The only block: the lists start again, but putlist gets the address of the
\* header for that of the payload, so the header becomes a NULL link.  z says
\* whether the second word of the payload is 0.  The size putlist reads is the
\* word before the header, which mm.c does not write; it is taken for the 0 of
\* memory fresh from malloc (memlib.c:28), which is class 6.
FreeWhole(h, z) ==
  [h EXCEPT !.head[0] = Tag(0, FALSE),
            !.flist = [c \in Classes |-> IF c = 6 THEN <<Bogus>> ELSE <<>>],
            !.zero = z]

mm_free(h, b, z) ==
  LET n == h.head[b].size
      m == Mark(h, b, n, FALSE)
  IN  IF b = 0 /\ b + n = h.end THEN FreeWhole(m, z)
      ELSE IF b = 0 THEN FreeFirst(m, b)
      ELSE IF b + n = h.end THEN FreeLast(m, b)
      ELSE FreeMiddle(m, b)
-----------------------------------------------------------------------------
(***************************************************************************)
(* The requests of the driver.  A request for 0 bytes, mm_realloc(ptr, 0)  *)
(* too, returns NULL and changes nothing.                                  *)
(***************************************************************************)
\* mm_init.
Fresh == [end |-> CHUNKSIZE - 1,
          head |-> [x \in {0} |-> Tag(CHUNKSIZE - 1, FALSE)],
          foot |-> [x \in {CHUNKSIZE - 2} |-> Tag(CHUNKSIZE - 1, FALSE)],
          flist |-> [c \in Classes |-> IF c = 4 THEN <<0>> ELSE <<>>],
          zero |-> FALSE, state |-> "ok"]

NoLive == [x \in {} |-> 0]

Init == heap = Fresh /\ live = NoLive /\ call = NoCall

Idle == call = NoCall /\ heap.state = "ok"

Malloc(size) ==
  /\ Idle
  /\ Cardinality(DOMAIN live) < MaxLive
  /\ call' = [size |-> size, old |-> NoBlock, grown |-> FALSE]
  /\ UNCHANGED <<heap, live>>

Realloc(p, size) ==
  /\ Idle
  /\ call' = [size |-> size, old |-> p, grown |-> FALSE]
  /\ UNCHANGED <<heap, live>>

Free(p) ==
  /\ Idle
  /\ \E z \in BOOLEAN : heap' = mm_free(heap, p, z)
  /\ live' = [b \in DOMAIN live \ {p} |-> live[b]]
  /\ UNCHANGED call

\* The search of mm_malloc succeeds; mm_realloc then copies the payload and
\* frees the old block.
Take ==
  /\ call # NoCall /\ heap.state = "ok"
  /\ \E c \in Classes : \E i \in 1..Len(heap.flist[c]) :
       /\ Found(heap, ALIGN(call.size), c, i)
       /\ LET b == heap.flist[c][i]
              h == allocate(heap, b, ALIGN(call.size))
          IN  /\ heap' = IF call.old = NoBlock THEN h ELSE mm_free(h, call.old, FALSE)
              /\ live' = [x \in (DOMAIN live \cup {b}) \ {call.old} |->
                            IF x = b THEN call.size ELSE live[x]]
  /\ call' = NoCall

\* The search fails: the heap grows, and goto alloc.
Grow ==
  /\ call # NoCall /\ heap.state = "ok"
  /\ ~CanFind(heap, ALIGN(call.size))
  /\ heap' = extend(heap, ALIGN(call.size))
  /\ call' = [call EXCEPT !.grown = TRUE]
  /\ UNCHANGED live

Next ==
  \/ \E size \in Requests : Malloc(size)
  \/ \E p \in DOMAIN live : Free(p)
  \/ \E p \in DOMAIN live, size \in Requests : Realloc(p, size)
  \/ Take
  \/ Grow

Spec == Init /\ [][Next]_vars
-----------------------------------------------------------------------------
(***************************************************************************)
(* Properties.                                                             *)
(***************************************************************************)
\* Types of the heap that has not been written over, of the driver's records
\* and of the request, as mm.c keeps them.
TypeOK ==
  /\ heap.end \in Nat /\ heap.end < MaxHeap /\ heap.state \in {"ok", "lost"}
  /\ heap.state = "ok" =>
       /\ DOMAIN heap.head \cup DOMAIN heap.foot \subseteq 0..(heap.end - 1)
       /\ \A x \in DOMAIN heap.head : heap.head[x] \in [size : Nat, alloc : BOOLEAN]
       /\ \A x \in DOMAIN heap.foot : heap.foot[x] \in [size : Nat, alloc : BOOLEAN]
       /\ heap.flist \in [Classes -> Seq(Nat \cup {Bogus})]
       /\ heap.zero \in BOOLEAN
       /\ DOMAIN live \subseteq DOMAIN heap.head
  /\ \A p \in DOMAIN live : p \in Nat /\ live[p] \in Requests
  /\ call \in [size : Requests \cup {0}, old : DOMAIN live \cup {NoBlock}, grown : BOOLEAN]

Wiped == heap.head[0].size = 0
Sane == heap.state = "ok" /\ ~Wiped

Ends == {b + heap.head[b].size - 1 : b \in DOMAIN heap.head}

\* The tags describe the heap: from the first unit to the last one block
\* follows the other, each with a footer equal to its header, and the
\* allocated blocks are the driver's, each with room for what was asked.
HeapTiled == Sane =>
  /\ 0 \in DOMAIN heap.head
  /\ \A b \in DOMAIN heap.head :
       /\ b + heap.head[b].size \in DOMAIN heap.head \cup {heap.end}
       /\ \A c \in DOMAIN heap.head : b < c => b + heap.head[b].size <= c
       /\ b + heap.head[b].size - 1 \in DOMAIN heap.foot
       /\ heap.foot[b + heap.head[b].size - 1] = heap.head[b]
       /\ heap.head[b].alloc <=> b \in DOMAIN live
       /\ b \in DOMAIN live => heap.head[b].size > ALIGN(live[b])
  /\ DOMAIN heap.foot \subseteq Ends

\* The lists hold the free blocks that have a payload, each once and on the
\* list of its size.
FreeListed == Sane =>
  /\ \A c \in Classes : \A i \in 1..Len(heap.flist[c]) :
       LET b == heap.flist[c][i]
       IN  /\ b \in DOMAIN heap.head
           /\ ~heap.head[b].alloc /\ heap.head[b].size > 1
           /\ c = fg(heap.head[b].size - 1)
           /\ \A j \in 1..Len(heap.flist[c]) : heap.flist[c][j] = b => j = i
  /\ \A b \in DOMAIN heap.head :
       ~heap.head[b].alloc /\ heap.head[b].size > 1 =>
         b \in Listed(heap, fg(heap.head[b].size - 1))

\* Freed neighbours are joined: no two free blocks touch.
Coalesced == Sane =>
  \A b \in DOMAIN heap.head :
    ~heap.head[b].alloc /\ Next_(heap, b) # heap.end =>
      heap.head[Next_(heap, b)].alloc

\* mm_malloc grows the heap at most once: the search after "goto alloc"
\* always finds a block.
GrownOnce == heap.state = "ok" /\ call.grown => CanFind(heap, ALIGN(call.size))

R == INSTANCE Ranges WITH
       ALIGNMENT <- 8,
       ranges <- {[lo |-> 8 * (p + 1), hi |-> 8 * (p + 1) + live[p] - 1] : p \in DOMAIN live},
       heapsize <- 8 * (heap.end + 1)

\* What the driver checks of every answer, and more: payloads are aligned,
\* inside the heap and clear of one another, also while mm_realloc copies.
Implements == R!Spec
=============================================================================

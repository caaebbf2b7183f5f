------------------------------- MODULE Ranges -------------------------------
(***************************************************************************)
(* What the malloc lab asks of an allocator, from the range list of its    *)
(* driver (CS230, malloclab/mdriver.c): the payloads handed out and not yet*)
(* given back are aligned, lie within the heap and never overlap, and the  *)
(* heap never shrinks.  Addresses are byte offsets from mem_heap_lo().     *)
(***************************************************************************)
EXTENDS Integers

CONSTANT ALIGNMENT

VARIABLES
  ranges,    \* range_t list: the extent [lo, hi] of every payload in use
  heapsize   \* mem_heapsize()

vars == <<ranges, heapsize>>

Overlap(r, q) == r.lo <= q.hi /\ q.lo <= r.hi

\* add_range: the three checks a new payload has to pass.
Valid(r) ==
  /\ r.lo % ALIGNMENT = 0
  /\ 0 <= r.lo /\ r.lo <= r.hi /\ r.hi < heapsize'

Init == ranges = {} /\ heapsize \in Nat

\* add_range, after mm_malloc: one more payload, clear of all the others.
Add == \E r \in ranges' \ ranges :
         /\ ranges' = ranges \cup {r}
         /\ Valid(r)
         /\ \A q \in ranges : ~Overlap(r, q)

\* remove_range, before mm_free.
Remove == \E r \in ranges : ranges' = ranges \ {r}

\* remove_range and add_range, after mm_realloc: the new payload is clear of
\* the others and of the one it replaces, whose bytes are copied to it.
Replace == \E r \in ranges' \ ranges, o \in ranges :
             /\ ranges' = (ranges \ {o}) \cup {r}
             /\ Valid(r)
             /\ \A q \in ranges : ~Overlap(r, q)

Next == /\ heapsize' >= heapsize
        /\ Add \/ Remove \/ Replace \/ UNCHANGED ranges

Spec == Init /\ [][Next]_vars
=============================================================================

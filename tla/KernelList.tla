----------------------------- MODULE KernelList -----------------------------
(***************************************************************************)
(* The operations of lib/kernel/list.c (CS330 project 1) that the kernel   *)
(* uses, as operators on sequences: a struct list is the sequence of the   *)
(* structs its elements are embedded in, front first.                      *)
(***************************************************************************)
EXTENDS Naturals, Sequences, SequencesExt

\* The first position of s that holds a member of B, or one past the end.
FirstIn(s, B) ==
    LET hits == {i \in 1..Len(s) : s[i] \in B}
    IN  IF hits = {} THEN Len(s) + 1 ELSE Min(hits)

\* list_insert_ordered: x goes just before the first element e for which
\* less(x, e); B is the set of the elements e with less(x, e).
InsertOrdered(s, x, B) == InsertAt(s, FirstIn(s, B), x)

\* Near miss: the last element, as if the list were still sorted.
LastOfSorted(s, key) == Len(s)

\* list_max under a "less" that is true of equals (cmp_prr2): the last position
\* whose element has the greatest key.
LastMax(s, key) ==
    Max({i \in 1..Len(s) : \A j \in 1..Len(s) : key[s[j]] <= key[s[i]]})

\* No element of the list is embedded in it twice.
NoDuplicates(s) == \A i, j \in 1..Len(s) : s[i] = s[j] => i = j
=============================================================================

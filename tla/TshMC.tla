------------------------------- MODULE TshMC -------------------------------
(* Values of the constants of Tsh for TLC. *)
EXTENDS Tsh, TLC

CONSTANTS p1, p2, p3

\* What the uninitialized jid may be: no process id, or one of some child.
AnyValue == Pids \cup {None}

\* The process ids are told apart by nothing but their order of creation.
Symmetry == Permutations(Pids)
=============================================================================

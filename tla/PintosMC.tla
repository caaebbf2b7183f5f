------------------------------ MODULE PintosMC ------------------------------
(* Values of the constants of PintosKernel for TLC. *)
EXTENDS PintosKernel

CONSTANTS t1, t2, t3, t4, s1

\* Main has the lowest priority, as in the tests under tests/threads; two of
\* the others share one.
PrioThree == (t1 :> 1) @@ (t2 :> 2) @@ (t3 :> 2)
PrioFour == (t1 :> 1) @@ (t2 :> 2) @@ (t3 :> 3) @@ (t4 :> 4)

NoSemas == [s \in {} |-> 0]
SemaOne == [s \in {s1} |-> 1]

\* Kernel calls per thread.
Sleepers == (t1 :> 2) @@ (t2 :> 2) @@ (t3 :> 1)
Donors == (t1 :> 1) @@ (t2 :> 2) @@ (t3 :> 1) @@ (t4 :> 1)
Signallers == (t1 :> 3) @@ (t2 :> 2) @@ (t3 :> 2)
=============================================================================

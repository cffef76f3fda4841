------------------------------- MODULE IPPool -------------------------------
(***************************************************************************)
(* What the allocator of one CIDR promises: a pool of addresses from which *)
(* the least free one is taken, until the pool is empty and it says so.    *)
(***************************************************************************)
EXTENDS Integers, Sequences

VARIABLES pool, given, outcome

vars == <<pool, given, outcome>>

Init == /\ pool \subseteq Nat
        /\ given = << >>
        /\ outcome = "running"

\* Hand out the least address of the pool.
Take == /\ outcome = "running"
        /\ \E a \in pool : /\ \A b \in pool : a <= b
                           /\ pool' = pool \ {a}
                           /\ given' = Append(given, a)
        /\ UNCHANGED outcome

\* Refuse, which is allowed only once nothing is left.
Refuse == /\ outcome = "running"
          /\ pool = {}
          /\ outcome' = "exhausted"
          /\ UNCHANGED <<pool, given>>

Next == Take \/ Refuse

Spec == Init /\ [][Next]_vars
=============================================================================

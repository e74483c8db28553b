---------------------------- MODULE MCPatrolLoop ----------------------------
(* Small topologies for PatrolLoop. *)
EXTENDS PatrolLoop

AllPairs == {<<1, 2>>, <<2, 1>>}
OnePair == {<<1, 2>>}

=============================================================================

------------------------ MODULE MCKInductionParallel ------------------------
(* Values for the constants of KInductionParallel.                         *)
EXTENDS KInductionParallel

(* The stack garbage in the parent's a_result: no known type (the switch   *)
(* aborts), what looks like a proof, like "no bug", and like a bug         *)
(* (BASE_CASE is the first of the enumeration, so 0).                      *)
MCUninit == {
  [type |-> "invalid", k |-> 0],
  [type |-> INDUCTIVE_STEP, k |-> 2],
  [type |-> BASE_CASE, k |-> 0],
  [type |-> BASE_CASE, k |-> 2]}

(* A bound on the instance: sessions whose base case may throw are checked *)
(* for a program without a violation and for one found at k = 2 only.      *)
MCInit == Init /\ (throws => parses /\ bug \in {0, 2})

MCSpec == MCInit /\ [][Next]_vars /\ Fairness
=============================================================================

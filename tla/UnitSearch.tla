---------------------------- MODULE UnitSearch ----------------------------
(* What the search of a coding unit promises to its caller: it starts from *)
(* the classes the partitioner allows, may give some of them up before the  *)
(* first coding but never all, then keeps ever cheaper codings of the       *)
(* remaining classes, and stops.                                           *)
EXTENDS Integers

CONSTANTS Classes, NoCost

VARIABLES
  allowed,   \* the classes the search may use
  best,      \* the coding found so far: its cost and class
  over

searchVars == <<allowed, best, over>>

Nothing == [cost |-> NoCost, split |-> "DONT"]

Init == allowed \in (SUBSET Classes) \ {{}} /\ best = Nothing /\ over = FALSE

Prune ==
  /\ ~over /\ best = Nothing
  /\ allowed' \in (SUBSET allowed) \ {{}}
  /\ UNCHANGED <<best, over>>

Improve ==
  /\ ~over
  /\ \E cost \in 1..(best.cost - 1), split \in allowed : best' = [cost |-> cost, split |-> split]
  /\ UNCHANGED <<allowed, over>>

Stop == ~over /\ over' = TRUE /\ UNCHANGED <<allowed, best>>

Next == Prune \/ Improve \/ Stop
Spec == Init /\ [][Next]_searchVars
=============================================================================

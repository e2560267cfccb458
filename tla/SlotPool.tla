-------------------------------- MODULE SlotPool --------------------------------
(***************************************************************************)
(* What a worker promises about its execution slots, with nothing of how   *)
(* it keeps the promise: a task takes a slot only while one is free, in    *)
(* the whole pool and in its own group, and gives it back once.  A slot    *)
(* may also be lost for good: the code has paths that end a task without   *)
(* returning its slot, and the abstraction names them instead of hiding    *)
(* them (a lost slot still counts against every later Take).               *)
(***************************************************************************)
EXTENDS Naturals, FiniteSets

CONSTANTS Tasks,       \* everything that may ever ask for a slot
          Capacity,    \* slots of the whole pool
          Groups,      \* the groups that have a limit of their own
          Members,     \* Members[g]: the tasks that count against group g
          GroupLimit   \* GroupLimit[g]: slots group g may use

VARIABLE slot          \* slot[t]: what task t did with a slot so far

Taken == {t \in Tasks : slot[t] \in {"held", "lost"}}

Init == slot = [t \in Tasks |-> "none"]

Take(t) ==
  /\ slot[t] = "none"
  /\ Cardinality(Taken) < Capacity
  /\ \A g \in Groups :
        t \in Members[g] => Cardinality(Taken \cap Members[g]) < GroupLimit[g]
  /\ slot' = [slot EXCEPT ![t] = "held"]

Return(t) ==
  /\ slot[t] = "held"
  /\ slot' = [slot EXCEPT ![t] = "returned"]

Lose(t) ==
  /\ slot[t] = "held"
  /\ slot' = [slot EXCEPT ![t] = "lost"]

Next == \E t \in Tasks : Take(t) \/ Return(t) \/ Lose(t)

Spec == Init /\ [][Next]_slot

=============================================================================

----------------------------- MODULE MCTaskWorkspace -----------------------------
(***************************************************************************)
(* Instances of TaskWorkspace for TLC.  Deliveries 1 and 2 ask for objects *)
(* of the same content under two names; where there is a third it is a     *)
(* second delivery of task 2.                                              *)
(***************************************************************************)
EXTENDS TaskWorkspace

MCIdOf == [d \in Deliveries |-> IF d = 3 THEN 2 ELSE d]
MCInputOf == [i \in TaskIds |-> IF i = 1 THEN "u" ELSE "v"]
MCInitialObject == [u \in Uris |-> "a"]

=============================================================================

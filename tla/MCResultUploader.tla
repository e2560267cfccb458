----------------------------- MODULE MCResultUploader -----------------------------
(***************************************************************************)
(* Instances of ResultUploader for TLC: three results for two              *)
(* orchestrators, two attempts each.                                       *)
(***************************************************************************)
EXTENDS ResultUploader

MCClientOf == [r \in Results |-> IF r = 1 THEN "down" ELSE "healthy"]

=============================================================================

----------------------------- MODULE MCTaskLifecycle -----------------------------
(***************************************************************************)
(* Instances of TaskLifecycle for TLC.                                     *)
(* Four deliveries: an asynchronous "resize" of the type "image", two      *)
(* synchronous "mix" of the type "audio", which is limited to one, and one *)
(* of a skill the worker does not know.                                    *)
(***************************************************************************)
EXTENDS TaskLifecycle

MCSkillOf == [d \in Deliveries |-> CASE d = 1 -> "resize"
                                     [] d \in {2, 3} -> "mix"
                                     [] OTHER -> Unsupported]

MCTypeOf == [s \in Skills |-> IF s = "resize" THEN "image" ELSE "audio"]

MCTypeLimit == [t \in LimitedTypes |-> 1]

\* Delivery 3 carries the id of delivery 1.
MCIdOf == [d \in Deliveries |-> IF d = 3 THEN 1 ELSE d]

=============================================================================

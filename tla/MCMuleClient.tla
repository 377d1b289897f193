------------------------------ MODULE MCMuleClient ------------------------------
(* Instances of MuleClient for TLC. *)
EXTENDS MuleClient

CONSTANTS k1, k2

\* The first row has two usable names, the second one usable and one blank, the
\* others only a blank one.
RowNames == [h \in Hash |-> CASE h = 1 -> {"a", "b"} [] h = 2 -> {"a", Blank} [] OTHER -> {Blank}]

================================================================================

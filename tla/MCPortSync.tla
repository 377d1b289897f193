------------------------------ MODULE MCPortSync ------------------------------
(* Instances of PortSync for TLC. *)
EXTENDS PortSync

CONSTANTS p1, p2, p3


================================================================================

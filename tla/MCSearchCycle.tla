----------------------------- MODULE MCSearchCycle -----------------------------
(* Instances of SearchCycle for TLC. *)
EXTENDS SearchCycle

CONSTANTS w1, w2, k1, k2

OneDelay == <<1>>
TwoDelays == <<1, 2>>

================================================================================

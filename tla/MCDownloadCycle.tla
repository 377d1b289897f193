---------------------------- MODULE MCDownloadCycle ----------------------------
(* Instances of DownloadCycle for TLC. *)
EXTENDS DownloadCycle, TLC

CONSTANTS h1, h2

OneByte == [h \in Hash |-> 1]
TwoIfObserved == [h \in Hash |-> IF h \in Observed THEN 2 ELSE 1]
TwoBytes == [h \in Hash |-> 2]

AnyFault == FaultKinds

Swap == Permutations(Hash)

================================================================================

----------------------------- MODULE MCCatalogTools -----------------------------
(* Instances of CatalogTools for TLC. *)
EXTENDS CatalogTools

\* One file, seen by both nodes on the first day, by this one under two names, and again
\* on the second day.
TwoNodes ==
    {[hash |-> "f", day |-> 1, at |-> 1, node |-> "here", name |-> "a", sources |-> 2, aich |-> "none", null |-> TRUE],
     [hash |-> "f", day |-> 1, at |-> 2, node |-> "here", name |-> "b", sources |-> 1, aich |-> "none", null |-> FALSE],
     [hash |-> "f", day |-> 2, at |-> 3, node |-> "here", name |-> "a", sources |-> 2, aich |-> "none", null |-> FALSE],
     [hash |-> "f", day |-> 1, at |-> 1, node |-> "there", name |-> "a", sources |-> 3, aich |-> "x", null |-> FALSE]}

================================================================================

------------------------------ MODULE MCDomain ------------------------------
(* Small instances of Domain for TLC.                                       *)
EXTENDS DomainThread, TLC

Symmetry == Permutations(Co) \cup Permutations(Made) \cup Permutations(Child)
=============================================================================

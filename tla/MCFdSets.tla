------------------------------ MODULE MCFdSets ------------------------------
(* Instances of FdSets for TLC.  The servers are interchangeable.          *)
EXTENDS FdSets, TLC

Symmetry == Permutations(Servers)
=============================================================================

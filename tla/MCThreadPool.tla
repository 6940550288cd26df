---------------------------- MODULE MCThreadPool ----------------------------
(* Small instances of ThreadPool for TLC.                                  *)
EXTENDS ThreadPoolProofs, Sequences, TLC

(* Jobs differ in nothing but their identity.                              *)
JobSymmetry == Permutations(Jobs)
=============================================================================

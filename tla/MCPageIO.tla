------------------------------ MODULE MCPageIO ------------------------------
(* A small instance of PageIO for the model checker. *)
EXTENDS PageIO, TLC

CONSTANTS t1, t2, d1, d2

\* Tasks are interchangeable, and so are the nids a direct node can get.
Interchangeable == Permutations(Tasks) \cup Permutations(Children)
=============================================================================

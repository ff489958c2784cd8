---------------------------- MODULE MCCheckpoint ----------------------------
(* Small instances of Checkpoint for the model checker. *)
EXTENDS Checkpoint, TLC

\* The nids a meta node can get are interchangeable.
Symmetry == Permutations(MetaNids)

=============================================================================

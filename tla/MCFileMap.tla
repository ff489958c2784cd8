------------------------------ MODULE MCFileMap ------------------------------
(* A small file geometry for the model checker: values are in the configurations. *)
EXTENDS FileMap
=============================================================================

---------------------------- MODULE SnapshotStore ----------------------------
(***************************************************************************)
(* What the checkpoint of xcpfs promises: a table of versions with one     *)
(* committed snapshot.  Entries change one at a time; a commit makes the   *)
(* whole table the snapshot; a crash goes back to it.                      *)
(***************************************************************************)
CONSTANT Key

VARIABLES live,       \* the table the running system uses
          committed   \* the table the next mount would find

vars == <<live, committed>>

Init == committed = live

\* One entry gets another version (or none).
Change ==
  /\ \E k \in Key : live' = [live EXCEPT ![k] = live'[k]]
  /\ UNCHANGED committed

Commit == committed' = live /\ UNCHANGED live

Restore == live' = committed /\ UNCHANGED committed

Next == Change \/ Commit \/ Restore

Spec == Init /\ [][Next]_vars

=============================================================================

------------------------------ MODULE Namespace ------------------------------
(***************************************************************************)
(* What the directories of xcpfs promise: a tree of names.  A name is      *)
(* given to an inode that has none, only an empty directory is removed,    *)
(* and nothing else ever changes a name: no writeback, no eviction from a  *)
(* cache, no unmount.                                                      *)
(***************************************************************************)
CONSTANTS Inos, Names, RootIno, None

VARIABLE tree    \* tree[d][n]: the inode that name n of directory d means

Empty == [n \in Names |-> None]
Named == {tree[d][n] : d \in DOMAIN tree, n \in Names} \ {None}
Unused == Inos \ (Named \cup DOMAIN tree)

Init == tree = [d \in {RootIno} |-> Empty]

Add(d, n, i) ==
  /\ tree[d][n] = None /\ i \in Unused
  /\ \/ tree' = [tree EXCEPT ![d][n] = i]
     \/ tree' = [e \in DOMAIN tree \cup {i} |->
                   IF e = i THEN Empty
                   ELSE IF e = d THEN [tree[d] EXCEPT ![n] = i] ELSE tree[e]]

Remove(d, n) ==
  /\ tree[d][n] # None
  /\ tree[d][n] \in DOMAIN tree => tree[tree[d][n]] = Empty
  /\ tree' = [e \in DOMAIN tree \ {tree[d][n]} |->
                IF e = d THEN [tree[e] EXCEPT ![n] = None] ELSE tree[e]]

\* Every step changes a name.
Next ==
  /\ tree' # tree
  /\ \E d \in DOMAIN tree, n \in Names :
       Remove(d, n) \/ \E i \in Inos : Add(d, n, i)

Spec == Init /\ [][Next]_tree

=============================================================================

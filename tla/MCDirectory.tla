---------------------------- MODULE MCDirectory ----------------------------
EXTENDS Directory

\* Inodes but the root, and names, are interchangeable.
Interchangeable == Permutations(Inos \ {RootIno}) \cup Permutations(Names)
=============================================================================

----------------------------- MODULE MCNatCache -----------------------------
EXTENDS NatCache, TLC

CONSTANTS t1, t2, m1, m2, r1, r2

\* A NAT block of meta nids and two of regular ones.
Blocks == [n \in Nids |-> IF n \in MetaNids THEN 0 ELSE IF n \in OnDisk THEN 1 ELSE 2]
Interchangeable == Permutations(Tasks)
=============================================================================

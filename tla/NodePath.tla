------------------------------ MODULE NodePath ------------------------------
(***************************************************************************)
(* Where the address of a file block is kept: get_path (meta.c).           *)
(*                                                                         *)
(* An inode holds addresses and, behind them, the nids of two direct, two  *)
(* indirect and one double indirect node.  A path is the sequence of       *)
(* offsets on the way from the inode to the address; its length is the     *)
(* code's return value plus one, and the -1 that fill offset[] are absent. *)
(***************************************************************************)
EXTENDS Integers, Sequences

CONSTANTS DEF_ADDRS_PER_INODE,  \* addresses in an inode
          DEF_ADDRS_PER_BLOCK,  \* addresses in a direct node
          DEF_NIDS_PER_BLOCK    \* nids in an indirect node

\* The code uses one of the two sizes for the other (iblock -= NIDS * i).
ASSUME PathAssumption ==
  /\ DEF_ADDRS_PER_INODE \in Nat \ {0} /\ DEF_ADDRS_PER_BLOCK \in Nat \ {0}
  /\ DEF_NIDS_PER_BLOCK = DEF_ADDRS_PER_BLOCK

\* Blocks behind one indirect node.
PerIndirect == DEF_NIDS_PER_BLOCK * DEF_ADDRS_PER_BLOCK

DIV_ROUND_UP(n, d) == (n + d - 1) \div d

\* Which of consecutive groups of d blocks block b is in.
Group(b, d) == DIV_ROUND_UP(b + 1, d) - 1

\* From block b behind the inode's addresses, resp. behind the direct nodes,
\* resp. behind the indirect ones.
OneDirectPath(b) == <<DEF_ADDRS_PER_INODE, b % DEF_ADDRS_PER_BLOCK>>
DirectPath(b) ==
  LET i == Group(b, DEF_ADDRS_PER_BLOCK)
  IN  <<DEF_ADDRS_PER_INODE + i, (b - i * DEF_ADDRS_PER_BLOCK) % DEF_ADDRS_PER_BLOCK>>

IndirectPath(b) ==
  LET i == Group(b, PerIndirect)
      r == b - PerIndirect * i
      c == Group(r, DEF_ADDRS_PER_BLOCK)
  IN  <<DEF_ADDRS_PER_INODE + 2 + i, c, r - DEF_NIDS_PER_BLOCK * c>>

DoubleIndirectPath(b) ==
  LET i == Group(b, PerIndirect)
      r == b - i * PerIndirect
      c == Group(r, DEF_ADDRS_PER_BLOCK)
  IN  <<DEF_ADDRS_PER_INODE + 4, i, c, r - c * DEF_ADDRS_PER_BLOCK>>

get_path(iblock) ==
  LET direct   == iblock - DEF_ADDRS_PER_INODE
      indirect == direct - 2 * DEF_ADDRS_PER_BLOCK
      double   == indirect - 2 * PerIndirect
  IN  IF iblock < DEF_ADDRS_PER_INODE THEN <<iblock>>
      ELSE IF Group(direct, DEF_ADDRS_PER_BLOCK) < 2 THEN DirectPath(direct)
      ELSE IF Group(indirect, PerIndirect) < 2 THEN IndirectPath(indirect)
      ELSE DoubleIndirectPath(double)

=============================================================================

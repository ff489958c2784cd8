------------------------------- MODULE FileMap -------------------------------
(***************************************************************************)
(* The blocks of one regular file: the node tree that holds their          *)
(* addresses (meta.c), writes (inode.c, xio.c) and truncation (file.c).    *)
(*                                                                         *)
(* A file has at most MaxFile blocks, and these end within the first       *)
(* indirect node: xcpfs sets no s_maxbytes, so the kernel's default of     *)
(* 2^31 - 1 bytes holds.  Nodes and addresses are named by their paths.    *)
(* Every write gets a new address from the device.  Sizes count half       *)
(* pages, which is all that partial truncation looks at.                   *)
(*                                                                         *)
(* Truncation is one step: the locks of the inode's page and of the node   *)
(* pages it visits keep the writeback of the same file out, and the page   *)
(* cache has dropped the pages behind the new end before.                  *)
(***************************************************************************)
EXTENDS NodePath, FiniteSets

CONSTANTS MaxFile,    \* largest file, in blocks
          MaxDirty,   \* bound: pages a writer leaves dirty at once
          MaxWrites   \* bound: blocks written

ASSUME FileAssumption ==
  /\ MaxFile \in 1 .. DEF_ADDRS_PER_INODE + 2 * DEF_ADDRS_PER_BLOCK + PerIndirect
  /\ MaxDirty \in Nat /\ MaxWrites \in Nat

Blocks == 0 .. MaxFile - 1
Address == 1 .. MaxWrites

Direct(i) == <<DEF_ADDRS_PER_INODE + i>>
Indirect == <<DEF_ADDRS_PER_INODE + 2>>
Child(c) == <<DEF_ADDRS_PER_INODE + 2, c>>

\* The nodes that hold addresses, and all nodes but the inode.
Leaves == {Direct(0), Direct(1)} \cup {Child(c) : c \in 0 .. DEF_NIDS_PER_BLOCK - 1}
Nodes == Leaves \cup {Indirect}

\* The address slots of a node from a given one on.
SlotsFrom(n, j) == {Append(n, k) : k \in {i \in 0 .. DEF_ADDRS_PER_BLOCK - 1 : i >= j}}
InodeSlotsFrom(j) == {<<k>> : k \in {i \in 0 .. DEF_ADDRS_PER_INODE - 1 : i >= j}}
Slots == InodeSlotsFrom(0) \cup UNION {SlotsFrom(n, 0) : n \in Leaves}

\* The nodes between the inode and a slot.
NodesTo(p) == {SubSeq(p, 1, k) : k \in 1 .. Len(p) - 1}

\* The slot of each block, and of the first block behind the largest file.
Path == [b \in 0 .. MaxFile |-> get_path(b)]

VARIABLES
  slot,      \* i_addr and addr: the address in each slot, 0 if none
  child,     \* i_nid and nid: the nodes their parent names
  dangling,  \* those among them whose NAT entry was invalidated
  valid,     \* the addresses whose valid_map bit is set
  dirty,     \* dirty pages of the file
  isize,     \* i_size, in half pages
  nwrites,   \* addresses used so far
  blockOf,   \* history: the block each address was written for
  content    \* history: the address of the last write to each block before the end

vars == <<slot, child, dangling, valid, dirty, isize, nwrites, blockOf, content>>

Init ==
  /\ slot = [p \in Slots |-> 0] /\ child = {} /\ dangling = {} /\ valid = {}
  /\ dirty = {} /\ isize = 0 /\ nwrites = 0
  /\ blockOf = [a \in Address |-> 0] /\ content = [b \in Blocks |-> 0]

\* A file with a dangling pointer is not followed further: what its node then
\* holds depends on which pages the kernel has reclaimed.
Intact == dangling = {}

Mapped(b) == NodesTo(Path[b]) \subseteq child

Higher(a, b) == IF a >= b THEN a ELSE b

-----------------------------------------------------------------------------
(* Writing. *)

\* write_begin creates the nodes on the way, write_end grows the file.  The code
\* skips the nodes if the page is uptodate (data.c:144): they are there then,
\* unless a truncation took a kept block with its node.
Write(b, size) ==
  /\ Intact /\ Cardinality(dirty) < MaxDirty /\ nwrites < MaxWrites
  /\ child' = child \cup NodesTo(Path[b])
  /\ dirty' = dirty \cup {b}
  /\ isize' = Higher(isize, size)
  /\ UNCHANGED <<slot, dangling, valid, nwrites, blockOf, content>>

\* Writeback: the old block is invalidated, the new address goes to the dnode.
\* A page whose dnode is gone is redirtied.
WritePage(b) ==
  /\ Intact /\ b \in dirty /\ Mapped(b) /\ nwrites < MaxWrites
  /\ LET a == nwrites + 1
         p == Path[b]
     IN  /\ slot' = [slot EXCEPT ![p] = a]
         /\ valid' = (valid \ {slot[p]}) \cup {a}
         /\ blockOf' = [blockOf EXCEPT ![a] = b]
         /\ content' = [content EXCEPT ![b] = a]
         /\ nwrites' = a
  /\ dirty' = dirty \ {b}
  /\ UNCHANGED <<child, dangling, isize>>

-----------------------------------------------------------------------------
(* Truncation works on a record of the tree, the valid map and offset[].   *)

\* offset[] of xcpfs_truncate_blocks, and the length recurse computes for it.
Offsets(p) == [k \in 0 .. 3 |-> IF k < Len(p) THEN p[k + 1] ELSE -1]
PathLen(off) == Cardinality({k \in 0 .. 3 : \A j \in 0 .. k : off[j] # -1})

\* invalidate_blkaddr for every address in slots P, which are zeroed.
ClearBitsOnly(s, P) == [s EXCEPT !.valid = @ \ {s.slot[p] : p \in P}]
ClearSlots(s, P) ==
  [s EXCEPT !.valid = @ \ {s.slot[p] : p \in P},
            !.slot = [p \in Slots |-> IF p \in P THEN 0 ELSE s.slot[p]]]

\* invalidate_nat and a zeroed nid: nodes C, what they name and what they hold
\* are no longer part of the file.
OnlyItself(C) == C
Below(C) == {n \in Nodes : n \in C \/ \E c \in C : c \in NodesTo(n)}
FreeNodes(s, C) ==
  [s EXCEPT !.child = @ \ Below(C), !.dangling = @ \ Below(C),
            !.slot = [p \in Slots |-> IF NodesTo(p) \cap C # {} THEN 0 ELSE s.slot[p]]]

\* recurse with depth 0, without and with offset.
clear_direct(s, n) == ClearSlots(s, SlotsFrom(n, 0))
EarlyCut(s, n) ==
  LET last == PathLen(s.off) - 1
  IN  [ClearSlots(s, SlotsFrom(n, s.off[last] - 1)) EXCEPT !.off[last] = @ - 1]
LateCut(s, n) ==
  LET last == PathLen(s.off) - 1
  IN  [ClearSlots(s, SlotsFrom(n, s.off[last] + 1)) EXCEPT !.off[last] = @ - 1]
cut_direct(s, n) ==
  LET last == PathLen(s.off) - 1
  IN  [ClearSlots(s, SlotsFrom(n, s.off[last])) EXCEPT !.off[last] = @ - 1]

\* recurse with depth 1: the children behind entry i are cleared and freed.
\* Without offset the loop starts behind entry 0.
ClearChildren(s, i) ==
  LET C == {Child(c) : c \in i + 1 .. DEF_NIDS_PER_BLOCK - 1} \cap s.child
  IN  FreeNodes(ClearSlots(s, UNION {SlotsFrom(n, 0) : n \in C}), C)
clear_indirect(s) == ClearChildren(s, 0)

\* With offset, entry i itself is looked at last: its NAT entry is invalidated,
\* but the nid that is zeroed is the one the loop ended at, behind the table.
cut_indirect(s) ==
  LET last == PathLen(s.off) - 1
      i == s.off[last - 1]
      t == ClearChildren(s, i)
  IN  IF s.off[last] = 0
      THEN [t EXCEPT !.dangling = @ \cup ({Child(i)} \cap s.child), !.off[last - 1] = i - 1]
      ELSE t

\* One round of the loops of truncate_blocks, on node n if there is one.
Round(s, n, all, clear, cut) ==
  IF n \notin s.child THEN s
  ELSE IF all THEN FreeNodes(clear, {n})
  ELSE IF cut.off[1] = 0 THEN FreeNodes(cut, {n}) ELSE cut

UnlinkDirect(s, i, all) == IF Direct(i) \in s.child /\ all THEN FreeNodes(s, {Direct(i)}) ELSE s
DirectRound(s, i, all) == Round(s, Direct(i), all, clear_direct(s, Direct(i)), cut_direct(s, Direct(i)))
IndirectRound(s, all) == Round(s, Indirect, all, clear_indirect(s), cut_indirect(s))

\* The inode's addresses, the two direct nodes, the indirect node.
InodeRound(s, first) == ClearSlots(s, InodeSlotsFrom(first))
truncate_blocks(s) ==
  LET first == s.off[0] - DEF_ADDRS_PER_INODE
  IN  IF first < 0
      THEN IndirectRound(DirectRound(DirectRound(InodeRound(s, s.off[0]), 0, TRUE), 1, TRUE), TRUE)
      ELSE IF first = 0 THEN IndirectRound(DirectRound(DirectRound(s, 0, FALSE), 1, FALSE), TRUE)
      ELSE IF first = 1 THEN IndirectRound(DirectRound(s, 1, FALSE), TRUE)
      ELSE IF first = 2 THEN IndirectRound(s, FALSE)
      ELSE s

\* The first block behind a size.
FreeFrom(size) == (size + 1) \div 2

\* truncate_partial_block: the page is zeroed and committed as a whole, which
\* also rounds the size up.  It is not found without a dnode unless cached.
PartialBlock(b, size) ==
  \/ /\ size % 2 = 1
     /\ b \in dirty \/ NodesTo(Path[b]) \subseteq child' \/ content[b] # 0
     /\ dirty' = (dirty \cap 0 .. FreeFrom(size) - 1) \cup {b}
     /\ isize' = 2 * (b + 1)
  \/ /\ size % 2 = 0 \/ (b \notin dirty /\ ~(NodesTo(Path[b]) \subseteq child'))
     /\ dirty' = dirty \cap 0 .. FreeFrom(size) - 1
     /\ isize' = size

\* setattr with a new size, or evict_inode with size 0.
Truncate(size) ==
  /\ Intact /\ (size # isize \/ size = 0)
  /\ LET s == truncate_blocks([slot |-> slot, child |-> child, dangling |-> dangling, valid |-> valid,
                               off |-> Offsets(Path[FreeFrom(size)])])
     IN  /\ slot' = s.slot /\ child' = s.child /\ dangling' = s.dangling /\ valid' = s.valid
  /\ PartialBlock(size \div 2, size)
  /\ content' = [b \in Blocks |-> IF b >= FreeFrom(size) THEN 0 ELSE content[b]]
  /\ UNCHANGED <<nwrites, blockOf>>

Next ==
  \/ \E b \in Blocks : WritePage(b) \/ \E size \in {2 * b + 1, 2 * b + 2} : Write(b, size)
  \/ \E size \in 0 .. 2 * MaxFile : Truncate(size)

Spec == Init /\ [][Next]_vars

-----------------------------------------------------------------------------
(* Properties *)

\* Every variable keeps its type, and nodes hang on nodes of the file.
TypeOK ==
  /\ slot \in [Slots -> Address \cup {0}] /\ content \in [Blocks -> Address \cup {0}]
  /\ child \subseteq Nodes /\ dangling \subseteq child
  /\ \A n \in child : NodesTo(n) \subseteq child
  /\ \A p \in Slots : slot[p] # 0 => NodesTo(p) \subseteq child
  /\ valid \subseteq Address /\ dirty \subseteq Blocks
  /\ isize \in 0 .. 2 * MaxFile /\ nwrites \in 0 .. MaxWrites
  /\ blockOf \in [Address -> Blocks]

\* What a reader finds at block b.
Read(b) == IF Mapped(b) THEN slot[Path[b]] ELSE 0

\* No two blocks of a file share a slot: what is found at a block was written
\* for that block, whatever was truncated and written again in between.
NoForeignBlock == \A b \in Blocks : Read(b) # 0 => blockOf[Read(b)] = b

\* Truncation clears valid bits and slots together: an address that is still
\* reachable has its bit, or the zone could be reset under the file.
ReachableValid == \A b \in Blocks : Read(b) # 0 => Read(b) \in valid

\* No block before the end loses its valid bit, even when the walk starts in
\* the middle of a node and offset[] changes under it.
KeptBlocksValid == \A b \in Blocks : content[b] # 0 => content[b] \in valid

\* In the inode and the first direct node a truncated block does not come back
\* when the file grows again: what is found is the last write before the end.
\* (Behind them the walk keeps blocks behind the new end.)
NothingComesBack ==
  \A b \in Blocks : b < DEF_ADDRS_PER_INODE + DEF_ADDRS_PER_BLOCK /\ Read(b) # 0 => Read(b) = content[b]

\* A file without blocks behind its indirect node, and from which nothing was
\* lost before, leaves nothing behind when it is cut within the inode's
\* addresses or deleted.
SmallFileFreed ==
  [][ isize' < isize /\ FreeFrom(isize') < DEF_ADDRS_PER_INODE
      /\ (\A a \in valid : /\ blockOf[a] < DEF_ADDRS_PER_INODE + 2 * DEF_ADDRS_PER_BLOCK
                           /\ Read(blockOf[a]) = a)
      => child' = {} /\ \A a \in valid' : blockOf[a] < FreeFrom(isize') ]_vars

\* file.c:56 "if the next level behind the indirect block is completely
\* emptied, the entry at this offset has to be cleared too": a node goes only
\* when it is empty, so no block before the end is lost.
NoBlockLost == \A b \in Blocks : content[b] # 0 => Read(b) = content[b]

\* file.c:46 "clear all": nothing of a deleted file keeps its valid bit.
DeletedFileFreed == isize = 0 => valid = {}

=============================================================================

--------------------------- MODULE FileMap_proofs ---------------------------
(***************************************************************************)
(* What holds of every file, however it is written and truncated, for all  *)
(* sizes of nodes and files: slots are not shared, what is reachable is    *)
(* valid, the tree hangs together, and truncation takes what is behind the *)
(* end only, all of it where the walk is complete.                         *)
(***************************************************************************)
EXTENDS FileMap, NodePath_proofs, SequenceTheorems, FiniteSetTheorems

\* The record truncate_blocks works on.
Tree == [slot : [Slots -> Address \cup {0}], child : SUBSET Nodes, dangling : SUBSET Nodes,
         valid : SUBSET Address, off : [0 .. 3 -> Int]]

\* Every used slot is the slot of the block its address was written for, and
\* its address is valid.  So no address is in two slots.
Owned(sl, va) ==
  \A p \in Slots : sl[p] # 0 => /\ sl[p] \in 1 .. nwrites
                                /\ blockOf[sl[p]] \in Blocks /\ Path[blockOf[sl[p]]] = p
                                /\ sl[p] \in va

Good(s) == s \in Tree /\ Owned(s.slot, s.valid)

IInv ==
  /\ slot \in [Slots -> Address \cup {0}]
  /\ child \subseteq Nodes /\ dangling \subseteq Nodes /\ valid \subseteq Address
  /\ nwrites \in 0 .. MaxWrites
  /\ blockOf \in [Address -> Blocks]
  /\ Owned(slot, valid)

-----------------------------------------------------------------------------
(* Paths. *)

\* Two blocks have two slots.
LEMMA PathInjective ==
  ASSUME NEW b \in Blocks, NEW c \in Blocks, Path[b] = Path[c]
  PROVE  b = c
<1>1. b \in Nat /\ c \in Nat /\ b \in 0 .. MaxFile /\ c \in 0 .. MaxFile
  BY FileAssumption, Sizes, SMT DEF Blocks, A, I
<1>2. get_path(b) = get_path(c)
  BY <1>1 DEF Path
<1> QED
  BY <1>1, <1>2, PathInverse

\* The slot of a block is one of the file's.
LEMMA PathInSlots ==
  ASSUME NEW b \in Blocks
  PROVE  Path[b] \in Slots
<1>1. b \in Nat /\ b < I + 2 * A + PerIndirect /\ Path[b] = get_path(b)
  BY FileAssumption, Sizes, SMT DEF Blocks, Path, A, I
<1>2. CASE b < I
  <2>1. get_path(b) = <<b>> /\ b \in {i \in 0 .. DEF_ADDRS_PER_INODE - 1 : i >= 0}
    BY <1>1, <1>2, Ranges, Sizes, SMT DEF I
  <2> QED
    BY <1>1, <2>1 DEF Slots, InodeSlotsFrom
<1>3. CASE b \in I .. DirectEnd - 1
  <2> DEFINE d == b - I
  <2>1. d \in Nat /\ d < 2 * A
    BY <1>1, <1>3, Sizes, SMT DEF DirectEnd
  <2>2. PICK i, x : get_path(b) = <<I + i, x>> /\ i = Group(d, A) /\ x \in 0 .. A - 1
    <3>1. get_path(b) = DirectPath(d)
      BY <1>1, <1>3, Ranges
    <3> HIDE DEF d
    <3> QED
      BY <2>1, <3>1, DirectPathShape
  <2>3. i \in {0, 1}
    <3>1. i \in Nat /\ i < 2
      BY <2>1, <2>2, GroupBounds, GroupLess, Sizes
    <3> QED
      BY <3>1, SMT
  <2>4. Direct(i) \in Leaves /\ <<I + i, x>> = Append(Direct(i), x)
    BY <2>3, SMT DEF Leaves, Direct, I
  <2>5. x \in {k \in 0 .. DEF_ADDRS_PER_BLOCK - 1 : k >= 0}
    BY <2>2, Sizes, SMT DEF A
  <2> QED
    BY <1>1, <2>2, <2>4, <2>5 DEF Slots, SlotsFrom
<1>4. CASE b >= DirectEnd
  <2> DEFINE d == b - DirectEnd
  <2>1. d \in Nat /\ d < PerIndirect /\ b \in DirectEnd .. IndirectEnd - 1
    BY <1>1, <1>4, Sizes, SMT DEF DirectEnd, IndirectEnd
  <2>2. \E i \in Nat, c, j \in 0 .. A - 1 :
           /\ IndirectPath(d) = <<I + 2 + i, c, j>>
           /\ DoubleIndirectPath(d) = <<I + 4, i, c, j>>
           /\ i = Group(d, PerIndirect)
           /\ d = i * PerIndirect + c * A + j
    <3> HIDE DEF d
    <3> QED
      BY <2>1, IndirectPathShape
  <2>3. PICK i \in Nat, c, j \in 0 .. A - 1 :
          IndirectPath(d) = <<I + 2 + i, c, j>> /\ i = Group(d, PerIndirect)
    <3> HIDE DEF d
    <3> QED
      BY <2>2, Zenon
  <2>4. i = 0
    <3>1. i < 1
      BY <2>1, <2>3, GroupLess, Sizes
    <3> QED
      BY <3>1, SMT
  <2>5. get_path(b) = <<I + 2, c, j>>
    <3>1. get_path(b) = IndirectPath(d)
      BY <1>1, <2>1, Ranges
    <3>2. I + 2 + i = I + 2
      BY <2>4, Sizes, SMT
    <3> QED
      BY <2>3, <3>1, <3>2
  <2>6. <<I + 2, c, j>> = Append(Child(c), j) /\ Child(c) \in Leaves
    BY Sizes, SMT DEF Child, Leaves, A, I
  <2>7. j \in {k \in 0 .. DEF_ADDRS_PER_BLOCK - 1 : k >= 0}
    BY Sizes, SMT DEF A
  <2> QED
    BY <1>1, <2>5, <2>6, <2>7 DEF Slots, SlotsFrom
<1> QED
  BY <1>1, <1>2, <1>3, <1>4, Sizes, SMT DEF DirectEnd

-----------------------------------------------------------------------------
(* Truncation, step by step. *)

\* Clearing slots takes away addresses that no other slot has.
LEMMA ClearSlotsGood ==
  ASSUME NEW s, Good(s), NEW P \in SUBSET Slots
  PROVE  Good(ClearSlots(s, P))
<1> DEFINE t == ClearSlots(s, P)
           va == s.valid \ {s.slot[p] : p \in P}
           sl == [p \in Slots |-> IF p \in P THEN 0 ELSE s.slot[p]]
<1>1. t = [s EXCEPT !.valid = va, !.slot = sl] /\ s \in Tree
  BY DEF ClearSlots, Good
<1>2. t.valid = va /\ t.slot = sl /\ t \in Tree
  <2>1. s.slot \in [Slots -> Address \cup {0}] /\ s.valid \subseteq Address
    BY <1>1 DEF Tree
  <2>2. va \subseteq Address /\ sl \in [Slots -> Address \cup {0}]
    BY <2>1
  <2> HIDE DEF t, va, sl
  <2> QED
    BY <1>1, <2>2 DEF Tree
<1>3. ASSUME NEW p \in Slots, t.slot[p] # 0
      PROVE  /\ t.slot[p] \in 1 .. nwrites /\ blockOf[t.slot[p]] \in Blocks
             /\ Path[blockOf[t.slot[p]]] = p /\ t.slot[p] \in t.valid
  <2>1. p \notin P /\ t.slot[p] = s.slot[p] /\ s.slot[p] # 0
    BY <1>2, <1>3
  <2>2. ASSUME NEW q \in P PROVE s.slot[q] # s.slot[p]
    BY <2>1, <2>2 DEF Good, Owned
  <2> QED
    BY <1>2, <2>1, <2>2 DEF Good, Owned
<1> QED
  BY <1>2, <1>3 DEF Good, Owned

\* Freeing nodes only empties slots.
LEMMA FreeNodesGood ==
  ASSUME NEW s, Good(s), NEW C
  PROVE  Good(FreeNodes(s, C))
<1> DEFINE t == FreeNodes(s, C)
           ch == s.child \ Below(C)
           da == s.dangling \ Below(C)
           sl == [p \in Slots |-> IF NodesTo(p) \cap C # {} THEN 0 ELSE s.slot[p]]
<1>1. t = [s EXCEPT !.child = ch, !.dangling = da, !.slot = sl] /\ s \in Tree
  BY DEF FreeNodes, Good
<1>2. t.valid = s.valid /\ t.slot = sl /\ t \in Tree
  <2>1. s.slot \in [Slots -> Address \cup {0}] /\ s.child \subseteq Nodes /\ s.dangling \subseteq Nodes
    BY <1>1 DEF Tree
  <2>2. ch \subseteq Nodes /\ da \subseteq Nodes /\ sl \in [Slots -> Address \cup {0}]
    BY <2>1
  <2> HIDE DEF t, ch, da, sl
  <2> QED
    BY <1>1, <2>2 DEF Tree
<1> QED
  BY <1>2 DEF Good, Owned

\* The slots of a node are slots of the file.
LEMMA SlotsOfNode ==
  ASSUME NEW n \in Leaves, NEW j
  PROVE  SlotsFrom(n, j) \subseteq Slots
<1> SUFFICES ASSUME NEW k \in {i \in 0 .. DEF_ADDRS_PER_BLOCK - 1 : i >= j} PROVE Append(n, k) \in Slots
  BY DEF SlotsFrom
<1>1. k \in {i \in 0 .. DEF_ADDRS_PER_BLOCK - 1 : i >= 0}
  BY SMT
<1> QED
  BY <1>1 DEF Slots, SlotsFrom

\* offset[] may change as long as it stays one.
LEMMA OffGood ==
  ASSUME NEW s, Good(s), NEW k, NEW x, k \in 0 .. 3 => x \in Int
  PROVE  Good([s EXCEPT !.off[k] = x])
<1> DEFINE t == [s EXCEPT !.off[k] = x]
<1>1. s \in Tree
  BY DEF Good
<1>2. t \in Tree /\ t.slot = s.slot /\ t.valid = s.valid
  BY <1>1 DEF Tree
<1> QED
  BY <1>2 DEF Good, Owned

\* recurse on a direct node, with and without offset.
LEMMA DirectGood ==
  ASSUME NEW s, Good(s), NEW n \in Leaves
  PROVE  Good(clear_direct(s, n)) /\ Good(cut_direct(s, n))
<1>1. Good(clear_direct(s, n))
  BY SlotsOfNode, ClearSlotsGood DEF clear_direct
<1>2. Good(cut_direct(s, n))
  <2> DEFINE last == PathLen(s.off) - 1
             t == ClearSlots(s, SlotsFrom(n, s.off[last]))
  <2>1. Good(t)
    BY SlotsOfNode, ClearSlotsGood
  <2>2. cut_direct(s, n) = [t EXCEPT !.off[last] = t.off[last] - 1]
    BY DEF cut_direct
  <2>3. last \in 0 .. 3 => t.off[last] - 1 \in Int
    BY <2>1 DEF Good, Tree
  <2> HIDE DEF t, last
  <2> QED
    BY <2>1, <2>2, <2>3, OffGood
<1> QED
  BY <1>1, <1>2

\* recurse on the children of the indirect node.
LEMMA ClearChildrenGood ==
  ASSUME NEW s, Good(s), NEW i
  PROVE  Good(ClearChildren(s, i))
<1> DEFINE C == {Child(c) : c \in i + 1 .. DEF_NIDS_PER_BLOCK - 1} \cap s.child
           P == UNION {SlotsFrom(n, 0) : n \in C}
<1>1. C \subseteq Nodes
  BY DEF Good, Tree
<1>2. Indirect \notin C
  <2> SUFFICES ASSUME NEW c, Child(c) = Indirect PROVE FALSE
    OBVIOUS
  <2> QED
    BY SMT DEF Child, Indirect
<1>3. P \subseteq Slots
  BY <1>1, <1>2, SlotsOfNode DEF Nodes
<1>4. Good(ClearSlots(s, P))
  BY <1>3, ClearSlotsGood
<1> QED
  BY <1>4, FreeNodesGood DEF ClearChildren

\* recurse on the indirect node, with and without offset.
LEMMA IndirectGood ==
  ASSUME NEW s, Good(s)
  PROVE  Good(clear_indirect(s)) /\ Good(cut_indirect(s))
<1>1. Good(clear_indirect(s))
  BY ClearChildrenGood DEF clear_indirect
<1>2. Good(cut_indirect(s))
  <2> DEFINE last == PathLen(s.off) - 1
             k == last - 1
             i == s.off[k]
             t == ClearChildren(s, i)
             da == t.dangling \cup ({Child(i)} \cap s.child)
             u == [t EXCEPT !.dangling = da]
  <2>1. Good(t) /\ t \in Tree
    BY ClearChildrenGood DEF Good
  <2>2. cut_indirect(s) = IF s.off[last] = 0
                          THEN [t EXCEPT !.dangling = da, !.off[k] = i - 1]
                          ELSE t
    BY DEF cut_indirect
  <2>3. da \subseteq Nodes
    BY <2>1 DEF Good, Tree
  <2>4. Good(u) /\ u \in Tree
    <3> HIDE DEF t, da
    <3>1. u \in Tree /\ u.slot = t.slot /\ u.valid = t.valid
      BY <2>1, <2>3 DEF Tree
    <3> QED
      BY <2>1, <3>1 DEF Good, Owned
  <2>5. [t EXCEPT !.dangling = da, !.off[k] = i - 1] = [u EXCEPT !.off[k] = i - 1]
    OBVIOUS
  <2>6. Good([u EXCEPT !.off[k] = i - 1])
    <3>1. k \in 0 .. 3 => i - 1 \in Int
      BY DEF Good, Tree
    <3> HIDE DEF u, i, k
    <3> QED
      BY <2>4, <3>1, OffGood
  <2> QED
    BY <2>1, <2>2, <2>5, <2>6
<1> QED
  BY <1>1, <1>2

\* A round of the loops frees a node or leaves what recurse made of it.
LEMMA RoundGood ==
  ASSUME NEW s, Good(s), NEW n, NEW all, NEW clear, Good(clear), NEW cut, Good(cut)
  PROVE  Good(Round(s, n, all, clear, cut))
  BY FreeNodesGood DEF Round

\* The whole walk of truncation, from any offsets.
LEMMA TruncateGood ==
  ASSUME NEW s, Good(s)
  PROVE  Good(truncate_blocks(s))
<1>1. ASSUME NEW t, Good(t), NEW i \in {0, 1}, NEW all
      PROVE  Good(DirectRound(t, i, all))
  <2>1. Direct(i) \in Leaves
    BY DEF Leaves
  <2>2. Good(clear_direct(t, Direct(i))) /\ Good(cut_direct(t, Direct(i)))
    BY <1>1, <2>1, DirectGood
  <2> QED
    BY <1>1, <2>2, RoundGood DEF DirectRound
<1>2. ASSUME NEW t, Good(t), NEW all
      PROVE  Good(IndirectRound(t, all))
  BY <1>2, IndirectGood, RoundGood DEF IndirectRound
<1>3. Good(InodeRound(s, s.off[0]))
  <2>1. ASSUME NEW k \in {i \in 0 .. DEF_ADDRS_PER_INODE - 1 : i >= s.off[0]}
        PROVE  <<k>> \in Slots
    <3>1. k \in {i \in 0 .. DEF_ADDRS_PER_INODE - 1 : i >= 0}
      BY SMT
    <3> QED
      BY <3>1 DEF Slots, InodeSlotsFrom
  <2>2. InodeSlotsFrom(s.off[0]) \subseteq Slots
    BY <2>1 DEF InodeSlotsFrom
  <2> QED
    BY <2>2, ClearSlotsGood DEF InodeRound
<1> DEFINE first == s.off[0] - DEF_ADDRS_PER_INODE
<1>4. CASE first < 0
  BY <1>1, <1>2, <1>3, <1>4 DEF truncate_blocks
<1>5. CASE ~(first < 0) /\ first = 0
  BY <1>1, <1>2, <1>5 DEF truncate_blocks
<1>6. CASE ~(first < 0) /\ first # 0 /\ first = 1
  BY <1>1, <1>2, <1>6 DEF truncate_blocks
<1>7. CASE ~(first < 0) /\ first # 0 /\ first # 1
  BY <1>2, <1>7 DEF truncate_blocks
<1> QED
  BY <1>4, <1>5, <1>6, <1>7

-----------------------------------------------------------------------------
(* The invariant and what follows from it. *)

\* Offsets are numbers.
LEMMA PathInts ==
  ASSUME NEW b \in Nat
  PROVE  /\ Len(get_path(b)) \in Int
         /\ \A k \in 1 .. Len(get_path(b)) : get_path(b)[k] \in Int
<1>1. CASE b < I
  BY <1>1, Ranges, SMT
<1>2. CASE b \in I .. DirectEnd - 1
  <2> DEFINE d == b - I
             w == I + Group(d, A)
             x == d - Group(d, A) * A
  <2>1. d \in Nat
    BY <1>2, Sizes, SMT DEF DirectEnd
  <2>2. get_path(b) = <<w, x>> /\ x \in 0 .. A - 1
    BY <1>2, <2>1, Ranges, DirectPathShape
  <2>3. w \in Int /\ x \in Int
    <3>1. Group(d, A) \in Nat
      BY <2>1, GroupBounds, Sizes
    <3> QED
      BY <2>2, <3>1, Sizes, SMT
  <2> HIDE DEF w, x
  <2> QED
    BY <2>2, <2>3, SMT
<1>3. CASE b >= DirectEnd
  <2>1. PICK d \in Nat : get_path(b) = IndirectPath(d) \/ get_path(b) = DoubleIndirectPath(d)
    <3>1. CASE b \in DirectEnd .. IndirectEnd - 1
      <4>1. b - DirectEnd \in Nat
        BY <1>3, Sizes, SMT DEF DirectEnd
      <4> QED
        BY <3>1, <4>1, Ranges
    <3>2. CASE b >= IndirectEnd
      <4>1. b - IndirectEnd \in Nat
        BY <3>2, Sizes, SMT DEF DirectEnd, IndirectEnd
      <4> QED
        BY <3>2, <4>1, Ranges
    <3> QED
      BY <1>3, <3>1, <3>2, Sizes, SMT DEF DirectEnd, IndirectEnd
  <2>2. PICK i \in Nat, c, j \in 0 .. A - 1 :
          IndirectPath(d) = <<I + 2 + i, c, j>> /\ DoubleIndirectPath(d) = <<I + 4, i, c, j>>
    BY IndirectPathShape
  <2>3. PICK u \in Int, v \in Int : u = I + 2 + i /\ v = I + 4
    BY Sizes, SMT
  <2>4. c \in Int /\ j \in Int
    BY SMT
  <2>5. get_path(b) = <<u, c, j>> \/ get_path(b) = <<v, i, c, j>>
    BY <2>1, <2>2, <2>3
  <2>6. CASE get_path(b) = <<u, c, j>>
    BY <2>3, <2>4, <2>6, SMT
  <2>7. CASE get_path(b) = <<v, i, c, j>>
    BY <2>3, <2>4, <2>7, SMT
  <2> QED
    BY <2>5, <2>6, <2>7
<1> QED
  BY <1>1, <1>2, <1>3, Sizes, SMT DEF DirectEnd

\* What truncation starts from is a record of the right type.
LEMMA OffsetsTyped ==
  ASSUME NEW b \in 0 .. MaxFile
  PROVE  Offsets(Path[b]) \in [0 .. 3 -> Int]
<1> DEFINE p == get_path(b)
<1>1. b \in Nat /\ Path[b] = p
  BY FileAssumption, SMT DEF Path
<1>2. Len(p) \in Int /\ \A k \in 1 .. Len(p) : p[k] \in Int
  BY <1>1, PathInts
<1>3. ASSUME NEW k \in 0 .. 3
      PROVE  (IF k < Len(p) THEN p[k + 1] ELSE -1) \in Int
  <2>1. CASE k < Len(p)
    <3> HIDE DEF p
    <3>1. k + 1 \in 1 .. Len(p)
      BY <1>2, <2>1, SMT
    <3> QED
      BY <1>2, <2>1, <3>1
  <2>2. CASE ~(k < Len(p))
    BY <2>2
  <2> QED
    BY <2>1, <2>2
<1> HIDE DEF p
<1> QED
  BY <1>1, <1>3 DEF Offsets
\* The first offsets of a path.
LEMMA SubSeqOne ==
  ASSUME NEW p
  PROVE  SubSeq(p, 1, 1) = <<p[1]>>
<1>1. /\ SubSeq(p, 1, 1) \in Seq({p[1]})
      /\ Len(SubSeq(p, 1, 1)) = 1
      /\ SubSeq(p, 1, 1)[1] = p[1]
  <2>1. \A i \in 1 .. 1 : p[i] \in {p[1]}
    BY SMT
  <2>2. 1 \in Int /\ 1 \in 1 .. 1 - 1 + 1 /\ 1 - 1 + 1 = 1 /\ 1 + 1 - 1 = 1
    BY SMT
  <2> QED
    BY <2>1, <2>2, SubSeqProperties
<1>2. <<p[1]>> \in Seq({p[1]}) /\ Len(<<p[1]>>) = 1 /\ <<p[1]>>[1] = p[1]
  BY SMT
<1>3. \A i \in 1 .. Len(SubSeq(p, 1, 1)) : SubSeq(p, 1, 1)[i] = <<p[1]>>[i]
  <2>1. \A i \in 1 .. 1 : i = 1
    BY SMT
  <2> QED
    BY <1>1, <1>2, <2>1, Zenon
<1> QED
  BY <1>1, <1>2, <1>3, SeqEqual, Zenon

\* The first two offsets of a path.
LEMMA SubSeqTwo ==
  ASSUME NEW p
  PROVE  SubSeq(p, 1, 2) = <<p[1], p[2]>>
<1>1. /\ SubSeq(p, 1, 2) \in Seq({p[1], p[2]})
      /\ Len(SubSeq(p, 1, 2)) = 2
      /\ SubSeq(p, 1, 2)[1] = p[1] /\ SubSeq(p, 1, 2)[2] = p[2]
  <2>1. \A i \in 1 .. 2 : p[i] \in {p[1], p[2]}
    BY SMT
  <2>2. 1 \in Int /\ 2 \in Int /\ 1 <= 2 /\ 2 - 1 + 1 = 2 /\ 1 + 1 - 1 = 1 /\ 1 + 2 - 1 = 2
        /\ 1 \in 1 .. 2 /\ 2 \in 1 .. 2
    BY SMT
  <2> QED
    BY <2>1, <2>2, SubSeqProperties
<1>2. /\ <<p[1], p[2]>> \in Seq({p[1], p[2]}) /\ Len(<<p[1], p[2]>>) = 2
      /\ <<p[1], p[2]>>[1] = p[1] /\ <<p[1], p[2]>>[2] = p[2]
  BY SMT
<1>3. \A i \in 1 .. Len(SubSeq(p, 1, 2)) : SubSeq(p, 1, 2)[i] = <<p[1], p[2]>>[i]
  <2>1. \A i \in 1 .. 2 : i = 1 \/ i = 2
    BY SMT
  <2> QED
    BY <1>1, <1>2, <2>1, Zenon
<1> QED
  BY <1>1, <1>2, <1>3, SeqEqual, Zenon

\* Appending an offset keeps those before it.
LEMMA AppendKeeps ==
  ASSUME NEW n \in Seq(Int), NEW k \in Int
  PROVE  Len(Append(n, k)) = Len(n) + 1 /\ \A j \in 1 .. Len(n) : Append(n, k)[j] = n[j]
  BY SMT

\* No node lies between the inode and its own addresses and nids.
LEMMA WayWithinInode ==
  ASSUME NEW w
  PROVE  NodesTo(<<w>>) = {}
<1>1. 1 .. Len(<<w>>) - 1 = {}
  BY SMT
<1> QED
  BY <1>1 DEF NodesTo

\* A direct node hangs on the inode, and lies before its own addresses.
LEMMA DirectWay ==
  ASSUME NEW i \in {0, 1}
  PROVE  /\ NodesTo(Direct(i)) = {}
         /\ \A k \in Int : /\ NodesTo(Append(Direct(i), k)) = {Direct(i)}
                           /\ Append(Direct(i), k) = <<I + i, k>>
<1>1. PICK w \in Int : w = DEF_ADDRS_PER_INODE + i
  BY PathAssumption, SMT
<1>2. Direct(i) = <<w>>
  BY <1>1 DEF Direct
<1> SUFFICES ASSUME NEW k \in Int
             PROVE  NodesTo(Append(<<w>>, k)) = {<<w>>} /\ Append(<<w>>, k) = <<w, k>>
  BY <1>1, <1>2, WayWithinInode DEF I
<1> DEFINE p == <<w, k>>
<1>3. p = Append(<<w>>, k)
  BY SMT
<1>4. 1 .. Len(p) - 1 = {1} /\ p[1] = w
  BY SMT
<1>5. SubSeq(p, 1, 1) = <<w>>
  BY <1>4, SubSeqOne
<1> HIDE DEF p
<1>6. NodesTo(p) = {<<w>>}
  BY <1>4, <1>5 DEF NodesTo
<1> QED
  BY <1>3, <1>6 DEF p

\* The children of the indirect node hang on it.
LEMMA ChildWay ==
  ASSUME NEW c \in Int
  PROVE  /\ NodesTo(Indirect) = {} /\ NodesTo(Child(c)) = {Indirect}
         /\ \A k \in Int : /\ NodesTo(Append(Child(c), k)) = {Indirect, Child(c)}
                           /\ Append(Child(c), k) = <<I + 2, c, k>>
<1>1. PICK w \in Int : w = DEF_ADDRS_PER_INODE + 2
  BY PathAssumption, SMT
<1>2. Indirect = <<w>> /\ Child(c) = <<w, c>>
  BY <1>1 DEF Indirect, Child
<1>3. NodesTo(<<w, c>>) = {<<w>>}
  <2> DEFINE n == <<w, c>>
  <2>1. 1 .. Len(n) - 1 = {1} /\ n[1] = w
    BY SMT
  <2>2. SubSeq(n, 1, 1) = <<w>>
    BY <2>1, SubSeqOne
  <2> HIDE DEF n
  <2>3. NodesTo(n) = {<<w>>}
    BY <2>1, <2>2 DEF NodesTo
  <2> QED
    BY <2>3 DEF n
<1>4. ASSUME NEW k \in Int
      PROVE  /\ NodesTo(Append(<<w, c>>, k)) = {<<w>>, <<w, c>>}
             /\ Append(<<w, c>>, k) = <<w, c, k>>
  <2> DEFINE p == <<w, c, k>>
  <2>1. p = Append(<<w, c>>, k)
    BY SMT
  <2>2. 1 .. Len(p) - 1 = {1, 2} /\ p[1] = w /\ p[2] = c
    BY SMT
  <2>3. SubSeq(p, 1, 1) = <<w>> /\ SubSeq(p, 1, 2) = <<w, c>>
    BY <2>2, SubSeqOne, SubSeqTwo
  <2> HIDE DEF p
  <2>4. NodesTo(p) = {<<w>>, <<w, c>>}
    BY <2>2, <2>3 DEF NodesTo
  <2> QED
    BY <2>1, <2>4 DEF p
<1> QED
  BY <1>1, <1>2, <1>3, <1>4, WayWithinInode DEF I

\* The three ways from the inode to a slot.
LEMMA WayToSlot ==
  ASSUME NEW p \in Slots
  PROVE  \/ NodesTo(p) = {}
         \/ \E i \in {0, 1} : NodesTo(p) = {Direct(i)}
         \/ \E c \in 0 .. DEF_NIDS_PER_BLOCK - 1 : NodesTo(p) = {Indirect, Child(c)}
<1>1. CASE p \in InodeSlotsFrom(0)
  BY <1>1, WayWithinInode DEF InodeSlotsFrom
<1>2. ASSUME NEW n \in Leaves, p \in SlotsFrom(n, 0)
      PROVE  \/ \E i \in {0, 1} : NodesTo(p) = {Direct(i)}
             \/ \E c \in 0 .. DEF_NIDS_PER_BLOCK - 1 : NodesTo(p) = {Indirect, Child(c)}
  <2>1. PICK k \in Int : p = Append(n, k)
    BY <1>2 DEF SlotsFrom
  <2>2. (\E i \in {0, 1} : n = Direct(i)) \/ \E c \in 0 .. DEF_NIDS_PER_BLOCK - 1 : n = Child(c)
    BY DEF Leaves
  <2>3. ASSUME NEW i \in {0, 1}, n = Direct(i) PROVE NodesTo(p) = {Direct(i)}
    BY <2>1, <2>3, DirectWay
  <2>4. ASSUME NEW c \in 0 .. DEF_NIDS_PER_BLOCK - 1, n = Child(c)
        PROVE  NodesTo(p) = {Indirect, Child(c)}
    <3>1. c \in Int
      BY SMT
    <3> QED
      BY <2>1, <2>4, <3>1, ChildWay
  <2> QED
    BY <2>2, <2>3, <2>4
<1> QED
  BY <1>1, <1>2 DEF Slots

\* The nodes on the way to a slot are nodes of a file.
LEMMA NodesOnTheWay ==
  ASSUME NEW p \in Slots
  PROVE  NodesTo(p) \subseteq Nodes
  BY WayToSlot DEF Nodes, Leaves

\* The way to a node that is on the way to somewhere is part of that way.
LEMMA WayIsClosed ==
  ASSUME NEW p \in Slots \cup Nodes, NEW m \in NodesTo(p)
  PROVE  NodesTo(m) \subseteq NodesTo(p)
<1>1. CASE p \in Slots
  BY <1>1, WayToSlot, DirectWay, ChildWay
<1>2. CASE p \in Nodes
  BY <1>2, DirectWay, ChildWay DEF Nodes, Leaves
<1> QED
  BY <1>1, <1>2

\* An empty file.
LEMMA InitIInv ==
  ASSUME Init
  PROVE  IInv
<1>1. 0 \in 0 .. MaxWrites /\ 0 \in Blocks
  BY FileAssumption, SMT DEF Blocks
<1> QED
  BY <1>1 DEF Init, IInv, Owned

\* A write of b takes the next address, which no slot has, to the slot of b.
LEMMA WritePageIInv ==
  ASSUME IInv, NEW b \in Blocks, WritePage(b)
  PROVE  IInv'
<1> DEFINE a == nwrites + 1
           p == Path[b]
<1>1. /\ nwrites \in Nat /\ a \in Address /\ a \in 1 .. a /\ a \in 0 .. MaxWrites
      /\ a # 0 /\ \A x \in 1 .. nwrites : x # a /\ x \in 1 .. a
  BY FileAssumption, SMT DEF WritePage, IInv, Address
<1>2. p \in Slots
  BY PathInSlots
<1>3. /\ slot' = [slot EXCEPT ![p] = a]
      /\ valid' = (valid \ {slot[p]}) \cup {a}
      /\ blockOf' = [blockOf EXCEPT ![a] = b]
      /\ nwrites' = a
      /\ child' = child /\ dangling' = dangling
  BY DEF WritePage
<1> HIDE DEF a, p
<1>4. /\ slot' \in [Slots -> Address \cup {0}] /\ valid' \subseteq Address
      /\ blockOf' \in [Address -> Blocks] /\ nwrites' \in 0 .. MaxWrites
      /\ child' \subseteq Nodes /\ dangling' \subseteq Nodes
  BY <1>1, <1>2, <1>3 DEF IInv
<1>5. ASSUME NEW q \in Slots, slot'[q] # 0
      PROVE  /\ slot'[q] \in 1 .. nwrites' /\ blockOf'[slot'[q]] \in Blocks
             /\ Path[blockOf'[slot'[q]]] = q /\ slot'[q] \in valid'
  <2>1. CASE q = p
    <3>1. slot'[q] = a /\ blockOf'[a] = b
      BY <1>1, <1>2, <1>3, <2>1 DEF IInv
    <3> QED
      BY <1>1, <1>3, <2>1, <3>1 DEF p
  <2>2. CASE q # p
    <3>1. slot'[q] = slot[q]
      BY <1>3, <2>2 DEF IInv
    <3>2. /\ slot[q] \in 1 .. nwrites /\ blockOf[slot[q]] \in Blocks
          /\ Path[blockOf[slot[q]]] = q /\ slot[q] \in valid
      BY <1>5, <3>1 DEF IInv, Owned
    <3>3. slot[q] # a /\ slot[q] \in 1 .. a
      BY <1>1, <3>2
    <3>4. blockOf'[slot[q]] = blockOf[slot[q]]
      BY <1>3, <3>3 DEF IInv
    <3>5. slot[q] # slot[p]
      <4>1. CASE slot[p] = 0
        BY <1>5, <3>1, <4>1
      <4>2. CASE slot[p] # 0
        <5>1. Path[blockOf[slot[p]]] = p
          BY <1>2, <4>2 DEF IInv, Owned
        <5> QED
          BY <2>2, <3>2, <5>1
      <4> QED
        BY <4>1, <4>2
    <3> QED
      BY <1>3, <3>1, <3>2, <3>3, <3>4, <3>5
  <2> QED
    BY <2>1, <2>2
<1> QED
  BY <1>4, <1>5 DEF IInv, Owned

\* A write only grows the tree.
LEMMA WriteIInv ==
  ASSUME IInv, NEW b \in Blocks, NEW size, Write(b, size)
  PROVE  IInv'
<1>1. NodesTo(Path[b]) \subseteq Nodes
  BY PathInSlots, NodesOnTheWay
<1>2. child' \subseteq Nodes
  BY <1>1 DEF Write, IInv
<1> QED
  BY <1>2 DEF Write, IInv, Owned

\* Truncation starts from a good record.
LEMMA TruncateIInv ==
  ASSUME IInv, NEW size \in 0 .. 2 * MaxFile, Truncate(size)
  PROVE  IInv'
<1> DEFINE off == Offsets(Path[FreeFrom(size)])
           r == [slot |-> slot, child |-> child, dangling |-> dangling, valid |-> valid, off |-> off]
           s == truncate_blocks(r)
<1>1. off \in [0 .. 3 -> Int]
  <2>1. FreeFrom(size) \in 0 .. MaxFile
    BY FileAssumption, SMT DEF FreeFrom
  <2> QED
    BY <2>1, OffsetsTyped
<1>2. Good(r)
  <2> HIDE DEF off
  <2>1. r \in Tree /\ r.slot = slot /\ r.valid = valid
    BY <1>1 DEF Tree, IInv
  <2> HIDE DEF r
  <2> QED
    BY <2>1 DEF Good, IInv
<1>3. Good(s)
  BY <1>2, TruncateGood
<1>4. /\ slot' = s.slot /\ child' = s.child /\ dangling' = s.dangling /\ valid' = s.valid
      /\ nwrites' = nwrites /\ blockOf' = blockOf
  BY DEF Truncate
<1> HIDE DEF s
<1>5. /\ slot' \in [Slots -> Address \cup {0}] /\ child' \subseteq Nodes
      /\ dangling' \subseteq Nodes /\ valid' \subseteq Address
  BY <1>3, <1>4 DEF Good, Tree
<1>6. Owned(slot', valid')
  BY <1>3, <1>4 DEF Good
<1> QED
  BY <1>4, <1>5, <1>6 DEF IInv, Owned

\* Every step of the file keeps the invariant.
LEMMA NextIInv ==
  ASSUME IInv, [Next]_vars
  PROVE  IInv'
<1>1. CASE Next
  BY <1>1, WritePageIInv, WriteIInv, TruncateIInv DEF Next
<1>2. CASE UNCHANGED vars
  BY <1>2 DEF vars, IInv, Owned
<1> QED
  BY <1>1, <1>2

\* The invariant holds in every reachable state.
LEMMA IInvAlways == Spec => []IInv
<1>1. Init => IInv
  BY InitIInv
<1>2. IInv /\ [Next]_vars => IInv'
  BY NextIInv
<1> QED
  BY <1>1, <1>2, PTL DEF Spec

\* What is found at a block sits in the slot of that block.
LEMMA FoundInSlot ==
  ASSUME IInv, NEW b \in Blocks, Read(b) # 0
  PROVE  /\ Read(b) \in valid /\ blockOf[Read(b)] = b
<1>1. Read(b) = slot[Path[b]] /\ Path[b] \in Slots
  BY PathInSlots DEF Read
<1>2. /\ Read(b) \in valid /\ blockOf[Read(b)] \in Blocks
      /\ Path[blockOf[Read(b)]] = Path[b]
  BY <1>1 DEF IInv, Owned
<1> QED
  BY <1>2, PathInjective

\* For every geometry of the nodes, get_path and truncation keep the blocks of
\* a file apart: a reader of a block finds what was written for it.
THEOREM NoForeignBlockAlways == Spec => []NoForeignBlock
<1>1. IInv => NoForeignBlock
  BY FoundInSlot DEF NoForeignBlock
<1> QED
  BY <1>1, IInvAlways, PTL

\* For every geometry, no address that is reachable from the inode has lost its
\* valid bit: truncation never clears a bit without the slot that holds the address.
THEOREM ReachableAlwaysValid == Spec => []ReachableValid
<1>1. IInv => ReachableValid
  BY FoundInSlot DEF ReachableValid
<1> QED
  BY <1>1, IInvAlways, PTL

-----------------------------------------------------------------------------
(* The tree stays a tree, and truncation spares the blocks before the end. *)

\* Nodes and used slots hang on nodes of the file.
Hangs(sl, ch, da) ==
  /\ da \subseteq ch
  /\ \A n \in ch : NodesTo(n) \subseteq ch
  /\ \A p \in Slots : sl[p] # 0 => NodesTo(p) \subseteq ch

Rooted(s) == Good(s) /\ Hangs(s.slot, s.child, s.dangling)

\* From s to t the walk has only taken away, and no block before f has lost its
\* valid bit.
Trims(s, t, f) ==
  /\ Rooted(t) /\ t.child \subseteq s.child /\ t.valid \subseteq s.valid
  /\ \A p \in Slots : t.slot[p] # 0 => t.slot[p] = s.slot[p]
  /\ \A a \in s.valid : a \notin t.valid => blockOf[a] >= f

\* Rounds of the walk follow each other.
LEMMA TrimsTransitive ==
  ASSUME NEW s, NEW t, NEW u, NEW f, Trims(s, t, f), Trims(t, u, f)
  PROVE  Trims(s, u, f)
  BY DEF Trims

\* A round that finds nothing.
LEMMA TrimsReflexive ==
  ASSUME NEW s, Rooted(s), NEW f
  PROVE  Trims(s, s, f)
  BY DEF Trims

\* What ClearSlots leaves.
LEMMA ClearSlotsFields ==
  ASSUME NEW s \in Tree, NEW P
  PROVE  /\ ClearSlots(s, P).child = s.child /\ ClearSlots(s, P).dangling = s.dangling
         /\ ClearSlots(s, P).off = s.off
         /\ ClearSlots(s, P).valid = s.valid \ {s.slot[p] : p \in P}
         /\ ClearSlots(s, P).slot = [p \in Slots |-> IF p \in P THEN 0 ELSE s.slot[p]]
<1> DEFINE va == s.valid \ {s.slot[p] : p \in P}
           sl == [p \in Slots |-> IF p \in P THEN 0 ELSE s.slot[p]]
<1>1. ClearSlots(s, P) = [s EXCEPT !.valid = va, !.slot = sl]
  BY DEF ClearSlots
<1> HIDE DEF va, sl
<1>2. /\ ClearSlots(s, P).child = s.child /\ ClearSlots(s, P).dangling = s.dangling
      /\ ClearSlots(s, P).off = s.off /\ ClearSlots(s, P).valid = va /\ ClearSlots(s, P).slot = sl
  BY <1>1 DEF Tree
<1> QED
  BY <1>2 DEF va, sl

\* What FreeNodes leaves.
LEMMA FreeNodesFields ==
  ASSUME NEW s \in Tree, NEW C
  PROVE  /\ FreeNodes(s, C).child = s.child \ Below(C)
         /\ FreeNodes(s, C).dangling = s.dangling \ Below(C)
         /\ FreeNodes(s, C).off = s.off /\ FreeNodes(s, C).valid = s.valid
         /\ FreeNodes(s, C).slot = [p \in Slots |-> IF NodesTo(p) \cap C # {} THEN 0 ELSE s.slot[p]]
<1> DEFINE ch == s.child \ Below(C)
           da == s.dangling \ Below(C)
           sl == [p \in Slots |-> IF NodesTo(p) \cap C # {} THEN 0 ELSE s.slot[p]]
<1>1. FreeNodes(s, C) = [s EXCEPT !.child = ch, !.dangling = da, !.slot = sl]
  BY DEF FreeNodes
<1> HIDE DEF ch, da, sl
<1>2. /\ FreeNodes(s, C).child = ch /\ FreeNodes(s, C).dangling = da
      /\ FreeNodes(s, C).off = s.off /\ FreeNodes(s, C).valid = s.valid /\ FreeNodes(s, C).slot = sl
  BY <1>1 DEF Tree
<1> QED
  BY <1>2 DEF ch, da, sl

\* Changing offset[] changes nothing of the file.
LEMMA OffTrims ==
  ASSUME NEW s, Rooted(s), NEW k, NEW x, k \in 0 .. 3 => x \in Int, NEW f
  PROVE  Trims(s, [s EXCEPT !.off[k] = x], f)
<1> DEFINE t == [s EXCEPT !.off[k] = x]
<1>1. s \in Tree /\ Good(t)
  BY OffGood DEF Rooted, Good
<1>2. t.slot = s.slot /\ t.child = s.child /\ t.dangling = s.dangling /\ t.valid = s.valid
  BY <1>1 DEF Tree
<1> HIDE DEF t
<1>3. Trims(s, t, f)
  BY <1>1, <1>2 DEF Rooted, Trims
<1> QED
  BY <1>3 DEF t

\* Clearing slots of blocks behind the end spares the others.
LEMMA ClearSlotsTrims ==
  ASSUME NEW s, Rooted(s), NEW P \in SUBSET Slots, NEW f,
         \A p \in P : s.slot[p] # 0 => blockOf[s.slot[p]] >= f
  PROVE  Trims(s, ClearSlots(s, P), f)
<1> DEFINE t == ClearSlots(s, P)
<1>1. Good(t) /\ s \in Tree
  BY ClearSlotsGood DEF Rooted, Good
<1>2. /\ t.child = s.child /\ t.dangling = s.dangling
      /\ t.valid = s.valid \ {s.slot[p] : p \in P}
      /\ t.slot = [p \in Slots |-> IF p \in P THEN 0 ELSE s.slot[p]]
  BY <1>1, ClearSlotsFields
<1> HIDE DEF t
<1>3. \A p \in Slots : t.slot[p] # 0 => t.slot[p] = s.slot[p]
  BY <1>2
<1>4. Hangs(t.slot, t.child, t.dangling)
  BY <1>2, <1>3 DEF Rooted, Hangs
<1>5. ASSUME NEW a \in s.valid, a \notin t.valid PROVE blockOf[a] >= f
  <2>1. PICK p \in P : a = s.slot[p]
    BY <1>2, <1>5
  <2>2. a # 0
    BY <1>1, <1>5, SMT DEF Tree, Address
  <2> QED
    BY <2>1, <2>2
<1> QED
  BY <1>1, <1>2, <1>3, <1>4, <1>5 DEF Rooted, Trims, t

\* Freeing nodes takes all that hangs on them along, and no valid bit.
LEMMA FreeNodesTrims ==
  ASSUME NEW s, Rooted(s), NEW C, NEW f
  PROVE  Trims(s, FreeNodes(s, C), f)
<1> DEFINE t == FreeNodes(s, C)
<1>1. Good(t) /\ s \in Tree
  BY FreeNodesGood DEF Rooted, Good
<1>2. /\ t.child = s.child \ Below(C) /\ t.dangling = s.dangling \ Below(C) /\ t.valid = s.valid
      /\ t.slot = [p \in Slots |-> IF NodesTo(p) \cap C # {} THEN 0 ELSE s.slot[p]]
  BY <1>1, FreeNodesFields
<1> HIDE DEF t
<1>3. \A p \in Slots : t.slot[p] # 0 => t.slot[p] = s.slot[p] /\ NodesTo(p) \cap C = {}
  BY <1>2
<1>4. ASSUME NEW p \in Slots \cup Nodes, NodesTo(p) \subseteq s.child, NodesTo(p) \cap C = {}
      PROVE  NodesTo(p) \subseteq t.child
  <2> SUFFICES ASSUME NEW m \in NodesTo(p) PROVE m \notin Below(C)
    BY <1>2, <1>4
  <2>1. NodesTo(m) \subseteq NodesTo(p)
    BY WayIsClosed
  <2> QED
    BY <1>4, <2>1 DEF Below
<1>5. Hangs(t.slot, t.child, t.dangling)
  <2>1. t.dangling \subseteq t.child
    BY <1>2 DEF Rooted, Hangs
  <2>2. ASSUME NEW n \in t.child PROVE NodesTo(n) \subseteq t.child
    <3>1. n \in Nodes /\ n \in s.child /\ n \notin Below(C)
      BY <1>1, <1>2 DEF Tree
    <3>2. NodesTo(n) \subseteq s.child /\ NodesTo(n) \cap C = {}
      BY <3>1 DEF Rooted, Hangs, Below
    <3> QED
      BY <1>4, <3>1, <3>2
  <2>3. ASSUME NEW p \in Slots, t.slot[p] # 0 PROVE NodesTo(p) \subseteq t.child
    <3>1. NodesTo(p) \subseteq s.child /\ NodesTo(p) \cap C = {}
      BY <1>3, <2>3 DEF Rooted, Hangs
    <3> QED
      BY <1>4, <3>1
  <2> QED
    BY <2>1, <2>2, <2>3 DEF Hangs
<1> QED
  BY <1>1, <1>2, <1>3, <1>5 DEF Rooted, Trims, t

-----------------------------------------------------------------------------
(* Blocks, slots and where truncation starts. *)

\* The block of a path through a direct node or the indirect node.
LEMMA BlockOfPath ==
  ASSUME NEW b \in 0 .. MaxFile
  PROVE  /\ \A k : Path[b] = <<k>> => b = k
         /\ \A i, k \in Int : Path[b] = <<I + i, k>> => b = I + i * A + k
         /\ \A c, k \in Int : Path[b] = <<I + 2, c, k>> => b = I + 2 * A + c * A + k
<1>1. b \in Nat /\ BlockAt(Path[b]) = b
  BY FileAssumption, PathInverse, SMT DEF Path
<1>2. ASSUME NEW k, Path[b] = <<k>> PROVE b = k
  <2>1. BlockAt(<<k>>) = k
    BY SMT DEF BlockAt
  <2> QED
    BY <1>1, <1>2, <2>1
<1>3. ASSUME NEW i \in Int, NEW k \in Int, Path[b] = <<I + i, k>> PROVE b = I + i * A + k
  <2>1. BlockAt(<<I + i, k>>) = I + ((I + i) - I) * A + k
    BY BlockAt2
  <2>2. (I + i) - I = i
    BY Sizes, SMT
  <2> QED
    BY <1>1, <1>3, <2>1, <2>2
<1>4. ASSUME NEW c \in Int, NEW k \in Int, Path[b] = <<I + 2, c, k>> PROVE b = I + 2 * A + c * A + k
  <2>1. BlockAt(<<I + 2, c, k>>) = I + 2 * A + ((I + 2) - (I + 2)) * PerIndirect + c * A + k
    BY BlockAt3
  <2>2. ((I + 2) - (I + 2)) * PerIndirect = 0 /\ I + 2 * A + 0 = I + 2 * A
    BY Sizes, SMT
  <2> QED
    BY <1>1, <1>4, <2>1, <2>2
<1> QED
  BY <1>2, <1>3, <1>4

\* The ways get_path takes up to the first block behind the largest file.
LEMMA PathShape ==
  ASSUME NEW b \in 0 .. MaxFile
  PROVE  \/ b < I /\ Path[b] = <<b>>
         \/ \E i \in {0, 1}, x \in 0 .. A - 1 : Path[b] = <<I + i, x>>
         \/ b >= I + 2 * A /\ \E i \in Nat, c, x \in 0 .. A - 1 : Path[b] = <<I + 2 + i, c, x>>
<1>1. b \in Nat /\ b <= I + 2 * A + PerIndirect /\ Path[b] = get_path(b)
  BY FileAssumption, Sizes, SMT DEF Path, A, I
<1>2. CASE b < I
  BY <1>1, <1>2, Ranges
<1>3. CASE b \in I .. DirectEnd - 1
  <2> DEFINE d == b - I
  <2>1. d \in Nat /\ d < 2 * A
    BY <1>1, <1>3, Sizes, SMT DEF DirectEnd
  <2>2. PICK i, x : get_path(b) = <<I + i, x>> /\ i = Group(d, A) /\ x \in 0 .. A - 1
    <3>1. get_path(b) = DirectPath(d)
      BY <1>1, <1>3, Ranges
    <3> HIDE DEF d
    <3> QED
      BY <2>1, <3>1, DirectPathShape
  <2>3. i \in {0, 1}
    <3>1. i \in Nat /\ i < 2
      BY <2>1, <2>2, GroupBounds, GroupLess, Sizes
    <3> QED
      BY <3>1, SMT
  <2> QED
    BY <1>1, <2>2, <2>3
<1>4. CASE b \in DirectEnd .. IndirectEnd - 1
  <2> DEFINE d == b - DirectEnd
  <2>1. d \in Nat
    BY <1>1, <1>4, Sizes, SMT DEF DirectEnd
  <2>2. get_path(b) = IndirectPath(d)
    BY <1>1, <1>4, Ranges
  <2> HIDE DEF d
  <2>3. \E i \in Nat, c, x \in 0 .. A - 1 : IndirectPath(d) = <<I + 2 + i, c, x>>
    BY <2>1, IndirectPathShape
  <2>4. b >= I + 2 * A
    BY <1>4, SMT DEF DirectEnd
  <2> QED
    BY <1>1, <2>2, <2>3, <2>4
<1>5. b < I \/ b \in I .. DirectEnd - 1 \/ b \in DirectEnd .. IndirectEnd - 1
  BY <1>1, Sizes, SMT DEF DirectEnd, IndirectEnd
<1> QED
  BY <1>2, <1>3, <1>4, <1>5

\* The offsets of a path are what recurse finds in offset[].
LEMMA OffsetsOfTwo ==
  ASSUME NEW w \in Nat, NEW x \in Nat
  PROVE  /\ Offsets(<<w, x>>)[0] = w /\ Offsets(<<w, x>>)[1] = x
         /\ PathLen(Offsets(<<w, x>>)) = 2
<1> DEFINE p == <<w, x>>
<1>1. Len(p) = 2 /\ p[1] = w /\ p[2] = x
  BY SMT
<1> HIDE DEF p
<1> DEFINE off == Offsets(p)
<1>2. off[0] = w /\ off[1] = x /\ off[2] = -1
  BY <1>1, SMT DEF Offsets
<1>3. {k \in 0 .. 3 : \A j \in 0 .. k : off[j] # -1} = 0 .. 1
  <2>1. ASSUME NEW k \in 0 .. 3, \A j \in 0 .. k : off[j] # -1 PROVE k \in 0 .. 1
    BY <1>2, <2>1, SMT
  <2>2. ASSUME NEW k \in 0 .. 1, NEW j \in 0 .. k PROVE off[j] # -1
    <3>1. j = 0 \/ j = 1
      BY SMT
    <3>2. w # -1 /\ x # -1
      BY SMT
    <3> QED
      BY <1>2, <3>1, <3>2
  <2>3. 0 .. 1 \subseteq 0 .. 3
    BY SMT
  <2> QED
    BY <2>1, <2>2, <2>3
<1>4. PathLen(off) = Cardinality(0 .. 1)
  BY <1>3 DEF PathLen
<1>5. Cardinality(0 .. 1) = 2
  <2>1. 0 \in Int /\ 1 \in Int /\ ~(0 > 1) /\ 1 - 0 + 1 = 2
    BY SMT
  <2> QED
    BY <2>1, FS_Interval
<1> QED
  BY <1>2, <1>4, <1>5 DEF p

\* The same for a path through the indirect node.
LEMMA OffsetsOfThree ==
  ASSUME NEW w \in Nat, NEW c \in Nat, NEW x \in Nat
  PROVE  /\ Offsets(<<w, c, x>>)[0] = w /\ Offsets(<<w, c, x>>)[1] = c
         /\ Offsets(<<w, c, x>>)[2] = x
         /\ PathLen(Offsets(<<w, c, x>>)) = 3
<1> DEFINE p == <<w, c, x>>
<1>1. Len(p) = 3 /\ p[1] = w /\ p[2] = c /\ p[3] = x
  BY SMT
<1> HIDE DEF p
<1> DEFINE off == Offsets(p)
<1>2. off[0] = w /\ off[1] = c /\ off[2] = x /\ off[3] = -1
  BY <1>1, SMT DEF Offsets
<1>3. {k \in 0 .. 3 : \A j \in 0 .. k : off[j] # -1} = 0 .. 2
  <2>1. ASSUME NEW k \in 0 .. 3, \A j \in 0 .. k : off[j] # -1 PROVE k \in 0 .. 2
    BY <1>2, <2>1, SMT
  <2>2. ASSUME NEW k \in 0 .. 2, NEW j \in 0 .. k PROVE off[j] # -1
    <3>1. j = 0 \/ j = 1 \/ j = 2
      BY SMT
    <3>2. w # -1 /\ c # -1 /\ x # -1
      BY SMT
    <3> QED
      BY <1>2, <3>1, <3>2
  <2>3. 0 .. 2 \subseteq 0 .. 3
    BY SMT
  <2> QED
    BY <2>1, <2>2, <2>3
<1>4. PathLen(off) = Cardinality(0 .. 2)
  BY <1>3 DEF PathLen
<1>5. Cardinality(0 .. 2) = 3
  <2>1. 0 \in Int /\ 2 \in Int /\ ~(0 > 2) /\ 2 - 0 + 1 = 3
    BY SMT
  <2> QED
    BY <2>1, FS_Interval
<1> QED
  BY <1>2, <1>4, <1>5 DEF p

-----------------------------------------------------------------------------
(* The rounds of the walk, and which blocks they reach. *)

\* An address in a slot belongs to the block whose path the slot is.
LEMMA OwnerOfSlot ==
  ASSUME NEW s, Good(s), NEW p \in Slots, s.slot[p] # 0
  PROVE  /\ blockOf[s.slot[p]] \in 0 .. MaxFile /\ blockOf[s.slot[p]] \in Blocks
         /\ Path[blockOf[s.slot[p]]] = p
<1>1. blockOf[s.slot[p]] \in Blocks /\ Path[blockOf[s.slot[p]]] = p
  BY DEF Good, Owned
<1>2. Blocks \subseteq 0 .. MaxFile
  BY FileAssumption, SMT DEF Blocks
<1> QED
  BY <1>1, <1>2

\* The slots of a direct node from j on hold blocks behind the end.
LEMMA DirectSlotsTrim ==
  ASSUME NEW s, Rooted(s), NEW i \in {0, 1}, NEW j, NEW f,
         \A k \in 0 .. A - 1 : k >= j => I + i * A + k >= f
  PROVE  Trims(s, ClearSlots(s, SlotsFrom(Direct(i), j)), f)
<1>1. Direct(i) \in Leaves
  BY DEF Leaves
<1>2. SlotsFrom(Direct(i), j) \subseteq Slots
  BY <1>1, SlotsOfNode
<1>3. ASSUME NEW p \in SlotsFrom(Direct(i), j), s.slot[p] # 0
      PROVE  blockOf[s.slot[p]] >= f
  <2>1. PICK k \in 0 .. A - 1 : k >= j /\ p = Append(Direct(i), k)
    BY DEF SlotsFrom, A
  <2>2. i \in Int /\ k \in Int
    BY SMT
  <2>3. p = <<I + i, k>>
    BY <2>1, <2>2, DirectWay
  <2>4. blockOf[s.slot[p]] = I + i * A + k
    BY <1>2, <1>3, <2>2, <2>3, OwnerOfSlot, BlockOfPath DEF Rooted
  <2> QED
    BY <2>1, <2>4
<1> QED
  BY <1>2, <1>3, ClearSlotsTrims

\* The round for a direct node: it is taken away as a whole when it lies behind
\* the end, and otherwise cleared from the offset of the end on.
LEMMA DirectRoundTrims ==
  ASSUME NEW s, Rooted(s), NEW i \in {0, 1}, NEW all, NEW f \in Int,
         \/ f <= I + i * A
         \/ ~all /\ f = I + i * A + s.off[PathLen(s.off) - 1]
                 /\ s.off[PathLen(s.off) - 1] \in Int
  PROVE  Trims(s, DirectRound(s, i, all), f)
<1> DEFINE n == Direct(i)
           last == PathLen(s.off) - 1
           t == ClearSlots(s, SlotsFrom(n, s.off[last]))
           x == t.off[last] - 1
<1>1. CASE n \notin s.child
  BY <1>1, TrimsReflexive DEF DirectRound, Round
<1>2. CASE n \in s.child /\ all
  <2>1. \A k \in 0 .. A - 1 : k >= 0 => I + i * A + k >= f
    BY <1>2, Sizes, SMT
  <2>2. Trims(s, clear_direct(s, n), f)
    BY <2>1, DirectSlotsTrim DEF clear_direct
  <2>3. Trims(clear_direct(s, n), FreeNodes(clear_direct(s, n), {n}), f)
    BY <2>2, FreeNodesTrims DEF Trims
  <2> QED
    BY <1>2, <2>2, <2>3, TrimsTransitive DEF DirectRound, Round
<1>3. CASE n \in s.child /\ ~all
  <2>1. \A k \in 0 .. A - 1 : k >= s.off[last] => I + i * A + k >= f
    BY Sizes, SMT
  <2>2. Trims(s, t, f)
    BY <2>1, DirectSlotsTrim
  <2>3. last \in 0 .. 3 => x \in Int
    BY <2>2 DEF Trims, Rooted, Good, Tree
  <2>4. cut_direct(s, n) = [t EXCEPT !.off[last] = x]
    BY DEF cut_direct
  <2>5. Rooted(t)
    BY <2>2 DEF Trims
  <2> HIDE DEF t, x, last
  <2>6. Trims(t, cut_direct(s, n), f)
    <3>1. Trims(t, [t EXCEPT !.off[last] = x], f)
      BY <2>3, <2>5, OffTrims
    <3> QED
      BY <2>4, <3>1
  <2>7. Trims(s, cut_direct(s, n), f)
    BY <2>2, <2>6, TrimsTransitive
  <2>8. Trims(cut_direct(s, n), FreeNodes(cut_direct(s, n), {n}), f)
    BY <2>7, FreeNodesTrims DEF Trims
  <2>9. Trims(s, FreeNodes(cut_direct(s, n), {n}), f)
    BY <2>7, <2>8, TrimsTransitive
  <2> QED
    BY <1>3, <2>7, <2>9 DEF DirectRound, Round
<1> QED
  BY <1>1, <1>2, <1>3

\* A child of the indirect node is not its sibling, nor the node itself.
LEMMA ChildrenDiffer ==
  ASSUME NEW c, NEW d, Child(c) = Child(d)
  PROVE  c = d
  BY SMT DEF Child

\* The indirect node is shorter than its children.
LEMMA IndirectIsNoChild ==
  ASSUME NEW c
  PROVE  Child(c) # Indirect
  BY SMT DEF Child, Indirect

\* Clearing the children behind entry i.
LEMMA ClearChildrenTrims ==
  ASSUME NEW s, Rooted(s), NEW i \in Nat, NEW f \in Int, f <= I + 2 * A + (i + 1) * A
  PROVE  Trims(s, ClearChildren(s, i), f)
<1> DEFINE C == {Child(c) : c \in i + 1 .. DEF_NIDS_PER_BLOCK - 1} \cap s.child
           P == UNION {SlotsFrom(n, 0) : n \in C}
<1>1. C \subseteq Leaves
  BY IndirectIsNoChild DEF Rooted, Good, Tree, Nodes
<1>2. P \subseteq Slots
  BY <1>1, SlotsOfNode
<1>3. ASSUME NEW p \in P, s.slot[p] # 0
      PROVE  blockOf[s.slot[p]] >= f
  <2>1. PICK c \in i + 1 .. DEF_NIDS_PER_BLOCK - 1 : p \in SlotsFrom(Child(c), 0)
    OBVIOUS
  <2>2. PICK k \in 0 .. A - 1 : p = Append(Child(c), k)
    BY <2>1 DEF SlotsFrom, A
  <2>3. c \in Int /\ k \in Int /\ k >= 0 /\ c >= i + 1
    BY SMT
  <2>4. p = <<I + 2, c, k>>
    BY <2>2, <2>3, ChildWay
  <2>5. p \in Slots
    BY <1>2
  <2>6. blockOf[s.slot[p]] = I + 2 * A + c * A + k
    BY <1>3, <2>3, <2>4, <2>5, OwnerOfSlot, BlockOfPath DEF Rooted
  <2>7. c * A = (i + 1) * A + (c - (i + 1)) * A /\ (c - (i + 1)) * A >= 0
    BY <2>3, Sizes, SMT
  <2>8. (i + 1) * A \in Int /\ c * A \in Int
    BY <2>3, Sizes, SMT
  <2> QED
    BY <2>3, <2>6, <2>7, <2>8, Sizes, SMT
<1>4. Trims(s, ClearSlots(s, P), f)
  BY <1>2, <1>3, ClearSlotsTrims
<1> HIDE DEF P, C
<1>5. Trims(ClearSlots(s, P), FreeNodes(ClearSlots(s, P), C), f)
  BY <1>4, FreeNodesTrims DEF Trims
<1> QED
  BY <1>4, <1>5, TrimsTransitive DEF ClearChildren, P, C

\* Clearing the children behind entry i leaves the child of entry i in its place.
LEMMA ChildStays ==
  ASSUME NEW s, Rooted(s), NEW i \in Nat, Child(i) \in s.child
  PROVE  Child(i) \in ClearChildren(s, i).child
<1> DEFINE C == {Child(c) : c \in i + 1 .. DEF_NIDS_PER_BLOCK - 1} \cap s.child
           P == UNION {SlotsFrom(n, 0) : n \in C}
           t == ClearSlots(s, P)
<1>1. C \subseteq Leaves
  BY IndirectIsNoChild DEF Rooted, Good, Tree, Nodes
<1>2. P \subseteq Slots
  BY <1>1, SlotsOfNode
<1>3. t \in Tree /\ t.child = s.child
  BY <1>2, ClearSlotsGood, ClearSlotsFields DEF Rooted, Good
<1>4. Child(i) \notin C
  <2> SUFFICES ASSUME NEW c \in i + 1 .. DEF_NIDS_PER_BLOCK - 1, Child(i) = Child(c)
               PROVE  FALSE
    OBVIOUS
  <2> QED
    BY ChildrenDiffer, PathAssumption, SMT
<1>5. NodesTo(Child(i)) = {Indirect} /\ Indirect \notin C
  BY ChildWay, IndirectIsNoChild
<1>6. Child(i) \notin Below(C)
  BY <1>4, <1>5 DEF Below
<1>7. ClearChildren(s, i) = FreeNodes(t, C)
  BY DEF ClearChildren
<1> HIDE DEF t, C, P
<1>8. FreeNodes(t, C).child = t.child \ Below(C)
  BY <1>3, FreeNodesFields
<1> QED
  BY <1>3, <1>6, <1>7, <1>8

\* Truncation may lose the nid of a node without forgetting the node.
LEMMA DanglingTrims ==
  ASSUME NEW s, Rooted(s), NEW D \in SUBSET s.child, NEW f
  PROVE  Trims(s, [s EXCEPT !.dangling = @ \cup D], f)
<1> DEFINE da == s.dangling \cup D
           t == [s EXCEPT !.dangling = da]
<1>1. s \in Tree /\ s.child \subseteq Nodes /\ s.dangling \subseteq Nodes
  BY DEF Rooted, Good, Tree
<1>2. da \subseteq Nodes /\ da \subseteq s.child
  BY <1>1 DEF Rooted, Hangs
<1> HIDE DEF da
<1>3. /\ t \in Tree /\ t.slot = s.slot /\ t.child = s.child /\ t.valid = s.valid /\ t.dangling = da
  BY <1>1, <1>2 DEF Tree
<1> HIDE DEF t
<1>4. Trims(s, t, f)
  BY <1>2, <1>3 DEF Trims, Rooted, Good, Owned, Hangs
<1> QED
  BY <1>4 DEF t, da

\* The round for the indirect node: taken away as a whole when the end lies
\* before its second child, and otherwise cleared behind the child of the end.
LEMMA IndirectRoundTrims ==
  ASSUME NEW s, Rooted(s), NEW all, NEW f \in Int,
         \/ all /\ f <= I + 2 * A
         \/ ~all /\ PathLen(s.off) = 3 /\ s.off[1] \in Nat
                 /\ f <= I + 2 * A + (s.off[1] + 1) * A
  PROVE  Trims(s, IndirectRound(s, all), f)
<1>1. CASE Indirect \notin s.child
  BY <1>1, TrimsReflexive DEF IndirectRound, Round
<1>2. CASE Indirect \in s.child /\ all
  <2>1. f <= I + 2 * A + (0 + 1) * A
    BY <1>2, Sizes, SMT
  <2>2. 0 \in Nat
    BY SMT
  <2>3. Trims(s, clear_indirect(s), f)
    BY <2>1, <2>2, ClearChildrenTrims DEF clear_indirect
  <2>4. Trims(clear_indirect(s), FreeNodes(clear_indirect(s), {Indirect}), f)
    BY <2>3, FreeNodesTrims DEF Trims
  <2> QED
    BY <1>2, <2>3, <2>4, TrimsTransitive DEF IndirectRound, Round
<1>3. CASE Indirect \in s.child /\ ~all
  <2> DEFINE i == s.off[1]
             t == ClearChildren(s, i)
             D == {Child(i)} \cap s.child
             u == [t EXCEPT !.dangling = @ \cup D]
             v == [u EXCEPT !.off[1] = i - 1]
  <2>1. i \in Nat /\ f <= I + 2 * A + (i + 1) * A
    BY <1>3
  <2>2. PathLen(s.off) - 1 = 2 /\ PathLen(s.off) - 1 - 1 = 1
    BY <1>3, SMT
  <2>3. cut_indirect(s) = IF s.off[2] = 0 THEN v ELSE t
    BY <2>2 DEF cut_indirect
  <2>4. Trims(s, t, f) /\ Rooted(t)
    <3> HIDE DEF i
    <3> QED
      BY <2>1, ClearChildrenTrims DEF Trims
  <2>5. D \subseteq t.child
    <3> HIDE DEF i
    <3> QED
      BY <2>1, ChildStays
  <2>6. Trims(t, u, f) /\ Rooted(u)
    <3> HIDE DEF t, D
    <3> QED
      BY <2>4, <2>5, DanglingTrims DEF Trims
  <2>7. Trims(u, v, f)
    <3>1. i - 1 \in Int
      BY <2>1, SMT
    <3> HIDE DEF u, i
    <3> QED
      BY <2>6, <3>1, OffTrims
  <2> HIDE DEF t, u, v
  <2>8. Trims(s, cut_indirect(s), f)
    BY <2>3, <2>4, <2>6, <2>7, TrimsTransitive
  <2>9. Trims(cut_indirect(s), FreeNodes(cut_indirect(s), {Indirect}), f)
    BY <2>8, FreeNodesTrims DEF Trims
  <2>10. Trims(s, FreeNodes(cut_indirect(s), {Indirect}), f)
    BY <2>8, <2>9, TrimsTransitive
  <2> QED
    BY <1>3, <2>8, <2>10 DEF IndirectRound, Round
<1> QED
  BY <1>1, <1>2, <1>3

\* The round for the inode's own addresses.
LEMMA InodeRoundTrims ==
  ASSUME NEW s, Rooted(s), NEW f \in Int
  PROVE  Trims(s, InodeRound(s, f), f)
<1>1. ASSUME NEW k \in {x \in 0 .. DEF_ADDRS_PER_INODE - 1 : x >= f} PROVE <<k>> \in Slots
  <2>1. k \in {x \in 0 .. DEF_ADDRS_PER_INODE - 1 : x >= 0}
    BY SMT
  <2> QED
    BY <2>1 DEF Slots, InodeSlotsFrom
<1>2. InodeSlotsFrom(f) \subseteq Slots
  BY <1>1 DEF InodeSlotsFrom
<1>3. ASSUME NEW p \in InodeSlotsFrom(f), s.slot[p] # 0 PROVE blockOf[s.slot[p]] >= f
  <2>1. PICK k : k >= f /\ p = <<k>>
    BY DEF InodeSlotsFrom
  <2>2. blockOf[s.slot[p]] = k
    BY <1>2, <1>3, <2>1, OwnerOfSlot, BlockOfPath DEF Rooted
  <2> QED
    BY <2>1, <2>2
<1> QED
  BY <1>2, <1>3, ClearSlotsTrims DEF InodeRound

\* The whole walk, from the offsets of the first block behind the end: what it
\* takes is behind the end.
LEMMA TruncateTrims ==
  ASSUME NEW s, Rooted(s), NEW f \in 0 .. MaxFile, s.off = Offsets(Path[f])
  PROVE  Trims(s, truncate_blocks(s), f)
<1> DEFINE first == s.off[0] - DEF_ADDRS_PER_INODE
<1>1. f \in Int
  BY SMT
<1>2. ASSUME NEW t, Trims(s, t, f), NEW i \in {0, 1}, f <= I + i * A, NEW all
      PROVE  Trims(s, DirectRound(t, i, all), f)
  BY <1>1, <1>2, DirectRoundTrims, TrimsTransitive DEF Trims
<1>3. ASSUME NEW t, Trims(s, t, f), f <= I + 2 * A
      PROVE  Trims(s, IndirectRound(t, TRUE), f)
  <2>1. Rooted(t)
    BY <1>3 DEF Trims
  <2>2. Trims(t, IndirectRound(t, TRUE), f)
    BY <1>1, <1>3, <2>1, IndirectRoundTrims, Zenon
  <2> QED
    BY <1>3, <2>2, TrimsTransitive
<1>4. CASE f < I /\ Path[f] = <<f>>
  <2>1. s.off[0] = f /\ first < 0
    <3>1. Offsets(<<f>>)[0] = f
      BY SMT DEF Offsets
    <3> QED
      BY <1>1, <1>4, <3>1, Sizes, SMT DEF I
  <2>2. f <= I + 0 * A /\ f <= I + 1 * A /\ f <= I + 2 * A
    BY <1>1, <1>4, Sizes, SMT
  <2>3. Trims(s, InodeRound(s, s.off[0]), f)
    BY <1>1, <2>1, InodeRoundTrims
  <2> QED
    BY <1>2, <1>3, <2>1, <2>2, <2>3 DEF truncate_blocks
<1>5. ASSUME NEW i \in {0, 1}, NEW x \in 0 .. A - 1, Path[f] = <<I + i, x>>
      PROVE  Trims(s, truncate_blocks(s), f)
  <2>1. i \in Int /\ I + i \in Nat /\ x \in Nat /\ x \in Int
    BY Sizes, SMT
  <2>2. s.off[0] = I + i /\ s.off[1] = x /\ PathLen(s.off) = 2
    BY <1>5, <2>1, OffsetsOfTwo
  <2>3. f = I + i * A + x
    BY <1>5, <2>1, BlockOfPath
  <2>4. s.off[PathLen(s.off) - 1] = x /\ first = i
    BY <2>1, <2>2, Sizes, SMT DEF I
  <2>5. f = I + i * A + s.off[PathLen(s.off) - 1] /\ s.off[PathLen(s.off) - 1] \in Int
    BY <2>1, <2>3, <2>4
  <2>6. Trims(s, DirectRound(s, i, FALSE), f)
    BY <1>1, <2>5, DirectRoundTrims
  <2>7. f <= I + 2 * A /\ (i = 0 => f <= I + 1 * A)
    BY <2>1, <2>3, Sizes, SMT
  <2>8. CASE i = 0
    <3>1. Trims(s, DirectRound(DirectRound(s, 0, FALSE), 1, FALSE), f)
      BY <1>2, <2>6, <2>7, <2>8
    <3>2. ~(first < 0) /\ first = 0
      BY <2>4, <2>8, SMT
    <3> HIDE DEF first
    <3>3. truncate_blocks(s) = IndirectRound(DirectRound(DirectRound(s, 0, FALSE), 1, FALSE), TRUE)
      BY <3>2 DEF truncate_blocks, first
    <3> QED
      BY <1>3, <2>7, <3>1, <3>3
  <2>9. CASE i = 1
    <3>1. ~(first < 0) /\ first # 0 /\ first = 1
      BY <2>4, <2>9, SMT
    <3>2. truncate_blocks(s) = IndirectRound(DirectRound(s, 1, FALSE), TRUE)
      BY <3>1 DEF truncate_blocks
    <3> QED
      BY <1>3, <2>6, <2>7, <2>9, <3>2
  <2> QED
    BY <2>8, <2>9
<1>6. ASSUME NEW i \in Nat, NEW c \in 0 .. A - 1, NEW x \in 0 .. A - 1, Path[f] = <<I + 2 + i, c, x>>
      PROVE  Trims(s, truncate_blocks(s), f)
  <2>1. I + 2 + i \in Nat /\ c \in Nat /\ x \in Nat /\ c \in Int /\ x \in Int
    BY Sizes, SMT
  <2>2. s.off[0] = I + 2 + i /\ s.off[1] = c /\ PathLen(s.off) = 3
    BY <1>6, <2>1, OffsetsOfThree
  <2>3. first = 2 + i
    BY <2>2, Sizes, SMT DEF I
  <2>4. CASE i = 0
    <3>1. I + 2 + i = I + 2
      BY <2>4, Sizes, SMT
    <3>2. f = I + 2 * A + c * A + x
      BY <1>6, <2>1, <3>1, BlockOfPath
    <3>3. f <= I + 2 * A + (c + 1) * A
      <4>1. (c + 1) * A = c * A + A /\ c * A \in Int /\ x < A
        BY <2>1, Sizes, SMT
      <4> QED
        BY <2>1, <3>2, <4>1, Sizes, SMT
    <3>4. Trims(s, IndirectRound(s, FALSE), f)
      BY <1>1, <2>1, <2>2, <3>3, IndirectRoundTrims
    <3>5. ~(first < 0) /\ first # 0 /\ first # 1 /\ first = 2
      BY <2>3, <2>4, SMT
    <3>6. truncate_blocks(s) = IndirectRound(s, FALSE)
      BY <3>5 DEF truncate_blocks
    <3> QED
      BY <3>4, <3>6
  <2>5. CASE i # 0
    <3>1. ~(first < 0) /\ first # 0 /\ first # 1 /\ first # 2
      BY <2>3, <2>5, SMT
    <3>2. truncate_blocks(s) = s
      BY <3>1 DEF truncate_blocks
    <3> QED
      BY <3>2, TrimsReflexive
  <2> QED
    BY <2>4, <2>5
<1> QED
  BY <1>4, <1>5, <1>6, PathShape

-----------------------------------------------------------------------------
(* Types, and the blocks before the end. *)

\* The last write to a block before the end was for that block, and is valid.
Kept ==
  \A b \in Blocks : content[b] # 0 => /\ content[b] \in 1 .. nwrites
                                      /\ blockOf[content[b]] = b /\ content[b] \in valid

TInv ==
  /\ IInv /\ Hangs(slot, child, dangling)
  /\ content \in [Blocks -> Address \cup {0}] /\ dirty \subseteq Blocks /\ isize \in 0 .. 2 * MaxFile
  /\ Kept

\* An empty file.
LEMMA InitTInv == Init => TInv
<1>1. 0 \in 0 .. 2 * MaxFile
  BY FileAssumption, Sizes, SMT DEF A, I
<1> QED
  BY <1>1, InitIInv DEF Init, TInv, Hangs, Kept

\* Nodes are added together with those on the way to them.
LEMMA WriteTInv ==
  ASSUME TInv, NEW b \in Blocks, NEW size \in {2 * b + 1, 2 * b + 2}, Write(b, size)
  PROVE  TInv'
<1>1. IInv'
  BY WriteIInv DEF TInv
<1>2. Path[b] \in Slots
  BY PathInSlots
<1>3. Hangs(slot', child', dangling')
  <2>1. \A m \in NodesTo(Path[b]) : NodesTo(m) \subseteq NodesTo(Path[b])
    BY <1>2, WayIsClosed
  <2> QED
    BY <2>1 DEF Write, TInv, Hangs
<1>4. isize' \in 0 .. 2 * MaxFile
  <2>1. size \in 0 .. 2 * MaxFile
    BY FileAssumption, Sizes, SMT DEF Blocks, A, I
  <2> QED
    BY <2>1 DEF Write, TInv, Higher
<1> QED
  BY <1>1, <1>3, <1>4 DEF Write, TInv, Kept

\* A write takes the valid bit of the block's own old address only.
LEMMA WritePageTInv ==
  ASSUME TInv, NEW b \in Blocks, WritePage(b)
  PROVE  TInv'
<1> DEFINE a == nwrites + 1
           p == Path[b]
<1>1. IInv'
  BY WritePageIInv DEF TInv
<1>2. /\ nwrites \in Nat /\ a \in Address /\ a # 0 /\ a \in 1 .. a
      /\ \A x \in 1 .. nwrites : x # a /\ x \in 1 .. a
  BY FileAssumption, SMT DEF WritePage, TInv, IInv, Address
<1>3. p \in Slots
  BY PathInSlots
<1>4. /\ slot' = [slot EXCEPT ![p] = a] /\ valid' = (valid \ {slot[p]}) \cup {a}
      /\ blockOf' = [blockOf EXCEPT ![a] = b] /\ content' = [content EXCEPT ![b] = a]
      /\ nwrites' = a /\ child' = child /\ dangling' = dangling /\ isize' = isize
      /\ dirty' = dirty \ {b} /\ NodesTo(p) \subseteq child
  BY DEF WritePage, Mapped
<1>5. slot[p] # 0 => blockOf[slot[p]] = b
  <2> SUFFICES ASSUME slot[p] # 0 PROVE blockOf[slot[p]] = b
    OBVIOUS
  <2>1. blockOf[slot[p]] \in Blocks /\ Path[blockOf[slot[p]]] = Path[b]
    BY <1>3 DEF TInv, IInv, Owned
  <2> QED
    BY <2>1, PathInjective
<1> HIDE DEF a, p
<1>6. Hangs(slot', child', dangling')
  <2>1. ASSUME NEW q \in Slots, slot'[q] # 0 PROVE NodesTo(q) \subseteq child
    BY <1>4, <2>1 DEF TInv, IInv, Hangs
  <2> QED
    BY <1>4, <2>1 DEF TInv, Hangs
<1>7. content' \in [Blocks -> Address \cup {0}]
  BY <1>2, <1>4 DEF TInv
<1>8. ASSUME NEW c \in Blocks, content'[c] # 0
      PROVE  /\ content'[c] \in 1 .. nwrites' /\ blockOf'[content'[c]] = c /\ content'[c] \in valid'
  <2>1. CASE c = b
    BY <1>2, <1>4, <2>1 DEF TInv, IInv
  <2>2. CASE c # b
    <3>1. content'[c] = content[c]
      BY <1>4, <2>2 DEF TInv
    <3>2. content[c] \in 1 .. nwrites /\ blockOf[content[c]] = c /\ content[c] \in valid
      BY <1>8, <3>1 DEF TInv, Kept
    <3>3. content[c] # a /\ content[c] \in 1 .. a
      BY <1>2, <3>2
    <3>4. content[c] # slot[p]
      BY <1>5, <1>8, <2>2, <3>1, <3>2
    <3>5. blockOf'[content[c]] = blockOf[content[c]]
      BY <1>4, <3>3 DEF TInv, IInv
    <3> QED
      BY <1>4, <3>1, <3>2, <3>3, <3>4, <3>5
  <2> QED
    BY <2>1, <2>2
<1>9. dirty' \subseteq Blocks
  BY <1>4 DEF TInv
<1> QED
  BY <1>1, <1>4, <1>6, <1>7, <1>8, <1>9 DEF TInv, Kept

\* What truncation does to the file, as one round of the walk.
LEMMA TruncateStep ==
  ASSUME IInv, Hangs(slot, child, dangling), NEW size \in 0 .. 2 * MaxFile, Truncate(size)
  PROVE  \E r, s : /\ r.slot = slot /\ r.child = child /\ r.valid = valid /\ Rooted(r)
                   /\ r.off = Offsets(Path[FreeFrom(size)]) /\ s = truncate_blocks(r)
                   /\ Trims(r, s, FreeFrom(size))
                   /\ slot' = s.slot /\ child' = s.child /\ dangling' = s.dangling /\ valid' = s.valid
<1> DEFINE off == Offsets(Path[FreeFrom(size)])
           r == [slot |-> slot, child |-> child, dangling |-> dangling, valid |-> valid, off |-> off]
           s == truncate_blocks(r)
<1>1. FreeFrom(size) \in 0 .. MaxFile
  BY FileAssumption, SMT DEF FreeFrom
<1>2. off \in [0 .. 3 -> Int]
  BY <1>1, OffsetsTyped
<1>3. Rooted(r) /\ r.slot = slot /\ r.child = child /\ r.valid = valid /\ r.off = off
  <2> HIDE DEF off
  <2>1. /\ r \in Tree /\ r.slot = slot /\ r.child = child /\ r.dangling = dangling
        /\ r.valid = valid /\ r.off = off
    BY <1>2 DEF Tree, IInv
  <2> HIDE DEF r
  <2> QED
    BY <2>1 DEF Rooted, Good, IInv
<1>4. slot' = s.slot /\ child' = s.child /\ dangling' = s.dangling /\ valid' = s.valid
  BY DEF Truncate
<1> HIDE DEF r
<1>5. Trims(r, s, FreeFrom(size))
  BY <1>1, <1>3, TruncateTrims
<1> HIDE DEF s
<1> QED
  BY <1>3, <1>4, <1>5 DEF s

\* The partial block lies before the end, and the size stays one of the file.
LEMMA PartialBlockTyped ==
  ASSUME NEW size \in 0 .. 2 * MaxFile, dirty \subseteq Blocks, PartialBlock(size \div 2, size)
  PROVE  dirty' \subseteq Blocks /\ isize' \in 0 .. 2 * MaxFile
<1>1. CASE size % 2 = 1
  <2>1. size \div 2 \in Blocks /\ 2 * (size \div 2 + 1) \in 0 .. 2 * MaxFile
    BY <1>1, FileAssumption, Sizes, SMT DEF Blocks, A, I
  <2>2. size % 2 # 0 \/ isize' = size
    BY DEF PartialBlock
  <2> DEFINE b == size \div 2
  <2> HIDE DEF b
  <2>3. dirty' \subseteq dirty \cup {b} /\ (isize' = 2 * (b + 1) \/ isize' = size)
    BY DEF PartialBlock, b
  <2> QED
    BY <2>1, <2>3 DEF b
<1>2. CASE size % 2 # 1
  BY <1>2 DEF PartialBlock
<1> QED
  BY <1>1, <1>2

\* Truncation spares the valid bits of the blocks before the end.
LEMMA TruncateTInv ==
  ASSUME TInv, NEW size \in 0 .. 2 * MaxFile, Truncate(size)
  PROVE  TInv'
<1> DEFINE f == FreeFrom(size)
<1>1. IInv'
  BY TruncateIInv DEF TInv
<1>2. PICK r, s : /\ r.valid = valid /\ Trims(r, s, f)
                  /\ slot' = s.slot /\ child' = s.child /\ dangling' = s.dangling /\ valid' = s.valid
  BY TruncateStep DEF TInv
<1>3. /\ content' = [b \in Blocks |-> IF b >= f THEN 0 ELSE content[b]]
      /\ nwrites' = nwrites /\ blockOf' = blockOf /\ PartialBlock(size \div 2, size)
  BY DEF Truncate
<1>4. Hangs(slot', child', dangling')
  BY <1>2 DEF Trims, Rooted
<1>5. dirty' \subseteq Blocks /\ isize' \in 0 .. 2 * MaxFile
  BY <1>3, PartialBlockTyped DEF TInv
<1> HIDE DEF f
<1>6. content' \in [Blocks -> Address \cup {0}]
  BY <1>3 DEF TInv
<1>7. ASSUME NEW b \in Blocks, content'[b] # 0
      PROVE  content'[b] \in 1 .. nwrites /\ blockOf[content'[b]] = b /\ content'[b] \in valid'
  <2>1. content'[b] = content[b] /\ ~(b >= f)
    BY <1>3, <1>7
  <2>2. content[b] \in 1 .. nwrites /\ blockOf[content[b]] = b /\ content[b] \in valid
    BY <1>7, <2>1 DEF TInv, Kept
  <2> QED
    BY <1>2, <2>1, <2>2 DEF Trims
<1> QED
  BY <1>1, <1>3, <1>4, <1>5, <1>6, <1>7 DEF TInv, Kept

\* The stronger invariant holds in every reachable state.
LEMMA TInvAlways == Spec => []TInv
<1>1. Init => TInv
  BY InitTInv
<1>2. ASSUME TInv, [Next]_vars PROVE TInv'
  <2>1. CASE Next
    BY <1>2, <2>1, WritePageTInv, WriteTInv, TruncateTInv DEF Next
  <2>2. CASE UNCHANGED vars
    BY <1>2, <2>2 DEF vars, TInv, Kept, Hangs, IInv, Owned
  <2> QED
    BY <1>2, <2>1, <2>2
<1> QED
  BY <1>1, <1>2, PTL DEF Spec

\* meta.c and file.c keep a tree, for every geometry of the nodes: no node and
\* no address hangs on a node that the file does not have.
THEOREM TreeTyped == Spec => []TypeOK
<1>1. TInv => TypeOK
  BY DEF TInv, IInv, Hangs, TypeOK
<1> QED
  BY <1>1, TInvAlways, PTL

\* file.c xcpfs_truncate_blocks, for every geometry and from every offset: the
\* walk clears no valid bit of a block before the new end.
THEOREM KeptAlwaysValid == Spec => []KeptBlocksValid
<1>1. TInv => KeptBlocksValid
  BY DEF TInv, Kept, KeptBlocksValid
<1> QED
  BY <1>1, TInvAlways, PTL

-----------------------------------------------------------------------------
(* What was cut off the inode or the first direct node is gone. *)

\* The slots of the first blocks.
LEMMA FirstBlocks ==
  ASSUME NEW b \in 0 .. MaxFile, b < I + A
  PROVE  \/ b < I /\ Path[b] = <<b>>
         \/ \E k \in 0 .. A - 1 : b = I + k /\ Path[b] = Append(Direct(0), k) /\ Path[b] = <<I + 0, k>>
<1>1. b < I + 2 * A /\ b \in Int
  BY Sizes, SMT
<1>2. CASE b < I /\ Path[b] = <<b>>
  BY <1>2
<1>3. ASSUME NEW i \in {0, 1}, NEW k \in 0 .. A - 1, Path[b] = <<I + i, k>>
      PROVE  i = 0 /\ b = I + k /\ Path[b] = Append(Direct(0), k) /\ Path[b] = <<I + 0, k>>
  <2>1. i \in Int /\ k \in Int
    BY SMT
  <2>2. b = I + i * A + k
    BY <1>3, <2>1, BlockOfPath
  <2>3. i = 0 /\ b = I + k
    BY <2>2, Sizes, SMT
  <2> QED
    BY <1>3, <2>1, <2>3, DirectWay
<1> QED
  BY <1>1, <1>2, <1>3, PathShape, Sizes, SMT

\* The round for a direct node empties its slots from the offset of the end on.
LEMMA DirectRoundClears ==
  ASSUME NEW s, Rooted(s), NEW i \in {0, 1}, NEW all \in BOOLEAN, NEW k \in 0 .. A - 1,
         ~all => PathLen(s.off) = 2 /\ s.off[1] \in Int /\ k >= s.off[1]
  PROVE  DirectRound(s, i, all).slot[Append(Direct(i), k)] = 0
<1> DEFINE n == Direct(i)
           p == Append(n, k)
<1>1. k \in Int /\ k \in {x \in 0 .. DEF_ADDRS_PER_BLOCK - 1 : x >= 0} /\ n \in Leaves
  BY SMT DEF A, Leaves
<1>2. p \in Slots /\ NodesTo(p) = {n} /\ s \in Tree
  BY <1>1, DirectWay DEF Slots, SlotsFrom, Rooted, Good
<1> HIDE DEF p
<1>3. CASE n \notin s.child
  <2>1. s.slot[p] = 0
    BY <1>2, <1>3 DEF Rooted, Hangs
  <2> QED
    BY <1>3, <2>1 DEF DirectRound, Round, p
<1>4. CASE n \in s.child /\ all
  <2>1. clear_direct(s, n) \in Tree
    BY <1>1, DirectGood DEF Rooted, Good
  <2>2. FreeNodes(clear_direct(s, n), {n}).slot[p] = 0
    <3> DEFINE c == clear_direct(s, n)
    <3> HIDE DEF c
    <3>1. FreeNodes(c, {n}).slot = [q \in Slots |-> IF NodesTo(q) \cap {n} # {} THEN 0 ELSE c.slot[q]]
      <4>1. c \in Tree
        BY <2>1 DEF c
      <4> QED
        BY <4>1, FreeNodesFields
    <3>2. NodesTo(p) \cap {n} # {}
      BY <1>2
    <3>3. FreeNodes(c, {n}).slot[p] = 0
      BY <1>2, <3>1, <3>2
    <3> QED
      BY <3>3 DEF c
  <2> QED
    BY <1>4, <2>2 DEF DirectRound, Round, p
<1>5. CASE n \in s.child /\ ~all
  <2> DEFINE t == ClearSlots(s, SlotsFrom(n, s.off[1]))
             x == t.off[1] - 1
             u == [t EXCEPT !.off[1] = x]
  <2>1. PathLen(s.off) = 2 /\ PathLen(s.off) - 1 = 1 /\ s.off[1] \in Int /\ k >= s.off[1]
    BY <1>5, SMT
  <2>2. cut_direct(s, n) = u
    BY <2>1 DEF cut_direct
  <2>3. p \in SlotsFrom(n, s.off[1])
    BY <1>1, <2>1 DEF SlotsFrom, p
  <2>4. t.slot[p] = 0 /\ t.off = s.off
    <3> DEFINE P == SlotsFrom(n, s.off[1])
    <3> HIDE DEF P
    <3>1. /\ ClearSlots(s, P).slot = [q \in Slots |-> IF q \in P THEN 0 ELSE s.slot[q]]
          /\ ClearSlots(s, P).off = s.off
      BY <1>2, ClearSlotsFields
    <3>2. ClearSlots(s, P).slot[p] = 0
      BY <1>2, <2>3, <3>1 DEF P
    <3> QED
      BY <3>1, <3>2 DEF P
  <2>5. Trims(s, t, 0)
    <3>1. \A y \in 0 .. A - 1 : y >= s.off[1] => I + i * A + y >= 0
      BY Sizes, SMT
    <3> QED
      BY <3>1, DirectSlotsTrim
  <2>6. x \in Int
    BY <2>1, <2>4
  <2> HIDE DEF t, x
  <2>7. Trims(t, u, 0)
    BY <2>5, <2>6, OffTrims DEF Trims
  <2> HIDE DEF u
  <2>8. Trims(u, FreeNodes(u, {n}), 0)
    BY <2>7, FreeNodesTrims DEF Trims
  <2>9. u.slot[p] = 0
    BY <1>2, <2>4, <2>7 DEF Trims
  <2>10. FreeNodes(u, {n}).slot[p] = 0
    BY <1>2, <2>8, <2>9 DEF Trims
  <2> QED
    BY <1>5, <2>2, <2>9, <2>10 DEF DirectRound, Round, p
<1> QED
  BY <1>3, <1>4, <1>5

\* After truncation no slot of the inode or of the first direct node behind the
\* end holds an address.
LEMMA TruncateClears ==
  ASSUME NEW s, Rooted(s), NEW f \in 0 .. MaxFile, s.off = Offsets(Path[f]),
         NEW b \in Blocks, f <= b, b < I + A
  PROVE  truncate_blocks(s).slot[Path[b]] = 0
<1> DEFINE first == s.off[0] - DEF_ADDRS_PER_INODE
           p == Path[b]
<1>1. f \in Int /\ b \in Int /\ b \in 0 .. MaxFile /\ f < I + A /\ f <= I + 2 * A
  BY FileAssumption, Sizes, SMT DEF Blocks, A, I
<1>2. p \in Slots
  BY PathInSlots
<1>3. ASSUME NEW t, Rooted(t), NEW i \in {0, 1}, f <= I + i * A, NEW all
      PROVE  Trims(t, DirectRound(t, i, all), f)
  BY <1>1, <1>3, DirectRoundTrims
<1>4. ASSUME NEW t, Rooted(t)
      PROVE  Trims(t, IndirectRound(t, TRUE), f)
  BY <1>1, <1>4, IndirectRoundTrims, Zenon
<1>5. CASE f < I /\ Path[f] = <<f>>
  <2> DEFINE t0 == InodeRound(s, f)
             t1 == DirectRound(t0, 0, TRUE)
             t2 == DirectRound(t1, 1, TRUE)
             t3 == IndirectRound(t2, TRUE)
  <2>1. s.off[0] = f /\ first < 0
    <3>1. Offsets(<<f>>)[0] = f
      BY SMT DEF Offsets
    <3> QED
      BY <1>1, <1>5, <3>1, Sizes, SMT DEF I
  <2>2. f <= I + 0 * A /\ f <= I + 1 * A
    BY <1>1, <1>5, Sizes, SMT
  <2>3. truncate_blocks(s) = t3
    BY <2>1 DEF truncate_blocks
  <2>4. Trims(s, t0, f)
    BY <1>1, InodeRoundTrims
  <2>5. b < I => t0.slot[p] = 0
    <3> SUFFICES ASSUME b < I PROVE t0.slot[p] = 0
      OBVIOUS
    <3>1. p = <<b>>
      BY <1>1, FirstBlocks, Sizes, SMT
    <3>2. b \in {k \in 0 .. DEF_ADDRS_PER_INODE - 1 : k >= f}
      BY <1>1, Sizes, SMT DEF I
    <3>3. p \in InodeSlotsFrom(f) /\ s \in Tree
      BY <3>1, <3>2 DEF InodeSlotsFrom, Rooted, Good
    <3> HIDE DEF p
    <3>4. ClearSlots(s, InodeSlotsFrom(f)).slot
            = [q \in Slots |-> IF q \in InodeSlotsFrom(f) THEN 0 ELSE s.slot[q]]
      BY <3>3, ClearSlotsFields, Zenon
    <3> QED
      BY <1>2, <3>3, <3>4 DEF InodeRound
  <2>6. ~(b < I) => t1.slot[p] = 0
    <3> SUFFICES ASSUME ~(b < I) PROVE t1.slot[p] = 0
      OBVIOUS
    <3>1. PICK k \in 0 .. A - 1 : p = Append(Direct(0), k)
      BY <1>1, FirstBlocks
    <3>2. Rooted(t0)
      BY <2>4 DEF Trims
    <3> HIDE DEF t0, p
    <3>3. 0 \in {0, 1}
      OBVIOUS
    <3>4. ASSUME NEW all \in BOOLEAN, all PROVE DirectRound(t0, 0, all).slot[Append(Direct(0), k)] = 0
      BY <3>2, <3>3, <3>4, DirectRoundClears
    <3>5. DirectRound(t0, 0, TRUE).slot[Append(Direct(0), k)] = 0
      BY <3>4, Zenon
    <3> QED
      BY <3>1, <3>5
  <2> HIDE DEF t0, p
  <2>7. Trims(t0, t1, f)
    BY <1>3, <2>2, <2>4 DEF Trims
  <2> HIDE DEF t1
  <2>8. Trims(t1, t2, f)
    BY <1>3, <2>2, <2>7 DEF Trims
  <2> HIDE DEF t2
  <2>9. Trims(t2, t3, f)
    BY <1>4, <2>8 DEF Trims
  <2> HIDE DEF t3
  <2>10. t1.slot[p] = 0
    BY <1>2, <2>5, <2>6, <2>7 DEF Trims
  <2> QED
    BY <1>2, <2>3, <2>8, <2>9, <2>10 DEF Trims, p
<1>6. ASSUME NEW x \in 0 .. A - 1, f = I + x, Path[f] = <<I + 0, x>>
      PROVE  truncate_blocks(s).slot[p] = 0
  <2> DEFINE t1 == DirectRound(s, 0, FALSE)
             t2 == DirectRound(t1, 1, FALSE)
             t3 == IndirectRound(t2, TRUE)
  <2>1. I + 0 \in Nat /\ x \in Nat /\ x \in Int
    BY Sizes, SMT
  <2>2. s.off[0] = I + 0 /\ s.off[1] = x /\ PathLen(s.off) = 2
    BY <1>6, <2>1, OffsetsOfTwo
  <2>3. ~(first < 0) /\ first = 0
    BY <2>2, Sizes, SMT DEF I
  <2> HIDE DEF first
  <2>4. truncate_blocks(s) = t3
    BY <2>3 DEF truncate_blocks, first
  <2>5. PICK k \in 0 .. A - 1 : b = I + k /\ p = Append(Direct(0), k)
    <3>1. ~(b < I)
      BY <1>1, <1>6, Sizes, SMT
    <3> QED
      BY <1>1, <3>1, FirstBlocks
  <2>6. k >= x
    BY <1>1, <1>6, <2>1, <2>5, Sizes, SMT
  <2> HIDE DEF p
  <2>7. t1.slot[p] = 0
    BY <2>1, <2>2, <2>5, <2>6, DirectRoundClears
  <2>8. Trims(s, t1, f)
    <3>1. PathLen(s.off) - 1 = 1 /\ f = I + 0 * A + x
      BY <1>6, <2>1, <2>2, Sizes, SMT
    <3>2. f = I + 0 * A + s.off[PathLen(s.off) - 1] /\ s.off[PathLen(s.off) - 1] \in Int
      BY <2>1, <2>2, <3>1
    <3> QED
      BY <1>1, <3>2, DirectRoundTrims
  <2>9. f <= I + 1 * A
    BY <1>1, Sizes, SMT
  <2> HIDE DEF t1
  <2>10. Trims(t1, t2, f)
    BY <1>3, <2>8, <2>9 DEF Trims
  <2> HIDE DEF t2
  <2>11. Trims(t2, t3, f)
    BY <1>4, <2>10 DEF Trims
  <2> HIDE DEF t3
  <2> QED
    BY <1>2, <2>4, <2>7, <2>10, <2>11 DEF Trims
<1> QED
  BY <1>1, <1>5, <1>6, FirstBlocks

\* The slots of the first blocks hold the last write before the end, or nothing.
Fresh ==
  \A b \in Blocks : b < I + A /\ slot[Path[b]] # 0 => slot[Path[b]] = content[b]

\* A write changes the slot and the content of one block.
LEMMA WritePageFresh ==
  ASSUME TInv, Fresh, NEW b \in Blocks, WritePage(b)
  PROVE  Fresh'
<1> SUFFICES ASSUME NEW c \in Blocks, c < I + A, slot'[Path[c]] # 0
             PROVE  slot'[Path[c]] = content'[c]
  BY DEF Fresh
<1>1. Path[b] \in Slots /\ Path[c] \in Slots
  BY PathInSlots
<1>2. /\ slot' = [slot EXCEPT ![Path[b]] = nwrites + 1]
      /\ content' = [content EXCEPT ![b] = nwrites + 1]
  BY DEF WritePage
<1>3. CASE c = b
  BY <1>1, <1>2, <1>3 DEF TInv, IInv
<1>4. CASE c # b
  <2>1. Path[c] # Path[b]
    BY <1>4, PathInjective
  <2>2. slot'[Path[c]] = slot[Path[c]] /\ content'[c] = content[c]
    BY <1>1, <1>2, <1>4, <2>1 DEF TInv, IInv
  <2> QED
    BY <2>2 DEF Fresh
<1> QED
  BY <1>3, <1>4

\* Truncation forgets the content behind the end, and empties the slots.
LEMMA TruncateFresh ==
  ASSUME TInv, Fresh, NEW size \in 0 .. 2 * MaxFile, Truncate(size)
  PROVE  Fresh'
<1> DEFINE f == FreeFrom(size)
<1>1. f \in 0 .. MaxFile
  BY FileAssumption, SMT DEF FreeFrom
<1>2. PICK r, s : /\ r.slot = slot /\ Rooted(r) /\ r.off = Offsets(Path[f])
                  /\ s = truncate_blocks(r) /\ Trims(r, s, f) /\ slot' = s.slot
  BY TruncateStep DEF TInv
<1>3. content' = [b \in Blocks |-> IF b >= f THEN 0 ELSE content[b]]
  BY DEF Truncate
<1> HIDE DEF f
<1> SUFFICES ASSUME NEW b \in Blocks, b < I + A, slot'[Path[b]] # 0
             PROVE  slot'[Path[b]] = content'[b]
  BY DEF Fresh
<1>4. ~(b >= f)
  <2> SUFFICES ASSUME b >= f PROVE FALSE
    OBVIOUS
  <2>1. f <= b
    BY <1>1, SMT DEF Blocks
  <2> QED
    BY <1>1, <1>2, <2>1, TruncateClears
<1>5. slot'[Path[b]] = slot[Path[b]]
  BY <1>2, PathInSlots DEF Trims
<1> QED
  BY <1>3, <1>4, <1>5 DEF Fresh

\* file.c xcpfs_truncate_blocks, for every geometry: a block cut off the inode
\* or the first direct node does not come back when the file grows again.
THEOREM NothingEverComesBack == Spec => []NothingComesBack
<1>1. Init => Fresh
  BY PathInSlots DEF Init, Fresh
<1>2. ASSUME TInv, Fresh, [Next]_vars PROVE Fresh'
  <2>1. ASSUME NEW b \in Blocks, NEW size, Write(b, size) PROVE Fresh'
    BY <1>2, <2>1 DEF Write, Fresh
  <2>2. CASE UNCHANGED vars
    BY <1>2, <2>2 DEF vars, Fresh
  <2> QED
    BY <1>2, <2>1, <2>2, WritePageFresh, TruncateFresh DEF Next
<1>3. Fresh => NothingComesBack
  <2> SUFFICES ASSUME Fresh, NEW b \in Blocks,
                      b < DEF_ADDRS_PER_INODE + DEF_ADDRS_PER_BLOCK, Read(b) # 0
               PROVE  Read(b) = content[b]
    BY DEF NothingComesBack
  <2> QED
    BY DEF Fresh, Read, A, I
<1> QED
  BY <1>1, <1>2, <1>3, TInvAlways, PTL DEF Spec

-----------------------------------------------------------------------------
(* A file cut within the inode's addresses. *)

\* A direct node that goes as a whole takes the valid bits of its addresses
\* along, and touches nothing that does not hang on it.
LEMMA DirectRoundFrees ==
  ASSUME NEW s, Rooted(s), NEW i \in {0, 1}
  PROVE  /\ Direct(i) \notin DirectRound(s, i, TRUE).child
         /\ Direct(i) \in s.child =>
              \A p \in SlotsFrom(Direct(i), 0) : s.slot[p] \notin DirectRound(s, i, TRUE).valid
         /\ \A n \in s.child : n # Direct(i) /\ NodesTo(n) = {} => n \in DirectRound(s, i, TRUE).child
         /\ \A p \in Slots : Direct(i) \notin NodesTo(p) => DirectRound(s, i, TRUE).slot[p] = s.slot[p]
<1> DEFINE n == Direct(i)
           P == SlotsFrom(n, 0)
           c == ClearSlots(s, P)
           t == FreeNodes(c, {n})
<1>1. n \in Leaves /\ s \in Tree
  BY DEF Leaves, Rooted, Good
<1>2. CASE n \notin s.child
  BY <1>2 DEF DirectRound, Round
<1>3. CASE n \in s.child
  <2>1. DirectRound(s, i, TRUE) = t
    BY <1>3 DEF DirectRound, Round, clear_direct
  <2>2. P \subseteq Slots
    BY <1>1, SlotsOfNode
  <2>3. ASSUME NEW p \in P PROVE NodesTo(p) = {n}
    <3>1. PICK k \in Int : p = Append(n, k)
      BY DEF SlotsFrom
    <3> QED
      BY <3>1, DirectWay
  <2> HIDE DEF P, n
  <2>4. /\ c \in Tree /\ c.child = s.child /\ c.valid = s.valid \ {s.slot[p] : p \in P}
        /\ c.slot = [p \in Slots |-> IF p \in P THEN 0 ELSE s.slot[p]]
    BY <1>1, <2>2, ClearSlotsGood, ClearSlotsFields DEF Rooted, Good
  <2> HIDE DEF c
  <2>5. /\ t.child = c.child \ Below({n}) /\ t.valid = c.valid
        /\ t.slot = [p \in Slots |-> IF NodesTo(p) \cap {n} # {} THEN 0 ELSE c.slot[p]]
    BY <2>4, FreeNodesFields
  <2> HIDE DEF t
  <2>6. n \notin t.child
    <3>1. n \in Below({n})
      BY <1>1 DEF Below, Nodes
    <3> QED
      BY <2>5, <3>1
  <2>7. \A p \in P : s.slot[p] \notin t.valid
    BY <2>4, <2>5
  <2>8. \A m \in s.child : m # n /\ NodesTo(m) = {} => m \in t.child
    BY <2>4, <2>5 DEF Below
  <2>9. ASSUME NEW p \in Slots, n \notin NodesTo(p) PROVE t.slot[p] = s.slot[p]
    BY <2>3, <2>4, <2>5, <2>9
  <2> QED
    BY <2>1, <2>6, <2>7, <2>8, <2>9 DEF n, P
<1> QED
  BY <1>2, <1>3

\* The round for the indirect node that goes as a whole.
LEMMA IndirectRoundFrees ==
  ASSUME NEW s, Rooted(s)
  PROVE  Indirect \notin IndirectRound(s, TRUE).child
<1> DEFINE c == clear_indirect(s)
<1>1. CASE Indirect \notin s.child
  BY <1>1 DEF IndirectRound, Round
<1>2. CASE Indirect \in s.child
  <2>1. c \in Tree /\ IndirectRound(s, TRUE) = FreeNodes(c, {Indirect})
    BY <1>2, IndirectGood DEF IndirectRound, Round, Rooted, Good
  <2> HIDE DEF c
  <2>2. FreeNodes(c, {Indirect}).child = c.child \ Below({Indirect})
    BY <2>1, FreeNodesFields
  <2>3. Indirect \in Below({Indirect})
    BY DEF Below, Nodes
  <2> QED
    BY <2>1, <2>2, <2>3
<1> QED
  BY <1>1, <1>2

\* The two direct nodes are two.
LEMMA DirectsDiffer == Direct(0) # Direct(1)
<1>1. <<I + 0>>[1] # <<I + 1>>[1]
  BY Sizes, SMT
<1> QED
  BY <1>1 DEF Direct, I

\* The walk from within the inode's addresses leaves no node, and no valid bit
\* of a block behind the end that the inode or the direct nodes led to.
LEMMA TruncateFrees ==
  ASSUME NEW s, Rooted(s), NEW f \in 0 .. MaxFile, f < I, s.off = Offsets(Path[f])
  PROVE  /\ truncate_blocks(s).child = {} /\ truncate_blocks(s).valid \subseteq s.valid
         /\ \A b \in Blocks :
              /\ f <= b /\ b < I + 2 * A /\ NodesTo(Path[b]) \subseteq s.child
              => s.slot[Path[b]] \notin truncate_blocks(s).valid
<1> DEFINE first == s.off[0] - DEF_ADDRS_PER_INODE
           t0 == InodeRound(s, f)
           t1 == DirectRound(t0, 0, TRUE)
           t2 == DirectRound(t1, 1, TRUE)
           t3 == IndirectRound(t2, TRUE)
<1>1. f \in Int /\ 0 \in {0, 1} /\ 1 \in {0, 1}
      /\ f <= I + 0 * A /\ f <= I + 1 * A /\ f <= I + 2 * A
  BY Sizes, SMT
<1>2. truncate_blocks(s) = t3
  <2>1. Path[f] = <<f>>
    BY FileAssumption, Ranges, SMT DEF Path
  <2>2. Offsets(<<f>>)[0] = f
    BY SMT DEF Offsets
  <2>3. s.off[0] = f /\ first < 0
    BY <1>1, <2>1, <2>2, Sizes, SMT DEF I
  <2> QED
    BY <2>3 DEF truncate_blocks
<1>3. ASSUME NEW t, Rooted(t), NEW i \in {0, 1}, f <= I + i * A
      PROVE  Trims(t, DirectRound(t, i, TRUE), f)
  BY <1>1, <1>3, DirectRoundTrims, Zenon
<1>4. s \in Tree
  BY DEF Rooted, Good
<1>5. Trims(s, t0, f) /\ Rooted(t0)
  BY <1>1, InodeRoundTrims DEF Trims
<1>6. /\ t0.child = s.child /\ t0.valid = s.valid \ {s.slot[p] : p \in InodeSlotsFrom(f)}
      /\ t0.slot = [p \in Slots |-> IF p \in InodeSlotsFrom(f) THEN 0 ELSE s.slot[p]]
  BY <1>4, ClearSlotsFields DEF InodeRound
<1> HIDE DEF t0, first
<1>7. /\ Direct(0) \notin t1.child
      /\ Direct(0) \in t0.child => \A p \in SlotsFrom(Direct(0), 0) : t0.slot[p] \notin t1.valid
      /\ \A n \in t0.child : n # Direct(0) /\ NodesTo(n) = {} => n \in t1.child
      /\ \A p \in Slots : Direct(0) \notin NodesTo(p) => t1.slot[p] = t0.slot[p]
  BY <1>1, <1>5, DirectRoundFrees
<1>8. Trims(t0, t1, f) /\ Rooted(t1)
  BY <1>1, <1>3, <1>5 DEF Trims
<1> HIDE DEF t1
<1>9. /\ Direct(1) \notin t2.child
      /\ Direct(1) \in t1.child => \A p \in SlotsFrom(Direct(1), 0) : t1.slot[p] \notin t2.valid
  BY <1>1, <1>8, DirectRoundFrees
<1>10. Trims(t1, t2, f) /\ Rooted(t2)
  BY <1>1, <1>3, <1>8 DEF Trims
<1> HIDE DEF t2
<1>11. Indirect \notin t3.child
  BY <1>10, IndirectRoundFrees
<1>12. Trims(t2, t3, f) /\ Rooted(t3)
  <2>1. Trims(t2, t3, f)
    BY <1>1, <1>10, IndirectRoundTrims, Zenon
  <2> QED
    BY <2>1 DEF Trims
<1> HIDE DEF t3
<1>13. /\ t3.child \subseteq t2.child /\ t2.child \subseteq t1.child
       /\ t3.valid \subseteq t2.valid /\ t2.valid \subseteq t1.valid
       /\ t1.valid \subseteq t0.valid /\ t0.valid \subseteq s.valid
  BY <1>5, <1>8, <1>10, <1>12 DEF Trims
<1>14. t3.child = {}
  <2> SUFFICES ASSUME NEW n \in t3.child PROVE FALSE
    OBVIOUS
  <2>1. n \in Nodes /\ NodesTo(n) \subseteq t3.child
    BY <1>12 DEF Rooted, Good, Tree, Hangs
  <2>2. n \notin {Direct(0), Direct(1), Indirect}
    BY <1>7, <1>9, <1>11, <1>13
  <2>3. PICK c \in 0 .. DEF_NIDS_PER_BLOCK - 1 : n = Child(c)
    BY <2>1, <2>2 DEF Nodes, Leaves
  <2>4. NodesTo(n) = {Indirect}
    BY <2>3, ChildWay
  <2> QED
    BY <1>11, <2>1, <2>4
<1>15. ASSUME NEW b \in Blocks, f <= b, b < I + 2 * A, NodesTo(Path[b]) \subseteq s.child
       PROVE  s.slot[Path[b]] \notin t3.valid
  <2> DEFINE p == Path[b]
  <2>1. p \in Slots /\ b \in 0 .. MaxFile /\ b \in Int
    BY PathInSlots, FileAssumption, SMT DEF Blocks
  <2>2. CASE b < I /\ p = <<b>>
    <3>1. b \in {k \in 0 .. DEF_ADDRS_PER_INODE - 1 : k >= f}
      BY <1>15, <2>1, <2>2, Sizes, SMT DEF I
    <3>2. p \in InodeSlotsFrom(f)
      BY <2>2, <3>1 DEF InodeSlotsFrom
    <3>3. s.slot[p] \notin t0.valid
      BY <1>6, <3>2
    <3> QED
      BY <1>13, <3>3
  <2>3. ASSUME NEW i \in {0, 1}, NEW x \in 0 .. A - 1, p = <<I + i, x>>
        PROVE  s.slot[p] \notin t3.valid
    <3>1. x \in Int /\ x \in {k \in 0 .. DEF_ADDRS_PER_BLOCK - 1 : k >= 0}
      BY SMT DEF A
    <3>2. p = Append(Direct(i), x) /\ NodesTo(p) = {Direct(i)}
      BY <2>3, <3>1, DirectWay
    <3>3. p \in SlotsFrom(Direct(i), 0) /\ Direct(i) \in s.child
      BY <1>15, <3>1, <3>2 DEF SlotsFrom
    <3>4. p \notin InodeSlotsFrom(f)
      BY <3>2, WayWithinInode DEF InodeSlotsFrom
    <3>5. t0.slot[p] = s.slot[p]
      BY <1>6, <2>1, <3>4
    <3>6. CASE i = 0
      BY <1>6, <1>7, <1>13, <3>3, <3>5, <3>6
    <3>7. CASE i = 1
      <4>1. t1.slot[p] = s.slot[p]
        BY <1>7, <2>1, <3>2, <3>5, <3>7, DirectsDiffer
      <4>2. Direct(1) \in t1.child
        BY <1>6, <1>7, <3>3, <3>7, DirectWay, DirectsDiffer
      <4> QED
        BY <1>9, <1>13, <3>3, <3>7, <4>1, <4>2
    <3> QED
      BY <3>6, <3>7
  <2>4. ~(b >= I + 2 * A)
    BY <1>15, <2>1, Sizes, SMT
  <2> QED
    BY <2>1, <2>2, <2>3, <2>4, PathShape
<1> QED
  BY <1>2, <1>13, <1>14, <1>15

\* The new size ends at the same block as the one asked for.
LEMMA PartialBlockEnd ==
  ASSUME NEW size \in 0 .. 2 * MaxFile, PartialBlock(size \div 2, size)
  PROVE  FreeFrom(isize') = FreeFrom(size)
<1>1. CASE size % 2 = 1 /\ isize' = 2 * (size \div 2 + 1)
  <2>1. (2 * (size \div 2 + 1) + 1) \div 2 = (size + 1) \div 2
    BY <1>1, FileAssumption, Sizes, SMT DEF A, I
  <2> QED
    BY <1>1, <2>1 DEF FreeFrom
<1>2. CASE isize' = size
  BY <1>2
<1> QED
  BY <1>1, <1>2 DEF PartialBlock

\* file.c xcpfs_truncate_blocks, for every geometry: a file that reached no
\* further than its direct nodes leaves no node and no valid bit behind when it
\* is deleted or cut within the inode's addresses.
THEOREM SmallFileAlwaysFreed == Spec => SmallFileFreed
<1> DEFINE Small == \A a \in valid : /\ blockOf[a] < DEF_ADDRS_PER_INODE + 2 * DEF_ADDRS_PER_BLOCK
                                     /\ Read(blockOf[a]) = a
           Cut == isize' < isize /\ FreeFrom(isize') < DEF_ADDRS_PER_INODE /\ Small
           Freed == child' = {} /\ \A a \in valid' : blockOf[a] < FreeFrom(isize')
<1>1. TInv /\ [Next]_vars => [Cut => Freed]_vars
  <2> SUFFICES ASSUME TInv, Next, Cut PROVE Freed
    OBVIOUS
  <2>1. PICK size \in 0 .. 2 * MaxFile : Truncate(size)
    <3>1. ASSUME NEW b \in Blocks, WritePage(b) PROVE FALSE
      BY <3>1, SMT DEF WritePage, TInv
    <3>2. ASSUME NEW b \in Blocks, NEW size \in {2 * b + 1, 2 * b + 2}, Write(b, size) PROVE FALSE
      <4>1. isize' = Higher(isize, size) /\ isize \in Int /\ size \in Int
        BY <3>2, SMT DEF Write, TInv, Blocks
      <4> QED
        BY <4>1, SMT DEF Higher
    <3> QED
      BY <3>1, <3>2 DEF Next
  <2> DEFINE f == FreeFrom(size)
  <2>2. f \in 0 .. MaxFile
    BY FileAssumption, SMT DEF FreeFrom
  <2>3. FreeFrom(isize') = f
    BY <2>1, PartialBlockEnd DEF Truncate
  <2>4. PICK r, s : /\ r.slot = slot /\ r.child = child /\ r.valid = valid /\ Rooted(r)
                    /\ r.off = Offsets(Path[f]) /\ s = truncate_blocks(r)
                    /\ child' = s.child /\ valid' = s.valid
    BY <2>1, TruncateStep DEF TInv
  <2> HIDE DEF f
  <2>5. /\ child' = {} /\ valid' \subseteq valid
        /\ \A b \in Blocks : f <= b /\ b < I + 2 * A /\ NodesTo(Path[b]) \subseteq child
                             => slot[Path[b]] \notin valid'
    BY <2>2, <2>3, <2>4, TruncateFrees DEF I
  <2>6. ASSUME NEW a \in valid' PROVE blockOf[a] < f
    <3> DEFINE b == blockOf[a]
    <3>1. a \in valid /\ a \in Address /\ a # 0 /\ b \in Blocks
      <4>1. a \in valid /\ a \in Address
        BY <2>5, <2>6 DEF TInv, IInv
      <4>2. a # 0
        BY <4>1, SMT DEF Address
      <4> QED
        BY <4>1, <4>2 DEF TInv, IInv
    <3>2. b < I + 2 * A /\ Read(b) = a
      BY <3>1 DEF A, I
    <3>3. NodesTo(Path[b]) \subseteq child /\ slot[Path[b]] = a
      BY <3>1, <3>2 DEF Read, Mapped
    <3>4. ~(f <= b)
      BY <2>5, <2>6, <3>1, <3>2, <3>3
    <3> HIDE DEF b
    <3>5. b < f
      BY <2>2, <3>1, <3>4, SMT DEF Blocks
    <3> QED
      BY <3>5 DEF b
  <2> QED
    BY <2>3, <2>5, <2>6
<1> QED
  BY <1>1, TInvAlways, PTL DEF Spec, SmallFileFreed
=============================================================================

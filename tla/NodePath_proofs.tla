--------------------------- MODULE NodePath_proofs ---------------------------
(***************************************************************************)
(* get_path for every node size: the offsets lie within the nodes, and     *)
(* the block can be computed back from them.                               *)
(***************************************************************************)
EXTENDS NodePath, TLAPS

A == DEF_ADDRS_PER_BLOCK
I == DEF_ADDRS_PER_INODE

\* The block a path leads to.
BlockAt(p) ==
  IF Len(p) = 1 THEN p[1]
  ELSE IF Len(p) = 2 THEN I + (p[1] - I) * A + p[2]
  ELSE IF Len(p) = 3 THEN I + 2 * A + (p[1] - (I + 2)) * PerIndirect + p[2] * A + p[3]
  ELSE I + 2 * A + 2 * PerIndirect + p[2] * PerIndirect + p[3] * A + p[4]

\* The rounding of get_path finds the group of d blocks that block b is in.
LEMMA GroupBounds ==
  ASSUME NEW b \in Nat, NEW d \in Nat \ {0}
  PROVE  /\ Group(b, d) \in Nat
         /\ Group(b, d) * d <= b
         /\ b < Group(b, d) * d + d
<1> DEFINE q == (b + d) \div d
           r == (b + d) % d
<1>1. q \in Int /\ r \in 0 .. d - 1 /\ b + d = d * q + r
  BY SMT
<1>2. Group(b, d) = q - 1
  BY DEF Group, DIV_ROUND_UP
<1> QED
  BY <1>1, <1>2, SMT

\* A group's number is smaller than m exactly when b is one of the first m * d blocks.
LEMMA GroupLess ==
  ASSUME NEW b \in Nat, NEW d \in Nat \ {0}, NEW m \in Nat
  PROVE  Group(b, d) < m <=> b < m * d
<1> DEFINE g == Group(b, d)
<1>1. g \in Nat /\ g * d <= b /\ b < g * d + d
  BY GroupBounds
<1>2. ASSUME g < m PROVE b < m * d
  <2>1. m \in Nat /\ m - g >= 1 /\ (m - g) * d >= d
    BY <1>1, <1>2, SMT
  <2>2. m * d = g * d + (m - g) * d
    BY <1>1, SMT
  <2> QED
    BY <1>1, <2>1, <2>2, SMT
<1>3. ASSUME ~(g < m) PROVE ~(b < m * d)
  <2>1. (g - m) * d >= 0 /\ g * d = m * d + (g - m) * d
    BY <1>1, <1>3, SMT
  <2> QED
    BY <1>1, <2>1, SMT
<1> QED
  BY <1>2, <1>3

\* The sizes are positive, and both kinds of node have A entries.
LEMMA Sizes ==
  /\ I \in Nat \ {0} /\ A \in Nat \ {0} /\ PerIndirect \in Nat \ {0}
  /\ PerIndirect = A * A /\ DEF_NIDS_PER_BLOCK = A
  BY PathAssumption, SMT DEF A, I, PerIndirect

\* A block behind an indirect node: its child, and its place in the child.
LEMMA WithinIndirect ==
  ASSUME NEW r \in Nat, r < PerIndirect
  PROVE  /\ Group(r, A) \in 0 .. A - 1
         /\ r - A * Group(r, A) \in 0 .. A - 1
<1>1. /\ Group(r, A) \in Nat
      /\ Group(r, A) * A <= r
      /\ r < Group(r, A) * A + A
  BY GroupBounds, Sizes
<1>2. Group(r, A) < A
  BY GroupLess, Sizes
<1> QED
  BY <1>1, <1>2, Sizes, SMT

\* A direct node: the modulo in get_path changes nothing.
LEMMA DirectPathShape ==
  ASSUME NEW b \in Nat
  PROVE  LET i == Group(b, A)
         IN  /\ DirectPath(b) = <<I + i, b - i * A>>
             /\ b - i * A \in 0 .. A - 1
<1>1. /\ Group(b, A) \in Nat
      /\ Group(b, A) * A <= b
      /\ b < Group(b, A) * A + A
  BY GroupBounds, Sizes
<1>2. Group(b, A) * A \in Nat
  BY <1>1, Sizes, SMT
<1>3. b - Group(b, A) * A \in 0 .. A - 1
  BY <1>1, <1>2, Sizes, SMT
<1>4. (b - Group(b, A) * A) % A = b - Group(b, A) * A
  BY <1>3, Sizes, SMT
<1> QED
  BY <1>3, <1>4 DEF DirectPath, A, I

\* Where the ranges of get_path end.
DirectEnd == I + 2 * A
IndirectEnd == DirectEnd + 2 * PerIndirect

\* Which of its four forms get_path takes.
LEMMA Ranges ==
  ASSUME NEW b \in Nat
  PROVE  /\ b < I => get_path(b) = <<b>>
         /\ b \in I .. DirectEnd - 1 => get_path(b) = DirectPath(b - I)
         /\ b \in DirectEnd .. IndirectEnd - 1 => get_path(b) = IndirectPath(b - DirectEnd)
         /\ b >= IndirectEnd => get_path(b) = DoubleIndirectPath(b - IndirectEnd)
<1> DEFINE direct   == b - I
           indirect == direct - 2 * A
           double   == indirect - 2 * PerIndirect
<1>1. get_path(b) = IF b < I THEN <<b>>
                    ELSE IF Group(direct, A) < 2 THEN DirectPath(direct)
                    ELSE IF Group(indirect, PerIndirect) < 2 THEN IndirectPath(indirect)
                    ELSE DoubleIndirectPath(double)
  BY DEF get_path, A, I
<1>2. indirect = b - DirectEnd /\ double = b - IndirectEnd
  BY Sizes, SMT DEF DirectEnd, IndirectEnd
<1>3. CASE b < I
  BY <1>1, <1>3, Sizes, SMT DEF DirectEnd, IndirectEnd
<1>4. CASE b \in I .. DirectEnd - 1
  <2>1. direct \in Nat /\ direct < 2 * A
    BY <1>4, Sizes, SMT DEF DirectEnd
  <2>2. Group(direct, A) < 2
    BY <2>1, GroupLess, Sizes
  <2> QED
    BY <1>1, <1>4, <2>2, Sizes, SMT DEF DirectEnd, IndirectEnd
<1>5. CASE b \in DirectEnd .. IndirectEnd - 1
  <2>1. /\ direct \in Nat /\ ~(direct < 2 * A)
        /\ indirect \in Nat /\ indirect < 2 * PerIndirect
    BY <1>5, Sizes, SMT DEF DirectEnd, IndirectEnd
  <2>2. ~(Group(direct, A) < 2) /\ Group(indirect, PerIndirect) < 2
    BY <2>1, GroupLess, Sizes
  <2> QED
    BY <1>1, <1>2, <1>5, <2>2, Sizes, SMT DEF DirectEnd, IndirectEnd
<1>6. CASE b >= IndirectEnd
  <2>1. /\ direct \in Nat /\ ~(direct < 2 * A)
        /\ indirect \in Nat /\ ~(indirect < 2 * PerIndirect)
    BY <1>6, Sizes, SMT DEF DirectEnd, IndirectEnd
  <2>2. ~(Group(direct, A) < 2) /\ ~(Group(indirect, PerIndirect) < 2)
    BY <2>1, GroupLess, Sizes
  <2> QED
    BY <1>1, <1>2, <1>6, <2>2, Sizes, SMT DEF DirectEnd, IndirectEnd
<1> QED
  BY <1>3, <1>4, <1>5, <1>6, Sizes, SMT DEF DirectEnd, IndirectEnd

\* An indirect node's part of a block number: which node, child and place.
LEMMA IndirectPathShape ==
  ASSUME NEW b \in Nat
  PROVE  \E i \in Nat, c, j \in 0 .. A - 1 :
           /\ IndirectPath(b) = <<I + 2 + i, c, j>>
           /\ DoubleIndirectPath(b) = <<I + 4, i, c, j>>
           /\ i = Group(b, PerIndirect)
           /\ b = i * PerIndirect + c * A + j
<1> DEFINE i == Group(b, PerIndirect)
           r == b - i * PerIndirect
           c == Group(r, A)
           j == r - c * A
<1>1. /\ i \in Nat /\ i * PerIndirect <= b
      /\ b < i * PerIndirect + PerIndirect
  BY GroupBounds, Sizes
<1>2. i * PerIndirect \in Nat /\ PerIndirect * i = i * PerIndirect
  BY <1>1, Sizes, SMT
<1>3. r \in Nat /\ r < PerIndirect
  BY <1>1, <1>2, Sizes, SMT
<1>4. c \in 0 .. A - 1 /\ r - A * c \in 0 .. A - 1
  BY <1>3, WithinIndirect
<1>5. A * c = c * A /\ c * A \in Nat
  BY <1>4, Sizes, SMT
<1>6. j \in 0 .. A - 1 /\ b = i * PerIndirect + c * A + j
  BY <1>2, <1>3, <1>4, <1>5, Sizes, SMT
<1>7. DoubleIndirectPath(b) = <<I + 4, i, c, j>>
  BY DEF DoubleIndirectPath, A, I
<1>8. IndirectPath(b) = <<I + 2 + i, c, j>>
  BY <1>2, <1>5, Sizes DEF IndirectPath, A, I
<1> QED
  BY <1>1, <1>4, <1>6, <1>7, <1>8

\* BlockAt of a path through a direct node.
LEMMA BlockAt2 ==
  ASSUME NEW w, NEW x
  PROVE  BlockAt(<<w, x>>) = I + (w - I) * A + x
  BY SMT DEF BlockAt

\* BlockAt of a path through an indirect node.
LEMMA BlockAt3 ==
  ASSUME NEW w, NEW x, NEW y
  PROVE  BlockAt(<<w, x, y>>) = I + 2 * A + (w - (I + 2)) * PerIndirect + x * A + y
  BY SMT DEF BlockAt

\* BlockAt of a path through the double indirect node.
LEMMA BlockAt4 ==
  ASSUME NEW w, NEW x, NEW y, NEW z
  PROVE  BlockAt(<<w, x, y, z>>) = I + 2 * A + 2 * PerIndirect + x * PerIndirect + y * A + z
  BY SMT DEF BlockAt

\* meta.c get_path loses nothing: for every size of the nodes the path of a
\* block determines the block.
THEOREM PathInverse == \A b \in Nat : BlockAt(get_path(b)) = b
<1> SUFFICES ASSUME NEW b \in Nat PROVE BlockAt(get_path(b)) = b
  OBVIOUS
<1>1. CASE b < I
  <2>1. get_path(b) = <<b>>
    BY <1>1, Ranges
  <2> QED
    BY <2>1, SMT DEF BlockAt
<1>2. CASE b \in I .. DirectEnd - 1
  <2> DEFINE d == b - I
             i == Group(d, A)
  <2>1. d \in Nat
    BY <1>2, Sizes, SMT DEF DirectEnd
  <2>2. PICK w, x : get_path(b) = <<w, x>> /\ w = I + i /\ x = d - i * A
    BY <1>2, <2>1, Ranges, DirectPathShape
  <2>3. i \in Nat
    BY <2>1, GroupBounds, Sizes
  <2>4. BlockAt(get_path(b)) = I + (w - I) * A + x
    BY <2>2, BlockAt2
  <2>5. w - I = i /\ i * A \in Nat
    BY <2>2, <2>3, Sizes, SMT
  <2>6. BlockAt(get_path(b)) = I + i * A + x
    BY <2>4, <2>5
  <2> HIDE DEF i
  <2> QED
    BY <2>1, <2>2, <2>5, <2>6, Sizes, SMT
<1>3. CASE b \in DirectEnd .. IndirectEnd - 1
  <2> DEFINE d == b - DirectEnd
  <2>1. d \in Nat
    BY <1>3, Sizes, SMT DEF DirectEnd
  <2>2. PICK i \in Nat, c, j \in 0 .. A - 1 :
          IndirectPath(d) = <<I + 2 + i, c, j>> /\ d = i * PerIndirect + c * A + j
    <3>1. \E i \in Nat, c, j \in 0 .. A - 1 :
           /\ IndirectPath(d) = <<I + 2 + i, c, j>>
           /\ DoubleIndirectPath(d) = <<I + 4, i, c, j>>
           /\ i = Group(d, PerIndirect)
           /\ d = i * PerIndirect + c * A + j
      <4> HIDE DEF d
      <4> QED
        BY <2>1, IndirectPathShape
    <3> HIDE DEF d
    <3> QED
      BY <3>1, Zenon
  <2>3. PICK w : get_path(b) = <<w, c, j>> /\ w = I + 2 + i
    BY <1>3, <2>2, Ranges
  <2>4. BlockAt(get_path(b)) = I + 2 * A + (w - (I + 2)) * PerIndirect + c * A + j
    BY <2>3, BlockAt3
  <2>5. w - (I + 2) = i /\ i * PerIndirect \in Nat /\ c * A \in Nat
    BY <2>2, <2>3, Sizes, SMT
  <2>6. BlockAt(get_path(b)) = I + 2 * A + i * PerIndirect + c * A + j
    BY <2>4, <2>5
  <2> QED
    BY <2>1, <2>2, <2>5, <2>6, Sizes, SMT DEF DirectEnd
<1>4. CASE b >= IndirectEnd
  <2> DEFINE d == b - IndirectEnd
  <2>1. d \in Nat
    BY <1>4, Sizes, SMT DEF DirectEnd, IndirectEnd
  <2>2. PICK i \in Nat, c, j \in 0 .. A - 1 :
          DoubleIndirectPath(d) = <<I + 4, i, c, j>> /\ d = i * PerIndirect + c * A + j
    <3>1. \E i \in Nat, c, j \in 0 .. A - 1 :
           /\ IndirectPath(d) = <<I + 2 + i, c, j>>
           /\ DoubleIndirectPath(d) = <<I + 4, i, c, j>>
           /\ i = Group(d, PerIndirect)
           /\ d = i * PerIndirect + c * A + j
      <4> HIDE DEF d
      <4> QED
        BY <2>1, IndirectPathShape
    <3> HIDE DEF d
    <3> QED
      BY <3>1, Zenon
  <2>3. get_path(b) = <<I + 4, i, c, j>>
    BY <1>4, <2>2, Ranges
  <2>4. BlockAt(get_path(b)) = I + 2 * A + 2 * PerIndirect + i * PerIndirect + c * A + j
    BY <2>3, BlockAt4
  <2>5. i * PerIndirect \in Nat /\ c * A \in Nat
    BY <2>2, Sizes, SMT
  <2> QED
    BY <2>1, <2>2, <2>4, <2>5, Sizes, SMT DEF DirectEnd, IndirectEnd
<1> QED
  BY <1>1, <1>2, <1>3, <1>4, Sizes, SMT DEF DirectEnd, IndirectEnd
=============================================================================

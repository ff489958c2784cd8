-------------------------- MODULE Checkpoint_proofs -------------------------
(***************************************************************************)
(* What the checkpoint keeps for any set of nids and any bounds: every     *)
(* address is one of a block that was written, every mount finds nodes 1   *)
(* and 3 as the last superblock's unmount left them, and the first         *)
(* superblock a file system gets after mkfs's implements the snapshot      *)
(* store, whatever was written, restarted or crashed before it.            *)
(***************************************************************************)
EXTENDS Checkpoint, SequenceTheorems, TLAPS

-----------------------------------------------------------------------------
(* What holds in every session. *)

\* An address, on disk or in memory, is one of a block that was written.
AddressesOK ==
  /\ \A n \in Nids : cpsb[n].addr <= Len(nblk[n])
  /\ \A n \in Nids, p \in MetaPages : page[p][n] <= Len(nblk[n]) /\ node[n].addr[p] <= Len(pblk[p])
  /\ \A p \in MetaPages : \A i \in 1 .. Len(pblk[p]) : \A n \in Nids : pblk[p][i][n] <= Len(nblk[n])
  /\ \A n \in Nids : \A i \in 1 .. Len(nblk[n]) : \A p \in MetaPages : nblk[n][i].addr[p] <= Len(pblk[p])

\* A page is only written when its direct node is there; regular nodes are all
\* written before phase 2, so no superblock holds one.
PathsOK ==
  /\ \A r \in RegNids : nat[r].used => Dnode(node, "N1") # None
  /\ \A p \in pdirty : Dnode(node, p) # None
  /\ \A r \in RegNids : super[r].addr = 0 /\ cpsb[r].addr = 0
  /\ phase \in Phase2 \cup {"append", "unmount"} => ndirty \cap RegNids = {}

\* Node 1 is in its last block unless it is dirty, and in the block that the
\* superblock will name when the checkpoint is over.
RootsOK ==
  /\ super[MetaIno].addr # 0 /\ super[RootIno].addr # 0
  /\ phase # "down" => nat[MetaIno].addr # 0 /\ nat[RootIno].addr # 0
  /\ phase # "down" /\ MetaIno \notin ndirty => nblk[MetaIno][nat[MetaIno].addr] = node[MetaIno]
  /\ phase \in {"metanodes", "append", "unmount"} => pdirty = {}
  /\ phase = "append" => ndirty \cap MetaNodes = {}
  /\ phase = "unmount" =>
       /\ ndirty \cap MetaNodes \subseteq {MetaIno}
       /\ cpsb[MetaIno].addr # 0 /\ nblk[MetaIno][cpsb[MetaIno].addr] = node[MetaIno]
       /\ cpsb[RootIno].addr = nat[RootIno].addr
  /\ phase = "down" => ndirty = {} /\ pdirty = {} /\ \A n \in Nids : cpsb[n].addr = 0
  /\ phase \notin {"run", "down"} => sessions < MaxSessions

-----------------------------------------------------------------------------
(* What holds until the first superblock after mkfs's is written. *)

\* What a page holds on disk, given the node pages.
Stored(p) == IF Dnode(node, p) = None THEN EmptyPage ELSE Written(pblk[p], node[Dnode(node, p)].addr[p], EmptyPage)

\* The disk as mkfs left it, as far as it is named.
Fresh ==
  /\ super = [n \in Nids |-> IF n \in {MetaIno, RootIno} THEN [addr |-> 1, moved |-> FALSE] ELSE NoEntry]
  /\ nblk[MetaIno][1] = EmptyNode /\ nblk[RootIno][1] = EmptyNode

\* A nid that was not given out is nowhere.
UnusedOK ==
  /\ \A n \in Nids : ~nat[n].used =>
       /\ nat[n].addr = 0 /\ n \notin ndirty /\ node[n] = EmptyNode
       /\ page[NatPage(n)][n] = 0 /\ cpsb[n].addr = 0
  /\ \A n \in Nids : \A s \in ChildSlots : node[n].child[s] # None => nat[node[n].child[s]].used

\* Clean pages are as they are on disk.
CleanOK ==
  /\ \A n \in MetaNodes \ ndirty : node[n] = Written(nblk[n], nat[n].addr, EmptyNode)
  /\ \A p \in MetaPages \ pdirty : page[p] = Stored(p)

\* The nids whose entries flush_nat and phase 2 have to save.
Entries == {n \in Nids \ {MetaIno, RootIno} : nat[n].used}

\* A NAT entry is in its NAT block or marked, and after flush_nat in its NAT
\* block or in the superblock.
RecordedOK ==
  /\ \A n \in Entries : nat[n].dirty \/ page[NatPage(n)][n] = nat[n].addr
  /\ phase \in {"sync", "regnodes"} => \A n \in Nids : cpsb[n].addr = 0
  /\ phase \in Phase2 \cup {"append", "unmount"} =>
       \A n \in Nids \ {MetaIno} : cpsb[n].addr # 0 => cpsb[n].addr = nat[n].addr
  /\ phase \in {"zit", "metapages", "metanodes", "append", "unmount"} =>
       \A n \in Entries : cpsb[n].addr # 0 \/ page[NatPage(n)][n] = nat[n].addr

FirstOK == sessions = 0 => Fresh /\ (phase # "down" => UnusedOK /\ CleanOK /\ RecordedOK)

\* The inductive invariant.
IInv == TypeOK /\ AddressesOK /\ PathsOK /\ RootsOK /\ FirstOK

-----------------------------------------------------------------------------
(* Nids, pages and the way to them. *)

LEMMA NidsFacts ==
  /\ Nids = MetaNodes \cup RegNids /\ MetaNodes \cap RegNids = {} /\ MetaNids \subseteq MetaNodes
  /\ MetaIno \in MetaNodes /\ RootIno \in MetaNodes /\ MetaIno # RootIno /\ None \notin Nids
  /\ MetaIno \notin MetaNids /\ RootIno \notin MetaNids
BY NidsAssumption DEF Nids, MetaNodes

LEMMA NatPageFacts ==
  /\ \A n \in MetaNodes : NatPage(n) = "N0"
  /\ \A n \in RegNids : NatPage(n) \in {"N1", "N2"}
  /\ \A n \in Nids : NatPage(n) \in MetaPages
<1>1. \A n \in MetaNodes : NatPage(n) = "N0"
  BY NidsFacts, NidsAssumption DEF NatPage
<1>2. \A n \in RegNids : NatPage(n) \in {"N1", "N2"}
  BY NidsFacts, NidsAssumption DEF NatPage
<1> QED
  BY <1>1, <1>2, NidsFacts DEF MetaPages

LEMMA DnodeFacts ==
  ASSUME NEW nodes, \A n \in MetaNodes : nodes[n].child \in [ChildSlots -> MetaNids \cup {None}]
  PROVE  /\ Ind(nodes) \in MetaNids \cup {None} /\ Dnode(nodes, "N0") = MetaIno
         /\ \A p \in MetaPages : /\ Dnode(nodes, p) \in MetaNodes \cup {None}
                                 /\ p # "N0" => Dnode(nodes, p) \in MetaNids \cup {None}
         /\ Dnode(nodes, "N2") = Dnode(nodes, "N1")
<1>1. Ind(nodes) \in MetaNids \cup {None}
  BY NidsFacts DEF Ind, ChildSlots
<1>2. \A p \in MetaPages : DirSlot(p) \in ChildSlots
  BY DEF DirSlot, ChildSlots
<1>3. \A p \in MetaPages : p # "N0" => Dnode(nodes, p) \in MetaNids \cup {None}
  BY <1>1, <1>2, NidsFacts DEF Dnode
<1> QED
  BY <1>1, <1>3, NidsFacts DEF Dnode, DirSlot

LEMMA EmptyTyped ==
  /\ EmptyNode \in NodeBody /\ EmptyPage \in [Nids -> Nat]
  /\ \A s \in ChildSlots : EmptyNode.child[s] = None
  /\ \A p \in MetaPages : EmptyNode.addr[p] = 0
  /\ \A n \in Nids : EmptyPage[n] = 0
BY DEF EmptyNode, EmptyPage, NodeBody

\* A node page in the cache, and where it leads.
LEMMA NodeTyped ==
  ASSUME TypeOK
  PROVE  /\ \A n \in Nids : node[n] \in NodeBody /\ node[n].child \in [ChildSlots -> MetaNids \cup {None}]
                             /\ node[n].addr \in [MetaPages -> Nat]
         /\ Ind(node) \in MetaNids \cup {None} /\ Dnode(node, "N0") = MetaIno
         /\ \A p \in MetaPages : /\ Dnode(node, p) \in MetaNodes \cup {None}
                                 /\ p # "N0" => Dnode(node, p) \in MetaNids \cup {None}
         /\ Dnode(node, "N2") = Dnode(node, "N1")
<1>1. \A n \in Nids : node[n] \in NodeBody /\ node[n].child \in [ChildSlots -> MetaNids \cup {None}]
                       /\ node[n].addr \in [MetaPages -> Nat]
  BY DEF TypeOK, NodeBody
<1> QED
  BY <1>1, DnodeFacts, NidsFacts

-----------------------------------------------------------------------------
(* get_dnode_page on the way to a page of the meta inode. *)

\* A node's child set to a new node.
WithChild(nodes, x, s, d) == [nodes EXCEPT ![x].child[s] = d]

LEMMA ChildSet ==
  ASSUME NEW nodes \in [Nids -> NodeBody], NEW x \in Nids, NEW s \in ChildSlots, NEW d \in MetaNids
  PROVE  /\ WithChild(nodes, x, s, d) \in [Nids -> NodeBody]
         /\ \A n \in Nids : /\ WithChild(nodes, x, s, d)[n].addr = nodes[n].addr
                            /\ n # x => WithChild(nodes, x, s, d)[n] = nodes[n]
         /\ WithChild(nodes, x, s, d)[x].child[s] = d
         /\ \A z \in ChildSlots : z # s => WithChild(nodes, x, s, d)[x].child[z] = nodes[x].child[z]
<1>1. PICK old \in NodeBody : old = nodes[x]
  OBVIOUS
<1>2. PICK new : new = [old EXCEPT !.child[s] = d]
  OBVIOUS
<1>3. WithChild(nodes, x, s, d) = [nodes EXCEPT ![x] = new]
  BY <1>1, <1>2 DEF WithChild
<1>4. /\ new \in NodeBody /\ new.addr = old.addr /\ new.child[s] = d
      /\ \A z \in ChildSlots : z # s => new.child[z] = old.child[z]
  BY <1>2 DEF NodeBody
<1> QED
  BY <1>1, <1>3, <1>4

LEMMA AllocatedFacts ==
  ASSUME TypeOK, NEW S, S \subseteq MetaNids, nat' = Allocated(S)
  PROVE  /\ nat' \in [Nids -> [addr : Nat, dirty : BOOLEAN, used : BOOLEAN]]
         /\ \A n \in Nids : IF n \in S THEN nat'[n] = [addr |-> 0, dirty |-> TRUE, used |-> TRUE]
                             ELSE nat'[n] = nat[n]
BY DEF TypeOK, Allocated

\* What the creation of a path keeps: addresses, old nodes, the ways that were there.
LEMMA PathCreated ==
  ASSUME TypeOK, NEW p \in {"N1", "Z"}, CreatePath(p)
  PROVE  /\ node' \in [Nids -> NodeBody] /\ ndirty \subseteq ndirty' /\ ndirty' \subseteq ndirty \cup MetaNodes
         /\ nat' \in [Nids -> [addr : Nat, dirty : BOOLEAN, used : BOOLEAN]]
         /\ \A n \in Nids : node'[n].addr = node[n].addr
         /\ \A n \in Nids : node'[n] # node[n] => n \in ndirty'
         /\ \A n \in Nids : /\ nat'[n] # nat[n] => n \in FreeMeta /\ nat'[n] = [addr |-> 0, dirty |-> TRUE, used |-> TRUE]
                            /\ nat[n].used => nat'[n] = nat[n]
         /\ \A q \in MetaPages : Dnode(node, q) # None => Dnode(node', q) = Dnode(node, q)
         /\ Dnode(node', p) # None
         /\ \A n \in Nids : node'[n] # node[n] \/ n \in ndirty' \ ndirty => n \in {MetaIno, Ind(node)} \/ nat'[n].used
         /\ \A n \in Nids, s \in ChildSlots :
              node'[n].child[s] # node[n].child[s] => node'[n].child[s] \in MetaNids /\ nat'[node'[n].child[s]].used
         /\ (\A m \in FreeMeta : node[m] = EmptyNode) =>
              \A q \in MetaPages : Dnode(node', q) = Dnode(node, q)
                                   \/ (Dnode(node, q) = None /\ Dnode(node', q) \in FreeMeta)
<1> DEFINE Result ==
         /\ node' \in [Nids -> NodeBody] /\ ndirty \subseteq ndirty' /\ ndirty' \subseteq ndirty \cup MetaNodes
         /\ nat' \in [Nids -> [addr : Nat, dirty : BOOLEAN, used : BOOLEAN]]
         /\ \A n \in Nids : node'[n].addr = node[n].addr
         /\ \A n \in Nids : node'[n] # node[n] => n \in ndirty'
         /\ \A n \in Nids : /\ nat'[n] # nat[n] => n \in FreeMeta /\ nat'[n] = [addr |-> 0, dirty |-> TRUE, used |-> TRUE]
                            /\ nat[n].used => nat'[n] = nat[n]
         /\ \A q \in MetaPages : Dnode(node, q) # None => Dnode(node', q) = Dnode(node, q)
         /\ Dnode(node', p) # None
         /\ \A n \in Nids : node'[n] # node[n] \/ n \in ndirty' \ ndirty => n \in {MetaIno, Ind(node)} \/ nat'[n].used
         /\ \A n \in Nids, s \in ChildSlots :
              node'[n].child[s] # node[n].child[s] => node'[n].child[s] \in MetaNids /\ nat'[node'[n].child[s]].used
         /\ (\A m \in FreeMeta : node[m] = EmptyNode) =>
              \A q \in MetaPages : Dnode(node', q) = Dnode(node, q)
                                   \/ (Dnode(node, q) = None /\ Dnode(node', q) \in FreeMeta)
<1>0. /\ node \in [Nids -> NodeBody] /\ ndirty \subseteq Nids /\ MetaIno \in Nids /\ None \notin MetaNids
      /\ DirSlot(p) \in ChildSlots /\ "ind" \in ChildSlots /\ FreeMeta \subseteq MetaNids /\ MetaNids \subseteq Nids
      /\ DirSlot(p) # "ind"
  BY NidsFacts DEF TypeOK, DirSlot, ChildSlots, FreeMeta
<1>a. /\ \A n \in Nids : node[n] \in NodeBody
      /\ Ind(node) \in MetaNids \cup {None} /\ MetaIno \notin MetaNids
  BY NodeTyped, NidsFacts
<1>1. CASE Dnode(node, p) # None /\ UNCHANGED <<node, ndirty, nat>>
  BY <1>1 DEF TypeOK
<1>2. ASSUME Dnode(node, p) = None, Ind(node) # None, NEW d, d \in FreeMeta,
             node' = [node EXCEPT ![Ind(node)].child[DirSlot(p)] = d], nat' = Allocated({d}),
             ndirty' = ndirty \cup {Ind(node)}
      PROVE  Result
  <2>1. PICK i : i = Ind(node)
    OBVIOUS
  <2>2. /\ i \in MetaNids /\ i \in Nids /\ d \in MetaNids /\ i # MetaIno
    BY <2>1, <1>2, <1>0, <1>a
  <2>3. node' = WithChild(node, i, DirSlot(p), d)
    BY <2>1, <1>2 DEF WithChild
  <2>4. /\ node' \in [Nids -> NodeBody]
        /\ \A n \in Nids : node'[n].addr = node[n].addr /\ (n # i => node'[n] = node[n])
        /\ node'[i].child[DirSlot(p)] = d
        /\ \A z \in ChildSlots : z # DirSlot(p) => node'[i].child[z] = node[i].child[z]
    BY <1>0, <2>2, <2>3, ChildSet
  <2>5. Ind(node') = i
    BY <2>1, <2>2, <2>4, <1>0 DEF Ind
  <2>6. {d} \subseteq MetaNids /\ d # None /\ ~nat[d].used
    BY <2>2, <1>0, <1>2 DEF FreeMeta
  <2>7. /\ nat' \in [Nids -> [addr : Nat, dirty : BOOLEAN, used : BOOLEAN]]
        /\ \A n \in Nids : IF n \in {d} THEN nat'[n] = [addr |-> 0, dirty |-> TRUE, used |-> TRUE]
                            ELSE nat'[n] = nat[n]
    BY <2>6, <1>2, AllocatedFacts
  <2>8. Dnode(node', p) = d
    BY <2>5, <2>4, <2>2, <1>0, <2>6 DEF Dnode
  <2>9. \A q \in MetaPages : \/ Dnode(node', q) = Dnode(node, q)
                             \/ Dnode(node, q) = None /\ Dnode(node', q) = d
    <3> SUFFICES ASSUME NEW q \in MetaPages
                 PROVE  \/ Dnode(node', q) = Dnode(node, q)
                        \/ Dnode(node, q) = None /\ Dnode(node', q) = d
      OBVIOUS
    <3>1. CASE q = "N0"
      BY <3>1 DEF Dnode
    <3>2. CASE q # "N0"
      <4>1. /\ Dnode(node, q) = node[i].child[DirSlot(q)] /\ Dnode(node', q) = node'[i].child[DirSlot(q)]
            /\ DirSlot(q) \in ChildSlots /\ Dnode(node, p) = node[i].child[DirSlot(p)]
        BY <3>2, <2>1, <2>5, <2>2, <1>0 DEF Dnode, DirSlot, ChildSlots
      <4> QED
        BY <4>1, <2>4, <1>2, <2>8
    <3> QED
      BY <3>1, <3>2
  <2>10. ndirty \subseteq ndirty' /\ ndirty' \subseteq ndirty \cup MetaNodes
    BY <1>2, <2>1, <2>2, NidsFacts
  <2>11. \A n \in Nids : node'[n] # node[n] => n \in ndirty'
    BY <2>1, <2>4, <1>2
  <2>12. \A n \in Nids : /\ nat'[n] # nat[n] => n \in FreeMeta /\ nat'[n] = [addr |-> 0, dirty |-> TRUE, used |-> TRUE]
                         /\ nat[n].used => nat'[n] = nat[n]
    BY <2>7, <2>6, <1>2
  <2>13. \A n \in Nids : node'[n] # node[n] \/ n \in ndirty' \ ndirty => n \in {MetaIno, Ind(node)} \/ nat'[n].used
    BY <2>1, <2>4, <1>2
  <2>14. \A n \in Nids, s \in ChildSlots : node'[n].child[s] # node[n].child[s] => node'[n].child[s] = d
    BY <2>4
  <2>15. d \in MetaNids /\ nat'[d].used /\ d \in FreeMeta
    <3>1. nat'[d] = [addr |-> 0, dirty |-> TRUE, used |-> TRUE]
      BY <2>2, <2>7, <1>0
    <3> QED
      BY <3>1, <2>2, <1>2
  <2> QED
    BY <2>4, <2>6, <2>7, <2>8, <2>9, <2>10, <2>11, <2>12, <2>13, <2>14, <2>15
<1>3. ASSUME Ind(node) = None, NEW i, i \in FreeMeta, NEW d, d \in FreeMeta, i # d,
             node' = [node EXCEPT ![MetaIno].child["ind"] = i, ![i].child[DirSlot(p)] = d],
             nat' = Allocated({i, d}), ndirty' = ndirty \cup {MetaIno, i}
      PROVE  Result
  <2>1. PICK mid : mid = WithChild(node, MetaIno, "ind", i)
    OBVIOUS
  <2>2. i \in MetaNids /\ d \in MetaNids /\ i \in Nids /\ i # MetaIno /\ d # None /\ i # None
        /\ ~nat[i].used /\ ~nat[d].used
    BY <1>3, <1>0, <1>a DEF FreeMeta
  <2>3. node' = WithChild(mid, i, DirSlot(p), d)
    BY <2>1, <1>3 DEF WithChild
  <2>0. mid \in [Nids -> NodeBody]
    BY <1>0, <2>2, <2>1, ChildSet
  <2>4. /\ \A n \in Nids : mid[n].addr = node[n].addr /\ (n # MetaIno => mid[n] = node[n])
        /\ mid[MetaIno].child["ind"] = i
        /\ \A z \in ChildSlots : z # "ind" => mid[MetaIno].child[z] = node[MetaIno].child[z]
    BY <1>0, <2>2, <2>1, ChildSet
  <2>5. /\ node' \in [Nids -> NodeBody]
        /\ \A n \in Nids : node'[n].addr = mid[n].addr /\ (n # i => node'[n] = mid[n])
        /\ node'[i].child[DirSlot(p)] = d
        /\ \A z \in ChildSlots : z # DirSlot(p) => node'[i].child[z] = mid[i].child[z]
    BY <1>0, <2>0, <2>2, <2>3, ChildSet
  <2>6. Ind(node') = i
    BY <2>4, <2>5, <2>2, <1>0 DEF Ind
  <2>7. /\ nat' \in [Nids -> [addr : Nat, dirty : BOOLEAN, used : BOOLEAN]]
        /\ \A n \in Nids : IF n \in {i, d} THEN nat'[n] = [addr |-> 0, dirty |-> TRUE, used |-> TRUE]
                            ELSE nat'[n] = nat[n]
    <3>1. {i, d} \subseteq MetaNids
      BY <2>2
    <3> QED
      BY <3>1, <1>3, AllocatedFacts
  <2>8. Dnode(node', p) = d
    BY <2>6, <2>5, <2>2, <1>0 DEF Dnode
  <2>9. \A q \in MetaPages : \/ Dnode(node', q) = Dnode(node, q)
                             \/ Dnode(node, q) = None /\ q # "N0"
    BY <1>3 DEF Dnode
  <2>10. \A n \in Nids : node'[n].addr = node[n].addr /\ (n \notin {MetaIno, i} => node'[n] = node[n])
    BY <2>4, <2>5
  <2>11. \A q \in MetaPages : Dnode(node, q) # None => Dnode(node', q) = Dnode(node, q)
    BY <2>9
  <2>12. ndirty \subseteq ndirty' /\ ndirty' \subseteq ndirty \cup MetaNodes
    BY <1>3, <2>2, NidsFacts
  <2>13. \A n \in Nids : node'[n] # node[n] => n \in ndirty'
    BY <2>10, <1>3
  <2>14. \A n \in Nids : /\ nat'[n] # nat[n] => n \in FreeMeta /\ nat'[n] = [addr |-> 0, dirty |-> TRUE, used |-> TRUE]
                         /\ nat[n].used => nat'[n] = nat[n]
    BY <2>7, <2>2, <1>3
  <2>15. i \in MetaNids /\ d \in MetaNids /\ nat'[i].used /\ nat'[d].used /\ d \in FreeMeta
    <3>1. /\ nat'[i] = [addr |-> 0, dirty |-> TRUE, used |-> TRUE]
          /\ nat'[d] = [addr |-> 0, dirty |-> TRUE, used |-> TRUE]
      BY <2>2, <2>7, <1>0
    <3> QED
      BY <3>1, <2>2, <1>3
  <2>16. \A n \in Nids : node'[n] # node[n] \/ n \in ndirty' \ ndirty => n \in {MetaIno, Ind(node)} \/ nat'[n].used
    BY <2>10, <2>15, <1>3
  <2>17. \A n \in Nids, s \in ChildSlots : node'[n].child[s] # node[n].child[s] => node'[n].child[s] \in {i, d}
    <3>1. \A n \in Nids, s \in ChildSlots : n \notin {MetaIno, i} => node'[n].child[s] = node[n].child[s]
      BY <2>10
    <3>2. \A s \in ChildSlots : node'[i].child[s] # node[i].child[s] => node'[i].child[s] = d
      BY <2>5, <2>4, <2>2
    <3>3. \A s \in ChildSlots : node'[MetaIno].child[s] # node[MetaIno].child[s] => node'[MetaIno].child[s] = i
      BY <2>5, <2>4, <2>2, <1>0
    <3> QED
      BY <3>1, <3>2, <3>3
  <2>18. ASSUME \A m \in FreeMeta : node[m] = EmptyNode, NEW q \in MetaPages
         PROVE  \/ Dnode(node', q) = Dnode(node, q)
                \/ Dnode(node, q) = None /\ Dnode(node', q) \in FreeMeta
    <3>1. CASE q = "N0"
      BY <3>1 DEF Dnode
    <3>2. CASE q # "N0"
      <4>1. /\ Dnode(node, q) = None /\ Dnode(node', q) = node'[i].child[DirSlot(q)] /\ DirSlot(q) \in ChildSlots
        BY <3>2, <1>3, <2>6, <2>2 DEF Dnode, DirSlot, ChildSlots
      <4>2. node[i] = EmptyNode /\ mid[i] = node[i]
        BY <2>18, <1>3, <2>4, <2>2
      <4>3. node'[i].child[DirSlot(q)] \in {d, None}
        BY <4>1, <4>2, <2>5, EmptyTyped
      <4> QED
        BY <4>1, <4>3, <2>15
    <3> QED
      BY <3>1, <3>2
  <2> QED
    BY <2>5, <2>7, <2>8, <2>10, <2>11, <2>12, <2>13, <2>14, <2>15, <2>16, <2>17, <2>18, <2>2
<1> QED
  BY <1>1, <1>2, <1>3 DEF CreatePath

-----------------------------------------------------------------------------
(* What a mount reads. *)

\* A block read back: nothing for address 0, a block that was written otherwise.
LEMMA WrittenEither ==
  ASSUME NEW S, NEW blocks \in Seq(S), NEW a \in Nat, a <= Len(blocks), NEW e
  PROVE  \/ a = 0 /\ Written(blocks, a, e) = e
         \/ a \in 1 .. Len(blocks) /\ Written(blocks, a, e) = blocks[a] /\ blocks[a] \in S
<1>1. CASE a = 0
  BY <1>1 DEF Written
<1>2. CASE a # 0
  <2>1. a \in 1 .. Len(blocks)
    BY <1>2
  <2> QED
    BY <2>1, <1>2, ElementOfSeq DEF Written
<1> QED
  BY <1>1, <1>2

\* Every table a mount reads is made of addresses of blocks that were written.
LEMMA DiskTyped ==
  ASSUME TypeOK, AddressesOK
  PROVE  /\ DiskN0 \in [Nids -> Nat] /\ \A n \in Nids : DiskN0[n] <= Len(nblk[n])
         /\ \A n \in Nids : MetaAddr(n) \in Nat /\ MetaAddr(n) <= Len(nblk[n])
         /\ \A n \in MetaNodes : /\ DiskNode[n] \in NodeBody /\ DiskNode[n].child \in [ChildSlots -> MetaNids \cup {None}]
                                 /\ \A p \in MetaPages : DiskNode[n].addr[p] \in Nat /\ DiskNode[n].addr[p] <= Len(pblk[p])
         /\ \A p \in MetaPages : DiskPage(p) \in [Nids -> Nat] /\ \A n \in Nids : DiskPage(p)[n] <= Len(nblk[n])
         /\ \A n \in Nids : DiskAddr(n) \in Nat /\ DiskAddr(n) <= Len(nblk[n])
<1>1. /\ \A n \in Nids : /\ nblk[n] \in Seq(NodeBody) /\ Len(nblk[n]) \in Nat
                         /\ super[n] \in Entry /\ super[n].addr \in Nat /\ super[n].addr <= Len(nblk[n])
      /\ \A p \in MetaPages : pblk[p] \in Seq([Nids -> Nat]) /\ Len(pblk[p]) \in Nat
  BY LenProperties DEF TypeOK, Entry
\* A node read back.
<1>2. ASSUME NEW n \in Nids, NEW a \in Nat, a <= Len(nblk[n])
      PROVE  /\ Written(nblk[n], a, EmptyNode) \in NodeBody
             /\ \A p \in MetaPages : /\ Written(nblk[n], a, EmptyNode).addr[p] \in Nat
                                     /\ Written(nblk[n], a, EmptyNode).addr[p] <= Len(pblk[p])
  <2>1. \/ Written(nblk[n], a, EmptyNode) = EmptyNode
        \/ a \in 1 .. Len(nblk[n]) /\ Written(nblk[n], a, EmptyNode) = nblk[n][a] /\ nblk[n][a] \in NodeBody
    BY <1>1, <1>2, WrittenEither
  <2>2. CASE Written(nblk[n], a, EmptyNode) = EmptyNode
    BY <2>2, EmptyTyped, <1>1
  <2>3. CASE a \in 1 .. Len(nblk[n]) /\ Written(nblk[n], a, EmptyNode) = nblk[n][a] /\ nblk[n][a] \in NodeBody
    BY <2>3 DEF AddressesOK, NodeBody
  <2> QED
    BY <2>1, <2>2, <2>3
\* A page read back.
<1>3. ASSUME NEW p \in MetaPages, NEW a \in Nat, a <= Len(pblk[p])
      PROVE  /\ Written(pblk[p], a, EmptyPage) \in [Nids -> Nat]
             /\ \A n \in Nids : Written(pblk[p], a, EmptyPage)[n] <= Len(nblk[n])
  <2>1. \/ Written(pblk[p], a, EmptyPage) = EmptyPage
        \/ a \in 1 .. Len(pblk[p]) /\ Written(pblk[p], a, EmptyPage) = pblk[p][a] /\ pblk[p][a] \in [Nids -> Nat]
    BY <1>1, <1>3, WrittenEither
  <2>2. CASE Written(pblk[p], a, EmptyPage) = EmptyPage
    BY <2>2, EmptyTyped, <1>1
  <2>3. CASE a \in 1 .. Len(pblk[p]) /\ Written(pblk[p], a, EmptyPage) = pblk[p][a] /\ pblk[p][a] \in [Nids -> Nat]
    BY <2>3 DEF AddressesOK
  <2> QED
    BY <2>1, <2>2, <2>3
<1>4. DiskN0 \in [Nids -> Nat] /\ \A n \in Nids : DiskN0[n] <= Len(nblk[n])
  <2>1. PICK meta : meta = Written(nblk[MetaIno], super[MetaIno].addr, EmptyNode)
    OBVIOUS
  <2>2. meta.addr["N0"] \in Nat /\ meta.addr["N0"] <= Len(pblk["N0"])
    BY <2>1, <1>1, <1>2, NidsFacts DEF MetaPages
  <2>3. DiskN0 = Written(pblk["N0"], meta.addr["N0"], EmptyPage)
    BY <2>1 DEF DiskN0
  <2> QED
    BY <2>2, <2>3, <1>3 DEF MetaPages
<1>5. \A n \in Nids : MetaAddr(n) \in Nat /\ MetaAddr(n) <= Len(nblk[n])
  BY <1>1, <1>4 DEF MetaAddr
<1>6. \A n \in MetaNodes : /\ DiskNode[n] \in NodeBody /\ DiskNode[n].child \in [ChildSlots -> MetaNids \cup {None}]
                           /\ \A p \in MetaPages : DiskNode[n].addr[p] \in Nat /\ DiskNode[n].addr[p] <= Len(pblk[p])
  <2> SUFFICES ASSUME NEW n \in MetaNodes
               PROVE  /\ DiskNode[n] \in NodeBody
                      /\ \A p \in MetaPages : DiskNode[n].addr[p] \in Nat /\ DiskNode[n].addr[p] <= Len(pblk[p])
    BY DEF NodeBody
  <2>1. DiskNode[n] = Written(nblk[n], MetaAddr(n), EmptyNode) /\ n \in Nids
    BY NidsFacts DEF DiskNode
  <2> QED
    BY <2>1, <1>2, <1>5
<1>7. \A p \in MetaPages : DiskPage(p) \in [Nids -> Nat] /\ \A n \in Nids : DiskPage(p)[n] <= Len(nblk[n])
  <2> SUFFICES ASSUME NEW p \in MetaPages
               PROVE  DiskPage(p) \in [Nids -> Nat] /\ \A n \in Nids : DiskPage(p)[n] <= Len(nblk[n])
    OBVIOUS
  <2>1. PICK d : d = Dnode(DiskNode, p)
    OBVIOUS
  <2>2. d \in MetaNodes \cup {None}
    BY <2>1, <1>6, DnodeFacts
  <2>3. CASE d = None
    BY <2>1, <2>3, EmptyTyped, <1>1 DEF DiskPage
  <2>4. CASE d # None
    <3>1. DiskPage(p) = Written(pblk[p], DiskNode[d].addr[p], EmptyPage) /\ d \in MetaNodes
      BY <2>1, <2>2, <2>4 DEF DiskPage
    <3> QED
      BY <3>1, <1>3, <1>6
  <2> QED
    BY <2>3, <2>4
<1>8. \A n \in Nids : DiskAddr(n) \in Nat /\ DiskAddr(n) <= Len(nblk[n])
  BY <1>1, <1>5, <1>7, NatPageFacts DEF DiskAddr
<1> QED
  BY <1>4, <1>5, <1>6, <1>7, <1>8

\* Blocks are only appended: without a new superblock every mount finds the same.
LEMMA DiskStable ==
  ASSUME TypeOK, AddressesOK, super' = super,
         \A n \in Nids : \A i \in 1 .. Len(nblk[n]) : nblk'[n][i] = nblk[n][i],
         \A p \in MetaPages : \A i \in 1 .. Len(pblk[p]) : pblk'[p][i] = pblk[p][i]
  PROVE  \A n \in Nids : DiskAddr(n)' = DiskAddr(n)
<1>1. /\ \A n \in Nids : /\ nblk[n] \in Seq(NodeBody) /\ Len(nblk[n]) \in Nat
                         /\ super[n] \in Entry /\ super[n].addr \in Nat /\ super[n].addr <= Len(nblk[n])
      /\ \A p \in MetaPages : pblk[p] \in Seq([Nids -> Nat]) /\ Len(pblk[p]) \in Nat
  BY LenProperties DEF TypeOK, Entry
<1>2. ASSUME NEW n \in Nids, NEW a \in Nat, a <= Len(nblk[n])
      PROVE  Written(nblk'[n], a, EmptyNode) = Written(nblk[n], a, EmptyNode)
  BY <1>1, <1>2 DEF Written
<1>3. ASSUME NEW p \in MetaPages, NEW a \in Nat, a <= Len(pblk[p])
      PROVE  Written(pblk'[p], a, EmptyPage) = Written(pblk[p], a, EmptyPage)
  BY <1>1, <1>3 DEF Written
<1>4. DiskN0' = DiskN0
  <2>1. PICK meta : meta = Written(nblk[MetaIno], super[MetaIno].addr, EmptyNode)
    OBVIOUS
  <2>2. Written(nblk[MetaIno], super[MetaIno].addr, EmptyNode)' = meta
    BY <2>1, <1>1, <1>2, NidsFacts
  <2>3. meta.addr["N0"] \in Nat /\ meta.addr["N0"] <= Len(pblk["N0"])
    <3>1. \/ meta = EmptyNode
          \/ super[MetaIno].addr \in 1 .. Len(nblk[MetaIno]) /\ meta = nblk[MetaIno][super[MetaIno].addr] /\ meta \in NodeBody
      BY <2>1, <1>1, WrittenEither, NidsFacts
    <3>2. CASE meta = EmptyNode
      BY <3>2, EmptyTyped, <1>1 DEF MetaPages
    <3>3. CASE super[MetaIno].addr \in 1 .. Len(nblk[MetaIno]) /\ meta = nblk[MetaIno][super[MetaIno].addr] /\ meta \in NodeBody
      BY <3>3, NidsFacts DEF AddressesOK, NodeBody, MetaPages
    <3> QED
      BY <3>1, <3>2, <3>3
  <2>4. DiskN0 = Written(pblk["N0"], meta.addr["N0"], EmptyPage)
    BY <2>1 DEF DiskN0
  <2>5. DiskN0' = Written(pblk'["N0"], meta.addr["N0"], EmptyPage)
    BY <2>2 DEF DiskN0
  <2> QED
    BY <2>3, <2>4, <2>5, <1>3 DEF MetaPages
<1>5. \A n \in Nids : MetaAddr(n)' = MetaAddr(n)
  BY <1>4 DEF MetaAddr
<1>6. DiskNode' = DiskNode
  <2>1. \A n \in MetaNodes : Written(nblk'[n], MetaAddr(n)', EmptyNode) = Written(nblk[n], MetaAddr(n), EmptyNode)
    BY <1>5, <1>2, DiskTyped, NidsFacts
  <2> QED
    BY <2>1 DEF DiskNode
<1>7. \A p \in MetaPages : DiskPage(p)' = DiskPage(p)
  <2> SUFFICES ASSUME NEW p \in MetaPages
               PROVE  DiskPage(p)' = DiskPage(p)
    OBVIOUS
  <2>1. PICK d : d = Dnode(DiskNode, p)
    OBVIOUS
  <2>2. Dnode(DiskNode, p)' = d /\ d \in MetaNodes \cup {None}
    BY <2>1, <1>6, DiskTyped, DnodeFacts DEF Dnode, Ind
  <2>3. CASE d = None
    BY <2>1, <2>2, <2>3 DEF DiskPage
  <2>4. CASE d # None
    <3>1. PICK a : a = DiskNode[d].addr[p]
      OBVIOUS
    <3>2. a \in Nat /\ a <= Len(pblk[p])
      BY <3>1, <2>2, <2>4, DiskTyped
    <3>3. DiskPage(p) = Written(pblk[p], a, EmptyPage)
      BY <2>1, <2>4, <3>1 DEF DiskPage
    <3>4. DiskPage(p)' = Written(pblk'[p], a, EmptyPage)
      BY <2>2, <2>4, <3>1, <1>6 DEF DiskPage
    <3> QED
      BY <3>2, <3>3, <3>4, <1>3
  <2> QED
    BY <2>3, <2>4
<1>8. \A n \in Nids : super'[n] = super[n]
  OBVIOUS
<1> QED
  <2> SUFFICES ASSUME NEW n \in Nids
               PROVE  DiskAddr(n)' = DiskAddr(n)
    OBVIOUS
  <2>1. NatPage(n) \in MetaPages
    BY NatPageFacts
  <2>2. DiskPage(NatPage(n))' = DiskPage(NatPage(n))
    BY <2>1, <1>7
  <2> QED
    BY <2>2, <1>5, <1>8 DEF DiskAddr

\* One entry appended to a superblock.
LEMMA AppendNat ==
  ASSUME NEW sb \in [Nids -> Entry], NEW n \in Nids, NEW a \in Nat
  PROVE  /\ cp_append_nat(sb, n, a) \in [Nids -> Entry]
         /\ cp_append_nat(sb, n, a)[n].addr = a
         /\ \A m \in Nids : m # n => cp_append_nat(sb, n, a)[m] = sb[m]
BY DEF cp_append_nat, Entry

LEMMA EmptySuperTyped ==
  /\ EmptySuper \in [Nids -> Entry] /\ \A n \in Nids : EmptySuper[n].addr = 0
BY DEF EmptySuper, NoEntry, Entry

-----------------------------------------------------------------------------
(* The invariant holds at first. *)

LEMMA InitHolds == Init => IInv
<1> SUFFICES ASSUME Init
             PROVE  IInv
  OBVIOUS
<1>1. /\ \A n \in Nids : /\ node[n] = EmptyNode /\ nat[n] = [addr |-> 0, dirty |-> FALSE, used |-> FALSE]
                         /\ cpsb[n] = NoEntry
      /\ \A p \in MetaPages : page[p] = EmptyPage /\ pblk[p] = <<>>
      /\ ndirty = {} /\ pdirty = {} /\ phase = "down" /\ tosync = {} /\ sessions = 0
  BY DEF Init, NoNode, NoPage, NoNat, EmptySuper
<1>2. /\ \A n \in Nids : nblk[n] = IF n \in {MetaIno, RootIno} THEN <<EmptyNode>> ELSE <<>>
      /\ \A n \in Nids : super[n] = IF n \in {MetaIno, RootIno} THEN [addr |-> 1, moved |-> FALSE] ELSE NoEntry
      /\ MetaIno \in Nids /\ RootIno \in Nids
  BY NidsFacts DEF Init
<1>3. /\ \A n \in Nids : super[n] \in Entry /\ super[n].addr = IF n \in {MetaIno, RootIno} THEN 1 ELSE 0
      /\ \A n \in Nids : Len(nblk[n]) = IF n \in {MetaIno, RootIno} THEN 1 ELSE 0
      /\ \A n \in Nids : nblk[n] \in Seq(NodeBody) /\ \A i \in 1 .. Len(nblk[n]) : nblk[n][i] = EmptyNode
  <2>1. NoEntry \in Entry /\ NoEntry.addr = 0 /\ [addr |-> 1, moved |-> FALSE] \in Entry
    BY DEF NoEntry, Entry
  <2>2. \A n \in Nids : super[n] \in Entry /\ super[n].addr = IF n \in {MetaIno, RootIno} THEN 1 ELSE 0
    BY <1>2, <2>1
  <2>3. PICK one : one = <<EmptyNode>>
    OBVIOUS
  <2>4. one \in Seq(NodeBody) /\ Len(one) = 1 /\ one[1] = EmptyNode
    BY <2>3, EmptyTyped
  <2>5. \A i \in 1 .. Len(one) : one[i] = EmptyNode
    BY <2>4
  <2>6. PICK none : none = <<>>
    OBVIOUS
  <2>7. none \in Seq(NodeBody) /\ Len(none) = 0 /\ \A i \in 1 .. Len(none) : none[i] = EmptyNode
    BY <2>6
  <2>8. \A n \in Nids : nblk[n] = IF n \in {MetaIno, RootIno} THEN one ELSE none
    BY <1>2, <2>3, <2>6
  <2> QED
    BY <2>2, <2>4, <2>5, <2>7, <2>8
<1>4. TypeOK
  <2>1. nblk \in [Nids -> Seq(NodeBody)] /\ super \in [Nids -> Entry]
    BY <1>3 DEF Init
  <2>2. pblk \in [MetaPages -> Seq([Nids -> Nat])] /\ cpsb \in [Nids -> Entry]
    BY EmptySuperTyped DEF Init
  <2>3. node \in [Nids -> NodeBody] /\ page \in [MetaPages -> [Nids -> Nat]]
    BY EmptyTyped DEF Init, NoNode, NoPage
  <2>4. nat \in [Nids -> [addr : Nat, dirty : BOOLEAN, used : BOOLEAN]]
    BY DEF Init, NoNat
  <2>5. \A n \in Nids : nat[n].addr <= Len(nblk[n]) /\ super[n].addr <= Len(nblk[n])
    BY <1>1, <1>3
  <2>6. mods \in 0 .. MaxMods /\ restarts \in 0 .. MaxRestarts /\ crashes \in 0 .. MaxCrashes /\ sessions \in 0 .. MaxSessions
    BY NidsAssumption DEF Init
  <2>7. zdirty \in BOOLEAN /\ restart \in BOOLEAN /\ phase \in Phases
    BY DEF Init, Phases
  <2> QED
    BY <1>1, <2>1, <2>2, <2>3, <2>4, <2>5, <2>6, <2>7 DEF TypeOK
<1>5. AddressesOK
  <2>1. \A n \in Nids : cpsb[n].addr <= Len(nblk[n])
    BY <1>1, <1>3 DEF NoEntry
  <2>2. \A n \in Nids, p \in MetaPages : page[p][n] <= Len(nblk[n]) /\ node[n].addr[p] <= Len(pblk[p])
    BY <1>1, <1>3, EmptyTyped
  <2>3. \A p \in MetaPages : \A i \in 1 .. Len(pblk[p]) : \A n \in Nids : pblk[p][i][n] <= Len(nblk[n])
    BY <1>1
  <2>4. \A n \in Nids : \A i \in 1 .. Len(nblk[n]) : \A p \in MetaPages : nblk[n][i].addr[p] <= Len(pblk[p])
    BY <1>1, <1>3, EmptyTyped
  <2> QED
    BY <2>1, <2>2, <2>3, <2>4 DEF AddressesOK
<1>6. PathsOK
  BY <1>1, <1>3, NidsFacts DEF PathsOK, NoEntry, Phase2
<1>7. RootsOK
  BY <1>1, <1>3, NidsFacts DEF RootsOK, NoEntry
<1>8. FirstOK
  BY <1>1, <1>2, <1>3, NidsFacts DEF FirstOK, Fresh, Init
<1> QED
  BY <1>4, <1>5, <1>6, <1>7, <1>8 DEF IInv

-----------------------------------------------------------------------------
(* The system goes down. *)

\* The values of the variables, one by one.
LEMMA Typed ==
  ASSUME TypeOK
  PROVE  /\ \A n \in Nids : /\ nblk[n] \in Seq(NodeBody) /\ Len(nblk[n]) \in Nat
                            /\ super[n] \in Entry /\ super[n].addr \in Nat /\ super[n].moved \in BOOLEAN
                            /\ super[n].addr <= Len(nblk[n])
                            /\ cpsb[n] \in Entry /\ cpsb[n].addr \in Nat
                            /\ nat[n].addr \in Nat /\ nat[n].addr <= Len(nblk[n])
                            /\ nat[n].dirty \in BOOLEAN /\ nat[n].used \in BOOLEAN
         /\ \A p \in MetaPages : pblk[p] \in Seq([Nids -> Nat]) /\ Len(pblk[p]) \in Nat /\ page[p] \in [Nids -> Nat]
BY LenProperties DEF TypeOK, Entry

LEMMA ForgetKeeps ==
  ASSUME IInv, Forget, UNCHANGED <<nblk, pblk, mods>>, restarts' \in 0 .. MaxRestarts,
         crashes' \in 0 .. MaxCrashes, sessions' \in 0 .. MaxSessions,
         super' \in [Nids -> Entry], \A n \in Nids : super'[n].addr <= Len(nblk[n]),
         \A r \in RegNids : super'[r].addr = 0,
         super'[MetaIno].addr # 0 /\ super'[RootIno].addr # 0,
         sessions' = 0 => sessions = 0 /\ super' = super
  PROVE  IInv'
<1>1. /\ \A n \in Nids : /\ node'[n] = EmptyNode /\ nat'[n] = [addr |-> 0, dirty |-> FALSE, used |-> FALSE]
                         /\ cpsb'[n] = NoEntry
      /\ \A p \in MetaPages : page'[p] = EmptyPage
      /\ ndirty' = {} /\ pdirty' = {} /\ phase' = "down" /\ tosync' = {} /\ nblk' = nblk /\ pblk' = pblk
  BY DEF Forget, NoNode, NoPage, NoNat, EmptySuper
<1>2. /\ \A n \in Nids : Len(nblk[n]) \in Nat
      /\ \A p \in MetaPages : Len(pblk[p]) \in Nat
  BY Typed DEF IInv
<1>3. TypeOK'
  <2>1. node' \in [Nids -> NodeBody] /\ page' \in [MetaPages -> [Nids -> Nat]] /\ cpsb' \in [Nids -> Entry]
    BY EmptyTyped, EmptySuperTyped DEF Forget, NoNode, NoPage
  <2>2. nat' \in [Nids -> [addr : Nat, dirty : BOOLEAN, used : BOOLEAN]]
    BY DEF Forget, NoNat
  <2>3. \A n \in Nids : nat'[n].addr <= Len(nblk'[n]) /\ super'[n].addr <= Len(nblk'[n])
    BY <1>1, <1>2
  <2>4. nblk' \in [Nids -> Seq(NodeBody)] /\ pblk' \in [MetaPages -> Seq([Nids -> Nat])] /\ mods' \in 0 .. MaxMods
    BY DEF IInv, TypeOK
  <2>5. zdirty' \in BOOLEAN /\ restart' \in BOOLEAN /\ phase' \in Phases
    BY DEF Forget, Phases
  <2> QED
    BY <1>1, <2>1, <2>2, <2>3, <2>4, <2>5 DEF TypeOK
<1>4. AddressesOK'
  <2>1. \A n \in Nids : cpsb'[n].addr <= Len(nblk'[n])
    BY <1>1, <1>2 DEF NoEntry
  <2>2. \A n \in Nids, p \in MetaPages : page'[p][n] <= Len(nblk'[n]) /\ node'[n].addr[p] <= Len(pblk'[p])
    BY <1>1, <1>2, EmptyTyped
  <2> QED
    BY <1>1, <2>1, <2>2 DEF AddressesOK, IInv
<1>5. PathsOK'
  BY <1>1, NidsFacts DEF PathsOK, NoEntry, Phase2
<1>6. RootsOK'
  BY <1>1, NidsFacts DEF RootsOK, NoEntry
<1>7. FirstOK'
  BY <1>1 DEF FirstOK, Fresh, IInv
<1> QED
  BY <1>3, <1>4, <1>5, <1>6, <1>7 DEF IInv

LEMMA CrashKeeps ==
  ASSUME IInv, Crash
  PROVE  IInv'
<1>1. /\ super' = super /\ sessions' = sessions /\ restarts' = restarts /\ UNCHANGED <<nblk, pblk, mods>> /\ Forget
  BY DEF Crash, diskVars
<1>2. crashes' \in 0 .. MaxCrashes
  BY NidsAssumption DEF Crash, IInv, TypeOK
<1>3. /\ super \in [Nids -> Entry] /\ \A n \in Nids : super[n].addr <= Len(nblk[n])
      /\ \A r \in RegNids : super[r].addr = 0
      /\ super[MetaIno].addr # 0 /\ super[RootIno].addr # 0
      /\ restarts \in 0 .. MaxRestarts /\ sessions \in 0 .. MaxSessions
  BY DEF IInv, TypeOK, PathsOK, RootsOK
<1> QED
  BY <1>1, <1>2, <1>3, ForgetKeeps

LEMMA SuperBlockKeeps ==
  ASSUME IInv, flush_super_block
  PROVE  IInv'
<1>1. /\ sessions' = sessions + 1 /\ restarts' = restarts /\ crashes' = crashes
      /\ UNCHANGED <<nblk, pblk, mods>> /\ Forget /\ phase = "unmount" /\ super' \in {super, cpsb}
  BY DEF flush_super_block
<1>2. /\ restarts \in 0 .. MaxRestarts /\ crashes \in 0 .. MaxCrashes
      /\ sessions \in 0 .. MaxSessions /\ sessions < MaxSessions
  BY <1>1 DEF IInv, TypeOK, RootsOK
<1>3. sessions' \in 0 .. MaxSessions /\ sessions' # 0
  BY <1>1, <1>2, NidsAssumption
<1>4. /\ super' \in [Nids -> Entry] /\ \A n \in Nids : super'[n].addr <= Len(nblk[n])
      /\ \A r \in RegNids : super'[r].addr = 0
      /\ super'[MetaIno].addr # 0 /\ super'[RootIno].addr # 0
  <2>1. CASE super' = super
    BY <2>1 DEF IInv, TypeOK, PathsOK, RootsOK
  <2>2. CASE super' = cpsb
    BY <2>2, <1>1, NidsFacts DEF IInv, TypeOK, PathsOK, RootsOK, AddressesOK
  <2> QED
    BY <1>1, <2>1, <2>2
<1> QED
  BY <1>1, <1>2, <1>3, <1>4, ForgetKeeps

-----------------------------------------------------------------------------
(* A mount. *)

\* Until the first superblock after mkfs's, a mount finds two empty inodes.
LEMMA FreshDisk ==
  ASSUME TypeOK, Fresh
  PROVE  /\ \A n \in Nids : DiskAddr(n) = IF n \in {MetaIno, RootIno} THEN 1 ELSE 0
         /\ \A n \in MetaNodes : DiskNode[n] = EmptyNode
         /\ \A p \in MetaPages : DiskPage(p) = EmptyPage
         /\ \A n \in Nids : super[n].moved = FALSE
<1>1. /\ \A n \in Nids : super[n] = IF n \in {MetaIno, RootIno} THEN [addr |-> 1, moved |-> FALSE] ELSE NoEntry
      /\ nblk[MetaIno][1] = EmptyNode /\ nblk[RootIno][1] = EmptyNode
  BY DEF Fresh
<1>2. \A n \in Nids : super[n].addr = (IF n \in {MetaIno, RootIno} THEN 1 ELSE 0) /\ super[n].moved = FALSE
  BY <1>1 DEF NoEntry
<1>3. DiskN0 = EmptyPage
  <2>1. Written(nblk[MetaIno], super[MetaIno].addr, EmptyNode) = EmptyNode
    BY <1>1, <1>2, NidsFacts DEF Written
  <2>2. EmptyNode.addr["N0"] = 0
    BY EmptyTyped DEF MetaPages
  <2> QED
    BY <2>1, <2>2 DEF DiskN0, Written
<1>4. \A n \in Nids : MetaAddr(n) = IF n \in {MetaIno, RootIno} THEN 1 ELSE 0
  BY <1>2, <1>3, EmptyTyped DEF MetaAddr
<1>5. \A n \in MetaNodes : DiskNode[n] = EmptyNode
  <2>1. \A n \in MetaNodes : Written(nblk[n], MetaAddr(n), EmptyNode) = EmptyNode
    BY <1>1, <1>4, NidsFacts DEF Written
  <2> QED
    BY <2>1 DEF DiskNode
<1>6. \A p \in MetaPages : DiskPage(p) = EmptyPage
  <2> SUFFICES ASSUME NEW p \in MetaPages
               PROVE  DiskPage(p) = EmptyPage
    OBVIOUS
  <2>1. Dnode(DiskNode, p) \in {MetaIno, None}
    BY <1>5, EmptyTyped, NidsFacts DEF Dnode, Ind, ChildSlots
  <2>2. DiskNode[MetaIno].addr[p] = 0
    BY <1>5, EmptyTyped, NidsFacts
  <2> QED
    BY <2>1, <2>2 DEF DiskPage, Written
<1>7. \A n \in Nids : DiskAddr(n) = IF n \in {MetaIno, RootIno} THEN 1 ELSE 0
  BY <1>2, <1>4, <1>6, EmptyTyped, NatPageFacts, NidsFacts DEF DiskAddr
<1> QED
  BY <1>2, <1>5, <1>6, <1>7

LEMMA MountKeeps ==
  ASSUME IInv, Mount
  PROVE  IInv'
<1>1. /\ \A n \in Nids : node'[n] = (IF n \in MetaNodes THEN DiskNode[n] ELSE EmptyNode)
      /\ \A p \in MetaPages : page'[p] = DiskPage(p)
      /\ \A n \in Nids : nat'[n] = [addr |-> DiskAddr(n), dirty |-> super[n].moved, used |-> DiskAddr(n) # 0]
      /\ phase = "down" /\ phase' = "run" /\ zdirty' = TRUE
      /\ nblk' = nblk /\ pblk' = pblk /\ super' = super /\ ndirty' = ndirty /\ pdirty' = pdirty /\ tosync' = tosync
      /\ cpsb' = cpsb /\ restart' = restart /\ mods' = mods /\ restarts' = restarts
      /\ crashes' = crashes /\ sessions' = sessions
  BY DEF Mount, diskVars, boundVars
<1>2. TypeOK /\ AddressesOK /\ PathsOK /\ RootsOK /\ FirstOK
  BY DEF IInv
<1>3. ndirty = {} /\ pdirty = {} /\ \A n \in Nids : cpsb[n].addr = 0
  BY <1>1, <1>2 DEF RootsOK
<1>7. \A n \in Nids : nat'[n].addr = DiskAddr(n) /\ (nat'[n].used <=> DiskAddr(n) # 0)
  <2> SUFFICES ASSUME NEW n \in Nids
               PROVE  nat'[n].addr = DiskAddr(n) /\ (nat'[n].used <=> DiskAddr(n) # 0)
    OBVIOUS
  <2>1. CASE DiskAddr(n) # 0
    <3>1. nat'[n] = [addr |-> DiskAddr(n), dirty |-> super[n].moved, used |-> TRUE]
      BY <2>1, <1>1
    <3> QED
      BY <2>1, <3>1
  <2>2. CASE DiskAddr(n) = 0
    <3>1. nat'[n] = [addr |-> 0, dirty |-> super[n].moved, used |-> FALSE]
      BY <2>2, <1>1
    <3> QED
      BY <2>2, <3>1
  <2> QED
    BY <2>1, <2>2
<1>4. \A n \in Nids : node'[n] \in NodeBody /\ \A p \in MetaPages : node'[n].addr[p] <= Len(pblk[p])
  BY <1>1, <1>2, DiskTyped, EmptyTyped, Typed
<1>5. TypeOK'
  <2>1. node' \in [Nids -> NodeBody]
    BY <1>4 DEF Mount
  <2>2. page' \in [MetaPages -> [Nids -> Nat]]
    BY <1>2, DiskTyped DEF Mount
  <2>3. nat' \in [Nids -> [addr : Nat, dirty : BOOLEAN, used : BOOLEAN]]
    BY <1>2, DiskTyped, Typed DEF Mount
  <2>4. \A n \in Nids : nat'[n].addr <= Len(nblk[n])
    BY <1>7, <1>2, DiskTyped
  <2>5. zdirty' \in BOOLEAN /\ phase' \in Phases
    BY <1>1 DEF Phases
  <2> QED
    BY <1>1, <1>2, <2>1, <2>2, <2>3, <2>4, <2>5 DEF TypeOK
<1>6. AddressesOK'
  <2>1. \A p \in MetaPages, n \in Nids : page'[p][n] <= Len(nblk[n])
    BY <1>1, <1>2, DiskTyped
  <2> QED
    BY <1>1, <1>2, <1>4, <2>1 DEF AddressesOK
<1>8. PathsOK'
  <2>1. ASSUME NEW r \in RegNids, nat'[r].used
        PROVE  Dnode(node', "N1") # None
    <3>1. super[r].addr = 0 /\ r \notin MetaNodes /\ r \in Nids /\ NatPage(r) \in {"N1", "N2"}
      BY <1>2, NatPageFacts, NidsFacts DEF PathsOK
    <3>2. DiskPage(NatPage(r))[r] # 0
      BY <2>1, <3>1, <1>7 DEF DiskAddr
    <3>3. Dnode(DiskNode, NatPage(r)) # None
      BY <3>1, <3>2, EmptyTyped DEF DiskPage
    <3>4. Dnode(DiskNode, "N1") # None
      BY <3>1, <3>3, <1>2, DiskTyped, DnodeFacts
    <3>5. Ind(node') = Ind(DiskNode) /\ Ind(DiskNode) \in MetaNids \cup {None}
      BY <1>1, <1>2, DiskTyped, DnodeFacts, NidsFacts DEF Ind
    <3>6. Dnode(node', "N1") = Dnode(DiskNode, "N1")
      BY <3>5, <1>1, NidsFacts DEF Dnode
    <3> QED
      BY <3>4, <3>6
  <2> QED
    BY <1>1, <1>2, <1>3, <2>1 DEF PathsOK, Phase2
<1>9. RootsOK'
  <2>1. nat'[MetaIno].addr # 0 /\ nat'[RootIno].addr # 0
    BY <1>7, <1>2, NidsFacts DEF RootsOK, DiskAddr, MetaAddr
  <2>2. nblk[MetaIno][nat'[MetaIno].addr] = node'[MetaIno]
    <3>1. DiskAddr(MetaIno) = MetaAddr(MetaIno) /\ node'[MetaIno] = DiskNode[MetaIno]
      BY <1>1, NidsFacts DEF DiskAddr
    <3>2. DiskNode[MetaIno] = Written(nblk[MetaIno], MetaAddr(MetaIno), EmptyNode)
      BY NidsFacts DEF DiskNode
    <3> QED
      BY <3>1, <3>2, <2>1, <1>7, NidsFacts DEF Written
  <2> QED
    BY <1>1, <1>2, <1>3, <2>1, <2>2 DEF RootsOK
<1>10. FirstOK'
  <2> SUFFICES ASSUME sessions = 0
               PROVE  Fresh' /\ UnusedOK' /\ CleanOK' /\ RecordedOK'
    BY <1>1 DEF FirstOK
  <2>1. Fresh
    BY <1>2 DEF FirstOK
  <2>2. /\ \A n \in Nids : node'[n] = EmptyNode /\ nat'[n].addr = (IF n \in {MetaIno, RootIno} THEN 1 ELSE 0)
                           /\ (nat'[n].used <=> n \in {MetaIno, RootIno})
        /\ \A p \in MetaPages : page'[p] = EmptyPage
    BY <2>1, <1>1, <1>2, <1>7, FreshDisk
  <2>3. UnusedOK'
    BY <2>2, <1>1, <1>3, EmptyTyped, NatPageFacts DEF UnusedOK
  <2>4. CleanOK'
    <3>1. \A n \in MetaNodes : node'[n] = Written(nblk[n], nat'[n].addr, EmptyNode)
      BY <2>1, <2>2, NidsFacts DEF Written, Fresh
    <3>2. \A p \in MetaPages : Stored(p)' = EmptyPage
      <4> SUFFICES ASSUME NEW p \in MetaPages
                   PROVE  Stored(p)' = EmptyPage
        OBVIOUS
      <4>1. Dnode(node', p) \in {MetaIno, None}
        BY <2>2, EmptyTyped, NidsFacts DEF Dnode, Ind, ChildSlots
      <4>2. node'[MetaIno].addr[p] = 0
        BY <2>2, EmptyTyped, NidsFacts
      <4> QED
        BY <4>1, <4>2 DEF Stored, Written
    <3> QED
      BY <3>1, <3>2, <2>2, <1>1 DEF CleanOK
  <2>5. RecordedOK'
    BY <2>2, <1>1 DEF RecordedOK, Entries, Phase2
  <2> QED
    BY <2>1, <2>3, <2>4, <2>5, <1>1 DEF Fresh
<1> QED
  BY <1>5, <1>6, <1>8, <1>9, <1>10 DEF IInv

-----------------------------------------------------------------------------
(* Steps of do_checkpoint from one phase to the next. *)

LEMMA PhaseKeeps ==
  ASSUME IInv, UNCHANGED <<diskVars, cacheVars, nat, zdirty, boundVars>>,
         phase # "down", phase' \in Phases \ {"run", "down"}, sessions < MaxSessions,
         tosync' \subseteq ndirty, restart' \in BOOLEAN,
         cpsb' \in [Nids -> Entry], \A n \in Nids : cpsb'[n].addr <= Len(nblk[n]),
         \A r \in RegNids : cpsb'[r].addr = 0,
         phase' \in Phase2 \cup {"append", "unmount"} => ndirty \cap RegNids = {},
         phase' \in {"metanodes", "append", "unmount"} => pdirty = {},
         phase' \in {"append", "unmount"} => ndirty \cap MetaNodes = {},
         phase' = "unmount" =>
           /\ cpsb'[MetaIno].addr # 0 /\ nblk[MetaIno][cpsb'[MetaIno].addr] = node[MetaIno]
           /\ cpsb'[RootIno].addr = nat[RootIno].addr,
         sessions = 0 => RecordedOK' /\ \A n \in Nids : ~nat[n].used => cpsb'[n].addr = 0
  PROVE  IInv'
<1>1. /\ nblk' = nblk /\ pblk' = pblk /\ super' = super /\ node' = node /\ ndirty' = ndirty /\ page' = page
      /\ pdirty' = pdirty /\ nat' = nat /\ zdirty' = zdirty /\ mods' = mods /\ restarts' = restarts
      /\ crashes' = crashes /\ sessions' = sessions
  BY DEF diskVars, cacheVars, boundVars
<1>2. TypeOK /\ AddressesOK /\ PathsOK /\ RootsOK /\ FirstOK
  BY DEF IInv
<1>3. TypeOK'
  BY <1>1, <1>2 DEF TypeOK
<1>4. AddressesOK'
  BY <1>1, <1>2 DEF AddressesOK
<1>5. PathsOK'
  BY <1>1, <1>2 DEF PathsOK, Dnode, Ind
<1>6. RootsOK'
  BY <1>1, <1>2 DEF RootsOK
<1>7. FirstOK'
  <2> SUFFICES ASSUME sessions = 0
               PROVE  Fresh' /\ UnusedOK' /\ CleanOK' /\ RecordedOK'
    BY <1>1 DEF FirstOK
  <2>1. Fresh /\ UnusedOK /\ CleanOK
    BY <1>2 DEF FirstOK
  <2>2. Fresh' /\ UnusedOK'
    BY <2>1, <1>1 DEF Fresh, UnusedOK
  <2>3. \A p \in MetaPages : Stored(p)' = Stored(p)
    BY <1>1 DEF Stored, Dnode, Ind
  <2>4. CleanOK'
    BY <2>1, <2>3, <1>1 DEF CleanOK
  <2> QED
    BY <2>2, <2>4
<1> QED
  BY <1>3, <1>4, <1>5, <1>6, <1>7 DEF IInv

LEMMA BeginPassKeeps ==
  ASSUME IInv, BeginPass
  PROVE  IInv'
<1>1. /\ UNCHANGED <<diskVars, cacheVars, nat, zdirty, boundVars>> /\ phase # "down" /\ phase' = "sync"
      /\ cpsb' = EmptySuper /\ tosync' = ndirty /\ restart' = FALSE /\ nat' = nat /\ page' = page
  BY DEF BeginPass, cacheVars
<1>2. sessions < MaxSessions
  BY DEF BeginPass, IInv, RootsOK
<1>3. cpsb' \in [Nids -> Entry] /\ \A n \in Nids : cpsb'[n].addr = 0 /\ Len(nblk[n]) \in Nat
  BY <1>1, EmptySuperTyped, Typed DEF IInv
<1>4. sessions = 0 => RecordedOK'
  BY <1>1, <1>3 DEF IInv, FirstOK, RecordedOK, Entries, Phase2
<1>5. /\ \A n \in Nids : cpsb'[n].addr <= Len(nblk[n])
      /\ \A r \in RegNids : cpsb'[r].addr = 0
  BY <1>3, NidsFacts
<1>6. tosync' \subseteq ndirty /\ restart' \in BOOLEAN
  BY <1>1
<1> QED
  BY <1>1, <1>2, <1>3, <1>4, <1>5, <1>6, PhaseKeeps DEF Phases, Phase2

LEMMA SyncDoneKeeps ==
  ASSUME IInv, SyncDone
  PROVE  IInv'
<1>1. /\ UNCHANGED <<diskVars, cacheVars, nat, zdirty, boundVars>> /\ phase = "sync" /\ phase' = "regnodes"
      /\ cpsb' = cpsb /\ tosync' = tosync /\ restart' = restart /\ nat' = nat /\ page' = page /\ sessions' = sessions
  BY DEF SyncDone, cacheVars, boundVars
<1>2. sessions < MaxSessions
  BY <1>1 DEF IInv, RootsOK
<1>3. /\ cpsb' \in [Nids -> Entry] /\ \A n \in Nids : cpsb'[n].addr <= Len(nblk[n])
      /\ \A r \in RegNids : cpsb'[r].addr = 0
      /\ tosync \subseteq ndirty /\ restart \in BOOLEAN
  BY <1>1 DEF IInv, TypeOK, AddressesOK, PathsOK
<1>4. sessions = 0 => RecordedOK' /\ \A n \in Nids : ~nat[n].used => cpsb'[n].addr = 0
  BY <1>1 DEF IInv, FirstOK, RecordedOK, UnusedOK, Entries, Phase2
<1> QED
  BY <1>1, <1>2, <1>3, <1>4, PhaseKeeps DEF Phases, Phase2

LEMMA RegNodesWrittenKeeps ==
  ASSUME IInv, RegNodesWritten
  PROVE  IInv'
<1>1. /\ UNCHANGED <<diskVars, cacheVars, nat, zdirty, boundVars>> /\ phase = "regnodes" /\ phase' = "nat"
      /\ cpsb' = cpsb /\ tosync' = tosync /\ restart' = restart /\ nat' = nat /\ page' = page /\ sessions' = sessions
      /\ ndirty \cap RegNids = {}
  BY DEF RegNodesWritten, cacheVars, boundVars
<1>2. sessions < MaxSessions
  BY <1>1 DEF IInv, RootsOK
<1>3. /\ cpsb' \in [Nids -> Entry] /\ \A n \in Nids : cpsb'[n].addr <= Len(nblk[n])
      /\ \A r \in RegNids : cpsb'[r].addr = 0
      /\ tosync \subseteq ndirty /\ restart \in BOOLEAN
  BY <1>1 DEF IInv, TypeOK, AddressesOK, PathsOK
<1>4. sessions = 0 => RecordedOK' /\ \A n \in Nids : ~nat[n].used => cpsb'[n].addr = 0
  BY <1>1 DEF IInv, FirstOK, RecordedOK, UnusedOK, Entries, Phase2
<1> QED
  BY <1>1, <1>2, <1>3, <1>4, PhaseKeeps DEF Phases, Phase2

LEMMA MetaPagesWrittenKeeps ==
  ASSUME IInv, MetaPagesWritten
  PROVE  IInv'
<1>1. /\ UNCHANGED <<diskVars, cacheVars, nat, zdirty, boundVars>> /\ phase = "metapages" /\ phase' = "metanodes"
      /\ cpsb' = cpsb /\ tosync' = tosync /\ restart' = restart /\ nat' = nat /\ page' = page /\ sessions' = sessions
      /\ pdirty = {}
  BY DEF MetaPagesWritten, cacheVars, boundVars
<1>2. sessions < MaxSessions
  BY <1>1 DEF IInv, RootsOK
<1>3. /\ cpsb' \in [Nids -> Entry] /\ \A n \in Nids : cpsb'[n].addr <= Len(nblk[n])
      /\ \A r \in RegNids : cpsb'[r].addr = 0 /\ ndirty \cap RegNids = {}
      /\ tosync \subseteq ndirty /\ restart \in BOOLEAN
  BY <1>1 DEF IInv, TypeOK, AddressesOK, PathsOK, Phase2
<1>4. sessions = 0 => RecordedOK' /\ \A n \in Nids : ~nat[n].used => cpsb'[n].addr = 0
  BY <1>1 DEF IInv, FirstOK, RecordedOK, UnusedOK, Entries, Phase2
<1> QED
  BY <1>1, <1>2, <1>3, <1>4, PhaseKeeps DEF Phases, Phase2

LEMMA MetaNodesWrittenKeeps ==
  ASSUME IInv, MetaNodesWritten
  PROVE  IInv'
<1>1. /\ UNCHANGED <<diskVars, cacheVars, nat, zdirty, boundVars>> /\ phase = "metanodes" /\ phase' = "append"
      /\ cpsb' = cpsb /\ tosync' = tosync /\ restart' = restart /\ nat' = nat /\ page' = page /\ sessions' = sessions
      /\ ndirty \cap MetaNodes = {}
  BY DEF MetaNodesWritten, cacheVars, boundVars
<1>2. sessions < MaxSessions /\ pdirty = {}
  BY <1>1 DEF IInv, RootsOK
<1>3. /\ cpsb' \in [Nids -> Entry] /\ \A n \in Nids : cpsb'[n].addr <= Len(nblk[n])
      /\ \A r \in RegNids : cpsb'[r].addr = 0 /\ ndirty \cap RegNids = {}
      /\ tosync \subseteq ndirty /\ restart \in BOOLEAN
  BY <1>1 DEF IInv, TypeOK, AddressesOK, PathsOK, Phase2
<1>4. sessions = 0 => RecordedOK' /\ \A n \in Nids : ~nat[n].used => cpsb'[n].addr = 0
  BY <1>1 DEF IInv, FirstOK, RecordedOK, UnusedOK, Entries, Phase2
<1> QED
  BY <1>1, <1>2, <1>3, <1>4, PhaseKeeps DEF Phases, Phase2

LEMMA AppendRootsKeeps ==
  ASSUME IInv, AppendRoots
  PROVE  IInv'
<1>1. /\ UNCHANGED <<diskVars, cacheVars, nat, zdirty, boundVars>> /\ phase = "append" /\ phase' \in {"restart", "unmount"}
      /\ cpsb' = WithRoots(cpsb) /\ tosync' = tosync /\ restart' = restart /\ nat' = nat /\ page' = page
      /\ sessions' = sessions
  BY DEF AppendRoots, cacheVars, boundVars
<1>2. TypeOK /\ sessions < MaxSessions /\ pdirty = {} /\ ndirty \cap MetaNodes = {} /\ ndirty \cap RegNids = {}
      /\ nat[MetaIno].addr # 0 /\ nat[RootIno].addr # 0 /\ nblk[MetaIno][nat[MetaIno].addr] = node[MetaIno]
  BY <1>1, NidsFacts DEF IInv, RootsOK, PathsOK
<1>3. cpsb \in [Nids -> Entry] /\ MetaIno \in Nids /\ RootIno \in Nids /\ RootIno # MetaIno
      /\ nat[MetaIno].addr \in Nat /\ nat[RootIno].addr \in Nat
  BY <1>2, Typed, NidsFacts DEF TypeOK
<1>4. PICK half : half = cp_append_nat(cpsb, MetaIno, nat[MetaIno].addr)
  OBVIOUS
<1>5. /\ half \in [Nids -> Entry] /\ half[MetaIno].addr = nat[MetaIno].addr
      /\ \A m \in Nids : m # MetaIno => half[m] = cpsb[m]
  BY <1>3, <1>4, AppendNat
<1>6. cpsb' = cp_append_nat(half, RootIno, nat[RootIno].addr)
  BY <1>1, <1>4 DEF WithRoots
<1>7. /\ cpsb' \in [Nids -> Entry] /\ cpsb'[RootIno].addr = nat[RootIno].addr
      /\ \A m \in Nids : m # RootIno => cpsb'[m] = half[m]
  BY <1>3, <1>5, <1>6, AppendNat
<1>8. cpsb'[MetaIno].addr = nat[MetaIno].addr /\ \A m \in Nids : m \notin {MetaIno, RootIno} => cpsb'[m] = cpsb[m]
  BY <1>3, <1>5, <1>7
<1>9. /\ \A n \in Nids : cpsb'[n].addr <= Len(nblk[n])
      /\ \A r \in RegNids : cpsb'[r].addr = 0
      /\ tosync \subseteq ndirty /\ restart \in BOOLEAN
  <2>1. \A n \in Nids : cpsb'[n].addr <= Len(nblk[n])
    BY <1>2, <1>7, <1>8, Typed DEF IInv, AddressesOK
  <2> QED
    BY <2>1, <1>8, NidsFacts DEF IInv, PathsOK, TypeOK
<1>10. ASSUME sessions = 0
       PROVE  RecordedOK' /\ \A n \in Nids : ~nat[n].used => cpsb'[n].addr = 0
  <2>1. RecordedOK /\ UnusedOK
    BY <1>1, <1>10 DEF IInv, FirstOK
  <2>2. nat[MetaIno].used /\ nat[RootIno].used
    BY <2>1, <1>2, <1>3 DEF UnusedOK
  <2>3. \A n \in Nids : ~nat[n].used => cpsb'[n].addr = 0
    BY <2>1, <2>2, <1>8 DEF UnusedOK
  <2>4. \A n \in Entries : cpsb'[n] = cpsb[n]
    BY <1>8 DEF Entries
  <2>5. \A n \in Nids \ {MetaIno} : cpsb'[n].addr # 0 => cpsb'[n].addr = nat[n].addr
    BY <2>1, <1>1, <1>7, <1>8 DEF RecordedOK
  <2> QED
    BY <2>1, <2>3, <2>4, <2>5, <1>1 DEF RecordedOK, Entries, Phase2
<1>11. phase' \in Phases \ {"run", "down"}
  BY <1>1 DEF Phases
<1> QED
  BY <1>1, <1>2, <1>7, <1>8, <1>9, <1>10, <1>11, PhaseKeeps, NidsFacts DEF Phases, Phase2

-----------------------------------------------------------------------------
(* Steps that create the way to a page. *)

LEMMA PathKeeps ==
  ASSUME IInv, NEW p \in {"N1", "Z"}, CreatePath(p), UNCHANGED <<diskVars, page, tosync, cpsb, restart, boundVars>>,
         (phase' = phase /\ phase = "run") \/ (phase' = "metapages" /\ phase = "zit"),
         pdirty' \in {pdirty, pdirty \cup {p}}, zdirty' \in BOOLEAN
  PROVE  IInv'
<1>1. /\ nblk' = nblk /\ pblk' = pblk /\ super' = super /\ page' = page /\ tosync' = tosync /\ cpsb' = cpsb
      /\ restart' = restart /\ mods' = mods /\ restarts' = restarts /\ crashes' = crashes /\ sessions' = sessions
  BY DEF diskVars, boundVars
<1>2. TypeOK /\ AddressesOK /\ PathsOK /\ RootsOK /\ FirstOK
  BY DEF IInv
<1>3. /\ node' \in [Nids -> NodeBody] /\ ndirty \subseteq ndirty' /\ ndirty' \subseteq ndirty \cup MetaNodes
      /\ nat' \in [Nids -> [addr : Nat, dirty : BOOLEAN, used : BOOLEAN]]
      /\ \A n \in Nids : node'[n].addr = node[n].addr
      /\ \A n \in Nids : node'[n] # node[n] => n \in ndirty'
      /\ \A n \in Nids : /\ nat'[n] # nat[n] => n \in FreeMeta /\ nat'[n] = [addr |-> 0, dirty |-> TRUE, used |-> TRUE]
                         /\ nat[n].used => nat'[n] = nat[n]
      /\ \A q \in MetaPages : Dnode(node, q) # None => Dnode(node', q) = Dnode(node, q)
      /\ Dnode(node', p) # None
  BY <1>2, PathCreated
<1>4. \A n \in Nids : /\ nat'[n] = nat[n] \/ (n \in FreeMeta /\ nat'[n].addr = 0 /\ nat'[n].dirty /\ nat'[n].used)
                      /\ n \notin MetaNids => nat'[n] = nat[n]
  <2> SUFFICES ASSUME NEW n \in Nids, nat'[n] # nat[n]
               PROVE  n \in FreeMeta /\ nat'[n].addr = 0 /\ nat'[n].dirty /\ nat'[n].used
    BY DEF FreeMeta
  <2>1. n \in FreeMeta /\ nat'[n] = [addr |-> 0, dirty |-> TRUE, used |-> TRUE]
    BY <1>3
  <2> QED
    BY <2>1
<1>5. /\ MetaIno \in Nids /\ RootIno \in Nids /\ MetaIno \notin MetaNids /\ RootIno \notin MetaNids
      /\ \A r \in RegNids : r \notin MetaNids /\ r \in Nids
      /\ p \in MetaPages
  BY NidsFacts DEF MetaPages
<1>6. TypeOK'
  <2>1. \A n \in Nids : nat'[n].addr <= Len(nblk[n])
    BY <1>2, <1>4, Typed
  <2>2. ndirty' \subseteq Nids
    BY <1>2, <1>3, NidsFacts DEF TypeOK
  <2>3. phase' \in Phases /\ pdirty' \subseteq MetaPages
    BY <1>2, <1>5 DEF Phases, TypeOK
  <2>4. tosync' \subseteq ndirty'
    BY <1>1, <1>2, <1>3 DEF TypeOK
  <2> QED
    BY <1>1, <1>2, <1>3, <2>1, <2>2, <2>3, <2>4 DEF TypeOK
<1>7. AddressesOK'
  BY <1>1, <1>2, <1>3 DEF AddressesOK
<1>8. PathsOK'
  <2>1. \A r \in RegNids : nat'[r].used => Dnode(node', "N1") # None
    BY <1>2, <1>3, <1>4, <1>5 DEF PathsOK, MetaPages
  <2>2. \A q \in pdirty' : Dnode(node', q) # None
    BY <1>2, <1>3, <1>5 DEF PathsOK, TypeOK
  <2>3. phase' \in Phase2 \cup {"append", "unmount"} => ndirty' \cap RegNids = {}
    BY <1>2, <1>3, NidsFacts DEF PathsOK, Phase2
  <2> QED
    BY <1>1, <1>2, <2>1, <2>2, <2>3 DEF PathsOK
<1>9. RootsOK'
  <2>1. nat'[MetaIno] = nat[MetaIno] /\ nat'[RootIno] = nat[RootIno]
    BY <1>4, <1>5
  <2>2. MetaIno \notin ndirty' => node'[MetaIno] = node[MetaIno] /\ MetaIno \notin ndirty
    BY <1>3, <1>5
  <2> QED
    BY <1>1, <1>2, <2>1, <2>2 DEF RootsOK
<1>10. FirstOK'
  <2> SUFFICES ASSUME sessions = 0
               PROVE  Fresh' /\ UnusedOK' /\ CleanOK' /\ RecordedOK'
    BY <1>1 DEF FirstOK
  <2>1. Fresh /\ UnusedOK /\ CleanOK /\ RecordedOK
    BY <1>2 DEF FirstOK
  <2>2. \A m \in FreeMeta : /\ node[m] = EmptyNode /\ nat[m].addr = 0 /\ cpsb[m].addr = 0
                            /\ page[NatPage(m)][m] = 0 /\ m \in Nids /\ m # None /\ m \in MetaNids /\ m \notin ndirty
    BY <2>1, NidsFacts DEF UnusedOK, FreeMeta
  <2>3. /\ \A n \in Nids : node'[n] # node[n] \/ n \in ndirty' \ ndirty => n \in {MetaIno, Ind(node)} \/ nat'[n].used
        /\ \A n \in Nids, s \in ChildSlots :
             node'[n].child[s] # node[n].child[s] => node'[n].child[s] \in MetaNids /\ nat'[node'[n].child[s]].used
        /\ \A q \in MetaPages : \/ Dnode(node', q) = Dnode(node, q)
                                \/ Dnode(node, q) = None /\ Dnode(node', q) \in FreeMeta
    BY <1>2, <2>2, PathCreated
  <2>4. nat[MetaIno].used /\ (Ind(node) \in Nids => nat[Ind(node)].used)
    <3>1. nat[MetaIno].used
      BY <2>1, <1>2, <1>5 DEF UnusedOK, RootsOK
    <3>2. Ind(node) # None => nat[Ind(node)].used
      BY <2>1, <1>5 DEF UnusedOK, Ind, ChildSlots
    <3> QED
      BY <3>1, <3>2, NidsFacts
  <2>5. UnusedOK'
    <3>1. ASSUME NEW n \in Nids, ~nat'[n].used
          PROVE  /\ nat'[n].addr = 0 /\ n \notin ndirty' /\ node'[n] = EmptyNode
                 /\ page'[NatPage(n)][n] = 0 /\ cpsb'[n].addr = 0
      <4>1. nat'[n] = nat[n] /\ ~nat[n].used
        BY <3>1, <1>4
      <4>2. n \notin {MetaIno, Ind(node)}
        BY <4>1, <2>4
      <4>3. node'[n] = node[n] /\ n \notin ndirty' \ ndirty
        BY <4>2, <2>3, <3>1
      <4> QED
        BY <4>1, <4>3, <2>1, <1>1 DEF UnusedOK
    <3>2. ASSUME NEW n \in Nids, NEW s \in ChildSlots, node'[n].child[s] # None
          PROVE  nat'[node'[n].child[s]].used
      <4>1. CASE node'[n].child[s] # node[n].child[s]
        BY <4>1, <2>3
      <4>2. CASE node'[n].child[s] = node[n].child[s]
        <5>1. PICK c : c = node[n].child[s]
          OBVIOUS
        <5>2. nat[c].used /\ c \in Nids
          BY <5>1, <4>2, <3>2, <2>1, <1>2, NodeTyped, NidsFacts DEF UnusedOK
        <5>3. nat'[c] = nat[c]
          BY <5>2, <1>3
        <5> QED
          BY <5>1, <5>2, <5>3, <4>2
      <4> QED
        BY <4>1, <4>2
    <3> QED
      BY <3>1, <3>2 DEF UnusedOK
  <2>6. CleanOK'
    <3>1. ASSUME NEW n \in MetaNodes, n \notin ndirty'
          PROVE  node'[n] = Written(nblk'[n], nat'[n].addr, EmptyNode)
      <4>1. node'[n] = node[n] /\ n \notin ndirty /\ n \in Nids
        BY <3>1, <1>3, NidsFacts
      <4>2. nat'[n].addr = nat[n].addr
        BY <4>1, <1>4, <2>2
      <4> QED
        BY <4>1, <4>2, <2>1, <1>1 DEF CleanOK
    <3>2. ASSUME NEW q \in MetaPages
          PROVE  Stored(q)' = Stored(q)
      <4>1. CASE Dnode(node', q) = Dnode(node, q)
        <5>1. PICK x : x = Dnode(node, q)
          OBVIOUS
        <5>2. x \in Nids \/ x = None
          BY <5>1, <1>2, NodeTyped, NidsFacts
        <5>3. x # None => node'[x].addr = node[x].addr
          BY <5>2, <1>3
        <5> QED
          BY <5>1, <5>3, <4>1, <1>1 DEF Stored
      <4>2. CASE Dnode(node, q) = None /\ Dnode(node', q) \in FreeMeta
        <5>1. PICK x : x = Dnode(node', q)
          OBVIOUS
        <5>2. x \in Nids /\ x # None /\ node[x] = EmptyNode
          BY <5>1, <4>2, <2>2
        <5>3. node'[x].addr[q] = 0
          BY <5>2, <1>3, EmptyTyped
        <5>4. Stored(q)' = EmptyPage
          BY <5>1, <5>2, <5>3 DEF Stored, Written
        <5> QED
          BY <5>4, <4>2 DEF Stored
      <4> QED
        BY <4>1, <4>2, <2>3
    <3>3. \A q \in MetaPages \ pdirty' : page'[q] = Stored(q)'
      BY <3>2, <2>1, <1>1 DEF CleanOK
    <3> QED
      BY <3>1, <3>3 DEF CleanOK
  <2>7. RecordedOK'
    <3>1. \A n \in Entries' : (n \in Entries /\ nat'[n] = nat[n]) \/ (n \in FreeMeta /\ nat'[n].dirty /\ nat'[n].addr = 0)
      BY <1>4 DEF Entries
    <3>2. \A n \in Nids : cpsb[n].addr # 0 => nat'[n] = nat[n]
      BY <1>4, <2>2
    <3> QED
      BY <3>1, <3>2, <2>1, <2>2, <1>1 DEF RecordedOK, Phase2, Entries
  <2> QED
    BY <2>1, <2>5, <2>6, <2>7, <1>1 DEF Fresh
<1> QED
  BY <1>6, <1>7, <1>8, <1>9, <1>10 DEF IInv

LEMMA ReadNatBlockKeeps ==
  ASSUME IInv, ReadNatBlock
  PROVE  IInv'
<1>1. /\ CreatePath("N1") /\ UNCHANGED <<diskVars, page, tosync, cpsb, restart, boundVars>>
      /\ phase' = phase /\ phase = "run" /\ pdirty' = pdirty /\ zdirty' = zdirty
  BY DEF ReadNatBlock, cpVars
<1>2. zdirty \in BOOLEAN
  BY DEF IInv, TypeOK
<1> QED
  BY <1>1, <1>2, PathKeeps

LEMMA ZitKeeps ==
  ASSUME IInv, flush_zit
  PROVE  IInv'
<1>1. /\ phase = "zit" /\ phase' = "metapages" /\ zdirty' = FALSE
      /\ UNCHANGED <<diskVars, page, tosync, cpsb, restart, boundVars>>
  BY DEF flush_zit
<1>2. CASE zdirty
  <2>1. CreatePath("Z") /\ pdirty' = pdirty \cup {"Z"}
    BY <1>2 DEF flush_zit
  <2> QED
    BY <2>1, <1>1, PathKeeps
<1>3. CASE ~zdirty
  <2>1. /\ UNCHANGED <<diskVars, cacheVars, nat, zdirty, boundVars>>
        /\ cpsb' = cpsb /\ tosync' = tosync /\ restart' = restart /\ nat' = nat /\ page' = page /\ sessions' = sessions
    BY <1>3, <1>1 DEF flush_zit, cacheVars, boundVars, IInv, TypeOK
  <2>2. sessions < MaxSessions
    BY <1>1 DEF IInv, RootsOK
  <2>3. /\ cpsb' \in [Nids -> Entry] /\ \A n \in Nids : cpsb'[n].addr <= Len(nblk[n])
        /\ \A r \in RegNids : cpsb'[r].addr = 0 /\ ndirty \cap RegNids = {}
        /\ tosync \subseteq ndirty /\ restart \in BOOLEAN
    BY <1>1, <2>1 DEF IInv, TypeOK, AddressesOK, PathsOK, Phase2
  <2>4. sessions = 0 => RecordedOK' /\ \A n \in Nids : ~nat[n].used => cpsb'[n].addr = 0
    BY <1>1, <2>1 DEF IInv, FirstOK, RecordedOK, UnusedOK, Entries, Phase2
  <2> QED
    BY <1>1, <2>1, <2>2, <2>3, <2>4, PhaseKeeps DEF Phases, Phase2
<1> QED
  BY <1>2, <1>3

-----------------------------------------------------------------------------
(* What users do, and the late write of an inode. *)

LEMMA DirtiedKeeps ==
  ASSUME IInv, NEW x \in Nids, ndirty' = ndirty \cup {x},
         UNCHANGED <<diskVars, node, page, pdirty, zdirty, cpVars, restarts, crashes, sessions>>,
         mods' \in 0 .. MaxMods,
         nat' \in [Nids -> [addr : Nat, dirty : BOOLEAN, used : BOOLEAN]],
         \A n \in Nids : n # x => nat'[n] = nat[n],
         x \in MetaNodes => nat' = nat,
         nat'[x].addr <= nat[x].addr,
         x \in RegNids => Dnode(node, "N1") # None,
         sessions = 0 => nat'[x].used,
         sessions = 0 /\ nat' # nat => nat'[x].dirty \/ page[NatPage(x)][x] = nat'[x].addr,
         phase \in {"run", "sync"} \/ (phase = "unmount" /\ x = MetaIno)
  PROVE  IInv'
<1>1. /\ nblk' = nblk /\ pblk' = pblk /\ super' = super /\ node' = node /\ page' = page /\ pdirty' = pdirty
      /\ zdirty' = zdirty /\ phase' = phase /\ tosync' = tosync /\ cpsb' = cpsb /\ restart' = restart
      /\ restarts' = restarts /\ crashes' = crashes /\ sessions' = sessions
  BY DEF diskVars, cpVars
<1>2. TypeOK /\ AddressesOK /\ PathsOK /\ RootsOK /\ FirstOK
  BY DEF IInv
<1>3. TypeOK'
  <2>1. \A n \in Nids : nat'[n].addr <= Len(nblk[n])
    BY <1>2, Typed
  <2> QED
    BY <1>1, <1>2, <2>1 DEF TypeOK
<1>4. AddressesOK'
  BY <1>1, <1>2 DEF AddressesOK
<1>5. PathsOK'
  <2>1. \A r \in RegNids : nat'[r].used => Dnode(node', "N1") # None
    BY <1>1, <1>2, NidsFacts DEF PathsOK
  <2>2. \A q \in pdirty' : Dnode(node', q) # None
    BY <1>1, <1>2 DEF PathsOK
  <2>3. phase' \in Phase2 \cup {"append", "unmount"} => ndirty' \cap RegNids = {}
    BY <1>1, <1>2, NidsFacts DEF PathsOK, Phase2
  <2> QED
    BY <1>1, <1>2, <2>1, <2>2, <2>3 DEF PathsOK
<1>6. RootsOK'
  <2>1. nat'[MetaIno] = nat[MetaIno] /\ nat'[RootIno] = nat[RootIno]
    BY NidsFacts
  <2> QED
    BY <1>1, <1>2, <2>1, NidsFacts DEF RootsOK
<1>7. FirstOK'
  <2> SUFFICES ASSUME sessions = 0
               PROVE  Fresh' /\ UnusedOK' /\ CleanOK' /\ RecordedOK'
    BY <1>1 DEF FirstOK
  <2>1. Fresh /\ UnusedOK /\ CleanOK /\ RecordedOK /\ nat'[x].used
    BY <1>2 DEF FirstOK
  <2>2. \A n \in Nids : nat'[n].used \/ (nat'[n] = nat[n] /\ n # x)
    BY <2>1
  <2>3. \A n \in Nids : nat[n].used => nat'[n].used
    BY <2>1
  <2>4. UnusedOK'
    <3>1. \A n \in Nids : ~nat'[n].used =>
            /\ nat'[n].addr = 0 /\ n \notin ndirty' /\ node'[n] = EmptyNode
            /\ page'[NatPage(n)][n] = 0 /\ cpsb'[n].addr = 0
      BY <2>1, <2>2, <1>1 DEF UnusedOK
    <3>2. ASSUME NEW n \in Nids, NEW s \in ChildSlots, node'[n].child[s] # None
          PROVE  nat'[node'[n].child[s]].used
      <4>1. PICK c : c = node[n].child[s]
        OBVIOUS
      <4>2. c \in Nids /\ nat[c].used
        BY <4>1, <3>2, <1>1, <1>2, <2>1, NodeTyped, NidsFacts DEF UnusedOK
      <4>3. nat'[c].used
        BY <4>2, <2>3
      <4> QED
        BY <4>1, <4>3, <1>1
    <3> QED
      BY <3>1, <3>2 DEF UnusedOK
  <2>5. CleanOK'
    <3>1. \A n \in MetaNodes : nat'[n] = nat[n]
      BY NidsFacts
    <3>2. \A q \in MetaPages : Stored(q)' = Stored(q)
      BY <1>1 DEF Stored, Dnode, Ind
    <3> QED
      BY <3>1, <3>2, <2>1, <1>1 DEF CleanOK
  <2>6. RecordedOK'
    <3>1. \A n \in Entries' : nat'[n].dirty \/ page[NatPage(n)][n] = nat'[n].addr
      <4> SUFFICES ASSUME NEW n \in Entries'
                   PROVE  nat'[n].dirty \/ page[NatPage(n)][n] = nat'[n].addr
        OBVIOUS
      <4>1. CASE nat' = nat
        BY <4>1, <2>1 DEF RecordedOK, Entries
      <4>2. CASE nat' # nat /\ n # x
        BY <4>2, <2>1 DEF RecordedOK, Entries
      <4>3. CASE nat' # nat /\ n = x
        BY <4>3
      <4> QED
        BY <4>1, <4>2, <4>3
    <3>2. CASE phase \in {"run", "sync"}
      BY <3>1, <3>2, <2>1, <1>1 DEF RecordedOK, Phase2
    <3>3. CASE phase = "unmount" /\ x = MetaIno
      <4>1. nat' = nat
        BY <3>3, NidsFacts
      <4> QED
        BY <4>1, <3>1, <3>3, <2>1, <1>1 DEF RecordedOK, Phase2, Entries
    <3> QED
      BY <3>2, <3>3
  <2> QED
    BY <2>1, <2>4, <2>5, <2>6, <1>1 DEF Fresh
<1> QED
  BY <1>3, <1>4, <1>5, <1>6, <1>7 DEF IInv

LEMMA ModifyKeeps ==
  ASSUME IInv, NEW n \in RegNids \cup {RootIno}, Modify(n)
  PROVE  IInv'
<1>1. /\ ndirty' = ndirty \cup {n} /\ nat' = nat /\ phase \in {"run", "sync"} /\ nat[n].used
      /\ mods < MaxMods /\ mods' = mods + 1
      /\ UNCHANGED <<diskVars, node, page, pdirty, zdirty, cpVars, restarts, crashes, sessions>>
  BY DEF Modify
<1>2. mods' \in 0 .. MaxMods
  BY <1>1, NidsAssumption DEF IInv, TypeOK
<1>3. n \in Nids /\ nat \in [Nids -> [addr : Nat, dirty : BOOLEAN, used : BOOLEAN]]
  BY NidsFacts DEF IInv, TypeOK
<1>4. n \in RegNids => Dnode(node, "N1") # None
  BY <1>1 DEF IInv, PathsOK
<1> QED
  BY <1>1, <1>2, <1>3, <1>4, DirtiedKeeps

LEMMA CreateKeeps ==
  ASSUME IInv, NEW r \in RegNids, Create(r)
  PROVE  IInv'
<1>1. /\ ndirty' = ndirty \cup {r} /\ nat' = [nat EXCEPT ![r].used = TRUE] /\ phase = "run"
      /\ mods < MaxMods /\ mods' = mods + 1 /\ Dnode(node, "N1") # None /\ ~nat[r].used
      /\ UNCHANGED <<diskVars, node, page, pdirty, zdirty, cpVars, restarts, crashes, sessions>>
  BY DEF Create
<1>2. mods' \in 0 .. MaxMods
  BY <1>1, NidsAssumption DEF IInv, TypeOK
<1>3. r \in Nids /\ r \notin MetaNodes /\ nat \in [Nids -> [addr : Nat, dirty : BOOLEAN, used : BOOLEAN]]
  BY NidsFacts DEF IInv, TypeOK
<1>4. PICK old \in [addr : Nat, dirty : BOOLEAN, used : BOOLEAN] : old = nat[r]
  BY <1>3
<1>5. PICK new : new = [old EXCEPT !.used = TRUE]
  OBVIOUS
<1>6. new \in [addr : Nat, dirty : BOOLEAN, used : BOOLEAN] /\ new.addr = old.addr /\ new.used
  BY <1>5
<1>7. nat' = [nat EXCEPT ![r] = new]
  BY <1>1, <1>4, <1>5
<1>8. /\ nat' \in [Nids -> [addr : Nat, dirty : BOOLEAN, used : BOOLEAN]]
      /\ \A n \in Nids : n # r => nat'[n] = nat[n]
      /\ nat'[r] = new /\ nat'[r].addr <= nat[r].addr /\ nat'[r].addr = nat[r].addr
  BY <1>3, <1>4, <1>6, <1>7
<1>9. sessions = 0 => page[NatPage(r)][r] = nat'[r].addr
  BY <1>1, <1>3, <1>8 DEF IInv, FirstOK, UnusedOK
<1> QED
  BY <1>1, <1>2, <1>3, <1>6, <1>8, <1>9, DirtiedKeeps

LEMMA FreeNodeKeeps ==
  ASSUME IInv, NEW r \in RegNids, FreeNode(r)
  PROVE  IInv'
<1>1. /\ ndirty' = ndirty \cup {r} /\ nat' = [nat EXCEPT ![r].addr = 0, ![r].dirty = TRUE] /\ phase = "run"
      /\ mods < MaxMods /\ mods' = mods + 1 /\ nat[r].used
      /\ UNCHANGED <<diskVars, node, page, pdirty, zdirty, cpVars, restarts, crashes, sessions>>
  BY DEF FreeNode
<1>2. mods' \in 0 .. MaxMods
  BY <1>1, NidsAssumption DEF IInv, TypeOK
<1>3. r \in Nids /\ r \notin MetaNodes /\ nat \in [Nids -> [addr : Nat, dirty : BOOLEAN, used : BOOLEAN]]
  BY NidsFacts DEF IInv, TypeOK
<1>4. PICK old \in [addr : Nat, dirty : BOOLEAN, used : BOOLEAN] : old = nat[r]
  BY <1>3
<1>5. PICK new : new = [old EXCEPT !.addr = 0, !.dirty = TRUE]
  OBVIOUS
<1>6. new \in [addr : Nat, dirty : BOOLEAN, used : BOOLEAN] /\ new.addr = 0 /\ (new.used <=> old.used) /\ new.dirty
  BY <1>5
<1>7. nat' = [nat EXCEPT ![r] = new]
  BY <1>1, <1>4, <1>5, <1>3
<1>8. /\ nat' \in [Nids -> [addr : Nat, dirty : BOOLEAN, used : BOOLEAN]]
      /\ \A n \in Nids : n # r => nat'[n] = nat[n]
      /\ nat'[r] = new /\ nat'[r].addr <= nat[r].addr
  BY <1>3, <1>4, <1>6, <1>7
<1>9. nat'[r].used /\ nat'[r].dirty /\ Dnode(node, "N1") # None
  BY <1>1, <1>4, <1>6, <1>8 DEF IInv, PathsOK
<1> QED
  BY <1>1, <1>2, <1>3, <1>8, <1>9, DirtiedKeeps

LEMMA LateInodeWriteKeeps ==
  ASSUME IInv, LateInodeWrite
  PROVE  IInv'
<1>1. /\ ndirty' = ndirty \cup {MetaIno} /\ nat' = nat /\ phase = "unmount" /\ mods' = mods
      /\ UNCHANGED <<diskVars, node, page, pdirty, zdirty, cpVars, restarts, crashes, sessions>>
  BY DEF LateInodeWrite, boundVars
<1>2. mods' \in 0 .. MaxMods
  BY <1>1 DEF IInv, TypeOK
<1>3. /\ MetaIno \in Nids /\ MetaIno \notin RegNids /\ nat \in [Nids -> [addr : Nat, dirty : BOOLEAN, used : BOOLEAN]]
      /\ nat[MetaIno].addr \in Nat
  BY NidsFacts, Typed DEF IInv, TypeOK
<1>4. sessions = 0 => nat[MetaIno].used
  BY <1>1, <1>3 DEF IInv, FirstOK, UnusedOK, RootsOK
<1> QED
  BY <1>1, <1>2, <1>3, <1>4, DirtiedKeeps

-----------------------------------------------------------------------------
(* The NAT goes to its blocks. *)

LEMMA NatKeeps ==
  ASSUME IInv, flush_nat
  PROVE  IInv'
<1>1. /\ nblk' = nblk /\ pblk' = pblk /\ super' = super /\ node' = node /\ ndirty' = ndirty
      /\ zdirty' = zdirty /\ tosync' = tosync /\ cpsb' = cpsb /\ restart' = restart /\ mods' = mods
      /\ restarts' = restarts /\ crashes' = crashes /\ sessions' = sessions
      /\ phase = "nat" /\ phase' = "zit" /\ pdirty' = pdirty \cup {NatPage(n) : n \in DirtyNats}
  BY DEF flush_nat, diskVars, boundVars
<1>2. TypeOK /\ AddressesOK /\ PathsOK /\ RootsOK /\ FirstOK
  BY DEF IInv
<1>3. \A n \in Nids : nat[n] \in [addr : Nat, dirty : BOOLEAN, used : BOOLEAN]
  BY <1>2 DEF TypeOK
<1>4. \A n \in Nids : /\ nat'[n] \in [addr : Nat, dirty : BOOLEAN, used : BOOLEAN]
                      /\ nat'[n].addr = nat[n].addr /\ (nat'[n].used <=> nat[n].used)
  <2> SUFFICES ASSUME NEW n \in Nids
               PROVE  /\ nat'[n] \in [addr : Nat, dirty : BOOLEAN, used : BOOLEAN]
                      /\ nat'[n].addr = nat[n].addr /\ (nat'[n].used <=> nat[n].used)
    OBVIOUS
  <2>1. nat'[n] = IF n \in DirtyNats THEN [nat[n] EXCEPT !.dirty = FALSE] ELSE nat[n]
    BY DEF flush_nat
  <2>2. PICK old \in [addr : Nat, dirty : BOOLEAN, used : BOOLEAN] : old = nat[n]
    BY <1>3
  <2>3. nat'[n] = [old EXCEPT !.dirty = FALSE] \/ nat'[n] = old
    BY <2>1, <2>2
  <2> QED
    BY <2>2, <2>3
<1>5. \A p \in MetaPages, n \in Nids :
        page'[p][n] = IF n \in DirtyNats /\ NatPage(n) = p THEN nat[n].addr ELSE page[p][n]
  BY DEF flush_nat
<1>6. TypeOK'
  <2>1. nat' \in [Nids -> [addr : Nat, dirty : BOOLEAN, used : BOOLEAN]]
    BY <1>4 DEF flush_nat
  <2>2. page' \in [MetaPages -> [Nids -> Nat]]
    BY <1>2, Typed DEF flush_nat
  <2>3. pdirty' \subseteq MetaPages /\ phase' \in Phases
    BY <1>1, <1>2, NatPageFacts DEF TypeOK, DirtyNats, Phases
  <2> QED
    BY <1>1, <1>2, <1>4, <2>1, <2>2, <2>3 DEF TypeOK
<1>7. AddressesOK'
  <2>1. \A n \in Nids, p \in MetaPages : page'[p][n] <= Len(nblk[n])
    BY <1>2, <1>5, Typed DEF AddressesOK
  <2> QED
    BY <1>1, <1>2, <2>1 DEF AddressesOK
<1>8. PathsOK'
  <2>1. \A n \in DirtyNats : Dnode(node, NatPage(n)) # None
    <3> SUFFICES ASSUME NEW n \in DirtyNats
                 PROVE  Dnode(node, NatPage(n)) # None
      OBVIOUS
    <3>1. n \in Nids /\ nat[n].used
      BY DEF DirtyNats
    <3>2. CASE n \in MetaNodes
      BY <3>2, <1>2, NatPageFacts, NodeTyped, NidsFacts
    <3>3. CASE n \in RegNids
      <4>1. Dnode(node, "N1") # None /\ Dnode(node, "N2") = Dnode(node, "N1")
        BY <3>1, <3>3, <1>2, NodeTyped DEF PathsOK
      <4> QED
        BY <4>1, <3>3, NatPageFacts
    <3> QED
      BY <3>1, <3>2, <3>3, NidsFacts
  <2>2. \A q \in pdirty' : Dnode(node', q) # None
    BY <2>1, <1>1, <1>2 DEF PathsOK
  <2>3. \A r \in RegNids : nat'[r].used => Dnode(node', "N1") # None
    BY <1>1, <1>2, <1>4, NidsFacts DEF PathsOK
  <2> QED
    BY <1>1, <1>2, <2>2, <2>3 DEF PathsOK, Phase2
<1>9. RootsOK'
  <2>1. nat'[MetaIno].addr = nat[MetaIno].addr /\ nat'[RootIno].addr = nat[RootIno].addr
    BY <1>4, NidsFacts
  <2> QED
    BY <1>1, <1>2, <2>1 DEF RootsOK
<1>10. FirstOK'
  <2> SUFFICES ASSUME sessions = 0
               PROVE  Fresh' /\ UnusedOK' /\ CleanOK' /\ RecordedOK'
    BY <1>1 DEF FirstOK
  <2>1. Fresh /\ UnusedOK /\ CleanOK /\ RecordedOK
    BY <1>1, <1>2 DEF FirstOK
  <2>2. UnusedOK'
    <3>1. \A n \in Nids : ~nat'[n].used =>
            /\ nat'[n].addr = 0 /\ n \notin ndirty' /\ node'[n] = EmptyNode
            /\ page'[NatPage(n)][n] = 0 /\ cpsb'[n].addr = 0
      BY <2>1, <1>1, <1>4, <1>5, NatPageFacts DEF UnusedOK, DirtyNats
    <3>2. \A n \in Nids : \A s \in ChildSlots : node'[n].child[s] # None => nat'[node'[n].child[s]].used
      BY <2>1, <1>1, <1>2, <1>4, NodeTyped, NidsFacts DEF UnusedOK
    <3> QED
      BY <3>1, <3>2 DEF UnusedOK
  <2>3. CleanOK'
    <3>1. \A n \in MetaNodes : nat'[n].addr = nat[n].addr
      BY <1>4, NidsFacts
    <3>2. \A q \in MetaPages : Stored(q)' = Stored(q)
      BY <1>1 DEF Stored, Dnode, Ind
    <3>3. ASSUME NEW q \in MetaPages, q \notin pdirty'
          PROVE  page'[q] = page[q] /\ q \notin pdirty
      <4>1. \A n \in Nids : page'[q][n] = page[q][n]
        BY <3>3, <1>1, <1>5
      <4>2. page'[q] \in [Nids -> Nat] /\ page[q] \in [Nids -> Nat]
        BY <1>2, <1>6 DEF TypeOK
      <4> QED
        BY <4>1, <4>2, <3>3, <1>1
    <3> QED
      BY <3>1, <3>2, <3>3, <2>1, <1>1 DEF CleanOK
  <2>4. RecordedOK'
    <3>1. Entries' = Entries
      BY <1>4 DEF Entries
    <3>2. \A n \in Entries : page'[NatPage(n)][n] = nat'[n].addr
      BY <2>1, <1>4, <1>5, NatPageFacts DEF RecordedOK, Entries, DirtyNats
    <3>3. \A n \in Nids \ {MetaIno} : cpsb[n].addr # 0 => cpsb[n].addr = nat'[n].addr
      BY <2>1, <1>1, <1>4 DEF RecordedOK, Phase2
    <3>4. \A n \in Entries' : nat'[n].dirty \/ page'[NatPage(n)][n] = nat'[n].addr
      BY <3>1, <3>2
    <3>5. \A n \in Entries' : cpsb'[n].addr # 0 \/ page'[NatPage(n)][n] = nat'[n].addr
      BY <3>1, <3>2
    <3>6. \A n \in Nids \ {MetaIno} : cpsb'[n].addr # 0 => cpsb'[n].addr = nat'[n].addr
      BY <3>3, <1>1
    <3> QED
      BY <3>4, <3>5, <3>6, <1>1 DEF RecordedOK
  <2> QED
    BY <2>1, <2>2, <2>3, <2>4, <1>1 DEF Fresh
<1> QED
  BY <1>6, <1>7, <1>8, <1>9, <1>10 DEF IInv

-----------------------------------------------------------------------------
(* Writeback. *)

LEMMA OpenedTyped ==
  ASSUME TypeOK, ZoneOpened
  PROVE  restart' \in BOOLEAN /\ restarts' \in 0 .. MaxRestarts
<1>1. MaxRestarts \in Nat /\ restarts \in 0 .. MaxRestarts /\ restart \in BOOLEAN
  BY NidsAssumption DEF TypeOK
<1>2. CASE UNCHANGED <<restart, restarts>>
  BY <1>1, <1>2
<1>3. CASE restarts < MaxRestarts /\ restart' = TRUE /\ restarts' = restarts + 1
  BY <1>1, <1>3
<1> QED
  BY <1>2, <1>3 DEF ZoneOpened

LEMMA WriteNodeKeeps ==
  ASSUME IInv, NEW n \in Nids, WriteNode(n)
  PROVE  IInv'
<1>1. PICK a : a = NextAddr(n)
  OBVIOUS
<1>2. /\ n \in ndirty /\ phase # "down"
      /\ nblk' = [nblk EXCEPT ![n] = Append(@, node[n])]
      /\ nat' = [nat EXCEPT ![n].addr = a, ![n].dirty = TRUE]
      /\ cpsb' = (IF phase \in Phase2 THEN cp_append_nat(cpsb, n, a) ELSE cpsb)
      /\ ndirty' = ndirty \ {n} /\ tosync' = tosync \ {n} /\ zdirty' = TRUE
      /\ pblk' = pblk /\ super' = super /\ node' = node /\ page' = page /\ pdirty' = pdirty /\ phase' = phase
      /\ mods' = mods /\ crashes' = crashes /\ sessions' = sessions
  BY <1>1 DEF WriteNode
<1>3. TypeOK /\ AddressesOK /\ PathsOK /\ RootsOK /\ FirstOK
  BY DEF IInv
<1>4. restart' \in BOOLEAN /\ restarts' \in 0 .. MaxRestarts
  BY <1>3, OpenedTyped DEF WriteNode
<1>5. PICK last : last = nblk[n]
  OBVIOUS
<1>6. PICK body : body = node[n]
  OBVIOUS
<1>7. /\ last \in Seq(NodeBody) /\ Len(last) \in Nat /\ body \in NodeBody /\ a = Len(last) + 1 /\ a \in Nat /\ a # 0
  BY <1>1, <1>3, <1>5, <1>6, Typed, NodeTyped DEF NextAddr
<1>8. PICK more : more = Append(last, body)
  OBVIOUS
<1>9. /\ more \in Seq(NodeBody) /\ Len(more) = a /\ more[a] = body /\ \A i \in 1 .. Len(last) : more[i] = last[i]
  BY <1>7, <1>8, AppendProperties
<1>10. /\ nblk' \in [Nids -> Seq(NodeBody)] /\ nblk'[n] = more
       /\ \A m \in Nids : m # n => nblk'[m] = nblk[m]
  BY <1>2, <1>3, <1>5, <1>6, <1>8, <1>9 DEF TypeOK
<1>11. /\ \A m \in Nids : Len(nblk[m]) \in Nat /\ Len(nblk'[m]) \in Nat /\ Len(nblk[m]) <= Len(nblk'[m])
       /\ \A m \in Nids : \A i \in 1 .. Len(nblk[m]) : nblk'[m][i] = nblk[m][i]
       /\ nblk'[n][a] = node[n] /\ Len(nblk'[n]) = a
  <2>1. \A m \in Nids : Len(nblk[m]) \in Nat
    BY <1>3, Typed
  <2>2. \A m \in Nids : m = n \/ nblk'[m] = nblk[m]
    BY <1>10
  <2>3. Len(nblk[n]) = Len(last) /\ Len(nblk'[n]) = a /\ \A i \in 1 .. Len(nblk[n]) : nblk'[n][i] = nblk[n][i]
    BY <1>5, <1>9, <1>10
  <2>4. nblk'[n][a] = node[n]
    BY <1>6, <1>9, <1>10
  <2> QED
    BY <2>1, <2>2, <2>3, <2>4, <1>7
<1>12. PICK old \in [addr : Nat, dirty : BOOLEAN, used : BOOLEAN] : old = nat[n]
  BY <1>3 DEF TypeOK
<1>13. PICK new : new = [old EXCEPT !.addr = a, !.dirty = TRUE]
  OBVIOUS
<1>14. /\ new \in [addr : Nat, dirty : BOOLEAN, used : BOOLEAN]
       /\ new.addr = a /\ new.dirty /\ (new.used <=> old.used)
  BY <1>7, <1>13
<1>15. /\ nat' \in [Nids -> [addr : Nat, dirty : BOOLEAN, used : BOOLEAN]] /\ nat'[n] = new
       /\ \A m \in Nids : m # n => nat'[m] = nat[m]
  <2>1. nat' = [nat EXCEPT ![n] = new]
    BY <1>2, <1>12, <1>13, <1>3 DEF TypeOK
  <2> QED
    BY <2>1, <1>3, <1>14 DEF TypeOK
<1>16. /\ nat'[n].addr = a /\ nat'[n].dirty /\ \A m \in Nids : nat'[m].used <=> nat[m].used
  BY <1>12, <1>14, <1>15
<1>17. /\ cpsb' \in [Nids -> Entry] /\ \A m \in Nids : m # n => cpsb'[m] = cpsb[m]
       /\ phase \in Phase2 => cpsb'[n].addr = a
       /\ phase \notin Phase2 => cpsb' = cpsb
  <2>1. CASE phase \in Phase2
    <3>1. cpsb' = cp_append_nat(cpsb, n, a) /\ cpsb \in [Nids -> Entry]
      BY <2>1, <1>2, <1>3 DEF TypeOK
    <3> QED
      BY <3>1, <2>1, <1>7, AppendNat
  <2>2. CASE phase \notin Phase2
    BY <2>2, <1>2, <1>3 DEF TypeOK
  <2> QED
    BY <2>1, <2>2
<1>18. TypeOK'
  <2>1. \A m \in Nids : nat'[m].addr <= Len(nblk'[m]) /\ super'[m].addr <= Len(nblk'[m])
    BY <1>2, <1>3, <1>7, <1>11, <1>15, <1>16, Typed
  <2> QED
    BY <1>2, <1>3, <1>4, <1>10, <1>15, <1>17, <2>1 DEF TypeOK
<1>19. AddressesOK'
  <2>1. \A m \in Nids : cpsb'[m].addr <= Len(nblk'[m])
    BY <1>3, <1>7, <1>11, <1>17, Typed DEF AddressesOK
  <2>2. \A m \in Nids, p \in MetaPages : page[p][m] <= Len(nblk'[m]) /\ node[m].addr[p] <= Len(pblk[p])
    BY <1>3, <1>11, Typed DEF AddressesOK
  <2>3. ASSUME NEW p \in MetaPages, NEW i \in 1 .. Len(pblk[p]), NEW m \in Nids
        PROVE  pblk[p][i][m] <= Len(nblk'[m])
    <3>1. pblk[p] \in Seq([Nids -> Nat])
      BY <1>3, Typed
    <3>2. pblk[p][i] \in [Nids -> Nat]
      BY <3>1, ElementOfSeq
    <3>3. pblk[p][i][m] \in Nat /\ pblk[p][i][m] <= Len(nblk[m])
      BY <3>2, <1>3 DEF AddressesOK
    <3> QED
      BY <3>3, <1>11
  <2>4. ASSUME NEW m \in Nids, NEW i \in 1 .. Len(nblk'[m]), NEW p \in MetaPages
        PROVE  nblk'[m][i].addr[p] <= Len(pblk[p])
    <3>1. CASE m = n /\ i = a
      BY <3>1, <1>3, <1>11 DEF AddressesOK
    <3>2. CASE m # n \/ i # a
      <4>1. i \in 1 .. Len(nblk[m])
        BY <3>2, <1>5, <1>7, <1>10, <1>11
      <4> QED
        BY <4>1, <1>3, <1>11 DEF AddressesOK
    <3> QED
      BY <3>1, <3>2
  <2> QED
    BY <1>2, <2>1, <2>2, <2>3, <2>4 DEF AddressesOK
<1>20. PathsOK'
  <2>1. \A r \in RegNids : nat'[r].used => Dnode(node', "N1") # None
    BY <1>2, <1>3, <1>16, NidsFacts DEF PathsOK
  <2>2. \A r \in RegNids : super'[r].addr = 0 /\ cpsb'[r].addr = 0
    BY <1>2, <1>3, <1>17, NidsFacts DEF PathsOK
  <2>3. (\A q \in pdirty' : Dnode(node', q) # None) /\ (phase' \in Phase2 \cup {"append", "unmount"} => ndirty' \cap RegNids = {})
    BY <1>2, <1>3 DEF PathsOK
  <2> QED
    BY <2>1, <2>2, <2>3 DEF PathsOK
<1>21. RootsOK'
  <2>1. nat'[MetaIno].addr # 0 /\ nat'[RootIno].addr # 0
    BY <1>2, <1>3, <1>7, <1>15, <1>16, NidsFacts DEF RootsOK
  <2>2. ASSUME MetaIno \notin ndirty'
        PROVE  nblk'[MetaIno][nat'[MetaIno].addr] = node[MetaIno]
    <3>1. CASE MetaIno = n
      BY <3>1, <1>11, <1>16
    <3>2. CASE MetaIno # n
      BY <3>2, <2>2, <1>2, <1>3, <1>10, <1>15, NidsFacts DEF RootsOK
    <3> QED
      BY <3>1, <3>2
  <2>3. ASSUME phase = "unmount"
        PROVE  /\ ndirty' \cap MetaNodes \subseteq {MetaIno}
               /\ cpsb'[MetaIno].addr # 0 /\ nblk'[MetaIno][cpsb'[MetaIno].addr] = node[MetaIno]
               /\ cpsb'[RootIno].addr = nat'[RootIno].addr
    <3>1. cpsb' = cpsb /\ n # RootIno
      BY <2>3, <1>2, <1>3, <1>17, NidsFacts DEF RootsOK, Phase2
    <3>2. cpsb[MetaIno].addr # 0 /\ cpsb[MetaIno].addr \in 1 .. Len(nblk[MetaIno])
      BY <2>3, <1>3, Typed, NidsFacts DEF RootsOK, AddressesOK
    <3>3. nblk'[MetaIno][cpsb[MetaIno].addr] = nblk[MetaIno][cpsb[MetaIno].addr]
      BY <3>2, <1>11, NidsFacts
    <3> QED
      BY <3>1, <3>2, <3>3, <2>3, <1>2, <1>3, <1>15, NidsFacts DEF RootsOK
  <2> QED
    BY <2>1, <2>2, <2>3, <1>2, <1>3 DEF RootsOK
<1>22. FirstOK'
  <2> SUFFICES ASSUME sessions = 0
               PROVE  Fresh' /\ UnusedOK' /\ CleanOK' /\ RecordedOK'
    BY <1>2 DEF FirstOK
  <2>1. Fresh /\ UnusedOK /\ CleanOK /\ RecordedOK /\ nat[n].used
    BY <1>2, <1>3 DEF FirstOK, UnusedOK
  <2>2. Fresh'
    <3>1. super[MetaIno].addr = 1 /\ super[RootIno].addr = 1
      BY <2>1, NidsFacts DEF Fresh
    <3>2. 1 \in 1 .. Len(nblk[MetaIno]) /\ 1 \in 1 .. Len(nblk[RootIno])
      BY <3>1, <1>3, Typed, NidsFacts
    <3>3. nblk'[MetaIno][1] = nblk[MetaIno][1] /\ nblk'[RootIno][1] = nblk[RootIno][1]
      BY <3>2, <1>11, NidsFacts
    <3> QED
      BY <3>3, <2>1, <1>2 DEF Fresh
  <2>3. UnusedOK'
    <3>1. \A m \in Nids : ~nat'[m].used =>
            /\ nat'[m].addr = 0 /\ m \notin ndirty' /\ node'[m] = EmptyNode
            /\ page'[NatPage(m)][m] = 0 /\ cpsb'[m].addr = 0
      BY <2>1, <1>2, <1>15, <1>16, <1>17 DEF UnusedOK
    <3>2. \A m \in Nids : \A s \in ChildSlots : node'[m].child[s] # None => nat'[node'[m].child[s]].used
      <4> SUFFICES ASSUME NEW m \in Nids, NEW s \in ChildSlots, node'[m].child[s] # None
                   PROVE  nat'[node'[m].child[s]].used
        OBVIOUS
      <4>1. PICK c : c = node[m].child[s]
        OBVIOUS
      <4>2. c \in Nids /\ nat[c].used
        BY <4>1, <1>2, <1>3, <2>1, NodeTyped, NidsFacts DEF UnusedOK
      <4>3. nat'[c].used
        BY <4>2, <1>16
      <4> QED
        BY <4>1, <4>3, <1>2
    <3> QED
      BY <3>1, <3>2 DEF UnusedOK
  <2>4. CleanOK'
    <3>1. ASSUME NEW m \in MetaNodes, m \notin ndirty'
          PROVE  node'[m] = Written(nblk'[m], nat'[m].addr, EmptyNode)
      <4>1. CASE m = n
        BY <4>1, <1>2, <1>7, <1>11, <1>16 DEF Written
      <4>2. CASE m # n
        BY <4>2, <3>1, <2>1, <1>2, <1>10, <1>15, NidsFacts DEF CleanOK
      <4> QED
        BY <4>1, <4>2
    <3>2. \A q \in MetaPages : Stored(q)' = Stored(q)
      BY <1>2 DEF Stored, Dnode, Ind
    <3> QED
      BY <3>1, <3>2, <2>1, <1>2 DEF CleanOK
  <2>5. RecordedOK'
    <3>1. Entries' = Entries
      BY <1>16 DEF Entries
    <3>2. \A m \in Entries' : nat'[m].dirty \/ page'[NatPage(m)][m] = nat'[m].addr
      BY <3>1, <2>1, <1>2, <1>15, <1>16 DEF RecordedOK, Entries
    <3>3. phase' \in {"sync", "regnodes"} => \A m \in Nids : cpsb'[m].addr = 0
      BY <2>1, <1>2, <1>17 DEF RecordedOK, Phase2
    <3>4. CASE phase \in {"append", "unmount"}
      <4>1. n = MetaIno /\ cpsb' = cpsb
        BY <3>4, <1>2, <1>3, <1>17, NidsFacts DEF RootsOK, PathsOK, Phase2
      <4>2. \A m \in Nids \ {MetaIno} : cpsb'[m].addr # 0 => cpsb'[m].addr = nat'[m].addr
        BY <4>1, <3>4, <2>1, <1>15 DEF RecordedOK
      <4>3. \A m \in Entries : cpsb'[m].addr # 0 \/ page'[NatPage(m)][m] = nat'[m].addr
        BY <4>1, <3>4, <2>1, <1>2, <1>15 DEF RecordedOK, Entries
      <4> QED
        BY <3>1, <3>2, <3>3, <4>2, <4>3 DEF RecordedOK
    <3>5. CASE phase \in Phase2
      <4>1. \A m \in Nids \ {MetaIno} : cpsb'[m].addr # 0 => cpsb'[m].addr = nat'[m].addr
        BY <3>5, <2>1, <1>15, <1>16, <1>17 DEF RecordedOK
      <4>2. phase \in {"zit", "metapages", "metanodes"} =>
              \A m \in Entries : cpsb'[m].addr # 0 \/ page'[NatPage(m)][m] = nat'[m].addr
        BY <3>5, <2>1, <1>2, <1>7, <1>15, <1>17 DEF RecordedOK, Entries
      <4> QED
        BY <3>1, <3>2, <3>3, <3>5, <4>1, <4>2, <1>2 DEF RecordedOK, Phase2
    <3>6. CASE phase \notin Phase2 \cup {"append", "unmount"}
      BY <3>2, <3>3, <3>6, <1>2 DEF RecordedOK, Phase2
    <3> QED
      BY <3>4, <3>5, <3>6
  <2> QED
    BY <2>2, <2>3, <2>4, <2>5
<1> QED
  BY <1>18, <1>19, <1>20, <1>21, <1>22 DEF IInv

LEMMA WriteMetaPageKeeps ==
  ASSUME IInv, NEW p \in MetaPages, WriteMetaPage(p)
  PROVE  IInv'
<1>1. PICK d : d = Dnode(node, p)
  OBVIOUS
<1>2. PICK a : a = Len(pblk[p]) + 1
  OBVIOUS
<1>3. /\ p \in pdirty /\ phase # "down"
      /\ pblk' = [pblk EXCEPT ![p] = Append(@, page[p])]
      /\ node' = [node EXCEPT ![d].addr[p] = a]
      /\ ndirty' = ndirty \cup {d} /\ pdirty' = pdirty \ {p} /\ zdirty' = TRUE
      /\ nblk' = nblk /\ super' = super /\ page' = page /\ nat' = nat /\ phase' = phase /\ tosync' = tosync
      /\ cpsb' = cpsb /\ mods' = mods /\ crashes' = crashes /\ sessions' = sessions
  BY <1>1, <1>2 DEF WriteMetaPage
<1>4. TypeOK /\ AddressesOK /\ PathsOK /\ RootsOK /\ FirstOK
  BY DEF IInv
<1>5. restart' \in BOOLEAN /\ restarts' \in 0 .. MaxRestarts
  BY <1>4, OpenedTyped DEF WriteMetaPage
<1>6. d \in MetaNodes /\ d \in Nids /\ d \notin RegNids
  BY <1>1, <1>3, <1>4, NodeTyped, NidsFacts DEF PathsOK
<1>7. PICK last : last = pblk[p]
  OBVIOUS
<1>8. PICK body : body = page[p]
  OBVIOUS
<1>9. last \in Seq([Nids -> Nat]) /\ Len(last) \in Nat /\ body \in [Nids -> Nat] /\ a = Len(last) + 1 /\ a \in Nat /\ a # 0
  BY <1>2, <1>4, <1>7, <1>8, Typed
<1>10. PICK more : more = Append(last, body)
  OBVIOUS
<1>11. /\ more \in Seq([Nids -> Nat]) /\ Len(more) = a /\ more[a] = body /\ \A i \in 1 .. Len(last) : more[i] = last[i]
  BY <1>9, <1>10, AppendProperties
<1>12. /\ pblk' \in [MetaPages -> Seq([Nids -> Nat])] /\ pblk'[p] = more
       /\ \A q \in MetaPages : q # p => pblk'[q] = pblk[q]
  BY <1>3, <1>4, <1>7, <1>8, <1>10, <1>11 DEF TypeOK
<1>13. /\ \A q \in MetaPages : Len(pblk[q]) \in Nat /\ Len(pblk'[q]) \in Nat /\ Len(pblk[q]) <= Len(pblk'[q])
       /\ pblk'[p][a] = page[p] /\ Len(pblk'[p]) = a /\ \A i \in 1 .. Len(pblk'[p]) : i = a \/ i \in 1 .. Len(pblk[p])
       /\ \A i \in 1 .. Len(pblk[p]) : pblk'[p][i] = pblk[p][i]
  <2>1. \A q \in MetaPages : Len(pblk[q]) \in Nat
    BY <1>4, Typed
  <2>2. \A q \in MetaPages : q = p \/ pblk'[q] = pblk[q]
    BY <1>12
  <2>3. Len(pblk[p]) = Len(last) /\ Len(pblk'[p]) = a /\ \A i \in 1 .. Len(pblk[p]) : pblk'[p][i] = pblk[p][i]
    BY <1>7, <1>11, <1>12
  <2>4. pblk'[p][a] = page[p]
    BY <1>8, <1>11, <1>12
  <2> QED
    <3>1. \A q \in MetaPages : Len(pblk'[q]) \in Nat /\ Len(pblk[q]) <= Len(pblk'[q])
      BY <2>1, <2>2, <2>3, <1>7, <1>9
    <3>2. \A i \in 1 .. Len(pblk'[p]) : i = a \/ i \in 1 .. Len(pblk[p])
      BY <2>3, <1>9
    <3> QED
      BY <2>1, <2>3, <2>4, <3>1, <3>2
<1>14. PICK old \in NodeBody : old = node[d]
  BY <1>4, <1>6, NodeTyped
<1>15. PICK new : new = [old EXCEPT !.addr[p] = a]
  OBVIOUS
<1>16. /\ new \in NodeBody /\ new.child = old.child /\ new.addr[p] = a
       /\ \A q \in MetaPages : q # p => new.addr[q] = old.addr[q]
  BY <1>9, <1>15 DEF NodeBody
<1>17. node' = [node EXCEPT ![d] = new]
  BY <1>3, <1>14, <1>15
<1>18. /\ node' \in [Nids -> NodeBody] /\ node'[d] = new /\ \A n \in Nids : n # d => node'[n] = node[n]
  BY <1>4, <1>6, <1>16, <1>17 DEF TypeOK
<1>19. \A n \in Nids : node'[n].child = node[n].child
  BY <1>14, <1>16, <1>18
<1>20. \A q \in MetaPages : Dnode(node', q) = Dnode(node, q)
  <2>1. Ind(node') = Ind(node) /\ Ind(node) \in MetaNids \cup {None}
    BY <1>4, <1>19, NodeTyped, NidsFacts DEF Ind
  <2>2. Ind(node) # None => node'[Ind(node)].child = node[Ind(node)].child
    BY <2>1, <1>19, NidsFacts
  <2> QED
    BY <2>1, <2>2 DEF Dnode
<1>21. \A n \in Nids, q \in MetaPages :
         /\ node'[n].addr[q] = IF n = d /\ q = p THEN a ELSE node[n].addr[q]
         /\ node'[n].addr[q] <= Len(pblk'[q])
  <2>1. \A n \in Nids, q \in MetaPages : node'[n].addr[q] = IF n = d /\ q = p THEN a ELSE node[n].addr[q]
    BY <1>14, <1>16, <1>18
  <2>2. \A n \in Nids, q \in MetaPages : node[n].addr[q] \in Nat /\ node[n].addr[q] <= Len(pblk[q])
    BY <1>4, NodeTyped DEF AddressesOK
  <2> QED
    BY <2>1, <2>2, <1>9, <1>13
<1>22. TypeOK'
  <2>1. ndirty' \subseteq Nids /\ pdirty' \subseteq MetaPages /\ tosync' \subseteq ndirty'
    BY <1>3, <1>4, <1>6 DEF TypeOK
  <2> QED
    BY <1>3, <1>4, <1>5, <1>12, <1>18, <2>1 DEF TypeOK
<1>23. AddressesOK'
  <2>1. ASSUME NEW q \in MetaPages, NEW i \in 1 .. Len(pblk'[q]), NEW n \in Nids
        PROVE  pblk'[q][i][n] <= Len(nblk[n])
    <3>1. CASE q = p /\ i = a
      BY <3>1, <1>4, <1>13 DEF AddressesOK
    <3>2. CASE q = p /\ i # a
      BY <3>2, <1>4, <1>13 DEF AddressesOK
    <3>3. CASE q # p
      BY <3>3, <1>4, <1>12 DEF AddressesOK
    <3> QED
      BY <3>1, <3>2, <3>3
  <2>2. ASSUME NEW n \in Nids, NEW i \in 1 .. Len(nblk[n]), NEW q \in MetaPages
        PROVE  nblk[n][i].addr[q] <= Len(pblk'[q])
    <3>1. nblk[n][i] \in NodeBody
      BY <1>4, Typed, ElementOfSeq
    <3>2. nblk[n][i].addr[q] \in Nat /\ nblk[n][i].addr[q] <= Len(pblk[q])
      BY <3>1, <1>4 DEF AddressesOK, NodeBody
    <3> QED
      BY <3>2, <1>13
  <2>3. \A n \in Nids, q \in MetaPages : page'[q][n] <= Len(nblk'[n]) /\ node'[n].addr[q] <= Len(pblk'[q])
    BY <1>3, <1>4, <1>21 DEF AddressesOK
  <2> QED
    BY <1>3, <1>4, <2>1, <2>2, <2>3 DEF AddressesOK
<1>24. PathsOK'
  <2>1. phase' \in Phase2 \cup {"append", "unmount"} => ndirty' \cap RegNids = {}
    BY <1>3, <1>4, <1>6 DEF PathsOK
  <2>2. \A q \in pdirty' : Dnode(node', q) # None
    BY <1>3, <1>4, <1>20 DEF PathsOK, TypeOK
  <2>3. \A r \in RegNids : nat'[r].used => Dnode(node', "N1") # None
    BY <1>3, <1>4, <1>20 DEF PathsOK, MetaPages
  <2> QED
    BY <1>3, <1>4, <2>1, <2>2, <2>3 DEF PathsOK
<1>25. RootsOK'
  <2>1. phase \notin {"metanodes", "append", "unmount", "down"}
    BY <1>3, <1>4 DEF RootsOK
  <2>2. MetaIno \notin ndirty' => node'[MetaIno] = node[MetaIno] /\ MetaIno \notin ndirty
    BY <1>3, <1>18, NidsFacts
  <2> QED
    BY <2>1, <2>2, <1>3, <1>4 DEF RootsOK
<1>26. FirstOK'
  <2> SUFFICES ASSUME sessions = 0
               PROVE  Fresh' /\ UnusedOK' /\ CleanOK' /\ RecordedOK'
    BY <1>3 DEF FirstOK
  <2>1. Fresh /\ UnusedOK /\ CleanOK /\ RecordedOK
    BY <1>3, <1>4 DEF FirstOK
  <2>2. nat[d].used
    <3>1. nat[MetaIno].used
      BY <2>1, <1>3, <1>4, NidsFacts DEF UnusedOK, RootsOK
    <3>2. CASE p = "N0"
      BY <3>1, <3>2, <1>1 DEF Dnode
    <3>3. CASE p # "N0"
      <4>1. PICK i : i = Ind(node)
        OBVIOUS
      <4>2. i \in Nids /\ d = node[i].child[DirSlot(p)] /\ DirSlot(p) \in ChildSlots /\ d # None
        BY <4>1, <3>3, <1>1, <1>4, <1>6, NodeTyped, NidsFacts DEF Dnode, DirSlot, ChildSlots
      <4> QED
        BY <4>2, <2>1 DEF UnusedOK
    <3> QED
      BY <3>2, <3>3
  <2>3. UnusedOK'
    BY <2>1, <2>2, <1>3, <1>18, <1>19 DEF UnusedOK
  <2>4. CleanOK'
    <3>1. \A n \in MetaNodes \ ndirty' : node'[n] = Written(nblk'[n], nat'[n].addr, EmptyNode)
      BY <2>1, <1>3, <1>18, NidsFacts DEF CleanOK
    <3>2. Stored(p)' = page[p]
      <4>1. Dnode(node', p) = d /\ d # None /\ node'[d].addr[p] = a
        BY <1>1, <1>6, <1>20, <1>21, NidsFacts
      <4> QED
        BY <4>1, <1>9, <1>13 DEF Stored, Written
    <3>3. ASSUME NEW q \in MetaPages, q # p
          PROVE  Stored(q)' = Stored(q)
      <4>1. PICK x : x = Dnode(node, q)
        OBVIOUS
      <4>2. x = None \/ x \in Nids
        BY <4>1, <1>4, NodeTyped, NidsFacts
      <4>3. x # None => node'[x].addr[q] = node[x].addr[q]
        BY <4>2, <3>3, <1>21
      <4> QED
        BY <4>1, <4>3, <3>3, <1>12, <1>20 DEF Stored
    <3> QED
      BY <3>1, <3>2, <3>3, <2>1, <1>3 DEF CleanOK
  <2> QED
    BY <2>1, <2>3, <2>4, <1>3 DEF Fresh, RecordedOK, Entries
<1> QED
  BY <1>22, <1>23, <1>24, <1>25, <1>26 DEF IInv

-----------------------------------------------------------------------------
(* The invariant. *)

LEMMA StutterKeeps ==
  ASSUME IInv, UNCHANGED vars
  PROVE  IInv'
<1>1. /\ nblk' = nblk /\ pblk' = pblk /\ super' = super /\ node' = node /\ ndirty' = ndirty /\ page' = page
      /\ pdirty' = pdirty /\ nat' = nat /\ zdirty' = zdirty /\ phase' = phase /\ tosync' = tosync /\ cpsb' = cpsb
      /\ restart' = restart /\ mods' = mods /\ restarts' = restarts /\ crashes' = crashes /\ sessions' = sessions
  BY DEF vars, diskVars, cacheVars, cpVars, boundVars
<1>2. TypeOK' /\ AddressesOK' /\ PathsOK' /\ RootsOK'
  BY <1>1 DEF IInv, TypeOK, AddressesOK, PathsOK, RootsOK, Dnode, Ind
<1>3. FirstOK'
  BY <1>1 DEF IInv, FirstOK, Fresh, UnusedOK, CleanOK, RecordedOK, Entries, Stored, Dnode, Ind
<1> QED
  BY <1>2, <1>3 DEF IInv

LEMMA StepKeeps == IInv /\ [Next]_vars => IInv'
<1> SUFFICES ASSUME IInv, [Next]_vars
             PROVE  IInv'
  OBVIOUS
<1>1. CASE Mount \/ Crash \/ ReadNatBlock \/ LateInodeWrite
  BY <1>1, MountKeeps, CrashKeeps, ReadNatBlockKeeps, LateInodeWriteKeeps
<1>2. CASE CheckpointStep
  BY <1>2, BeginPassKeeps, SyncDoneKeeps, RegNodesWrittenKeeps, NatKeeps, ZitKeeps, MetaPagesWrittenKeeps,
     MetaNodesWrittenKeeps, AppendRootsKeeps, SuperBlockKeeps DEF CheckpointStep
<1>3. ASSUME NEW r \in RegNids, Create(r) \/ FreeNode(r)
      PROVE  IInv'
  BY <1>3, CreateKeeps, FreeNodeKeeps
<1>4. ASSUME NEW n \in RegNids \cup {RootIno}, Modify(n)
      PROVE  IInv'
  BY <1>4, ModifyKeeps
<1>5. ASSUME NEW n \in Nids, WriteNode(n)
      PROVE  IInv'
  BY <1>5, WriteNodeKeeps
<1>6. ASSUME NEW p \in MetaPages, WriteMetaPage(p)
      PROVE  IInv'
  BY <1>6, WriteMetaPageKeeps
<1>7. CASE UNCHANGED vars
  BY <1>7, StutterKeeps
<1> QED
  BY <1>1, <1>2, <1>3, <1>4, <1>5, <1>6, <1>7 DEF Next

LEMMA AlwaysIInv == Spec => []IInv
BY InitHolds, StepKeeps, PTL DEF Spec

\* Every variable keeps its type, and every address in memory and in the
\* superblocks is one of a block that was written, whatever is written,
\* restarted, crashed and mounted again.
THEOREM AddressesTyped == Spec => []TypeOK
<1>1. IInv => TypeOK
  BY DEF IInv
<1> QED
  BY <1>1, AlwaysIInv, PTL

-----------------------------------------------------------------------------
(* The roots, and the entries a superblock makes durable. *)

\* checkpoint.c:64: until the first superblock after mkfs's is written, the
\* entry of every node in use is in its NAT block or in the superblock being
\* built when phase 2 is over.  (A later session may miss an entry that is
\* clean in a cache that read it from a superblock: MCCheckpointRemount.)
THEOREM FirstSessionSaved == Spec => [](sessions = 0 => NatSaved)
<1>1. IInv => (sessions = 0 => NatSaved)
  <2> SUFFICES ASSUME IInv, sessions = 0, phase \in {"append", "unmount"}, NEW n \in Nids,
                      nat[n].used, n # MetaIno, n = RootIno => phase = "unmount"
               PROVE  IF cpsb[n].addr # 0 THEN cpsb[n].addr = nat[n].addr
                      ELSE page[NatPage(n)][n] = nat[n].addr
    BY DEF NatSaved
  <2>1. RecordedOK /\ RootsOK
    BY DEF IInv, FirstOK
  <2>2. cpsb[n].addr # 0 => cpsb[n].addr = nat[n].addr
    BY <2>1 DEF RecordedOK
  <2>3. CASE n = RootIno
    BY <2>1, <2>2, <2>3 DEF RootsOK
  <2>4. CASE n # RootIno
    <3>1. n \in Entries
      BY <2>4 DEF Entries
    <3> QED
      BY <3>1, <2>1, <2>2 DEF RecordedOK
  <2> QED
    BY <2>3, <2>4
<1> QED
  BY <1>1, AlwaysIInv, PTL

\* Whatever a mount finds of the regular nodes, and in however many sessions,
\* it finds the meta inode and the root as the last unmount left them.
THEOREM RootsAlwaysRecovered == Spec => RootsRecovered
<1> DEFINE Recovery == super' # super => /\ MetaAddr(RootIno)' = nat[RootIno].addr
                                         /\ nblk'[MetaIno][super'[MetaIno].addr] = node[MetaIno]
<1>1. IInv /\ [Next]_vars => [Recovery]_vars
  <2> SUFFICES ASSUME IInv, Next, super' # super
               PROVE  /\ MetaAddr(RootIno)' = nat[RootIno].addr
                      /\ nblk'[MetaIno][super'[MetaIno].addr] = node[MetaIno]
    OBVIOUS
  <2>1. flush_super_block
    <3>1. ~(Mount \/ Crash \/ ReadNatBlock \/ LateInodeWrite)
      BY DEF Mount, Crash, ReadNatBlock, LateInodeWrite, diskVars
    <3>2. ~(BeginPass \/ SyncDone \/ RegNodesWritten \/ flush_nat \/ flush_zit)
      BY DEF BeginPass, SyncDone, RegNodesWritten, flush_nat, flush_zit, diskVars
    <3>3. ~(MetaPagesWritten \/ MetaNodesWritten \/ AppendRoots)
      BY DEF MetaPagesWritten, MetaNodesWritten, AppendRoots, diskVars
    <3>4. \A r \in RegNids : ~(Create(r) \/ FreeNode(r))
      BY DEF Create, FreeNode, diskVars
    <3>5. /\ \A n \in RegNids \cup {RootIno} : ~Modify(n)
          /\ \A n \in Nids : ~WriteNode(n)
          /\ \A p \in MetaPages : ~WriteMetaPage(p)
      BY DEF Modify, WriteNode, WriteMetaPage, diskVars
    <3> QED
      BY <3>1, <3>2, <3>3, <3>4, <3>5 DEF Next, CheckpointStep
  <2>2. super' = cpsb /\ nblk' = nblk /\ phase = "unmount"
    BY <2>1 DEF flush_super_block
  <2>3. /\ nblk[MetaIno][cpsb[MetaIno].addr] = node[MetaIno]
        /\ cpsb[RootIno].addr = nat[RootIno].addr /\ nat[RootIno].addr # 0
    BY <2>2 DEF IInv, RootsOK
  <2> QED
    BY <2>2, <2>3 DEF MetaAddr
<1> QED
  BY <1>1, AlwaysIInv, PTL DEF Spec, RootsRecovered

-----------------------------------------------------------------------------
(* The checkpoint implements the snapshot store. *)

\* The first superblock after mkfs's names everything the system had.
LEMMA FirstSuperBlock ==
  ASSUME IInv, sessions = 0, phase = "unmount", super' = cpsb, nblk' = nblk, pblk' = pblk
  PROVE  \A k \in Keys : DiskAddr(k)' = nat[k].addr
<1>1. TypeOK /\ PathsOK /\ RootsOK /\ UnusedOK /\ CleanOK /\ RecordedOK
  BY DEF IInv, FirstOK
<1>2. /\ pdirty = {} /\ ndirty \subseteq {MetaIno}
      /\ cpsb[MetaIno].addr # 0 /\ nblk[MetaIno][cpsb[MetaIno].addr] = node[MetaIno]
      /\ cpsb[RootIno].addr = nat[RootIno].addr /\ nat[RootIno].addr # 0
  BY <1>1, NidsFacts DEF RootsOK, PathsOK, TypeOK
<1>3. \A p \in MetaPages : page[p] = Stored(p)
  BY <1>1, <1>2 DEF CleanOK
<1>4. DiskN0' = page["N0"]
  <2>1. Written(nblk[MetaIno], super[MetaIno].addr, EmptyNode)' = node[MetaIno]
    BY <1>2 DEF Written
  <2>2. DiskN0' = Written(pblk["N0"], node[MetaIno].addr["N0"], EmptyPage)
    BY <2>1 DEF DiskN0
  <2>3. Stored("N0") = Written(pblk["N0"], node[MetaIno].addr["N0"], EmptyPage)
    BY NidsFacts DEF Stored, Dnode
  <2> QED
    BY <2>2, <2>3, <1>3 DEF MetaPages
\* The entry of a node, as the first superblock and the NAT blocks have it.
<1>5. ASSUME NEW n \in Nids, n # MetaIno, n # RootIno
      PROVE  nat[n].addr = IF cpsb[n].addr # 0 THEN cpsb[n].addr ELSE page[NatPage(n)][n]
  <2>1. CASE nat[n].used
    <3>1. n \in Entries
      BY <2>1, <1>5 DEF Entries
    <3> QED
      BY <3>1, <1>1, <1>5 DEF RecordedOK
  <2>2. CASE ~nat[n].used
    BY <2>2, <1>1 DEF UnusedOK
  <2> QED
    BY <2>1, <2>2
<1>6. \A n \in MetaNodes : n # MetaIno => MetaAddr(n)' = nat[n].addr
  BY <1>2, <1>4, <1>5, NatPageFacts, NidsFacts DEF MetaAddr
<1>7. MetaAddr(MetaIno)' = cpsb[MetaIno].addr
  BY <1>2 DEF MetaAddr
<1>8. \A n \in MetaNodes : DiskNode'[n] = node[n]
  <2> SUFFICES ASSUME NEW n \in MetaNodes
               PROVE  DiskNode'[n] = node[n]
    OBVIOUS
  <2>1. DiskNode'[n] = Written(nblk[n], MetaAddr(n)', EmptyNode)
    BY DEF DiskNode
  <2>2. CASE n = MetaIno
    BY <2>1, <2>2, <1>2, <1>7 DEF Written
  <2>3. CASE n # MetaIno
    BY <2>1, <2>3, <1>1, <1>2, <1>6 DEF CleanOK
  <2> QED
    BY <2>2, <2>3
<1>9. \A p \in MetaPages : DiskPage(p)' = page[p]
  <2> SUFFICES ASSUME NEW p \in MetaPages
               PROVE  DiskPage(p)' = page[p]
    OBVIOUS
  <2>1. Ind(DiskNode') = Ind(node) /\ Ind(node) \in MetaNids \cup {None}
    BY <1>1, <1>8, NodeTyped, NidsFacts DEF Ind
  <2>2. Dnode(DiskNode', p) = Dnode(node, p)
    BY <2>1, <1>8, NidsFacts DEF Dnode
  <2>3. Dnode(node, p) # None => DiskNode'[Dnode(node, p)] = node[Dnode(node, p)]
    BY <1>1, <1>8, NodeTyped
  <2>4. DiskPage(p)' = Stored(p)
    BY <2>2, <2>3 DEF DiskPage, Stored
  <2> QED
    BY <2>4, <1>3
<1> QED
  <2> SUFFICES ASSUME NEW k \in Keys
               PROVE  DiskAddr(k)' = nat[k].addr
    OBVIOUS
  <2>1. CASE k = RootIno
    BY <2>1, <1>2, NidsFacts DEF DiskAddr, MetaAddr
  <2>2. CASE k \in RegNids
    <3>1. k \notin MetaNodes /\ k \in Nids /\ k # MetaIno /\ k # RootIno /\ NatPage(k) \in MetaPages /\ cpsb[k].addr = 0
      BY <2>2, <1>1, NatPageFacts, NidsFacts DEF PathsOK
    <3>2. DiskAddr(k)' = page[NatPage(k)][k]
      BY <3>1, <1>9 DEF DiskAddr
    <3> QED
      BY <3>1, <3>2, <1>5
  <2> QED
    BY <2>1, <2>2 DEF Keys

LEMMA KeysFacts == Keys \subseteq Nids /\ Keys \cap MetaNids = {}
BY NidsFacts DEF Keys

\* Without a new superblock the snapshot stays.
LEMMA CommittedStays ==
  ASSUME IInv, super' = super,
         \A n \in Nids : \A i \in 1 .. Len(nblk[n]) : nblk'[n][i] = nblk[n][i],
         \A p \in MetaPages : \A i \in 1 .. Len(pblk[p]) : pblk'[p][i] = pblk[p][i]
  PROVE  Committed' = Committed
<1>1. \A k \in Keys : DiskAddr(k)' = DiskAddr(k)
  BY DiskStable, KeysFacts DEF IInv
<1> QED
  BY <1>1 DEF Committed

StoreStep == [Store!Next]_<<Live, Committed>>

\* Steps that write no block and leave the addresses of the keys alone.
LEMMA QuietStep ==
  ASSUME IInv, UNCHANGED diskVars, \A k \in Keys : nat'[k].addr = nat[k].addr, phase # "down", phase' # "down"
  PROVE  StoreStep
<1>1. Committed' = Committed
  BY CommittedStays DEF diskVars
<1>2. Live' = Live
  BY DEF Live
<1> QED
  BY <1>1, <1>2 DEF StoreStep

\* The system goes down with the superblock it had.
LEMMA RestoreStep ==
  ASSUME IInv, UNCHANGED diskVars, phase' = "down"
  PROVE  StoreStep
<1>1. Committed' = Committed
  BY CommittedStays DEF diskVars
<1>2. Live' = Committed
  BY <1>1 DEF Live
<1> QED
  BY <1>1, <1>2 DEF StoreStep, Store!Next, Store!Restore

\* One key gets another address.
LEMMA ChangeStep ==
  ASSUME IInv, super' = super, pblk' = pblk, NEW n \in Nids,
         \A m \in Nids : \A i \in 1 .. Len(nblk[m]) : nblk'[m][i] = nblk[m][i],
         \A m \in Nids : m # n => nat'[m].addr = nat[m].addr,
         phase # "down", phase' # "down"
  PROVE  StoreStep
<1>1. Committed' = Committed
  BY CommittedStays
<1>2. Live = [k \in Keys |-> nat[k].addr] /\ Live' = [k \in Keys |-> nat'[k].addr]
  BY DEF Live
<1>3. CASE n \in Keys
  <2>1. Live' = [Live EXCEPT ![n] = Live'[n]]
    BY <1>2, <1>3, KeysFacts
  <2> QED
    BY <2>1, <1>1, <1>3 DEF StoreStep, Store!Next, Store!Change
<1>4. CASE n \notin Keys
  <2>1. Live' = Live
    BY <1>2, <1>4, KeysFacts
  <2> QED
    BY <2>1, <1>1 DEF StoreStep
<1> QED
  BY <1>3, <1>4

\* The steps that are quiet.
LEMMA QuietSteps ==
  ASSUME IInv,
         \/ BeginPass \/ SyncDone \/ RegNodesWritten \/ flush_nat \/ flush_zit
         \/ MetaPagesWritten \/ MetaNodesWritten \/ AppendRoots \/ LateInodeWrite \/ ReadNatBlock
         \/ (\E r \in RegNids : Create(r)) \/ (\E n \in RegNids \cup {RootIno} : Modify(n))
  PROVE  StoreStep
<1>1. TypeOK
  BY DEF IInv
<1>2. CASE BeginPass \/ SyncDone \/ RegNodesWritten \/ MetaPagesWritten \/ MetaNodesWritten \/ AppendRoots
  <2>1. UNCHANGED diskVars /\ nat' = nat /\ phase # "down" /\ phase' # "down"
    BY <1>2 DEF BeginPass, SyncDone, RegNodesWritten, MetaPagesWritten, MetaNodesWritten, AppendRoots
  <2> QED
    BY <2>1, QuietStep
<1>3. CASE LateInodeWrite \/ \E n \in RegNids \cup {RootIno} : Modify(n)
  <2>1. UNCHANGED diskVars /\ nat' = nat /\ phase # "down" /\ phase' # "down"
    BY <1>3 DEF LateInodeWrite, Modify, cpVars
  <2> QED
    BY <2>1, QuietStep
<1>4. CASE flush_nat
  <2>1. UNCHANGED diskVars /\ phase # "down" /\ phase' # "down"
    BY <1>4 DEF flush_nat
  <2>2. ASSUME NEW n \in Nids
        PROVE  nat'[n].addr = nat[n].addr
    <3>1. nat'[n] = IF n \in DirtyNats THEN [nat[n] EXCEPT !.dirty = FALSE] ELSE nat[n]
      BY <1>4 DEF flush_nat
    <3>2. PICK old \in [addr : Nat, dirty : BOOLEAN, used : BOOLEAN] : old = nat[n]
      BY <1>1 DEF TypeOK
    <3>3. nat'[n] = [old EXCEPT !.dirty = FALSE] \/ nat'[n] = old
      BY <3>1, <3>2
    <3> QED
      BY <3>2, <3>3
  <2> QED
    BY <2>1, <2>2, QuietStep, KeysFacts
<1>5. ASSUME NEW p \in {"N1", "Z"}, CreatePath(p), UNCHANGED diskVars, phase # "down", phase' # "down"
      PROVE  StoreStep
  <2>1. \A k \in Keys : nat'[k] = nat[k]
    BY <1>1, <1>5, PathCreated, KeysFacts DEF FreeMeta
  <2> QED
    BY <2>1, <1>5, QuietStep
<1>6. CASE flush_zit
  <2>1. UNCHANGED diskVars /\ phase # "down" /\ phase' # "down" /\ (CreatePath("Z") \/ nat' = nat)
    BY <1>6 DEF flush_zit
  <2> QED
    BY <2>1, <1>5, QuietStep
<1>7. CASE ReadNatBlock
  <2>1. UNCHANGED diskVars /\ phase # "down" /\ phase' # "down" /\ CreatePath("N1")
    BY <1>7 DEF ReadNatBlock, cpVars
  <2> QED
    BY <2>1, <1>5
<1>8. ASSUME NEW r \in RegNids, Create(r)
      PROVE  StoreStep
  <2>1. UNCHANGED diskVars /\ phase # "down" /\ phase' # "down" /\ nat' = [nat EXCEPT ![r].used = TRUE]
    BY <1>8 DEF Create, cpVars
  <2>2. PICK old \in [addr : Nat, dirty : BOOLEAN, used : BOOLEAN] : old = nat[r]
    BY <1>1, NidsFacts DEF TypeOK
  <2>3. PICK new : new = [old EXCEPT !.used = TRUE]
    OBVIOUS
  <2>4. new.addr = old.addr /\ nat' = [nat EXCEPT ![r] = new]
    BY <2>1, <2>2, <2>3
  <2>5. \A k \in Keys : nat'[k].addr = nat[k].addr
    BY <2>2, <2>4, <1>1, KeysFacts DEF TypeOK
  <2> QED
    BY <2>1, <2>5, QuietStep
<1> QED
  BY <1>2, <1>3, <1>4, <1>6, <1>7, <1>8

LEMMA MountIsQuiet ==
  ASSUME IInv, Mount
  PROVE  StoreStep
<1>1. UNCHANGED diskVars /\ phase = "down" /\ phase' = "run"
  BY DEF Mount
<1>2. Committed' = Committed
  BY <1>1, CommittedStays DEF diskVars
<1>3. \A k \in Keys : nat'[k].addr = DiskAddr(k)
  <2> SUFFICES ASSUME NEW k \in Keys
               PROVE  nat'[k].addr = DiskAddr(k)
    OBVIOUS
  <2>1. PICK a : a = DiskAddr(k)
    OBVIOUS
  <2>2. nat'[k] = [addr |-> a, dirty |-> super[k].moved, used |-> a # 0]
    BY <2>1, KeysFacts DEF Mount
  <2>4. CASE a # 0
    <3>1. nat'[k] = [addr |-> a, dirty |-> super[k].moved, used |-> TRUE]
      BY <2>2, <2>4
    <3> QED
      BY <3>1, <2>1
  <2>5. CASE a = 0
    <3>1. nat'[k] = [addr |-> a, dirty |-> super[k].moved, used |-> FALSE]
      BY <2>2, <2>5
    <3> QED
      BY <3>1, <2>1
  <2> QED
    BY <2>4, <2>5
<1>4. Live = Committed /\ Live' = Committed
  BY <1>1, <1>3 DEF Live, Committed
<1> QED
  BY <1>2, <1>4 DEF StoreStep

LEMMA WritesChange ==
  ASSUME IInv, NEW n \in Nids, WriteNode(n) \/ (n \in RegNids /\ FreeNode(n))
  PROVE  StoreStep
<1>1. TypeOK
  BY DEF IInv
<1>2. super' = super /\ pblk' = pblk /\ phase # "down" /\ phase' = phase
  BY DEF WriteNode, FreeNode, diskVars, cpVars
<1>3. PICK a : nat' = [nat EXCEPT ![n].addr = a, ![n].dirty = TRUE]
  BY DEF WriteNode, FreeNode
<1>4. \A m \in Nids : m # n => nat'[m] = nat[m]
  <2>1. PICK new : new = [nat[n] EXCEPT !.addr = a, !.dirty = TRUE]
    OBVIOUS
  <2>2. nat' = [nat EXCEPT ![n] = new]
    BY <1>1, <1>3, <2>1 DEF TypeOK
  <2> QED
    BY <2>2, <1>1 DEF TypeOK
<1>5. \A m \in Nids : \A i \in 1 .. Len(nblk[m]) : nblk'[m][i] = nblk[m][i]
  <2>1. CASE nblk' = nblk
    BY <2>1
  <2>2. CASE nblk' = [nblk EXCEPT ![n] = Append(@, node[n])]
    <3>1. PICK last : last = nblk[n]
      OBVIOUS
    <3>2. PICK more : more = Append(last, node[n])
      OBVIOUS
    <3>3. last \in Seq(NodeBody) /\ node[n] \in NodeBody
      BY <1>1, <3>1, Typed, NodeTyped
    <3>4. \A i \in 1 .. Len(last) : more[i] = last[i]
      BY <3>2, <3>3, AppendProperties
    <3>5. nblk' = [nblk EXCEPT ![n] = more]
      BY <2>2, <3>1, <3>2
    <3>6. nblk'[n] = more /\ \A m \in Nids : m # n => nblk'[m] = nblk[m]
      BY <3>5, <1>1 DEF TypeOK
    <3> QED
      BY <3>1, <3>4, <3>6
  <2> QED
    BY <2>1, <2>2 DEF WriteNode, FreeNode, diskVars
<1> QED
  BY <1>2, <1>4, <1>5, ChangeStep

LEMMA MetaPageIsQuiet ==
  ASSUME IInv, NEW p \in MetaPages, WriteMetaPage(p)
  PROVE  StoreStep
<1>1. TypeOK
  BY DEF IInv
<1>2. /\ super' = super /\ nblk' = nblk /\ nat' = nat /\ phase # "down" /\ phase' = phase
      /\ pblk' = [pblk EXCEPT ![p] = Append(@, page[p])]
  BY DEF WriteMetaPage
<1>3. PICK last : last = pblk[p]
  OBVIOUS
<1>4. PICK more : more = Append(last, page[p])
  OBVIOUS
<1>5. last \in Seq([Nids -> Nat]) /\ page[p] \in [Nids -> Nat]
  BY <1>1, <1>3, Typed
<1>6. \A i \in 1 .. Len(last) : more[i] = last[i]
  BY <1>4, <1>5, AppendProperties
<1>7. pblk' = [pblk EXCEPT ![p] = more]
  BY <1>2, <1>3, <1>4
<1>8. pblk'[p] = more /\ \A q \in MetaPages : q # p => pblk'[q] = pblk[q]
  BY <1>7, <1>1 DEF TypeOK
<1>9. \A q \in MetaPages : \A i \in 1 .. Len(pblk[q]) : pblk'[q][i] = pblk[q][i]
  BY <1>3, <1>6, <1>8
<1>10. Committed' = Committed
  BY <1>2, <1>9, CommittedStays
<1>11. Live' = Live
  BY <1>2 DEF Live
<1> QED
  BY <1>10, <1>11 DEF StoreStep

LEMMA SuperBlockCommits ==
  ASSUME IInv, flush_super_block, SuperRoom <= 1 \/ MaxSessions <= 1
  PROVE  StoreStep
<1>1. /\ phase = "unmount" /\ phase' = "down" /\ nblk' = nblk /\ pblk' = pblk
      /\ super' = (IF SuperFits THEN cpsb ELSE super)
  BY DEF flush_super_block, Forget
<1>2. CASE SuperFits
  <2>1. sessions = 0
    <3>1. sessions \in Nat /\ sessions < MaxSessions /\ sessions < SuperRoom
      BY <1>1, <1>2 DEF IInv, TypeOK, RootsOK, SuperFits
    <3> QED
      BY <3>1, NidsAssumption
  <2>2. \A k \in Keys : DiskAddr(k)' = nat[k].addr
    BY <1>1, <1>2, <2>1, FirstSuperBlock
  <2>3. Committed' = Live /\ Live' = Live
    BY <1>1, <2>2 DEF Committed, Live
  <2> QED
    BY <2>3 DEF StoreStep, Store!Next, Store!Commit
<1>3. CASE ~SuperFits
  BY <1>1, <1>3, RestoreStep DEF diskVars
<1> QED
  BY <1>2, <1>3

\* The checkpoint implements the snapshot store: what a mount finds changes only
\* when a superblock is written, and then to all the unmounted system had, for
\* any nodes, however often the checkpoint restarts and the system crashes.  It
\* is proved for the first superblock after mkfs's: the later ones of a device
\* with room for them can miss an entry (MCCheckpointRemount).
THEOREM CheckpointIsSnapshot ==
  ASSUME SuperRoom <= 1 \/ MaxSessions <= 1
  PROVE  Spec => ImplementsStore
<1>1. Init => Store!Init
  BY DEF Init, Live, Store!Init
<1>2. IInv /\ [Next]_vars => StoreStep
  <2> SUFFICES ASSUME IInv, [Next]_vars
               PROVE  StoreStep
    OBVIOUS
  <2>1. CASE Mount
    BY <2>1, MountIsQuiet
  <2>2. CASE Crash
    BY <2>2, RestoreStep DEF Crash, Forget
  <2>3. CASE ReadNatBlock \/ LateInodeWrite
    BY <2>3, QuietSteps
  <2>4. CASE CheckpointStep
    BY <2>4, QuietSteps, SuperBlockCommits DEF CheckpointStep
  <2>5. ASSUME NEW r \in RegNids, Create(r) \/ FreeNode(r)
        PROVE  StoreStep
    BY <2>5, QuietSteps, WritesChange, NidsFacts
  <2>6. ASSUME NEW n \in RegNids \cup {RootIno}, Modify(n)
        PROVE  StoreStep
    BY <2>6, QuietSteps
  <2>7. ASSUME NEW n \in Nids, WriteNode(n)
        PROVE  StoreStep
    BY <2>7, WritesChange
  <2>8. ASSUME NEW p \in MetaPages, WriteMetaPage(p)
        PROVE  StoreStep
    BY <2>8, MetaPageIsQuiet
  <2>9. CASE UNCHANGED vars
    <3>1. UNCHANGED diskVars /\ nat' = nat /\ phase' = phase
      BY <2>9 DEF vars, cpVars
    <3>2. Committed' = Committed
      BY <3>1, CommittedStays DEF diskVars
    <3>3. Live' = Live
      BY <3>1, <3>2 DEF Live
    <3> QED
      BY <3>2, <3>3 DEF StoreStep
  <2> QED
    BY <2>1, <2>2, <2>3, <2>4, <2>5, <2>6, <2>7, <2>8, <2>9 DEF Next
<1> QED
  BY <1>1, <1>2, AlwaysIInv, PTL DEF Spec, ImplementsStore, Store!Spec, Store!vars, StoreStep
=============================================================================

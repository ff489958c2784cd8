----------------------------- MODULE Checkpoint -----------------------------
(***************************************************************************)
(* The checkpoint of xcpfs (checkpoint.c) with the node address table      *)
(* (nat_mgmt.c) it saves, the write path that feeds both (xio.c, inode.c), *)
(* the superblock written at unmount (super.c) and the mount that reads    *)
(* everything back (xcpfs.c).                                              *)
(*                                                                         *)
(* Nodes are addressed by nid through the NAT.  NAT entries live in NAT    *)
(* blocks, which are data pages of the meta inode (nid 1), reached through *)
(* meta nodes that themselves have NAT entries.  A checkpoint breaks this  *)
(* circle by putting the nodes it writes last into the superblock.         *)
(*                                                                         *)
(* Four pages of the meta inode stand for all of them:                     *)
(*   "N0"        the NAT block of nids 1, 3 and the meta nodes, whose        *)
(*               address is in node 1 itself                               *)
(*   "N1", "N2"  NAT blocks of regular nids: node 1 -> indirect node ->    *)
(*               direct node, the same one for both                        *)
(*   "Z"         a block of the zone table: node 1 -> the same indirect    *)
(*               node -> another direct node                               *)
(* Blocks are never overwritten; the address of a block is its position    *)
(* among the blocks written for the same node or page, 0 for none.         *)
(* A write is one step: the page is locked from its submission to end_io.  *)
(***************************************************************************)
EXTENDS Naturals, Sequences, FiniteSets

CONSTANTS MetaIno, RootIno,  \* nids 1 and 3
          MetaNids,          \* nids below REG_NAT_START that can be allocated
          RegNids,           \* nids of regular inodes and their nodes
          SecondBlock,       \* those whose entries are in the second NAT block
          None,              \* nid 0: no node
          SuperRoom,         \* superblocks that fit into zone 0 behind mkfs's
          MaxMods,           \* bound: changes by users
          MaxRestarts,       \* bound: zones opened while a checkpoint runs
          MaxCrashes,        \* bound: crashes
          MaxSessions,       \* bound: unmounts
          MaxMounts          \* bound: mounts

ASSUME NidsAssumption ==
  /\ MetaIno # RootIno
  /\ {MetaIno, RootIno} \cap (MetaNids \cup RegNids) = {}
  /\ MetaNids \cap RegNids = {} /\ SecondBlock \subseteq RegNids
  /\ None \notin MetaNids \cup RegNids \cup {MetaIno, RootIno}
  /\ {SuperRoom, MaxMods, MaxRestarts, MaxCrashes, MaxSessions, MaxMounts} \subseteq Nat

MetaNodes == {MetaIno, RootIno} \cup MetaNids
Nids == MetaNodes \cup RegNids
MetaPages == {"N0", "N1", "N2", "Z"}

\* nid / NAT_ENTRY_PER_BLOCK: the NAT block of a nid.
NatPage(n) == CASE n \in MetaNodes   -> "N0"
                [] n \in SecondBlock -> "N2"
                [] OTHER             -> "N1"

\* What a node holds: child nids (i_nid, nid) and block addresses (i_addr,
\* addr).  A regular node holds nothing that matters here.
ChildSlots == {"ind", "dirN", "dirZ"}
EmptyNode == [child |-> [s \in ChildSlots |-> None], addr |-> [p \in MetaPages |-> 0]]
EmptyPage == [n \in Nids |-> 0]

Phases == {"run", "sync", "regnodes", "nat", "zit", "metapages", "metanodes",
           "append", "restart", "unmount", "down"}

\* sbi->cp_phase = 2 with cp_sem held: a node that is written is also appended.
Phase2 == {"nat", "zit", "metapages", "metanodes"}
CpLocked == Phase2 \cup {"sync", "regnodes", "append"}

-----------------------------------------------------------------------------
VARIABLES
  nblk,      \* on disk: the blocks written for each nid, a sequence of nodes
  pblk,      \* on disk: the blocks written for each meta page
  super,     \* on disk: the meta_nat entries of the current superblock
  node,      \* page cache: the node pages, node_inode's mapping
  ndirty,    \* the nids of dirty node pages
  page,      \* page cache: the meta inode's pages
  pdirty,    \* the dirty ones among them
  nat,       \* the NAT entries: block_addr, dirty, and whether on nat_list
  zdirty,    \* some zone is dirty
  phase,     \* where do_checkpoint and the unmount are
  tosync,    \* the nodes sync_inodes_sb still has to write
  cpsb,      \* the superblock being built
  restart,   \* cpc->restart
  mods, restarts, crashes, sessions    \* bounds

diskVars == <<nblk, pblk, super>>
cacheVars == <<node, ndirty, page, pdirty>>
cpVars == <<phase, tosync, cpsb, restart>>
boundVars == <<mods, restarts, crashes, sessions>>
vars == <<diskVars, cacheVars, nat, zdirty, cpVars, boundVars>>

\* sbi->cp_phase, which stays at 2 when the checkpoint is over.
CpPhase == CASE phase = "run"                 -> 0
             [] phase \in {"sync", "regnodes"} -> 1
             [] OTHER                         -> 2

-----------------------------------------------------------------------------
(* The way from the meta inode to one of its pages. *)

\* The direct node of page p given the node pages of nodes, None if missing.
DirSlot(p) == IF p = "Z" THEN "dirZ" ELSE "dirN"
Ind(nodes) == nodes[MetaIno].child["ind"]
Dnode(nodes, p) ==
  IF p = "N0" THEN MetaIno
  ELSE IF Ind(nodes) = None THEN None ELSE nodes[Ind(nodes)].child[DirSlot(p)]

\* One entry of the superblock under construction: moved records that the nid
\* was appended before, with another address.
NoEntry == [addr |-> 0, moved |-> FALSE]
EmptySuper == [n \in Nids |-> NoEntry]
AppendedOnce(sb, n, a) ==
  IF sb[n].addr # 0 THEN sb ELSE [sb EXCEPT ![n] = [addr |-> a, moved |-> FALSE]]
cp_append_nat(sb, n, a) ==
  [sb EXCEPT ![n] = [addr |-> a, moved |-> @.moved \/ (@.addr # 0 /\ @.addr # a)]]

-----------------------------------------------------------------------------
(* What a mount reads back. *)

Written(blocks, a, empty) == IF a = 0 THEN empty ELSE blocks[a]

\* NAT block 0 hangs on node 1, which is always in the superblock.
DiskN0 ==
  LET meta == Written(nblk[MetaIno], super[MetaIno].addr, EmptyNode)
  IN  Written(pblk["N0"], meta.addr["N0"], EmptyPage)

\* An entry of the superblock hides the one of the NAT block.
NatBlockFirst(n) == IF DiskN0[n] # 0 THEN DiskN0[n] ELSE super[n].addr
MetaAddr(n) == IF super[n].addr # 0 THEN super[n].addr ELSE DiskN0[n]
DiskNode == [n \in MetaNodes |-> Written(nblk[n], MetaAddr(n), EmptyNode)]
DiskPage(p) ==
  LET d == Dnode(DiskNode, p)
  IN  IF d = None THEN EmptyPage ELSE Written(pblk[p], DiskNode[d].addr[p], EmptyPage)
DiskAddr(n) ==
  IF n \in MetaNodes THEN MetaAddr(n)
  ELSE IF super[n].addr # 0 THEN super[n].addr ELSE DiskPage(NatPage(n))[n]

NoNode == [n \in Nids |-> EmptyNode]
NoPage == [p \in MetaPages |-> EmptyPage]
NoNat == [n \in Nids |-> [addr |-> 0, dirty |-> FALSE, used |-> FALSE]]

\* mkfs: two inodes, and a superblock that names them.
Init ==
  /\ nblk = [n \in Nids |-> IF n \in {MetaIno, RootIno} THEN <<EmptyNode>> ELSE <<>>]
  /\ pblk = [p \in MetaPages |-> <<>>]
  /\ super = [n \in Nids |-> IF n \in {MetaIno, RootIno} THEN [addr |-> 1, moved |-> FALSE] ELSE NoEntry]
  /\ node = NoNode /\ page = NoPage /\ nat = NoNat
  /\ ndirty = {} /\ pdirty = {} /\ zdirty = FALSE
  /\ phase = "down" /\ tosync = {} /\ cpsb = EmptySuper /\ restart = FALSE
  /\ mods = 0 /\ restarts = 0 /\ crashes = 0 /\ sessions = 0

\* read_super and the lookups that follow.  insert_nat drops its dirty
\* argument; only an entry that moved within the superblock is marked, by
\* update_nat.  get_zit_info marks every zone in use.
Mount ==
  /\ phase = "down" /\ crashes + sessions < MaxMounts
  /\ node' = [n \in Nids |-> IF n \in MetaNodes THEN DiskNode[n] ELSE EmptyNode]
  /\ page' = [p \in MetaPages |-> DiskPage(p)]
  /\ nat' = [n \in Nids |-> [addr |-> DiskAddr(n), dirty |-> super[n].moved,
                             used |-> DiskAddr(n) # 0]]
  /\ zdirty' = TRUE
  /\ phase' = "run"
  /\ UNCHANGED <<diskVars, ndirty, pdirty, tosync, cpsb, restart, boundVars>>

-----------------------------------------------------------------------------
(* Users and writeback. *)

FreeMeta == {n \in MetaNids : ~nat[n].used}

\* The entries get_dnode_page leaves for the nodes it creates.
Allocated(S) == [n \in Nids |-> IF n \in S THEN [addr |-> 0, dirty |-> TRUE, used |-> TRUE] ELSE nat[n]]

\* get_dnode_page with create: the missing nodes on the way to page p.  The
\* parent of a new node is dirty, a new leaf is not.
CreatePath(p) ==
  \/ /\ Dnode(node, p) # None
     /\ UNCHANGED <<node, ndirty, nat>>
  \/ /\ Dnode(node, p) = None /\ Ind(node) # None
     /\ \E d \in FreeMeta :
          /\ node' = [node EXCEPT ![Ind(node)].child[DirSlot(p)] = d]
          /\ nat' = Allocated({d})
     /\ ndirty' = ndirty \cup {Ind(node)}
  \/ /\ Ind(node) = None
     /\ \E i, d \in FreeMeta :
          /\ i # d
          /\ node' = [node EXCEPT ![MetaIno].child["ind"] = i, ![i].child[DirSlot(p)] = d]
          /\ nat' = Allocated({i, d})
          /\ ndirty' = ndirty \cup {MetaIno, i}

\* lookup_nat or alloc_free_nat read a NAT block of regular nids: its path is
\* created even if the block is only read.
ReadNatBlock ==
  /\ phase = "run" /\ Dnode(node, "N1") = None
  /\ CreatePath("N1")
  /\ UNCHANGED <<diskVars, page, pdirty, zdirty, cpVars, boundVars>>

\* new_inode, or a node of a regular file: a free nid and a dirty node page.
Create(r) ==
  /\ phase = "run" /\ mods < MaxMods
  /\ Dnode(node, "N1") # None /\ ~nat[r].used
  /\ nat' = [nat EXCEPT ![r].used = TRUE]
  /\ ndirty' = ndirty \cup {r}
  /\ mods' = mods + 1
  /\ UNCHANGED <<diskVars, node, page, pdirty, zdirty, cpVars, restarts, crashes, sessions>>

\* A regular node or the root changes: an inode update, or the end_io of one
\* of its data blocks, which may come during sync_inodes_sb.
Modify(n) ==
  /\ phase \in {"run", "sync"} /\ mods < MaxMods
  /\ nat[n].used
  /\ ndirty' = ndirty \cup {n}
  /\ mods' = mods + 1
  /\ UNCHANGED <<diskVars, node, page, pdirty, nat, zdirty, cpVars, restarts, crashes, sessions>>

\* Truncation frees a node: recurse leaves its page dirty, then
\* invalidate_nat clears the entry, which stays on nat_list.
FreeNode(r) ==
  /\ phase = "run" /\ mods < MaxMods
  /\ nat[r].used
  /\ nat' = [nat EXCEPT ![r].addr = 0, ![r].dirty = TRUE]
  /\ ndirty' = ndirty \cup {r}
  /\ mods' = mods + 1
  /\ UNCHANGED <<diskVars, node, page, pdirty, zdirty, cpVars, restarts, crashes, sessions>>

\* alloc_zone may open a zone; while cp_sem is held that asks for a restart.
ZoneOpened ==
  \/ UNCHANGED <<restart, restarts>>
  \/ /\ phase \in CpLocked /\ restarts < MaxRestarts
     /\ restart' = TRUE
     /\ restarts' = restarts + 1

\* The address the device gives to the next block of node n.
AddressAfter(n) == Len(nblk[n]) + 2
NextAddr(n) == Len(nblk[n]) + 1

\* Before phase 2 a meta node is written by sync(2) and by sync_inodes_sb
\* (WB_SYNC_ALL), and redirtied by the flusher threads (WB_SYNC_NONE).
WritableInPhase2(n, sync_all) == n \in RegNids \/ CpPhase = 2
Writable(n, sync_all) == n \in RegNids \/ CpPhase = 2 \/ sync_all

\* write_data_page on a node page up to end_io.
WriteNode(n) ==
  /\ phase # "down" /\ n \in ndirty
  /\ \E sync_all \in BOOLEAN : Writable(n, sync_all)
  /\ LET a == NextAddr(n) IN
     /\ nblk' = [nblk EXCEPT ![n] = Append(@, node[n])]
     /\ nat' = [nat EXCEPT ![n].addr = a, ![n].dirty = TRUE]
     /\ cpsb' = IF phase \in Phase2 THEN cp_append_nat(cpsb, n, a) ELSE cpsb
  /\ ndirty' = ndirty \ {n}
  /\ tosync' = tosync \ {n}
  /\ zdirty' = TRUE
  /\ ZoneOpened
  /\ UNCHANGED <<pblk, super, node, page, pdirty, phase, mods, crashes, sessions>>

\* write_data_page on a page of the meta inode up to end_io.
WriteMetaPage(p) ==
  /\ phase # "down" /\ p \in pdirty
  /\ pblk' = [pblk EXCEPT ![p] = Append(@, page[p])]
  /\ node' = [node EXCEPT ![Dnode(node, p)].addr[p] = Len(pblk[p]) + 1]
  /\ ndirty' = ndirty \cup {Dnode(node, p)}
  /\ pdirty' = pdirty \ {p}
  /\ zdirty' = TRUE
  /\ ZoneOpened
  /\ UNCHANGED <<nblk, super, page, nat, phase, tosync, cpsb, mods, crashes, sessions>>

-----------------------------------------------------------------------------
(* do_checkpoint. *)

\* From the label restart: to sync_inodes_sb.
BeginPass ==
  /\ (phase = "run" /\ sessions < MaxSessions) \/ phase = "restart"
  /\ phase' = "sync"
  /\ cpsb' = EmptySuper
  /\ restart' = FALSE
  /\ tosync' = ndirty
  /\ UNCHANGED <<diskVars, cacheVars, nat, zdirty, boundVars>>

\* sync_inodes_sb has written every node that was dirty when it began; a node
\* dirtied since by the end_io of a data block may still be.
SyncDone ==
  /\ phase = "sync" /\ tosync = {}
  /\ phase' = "regnodes"
  /\ UNCHANGED <<diskVars, cacheVars, nat, zdirty, tosync, cpsb, restart, boundVars>>

\* The range of the regular nodes is written and waited for.
RegNodesWritten ==
  /\ phase = "regnodes" /\ ndirty \cap RegNids = {}
  /\ phase' = "nat"
  /\ UNCHANGED <<diskVars, cacheVars, nat, zdirty, tosync, cpsb, restart, boundVars>>

\* Every dirty entry of nat_list goes to its NAT block.
DirtyNats == {n \in Nids : nat[n].used /\ nat[n].dirty}
flush_nat ==
  /\ phase = "nat"
  /\ page' = [p \in MetaPages |->
                [n \in Nids |-> IF n \in DirtyNats /\ NatPage(n) = p THEN nat[n].addr ELSE page[p][n]]]
  /\ pdirty' = pdirty \cup {NatPage(n) : n \in DirtyNats}
  /\ nat' = [n \in Nids |-> IF n \in DirtyNats THEN [nat[n] EXCEPT !.dirty = FALSE] ELSE nat[n]]
  /\ phase' = "zit"
  /\ UNCHANGED <<diskVars, node, ndirty, zdirty, tosync, cpsb, restart, boundVars>>

\* The table of the zones goes to its block, whose path may be new.
flush_zit ==
  /\ phase = "zit"
  /\ IF zdirty
     THEN /\ CreatePath("Z")
          /\ pdirty' = pdirty \cup {"Z"}
     ELSE UNCHANGED <<node, ndirty, nat, pdirty>>
  /\ zdirty' = FALSE
  /\ phase' = "metapages"
  /\ UNCHANGED <<diskVars, page, tosync, cpsb, restart, boundVars>>

\* The pages of the meta inode, then the meta nodes, written and waited for.
MetaPagesWritten ==
  /\ phase = "metapages" /\ pdirty = {}
  /\ phase' = "metanodes"
  /\ UNCHANGED <<diskVars, cacheVars, nat, zdirty, tosync, cpsb, restart, boundVars>>

MetaNodesWritten ==
  /\ phase = "metanodes" /\ ndirty \cap MetaNodes = {}
  /\ phase' = "append"
  /\ UNCHANGED <<diskVars, cacheVars, nat, zdirty, tosync, cpsb, restart, boundVars>>

\* Phase 3: nodes 1 and 3, then the look at the restart mark.
WithMetaIno(sb) == cp_append_nat(sb, MetaIno, nat[MetaIno].addr)
WithRoots(sb) ==
  cp_append_nat(cp_append_nat(sb, MetaIno, nat[MetaIno].addr), RootIno, nat[RootIno].addr)

AppendRoots ==
  /\ phase = "append"
  /\ cpsb' = WithRoots(cpsb)
  /\ phase' = IF restart THEN "restart" ELSE "unmount"
  /\ UNCHANGED <<diskVars, cacheVars, nat, zdirty, tosync, restart, boundVars>>

\* kill_block_super writes inodes that are still dirty.  The meta inode may be
\* one: its size grew in phase 2.
LateInodeWrite ==
  /\ phase = "unmount" /\ nat[MetaIno].addr = cpsb[MetaIno].addr
  /\ ndirty' = ndirty \cup {MetaIno}
  /\ UNCHANGED <<diskVars, node, page, pdirty, nat, zdirty, cpVars, boundVars>>

Forget ==
  /\ node' = NoNode /\ page' = NoPage /\ nat' = NoNat
  /\ ndirty' = {} /\ pdirty' = {} /\ zdirty' = FALSE
  /\ phase' = "down" /\ tosync' = {} /\ cpsb' = EmptySuper /\ restart' = FALSE

\* put_super appends the superblock to zone 0: mkfs has written to that, so it
\* is never EMPTY, and zone 1, which would be next, always is.  When zone 0 is
\* full the append fails, unnoticed, and the superblock before stays the last.
SuperFits == sessions < SuperRoom
flush_super_block ==
  /\ phase = "unmount"
  /\ super' = IF SuperFits THEN cpsb ELSE super
  /\ sessions' = sessions + 1
  /\ Forget
  /\ UNCHANGED <<nblk, pblk, mods, restarts, crashes>>

Crash ==
  /\ phase # "down" /\ crashes < MaxCrashes
  /\ crashes' = crashes + 1
  /\ Forget
  /\ UNCHANGED <<diskVars, mods, restarts, sessions>>

CheckpointStep ==
  \/ BeginPass \/ SyncDone \/ RegNodesWritten \/ flush_nat \/ flush_zit
  \/ MetaPagesWritten \/ MetaNodesWritten \/ AppendRoots \/ flush_super_block

Next ==
  \/ Mount \/ Crash \/ ReadNatBlock \/ LateInodeWrite \/ CheckpointStep
  \/ \E r \in RegNids : Create(r) \/ FreeNode(r)
  \/ \E n \in RegNids \cup {RootIno} : Modify(n)
  \/ \E n \in Nids : WriteNode(n)
  \/ \E p \in MetaPages : WriteMetaPage(p)

Spec == Init /\ [][Next]_vars

\* The unmounting task and the pages' writeback run.
Fairness ==
  /\ WF_vars(CheckpointStep)
  /\ WF_vars(\E n \in Nids : WriteNode(n)) /\ WF_vars(\E p \in MetaPages : WriteMetaPage(p))

FairSpec == Spec /\ Fairness

-----------------------------------------------------------------------------
(* Properties *)

Entry == [addr : Nat, moved : BOOLEAN]
NodeBody == [child : [ChildSlots -> MetaNids \cup {None}], addr : [MetaPages -> Nat]]

\* Every variable keeps its type, and every address in memory is one of a block
\* that was written.
TypeOK ==
  /\ nblk \in [Nids -> Seq(NodeBody)] /\ pblk \in [MetaPages -> Seq([Nids -> Nat])]
  /\ super \in [Nids -> Entry] /\ cpsb \in [Nids -> Entry]
  /\ node \in [Nids -> NodeBody] /\ ndirty \subseteq Nids
  /\ page \in [MetaPages -> [Nids -> Nat]] /\ pdirty \subseteq MetaPages
  /\ nat \in [Nids -> [addr : Nat, dirty : BOOLEAN, used : BOOLEAN]]
  /\ \A n \in Nids : nat[n].addr <= Len(nblk[n]) /\ super[n].addr <= Len(nblk[n])
  /\ zdirty \in BOOLEAN /\ restart \in BOOLEAN
  /\ phase \in Phases /\ tosync \subseteq ndirty
  /\ mods \in 0 .. MaxMods /\ restarts \in 0 .. MaxRestarts
  /\ crashes \in 0 .. MaxCrashes /\ sessions \in 0 .. MaxSessions

\* checkpoint.c:64 "after that every update of the nat goes to the superblock":
\* when phase 2 is over, the entry of every node in use is in its NAT block or
\* in the superblock being built, whatever was written behind flush_nat's back.
\* (Nodes 1 and 3 follow in phase 3; node 1 has no other place.)
NatSaved ==
  phase \in {"append", "unmount"} =>
    \A n \in Nids :
      nat[n].used /\ n # MetaIno /\ (n = RootIno => phase = "unmount") =>
        IF cpsb[n].addr # 0 THEN cpsb[n].addr = nat[n].addr
        ELSE page[NatPage(n)][n] = nat[n].addr

\* The table a user depends on: regular nodes and the root.
Keys == RegNids \cup {RootIno}
Committed == [n \in Keys |-> DiskAddr(n)]
Live == IF phase = "down" THEN Committed ELSE [n \in Keys |-> nat[n].addr]
Store == INSTANCE SnapshotStore WITH Key <- Keys, live <- Live, committed <- Committed

\* The checkpoint implements the snapshot store: what a mount finds changes
\* only when a superblock is written, and then to all the unmounted system
\* had, however often the checkpoint restarted.
ImplementsStore == Store!Spec

\* Whatever a mount finds of the regular nodes, it finds the meta inode and
\* the root as the last unmount left them.
RootsRecovered ==
  [][super' # super =>
       /\ MetaAddr(RootIno)' = nat[RootIno].addr
       /\ nblk'[MetaIno][super'[MetaIno].addr] = node[MetaIno]]_vars

\* An unmount ends: every restart has a zone opened behind it, and a pass that
\* opens none is the last.
UnmountEnds == phase = "sync" ~> phase = "down"

=============================================================================

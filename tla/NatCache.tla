------------------------------ MODULE NatCache ------------------------------
(***************************************************************************)
(* The cache of the node address table (nat_mgmt.c) under concurrency:     *)
(* tasks look nids up, fill the cache from NAT blocks, allocate and free   *)
(* nids; completions of node writes store addresses; a checkpoint walks    *)
(* the list without a lock while completions go on.                        *)
(*                                                                         *)
(* An entry is on nat_list or on free_nat and is never taken out of the    *)
(* cache.  Sections of nat_info_rwsem held for writing are one step, which *)
(* no reader shares; sections held for reading are one step to enter and   *)
(* one to leave.  free_nat_empty changes the lists in a section for        *)
(* reading: raced says that this happened beside another reader.  The      *)
(* pointers of both lists are anything then; of what may follow the model  *)
(* has the readers' own steps, an entry that moves twice and a walk that   *)
(* misses its entry, and the properties of the lists say "unless raced".   *)
(*                                                                         *)
(* What a checkpoint does with the NAT pages and meta nodes is the subject *)
(* of module Checkpoint, where flush_nat is one step.                      *)
(***************************************************************************)
EXTENDS Integers, Sequences, FiniteSets, SequencesExt

CONSTANTS Tasks,
          Nids, MetaNids,  \* nids from 4 on (1 to 3 are roots, see Checkpoint);
                           \* those below REG_NAT_START blocks
          NatBlock,        \* nid / NAT_ENTRY_PER_BLOCK
          OnDisk,          \* regular nids in use at mount
          InSuper,         \* meta nids the superblock holds entries of
          None,
          MaxWrites,       \* bound: node writes
          MaxRestarts      \* bound: restarts of the checkpoint

ASSUME NatCacheAssumption ==
  /\ IsFiniteSet(InSuper) /\ InSuper \subseteq MetaNids /\ MetaNids \subseteq Nids /\ OnDisk \subseteq Nids \ MetaNids
  /\ NatBlock \in [Nids -> Nat] /\ \A n \in Nids : n \in MetaNids <=> NatBlock[n] = 0
  /\ None \notin Nids /\ MaxWrites \in Nat /\ MaxRestarts \in Nat

VARIABLES
  nat_list, free_nat,  \* the lists; the order of free_nat does not matter
  entry,               \* block_addr and dirty of each entry
  raw,                 \* addresses in the NAT blocks' pages
  task,                \* where each task is, with its local variables
  page,                \* node pages: "free", or locked for a write, by stage
  owners,              \* history: how often a nid was given out
  freed,               \* history: nids invalidated
  cp_phase, walk,      \* the checkpoint, and flush_nat's ne and it
  meta_nat, cnt,       \* the superblock under construction
  written, restarts,   \* counters for the bounds
  raced,               \* history: lists changed beside another reader
  appendRaced,         \* history: two completions in cp_append_nat at once
  lost                 \* history: entries without a mark over an older NAT
                       \* block when this checkpoint began, and not written since

lists == <<nat_list, free_nat>>
ops == <<lists, task, owners, freed>>
checkpoint == <<cp_phase, walk, restarts>>
super == <<meta_nat, cnt>>
races == <<raced, appendRaced, lost>>
vars == <<ops, entry, raw, page, checkpoint, super, written, races>>

Cached == ToSet(nat_list) \cup free_nat
BlockNids(b) == {n \in Nids : NatBlock[n] = b}
Idle == [at |-> "idle", op |-> None, nid |-> None, blk |-> 0, todo |-> {}, retried |-> FALSE]
NoSlot == [nid |-> None, addr |-> 0]
End == None       \* the list's head, where a walk ends

\* Entries that flush_nat would not copy, although their NAT blocks differ.
Unmarked == {n \in Nids : ~entry[n].dirty /\ raw[n] # entry[n].addr}

\* read_super has inserted the superblock's entries, which are of writes after
\* flush_nat: the NAT block holds an older address, none, or, where flush_nat
\* still came by, the same.  They are inserted clean (nat_mgmt.c:25); update_nat
\* marks one that the superblock holds twice.
SuperAddr == 2
Init ==
  /\ nat_list \in SetToSeqs(InSuper) /\ free_nat = {}
  /\ raw \in [Nids -> 0 .. SuperAddr]
  /\ \A n \in Nids \ InSuper : raw[n] = IF n \in OnDisk THEN 1 ELSE 0
  /\ entry \in [Nids -> [addr : 0 .. SuperAddr, dirty : BOOLEAN]]
  /\ \A n \in Nids : /\ entry[n].addr = IF n \in InSuper THEN SuperAddr ELSE raw[n]
                     /\ entry[n].dirty => n \in InSuper
  /\ task = [t \in Tasks |-> Idle]
  /\ page = [n \in Nids |-> "free"]
  /\ owners = [n \in Nids |-> IF n \in OnDisk \cup InSuper THEN 1 ELSE 0] /\ freed = {}
  /\ cp_phase = 0 /\ walk = [ne |-> End, it |-> End, copied |-> FALSE]
  /\ meta_nat = [k \in 1 .. MaxWrites + 2 |-> NoSlot] /\ cnt = 0
  /\ written = 0 /\ restarts = 0
  /\ raced = FALSE /\ appendRaced = FALSE /\ lost = Unmarked

-----------------------------------------------------------------------------
(* Lookup, filling, allocation, freeing: while the file system is in use.    *)

Readers == {t \in Tasks : task[t].at \in {"walk", "move"}}
At(t, at) == [task EXCEPT ![t].at = at]

\* lookup_nat for a node that is written (submit_node_xio, with the page locked)
\* or freed; alloc_free_nat.
Begin(t) ==
  /\ cp_phase = 0 /\ task[t] = Idle
  /\ \/ \E n \in Nids \ MetaNids :
          /\ owners[n] > 0 /\ page[n] = "free" /\ written < MaxWrites
          /\ task' = [task EXCEPT ![t] = [Idle EXCEPT !.at = "walk", !.op = "write", !.nid = n]]
          /\ page' = [page EXCEPT ![n] = "locked"] /\ written' = written + 1
     \/ /\ \/ \E n \in Nids \ (MetaNids \cup freed) :
                /\ owners[n] > 0
                /\ task' = [task EXCEPT ![t] = [Idle EXCEPT !.at = "walk", !.op = "free", !.nid = n]]
           \/ \E meta \in BOOLEAN :
                task' = [task EXCEPT ![t] = [Idle EXCEPT !.at = "walk", !.blk = IF meta THEN 0 ELSE 1,
                                               !.op = IF meta THEN "alloc meta" ELSE "alloc"]]
        /\ UNCHANGED <<page, written>>
  /\ UNCHANGED <<lists, owners, freed, entry, raw, checkpoint, super, races>>

Allocates(t) == task[t].op \in {"alloc", "alloc meta"}

\* The walk of __lookup_nat succeeds.
Found(t) ==
  /\ task[t].at = "walk" /\ ~Allocates(t) /\ task[t].nid \in Cached
  /\ IF task[t].op = "free"
     THEN task' = At(t, "invalidate") /\ UNCHANGED page
     ELSE task' = [task EXCEPT ![t] = Idle] /\ page' = [page EXCEPT ![task[t].nid] = "io"]
  /\ UNCHANGED <<lists, owners, freed, entry, raw, checkpoint, super, written, races>>

\* The first walk fails: the NAT block is read; the second fails: NULL.  Beside
\* a move a walk may leave its list for the other.
NotFound(t) ==
  /\ task[t].at = "walk" /\ ~Allocates(t) /\ (task[t].nid \notin Cached \/ raced)
  /\ LET b == NatBlock[task[t].nid]
     IN  task' = IF task[t].retried THEN At(t, "null")
                 ELSE [task EXCEPT ![t].at = "read", ![t].blk = b]
  /\ UNCHANGED <<lists, owners, freed, entry, raw, page, checkpoint, super, written, races>>

\* invalidate_nat, after its lookup and without the lock.
Invalidate(t) ==
  /\ task[t].at = "invalidate"
  /\ entry' = [entry EXCEPT ![task[t].nid] = [addr |-> 0, dirty |-> TRUE]]
  /\ freed' = freed \cup {task[t].nid}
  /\ task' = [task EXCEPT ![t] = Idle]
  /\ UNCHANGED <<lists, owners, raw, page, checkpoint, super, written, races>>

\* free_nat_empty finds a free nid of the right range, or none.
AnyFree(t) == free_nat
Eligible(t) == {n \in free_nat : n \in MetaNids <=> task[t].op = "alloc meta"}
Pick(t) ==
  /\ task[t].at = "walk" /\ Allocates(t)
  /\ IF Eligible(t) = {} THEN task' = At(t, "read")
     ELSE \E n \in Eligible(t) : task' = [task EXCEPT ![t].at = "move", ![t].nid = n]
  /\ UNCHANGED <<lists, owners, freed, entry, raw, page, checkpoint, super, written, races>>

\* list_del and list_add of an entry of nat_list.
Position(n) == CHOOSE i \in DOMAIN nat_list : nat_list[i] = n
Moved(n) == <<n>> \o RemoveAt(nat_list, Position(n))

\* It moves the entry from the list it is on, which is free_nat unless another
\* allocation took it too; get_dnode_page then marks it, new_inode does not.
Move(t) ==
  LET n == task[t].nid IN
  /\ task[t].at = "move"
  /\ free_nat' = free_nat \ {n}
  /\ nat_list' = IF n \in free_nat THEN <<n>> \o nat_list ELSE Moved(n)
  /\ raced' = (raced \/ Readers # {t})
  /\ owners' = [owners EXCEPT ![n] = @ + 1]
  /\ \E mark \in {task[t].op = "alloc meta", TRUE} :
       entry' = IF mark THEN [entry EXCEPT ![n] = [addr |-> 0, dirty |-> TRUE]] ELSE entry
  /\ task' = [task EXCEPT ![t] = Idle]
  /\ UNCHANGED <<freed, raw, page, checkpoint, super, written, appendRaced, lost>>

\* The NAT block's page is read and locked.
ReadBlock(t) ==
  /\ task[t].at = "read" /\ BlockNids(task[t].blk) # {}
  /\ \A u \in Tasks : ~(task[u].at = "fill" /\ task[u].blk = task[t].blk)
  /\ task' = [task EXCEPT ![t].at = "fill", ![t].todo = BlockNids(task[t].blk)]
  /\ UNCHANGED <<lists, owners, freed, entry, raw, page, checkpoint, super, written, races>>

\* Behind the last NAT block the code goes on reading; the model stops.
Exhausted(t) ==
  /\ task[t].at = "read" /\ BlockNids(task[t].blk) = {}
  /\ task' = [task EXCEPT ![t] = Idle]
  /\ UNCHANGED <<lists, owners, freed, entry, raw, page, checkpoint, super, written, races>>

\* __insert_nat, of an entry that is not cached yet.
AlwaysNew(n) == TRUE
IsNew(n) == n \notin Cached

\* An entry with an address in its block goes to nat_list, the others to free_nat.
Unused(n) == raw[n] = 0
InUse(n) == raw[n] # 0

insert_nat(t) ==
  /\ task[t].at = "fill" /\ Readers = {}
  /\ LET n == CHOOSE m \in task[t].todo : TRUE IN
       /\ IF IsNew(n)
          THEN /\ entry' = [entry EXCEPT ![n] = [addr |-> raw[n], dirty |-> FALSE]]
               /\ IF InUse(n) THEN nat_list' = <<n>> \o nat_list /\ UNCHANGED free_nat
                  ELSE free_nat' = free_nat \cup {n} /\ UNCHANGED nat_list
          ELSE UNCHANGED <<lists, entry>>
       /\ task' = IF task[t].todo # {n} THEN [task EXCEPT ![t].todo = @ \ {n}]
                  ELSE [task EXCEPT ![t].at = "walk", ![t].todo = {},
                                    ![t].retried = ~Allocates(t), ![t].blk = IF Allocates(t) THEN @ + 1 ELSE 0]
  /\ UNCHANGED <<owners, freed, raw, page, checkpoint, super, written, races>>

-----------------------------------------------------------------------------
(* Completions. *)

\* cp_sem is locked and cp_phase is 2.
AfterFlush == cp_phase = 2 /\ walk.ne = End
InPhase2 == cp_phase = 2

\* update_nat looks at nat_list only; end_io ignores what it returns.
update_nat(n) ==
  /\ page[n] = "io" /\ Readers = {}
  /\ IF n \in ToSet(nat_list)
     THEN /\ nat_list' = Moved(n)
          /\ entry' = [entry EXCEPT ![n] = [addr |-> SuperAddr + written, dirty |-> TRUE]]
          /\ lost' = lost \ {n}
     ELSE UNCHANGED <<nat_list, entry, lost>>
  /\ page' = [page EXCEPT ![n] = IF InPhase2 THEN "append" ELSE "free"]
  /\ UNCHANGED <<free_nat, task, owners, freed, raw, checkpoint, super, written, raced, appendRaced>>

\* cp_append_nat: the slot, then the counter, without a lock.
AppendSlot(n) ==
  /\ page[n] = "append"
  /\ meta_nat' = [meta_nat EXCEPT ![cnt + 1] = [nid |-> n, addr |-> entry[n].addr]]
  /\ page' = [page EXCEPT ![n] = "count"]
  /\ appendRaced' = (appendRaced \/ \E m \in Nids \ {n} : page[m] = "count")
  /\ UNCHANGED <<ops, entry, raw, checkpoint, cnt, written, raced, lost>>

AppendCount(n) ==
  /\ page[n] = "count"
  /\ cnt' = cnt + 1
  /\ page' = [page EXCEPT ![n] = "free"]
  /\ UNCHANGED <<ops, entry, raw, checkpoint, meta_nat, written, races>>

-----------------------------------------------------------------------------
(* The checkpoint at unmount: no task is left, but the flusher is. *)

\* Meta nodes: by sync_inodes_sb in phase 1, by the flusher and the checkpoint
\* in phase 2.
WriteMetaNode(n) ==
  /\ cp_phase \in {1, 2} /\ n \in ToSet(nat_list) /\ page[n] = "free" /\ written < MaxWrites
  /\ page' = [page EXCEPT ![n] = "io"] /\ written' = written + 1
  /\ UNCHANGED <<ops, entry, raw, checkpoint, super, races>>

Quiet == \A n \in Nids : page[n] = "free"
Following(n) == IF Position(n) = Len(nat_list) THEN End ELSE nat_list[Position(n) + 1]

Phase1 ==
  /\ cp_phase = 0 /\ Quiet /\ \A t \in Tasks : task[t] = Idle
  /\ cp_phase' = 1
  /\ UNCHANGED <<ops, entry, raw, page, walk, restarts, super, written, races>>

\* list_for_each_entry_safe fetches the successor before the body runs.
First == IF nat_list = <<>> THEN End ELSE Head(nat_list)
WalkTo(n) == [ne |-> n, it |-> IF n = End THEN End ELSE Following(n), copied |-> FALSE]
Phase2 ==
  /\ cp_phase = 1 /\ Quiet
  /\ cp_phase' = 2 /\ walk' = WalkTo(First)
  /\ UNCHANGED <<ops, entry, raw, page, restarts, super, written, races>>

\* The body of flush_nat: copy, clear the mark, go on to the one fetched before.
FlushCopy ==
  /\ cp_phase = 2 /\ walk.ne # End /\ entry[walk.ne].dirty /\ ~walk.copied
  /\ raw' = [raw EXCEPT ![walk.ne] = entry[walk.ne].addr]
  /\ walk' = [walk EXCEPT !.copied = TRUE]
  /\ UNCHANGED <<ops, entry, page, cp_phase, restarts, super, written, races>>

FlushClear ==
  /\ walk.copied
  /\ entry' = [entry EXCEPT ![walk.ne].dirty = FALSE]
  /\ walk' = WalkTo(walk.it)
  /\ UNCHANGED <<ops, raw, page, cp_phase, restarts, super, written, races>>

FlushSkip ==
  /\ cp_phase = 2 /\ walk.ne # End /\ ~entry[walk.ne].dirty /\ ~walk.copied
  /\ walk' = WalkTo(walk.it)
  /\ UNCHANGED <<ops, entry, raw, page, cp_phase, restarts, super, written, races>>

\* Phase 3, when everything is written; and a restart if a zone was opened.
Phase3 ==
  /\ cp_phase = 2 /\ walk.ne = End /\ Quiet
  /\ cp_phase' = 3
  /\ UNCHANGED <<ops, entry, raw, page, walk, restarts, super, written, races>>

Restart ==
  /\ cp_phase = 3 /\ restarts < MaxRestarts
  /\ cp_phase' = 1 /\ restarts' = restarts + 1
  /\ meta_nat' = [k \in DOMAIN meta_nat |-> NoSlot] /\ cnt' = 0
  /\ lost' = Unmarked
  /\ UNCHANGED <<ops, entry, raw, page, walk, written, raced, appendRaced>>

-----------------------------------------------------------------------------
TaskStep(t) ==
  Begin(t) \/ Found(t) \/ Invalidate(t) \/ Pick(t) \/ ReadBlock(t) \/ Exhausted(t) \/ insert_nat(t)

Next ==
  \/ \E t \in Tasks : NotFound(t) \/ Move(t)
  \/ /\ ~raced
     /\ \/ \E t \in Tasks : TaskStep(t)
        \/ \E n \in Nids : update_nat(n) \/ AppendSlot(n) \/ AppendCount(n)
        \/ \E n \in MetaNids : WriteMetaNode(n)
        \/ Phase1 \/ Phase2 \/ FlushCopy \/ FlushClear \/ FlushSkip \/ Phase3 \/ Restart

Spec == Init /\ [][Next]_vars

-----------------------------------------------------------------------------
(* Properties. *)

\* Every variable has its type; a nid about to be given out is of the range
\* that was asked for, since the checkpoint writes the two ranges in two phases.
TypeOK ==
  /\ ToSet(nat_list) \subseteq Nids /\ free_nat \subseteq Nids
  /\ entry \in [Nids -> [addr : Nat, dirty : BOOLEAN]] /\ raw \in [Nids -> Nat]
  /\ \A t \in Tasks : task[t].at \in {"idle", "walk", "move", "read", "fill", "invalidate", "null"}
  /\ \A t \in Tasks : task[t].at = "move" => (task[t].nid \in MetaNids <=> task[t].op = "alloc meta")
  /\ page \in [Nids -> {"free", "locked", "io", "append", "count"}]
  /\ cp_phase \in 0 .. 3 /\ cnt \in 0 .. MaxWrites

\* A nid has one owner, and one entry, on one of the lists: however the filling
\* from NAT blocks (which hold what the last checkpoint left) interleaves with
\* allocations and frees, a nid in use never becomes free again.  This is until
\* an allocation moves an entry beside another reader (nat_mgmt.c:208), which
\* may be a second owner.
OneOwner ==
  ~raced =>
    /\ \A n \in Nids : owners[n] <= 1
    /\ IsInjective(nat_list) /\ ToSet(nat_list) \cap free_nat = {}

\* What lookup_nat returns is used without a test (submit_node_xio), and what
\* update_nat returns is not looked at (end_io): the entry must be there, and on
\* nat_list, at both times; again until an allocation moves an entry beside
\* another reader, whose walk may then miss what it looks for.
EntryFound ==
  ~raced =>
    /\ \A t \in Tasks : task[t].at # "null"
    /\ \A n \in Nids : page[n] = "io" => n \in ToSet(nat_list)

\* What the next mount finds: the last entry of the superblock, or the NAT block.
Recovered(n) ==
  LET at == {k \in 1 .. cnt : meta_nat[k].nid = n}
  IN  IF at = {} THEN raw[n] ELSE meta_nat[Max(at)].addr

\* After phase 2 every entry is in its NAT block or in the superblock
\* (checkpoint.c:64), although update_nat moves entries behind and before the
\* walk of flush_nat and stores addresses between its copying and its clearing
\* of the mark.  Three holes are excepted: appends that met in cp_append_nat;
\* and entries that have no mark over an older NAT block when the checkpoint
\* begins, if they are not written before it ends, be it that read_super
\* inserted them so, or that the mark was cleared over a newer address and a
\* restart then cleared the superblock.
AllSaved ==
  cp_phase = 3 /\ ~appendRaced => \A n \in Nids : Recovered(n) = entry[n].addr \/ n \in lost

=============================================================================

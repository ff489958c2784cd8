# xcpfs in TLA+

xcpfs is a Linux file system for zoned block devices (modelled on f2fs).  All
writes are zone appends: the device, not the file system, chooses the block.
The file system therefore learns the address of a block only when its write
completes, and everything that names blocks (node pages, the node address
table, the zone table, the superblock) is updated from `end_io`.  This project
models the parts of the kernel module where that makes the order of steps
matter, model-checks them on small devices and proves what it can for every
device.

Conventions: names are the source's.  A comment before each definition says
what code it stands for; `PROJECT.json` maps every definition to its lines.

## 1. The system

| Component | State | Operations | Talks to |
|---|---|---|---|
| Zone allocator, `zone_mgmt.c` | `xcpfs_zm_info`: tables of open and active zones with counters, limits and counts per type; per zone: condition, wp, type, valid map, dirty | `alloc_zone`, `get_zone`, `xcpfs_zone_open`, `validate_blkaddr`, `invalidate_blkaddr`, `flush_zit` | device (open, append); checkpoint (asks for a restart) |
| Block I/O, `xio.c` | one `xio` per write in flight | submit of node and data pages, `write_end_io` | allocator, NAT, dnodes, superblock under construction |
| Node address table, `nat_mgmt.c` | NAT entries on three lists (cached, `nat_list`, free), dirty marks | lookup, insert, update, `alloc_free_nat`, `invalidate_nat`, `flush_nat` | meta inode's pages |
| Node tree, `meta.c` | node pages (inode, direct, indirect) in `node_inode`'s mapping | `get_path`, `get_node_page`, `get_dnode_page` | NAT, page cache |
| Page cache interface, `data.c` | page locks, dirty and uptodate marks | prepare, write_begin/commit, single page writes | node tree, block I/O |
| Inodes, `inode.c` | inode pages | `new_inode`, `iget`, `update_inode_page`, `writepage(s)` | node tree, NAT |
| Checkpoint, `checkpoint.c` | `cpc`, `cp_phase`, `cp_sem`, superblock under construction | `do_checkpoint`, `cp_append_nat` | all of the above |
| Mount and unmount, `xcpfs.c`, `super.c` | superblock zones, roots | `fill_super`, `read_super`, `get_zit_info`, `put_super`, `flush_super_block`, `evict_inode` | all of the above |
| Truncation, `file.c` | none of its own | `truncate_blocks`, `recurse`, `do_truncate` | node tree, allocator, NAT |
| Directories, `dir.c` | directory pages | create, lookup, unlink, mkdir, rmdir, readdir | page cache interface, inodes |
| mkfs | the first image | one straight line | device |

`reg.c`, `xcpfs_rwsem.h`, the build files and scripts add no behaviour of their
own.

### How a page gets to the disk

1. Writeback locks a page (`write_data_page`).  A page of a meta node or of the
   meta inode written by the flusher before phase 2 of a checkpoint is
   redirtied instead.
2. `submit_*_xio` reads the block's old address, from the NAT for a node, from
   the dnode otherwise.
3. `alloc_zone` picks a zone: the old block's zone unless that is full, else
   `get_zone`'s choice; then it clears the old block in the valid map.  These
   are two sections of `zm_info_lock`.
4. The device appends.
5. `write_end_io` stores the address (NAT entry or dnode slot), then
   `validate_blkaddr` updates valid map, wp and condition of the zone.  A node
   written in phase 2 of a checkpoint is also appended to the superblock under
   construction.

### How a checkpoint ends a session

`put_super` runs `do_checkpoint`: sync all inodes, write the regular nodes,
copy dirty NAT entries to NAT blocks (`flush_nat`), copy dirty zones to zone
blocks (`flush_zit`), write the meta inode's pages, write the meta nodes, and
append nodes 1 and 3 to the superblock.  If a zone was opened meanwhile,
everything is run again.  Then the superblock is written.  The circle (writing
a NAT block changes its meta node, whose new address belongs in a NAT block) is
cut by the superblock, which holds the NAT entries of the nodes written in
phase 2.

### What is hard here, and what has to be true

* **Allocator.**  Several writers and completions change three structures
  through calls whose results are ignored.  *Correct means:* tables, counters
  and conditions agree; the valid map is exact; wp never passes the device; the
  loop in `get_zone`, which runs with a spinlock held, ends.
* **Checkpoint.**  Order of the phases, writeback from other threads during
  all of them, restarts, crashes.  *Correct means:* a mount finds precisely
  what the last unmount had, and a crash leaves that untouched.
* **NAT.**  `alloc_free_nat` takes an entry under the read lock;
  `invalidate_nat` takes no lock; `flush_nat` walks the list and clears marks
  without one, `cp_append_nat` fills the superblock without one.  *Correct
  means:* a nid has one owner; nobody misses an entry; no address is lost.
* **Node tree.**  `get_dnode_page` drops the parent's lock to allocate a child.
  *Correct means:* two different blocks of a file never share a slot, and no
  child is lost.
* **Page cache.**  An address is stored when the write ends, in a node page that
  may itself be written, dropped and read again; readers and writeback take page
  locks but not the inode's.  *Correct means:* a read finds what was written
  last, and a truncation leaves nothing behind the end that is read or written
  later.
* **Truncation.**  A walk in the middle of a tree.  *Correct means:* precisely
  the blocks behind the new end are freed, each once.
* **Directories.**  An operation changes two or three inodes, and each of them
  is written back, evicted and read again at a time of its own.  *Correct
  means:* the directories are a tree of names, link counts agree with the
  entries, a listing reports what is there.
* **Superblock zones.**  One of the two zones is filled and never reset.
  *Correct means:* when it is full, the last superblock in it still counts.

`PROJECT.json` lists each hazard with its line and the properties that watch it.

## 2. Modules

| Module | Models | Used by |
|---|---|---|
| `ZoneMgmt` | allocator and write path, many writers | `MCZoneMgmt`, `ZoneMgmt_proofs` |
| `ZoneMgmt_proofs` | theorems about `ZoneMgmt` | |
| `SnapshotStore` | what a checkpoint promises | `Checkpoint`, by refinement |
| `Checkpoint` | checkpoint, NAT, meta node tree, unmount, crash, mount | `MCCheckpoint`, `Checkpoint_proofs` |
| `NatCache` | the NAT's lists, step by step: tasks, completions, `flush_nat` | `MCNatCache`, `NatCache_proofs` |
| `PageIO` | page locks, reads, writes, writeback and truncation of one file | `MCPageIO`, `PageIO_proofs` |
| `Namespace` | what directories promise | `Directory`, by refinement |
| `Directory` | directory pages and the life of an inode | `MCDirectory`, `Directory_proofs` |
| `NodePath` | `get_path` | `FileMap`, `NodePath_proofs` |
| `FileMap` | the blocks of a regular file: node tree, writes, truncation | `MCFileMap`, `FileMap_proofs` |
| `NodePath_proofs`, `FileMap_proofs` | theorems about the two | |
| `Checkpoint_proofs`, `NatCache_proofs`, `PageIO_proofs`, `Directory_proofs` | theorems about the module of that name | |

### ZoneMgmt

A page is a cached block; its writer runs through the labels `idle`, `alloc`,
`scan`/`open` (the loop of `get_zone`, with the lock held), `invalidate`,
`submit`, `endio`, `validate`.  Each label is one section between two points
where another thread can come in: a lock section, a device command, or a store
of `end_io`.  `dwp` is the device's own write pointer, the rest is
`xcpfs_zm_info`.  Block addresses are pairs of zone and offset; `wp` stays an
absolute block number, since `get_zone` compares a relative with an absolute
one.

The initial states (`Boots`) are constrained by `Mounted`, an ASSUME that says
what `fill_super` leaves: tables in the order of the zones, conditions and
write pointers of the device, counts per type only if a zone table was on disk.
Three operators say what a mount finds besides, if it reads what an unmount wrote:
`PlacedAtMount` (blocks lie in used zones of their page's type, and no zone of
the superblocks has a type while another is empty), `WrittenAtMount` (the
superblock is written, an EMPTY zone has no valid blocks, addresses are of
written blocks, one page each) and `CountedAtMount` (there is a zone table, no
type has more open zones than its `Share`, the zones `get_zone` may come to have
open for it, and at most `MaxActive - MaxOpen + 1` zones are CLOSED).  They are
hypotheses of theorems, not assumptions of the module; `MCZoneMgmt` has ASSUMEs
that its mounts meet them, the third except for the device fresh from mkfs, which
has no zone table and where `SlotForEveryType` fails.

Assumptions about the outside: memory from `kmalloc` that the module relies on
being zero is zero; the device opens any zone that is not full; zone 0 is not
implicitly open at mount (it was opened by mkfs or closed by a power cycle);
a refused append leaves an address at the start of the zone in the bio
(`end_io` reads it anyway).  `ioerr` records that this happened; `ValidMapExact`
and `WpBehindDevice` speak of behaviours without it, because the code ignores
`bi_status` and promises nothing afterwards.

### Checkpoint and SnapshotStore

Four meta pages stand for all: the NAT block of the meta nodes (its address is
in node 1), two NAT blocks of regular nids and one zone block, the latter three
behind one indirect node and two direct ones, which is how `get_path` places
them.  Blocks written for a node or page form a sequence, an address is a
position in it: blocks are never overwritten, which `ZoneMgmt` is about.

Simplifications: a write is one step, since the page is locked from submission
to `end_io` and other pages do not look at what is in flight; `flush_nat` and
`flush_zit` are one step each (for `flush_nat` see `NatCache`); lookups are done at mount, as no entry
changes by being looked up later.

`SnapshotStore` has a live table, a committed one, and three steps: change one
entry, commit, restore.  `ImplementsStore` maps `live` to the NAT entries of
regular nodes and the root, and `committed` to what a mount would read from the
disk: superblock, meta nodes, NAT blocks.  An unmount whose superblock does not
fit into zone 0 any more (`SuperFits`) restores like a crash.  `SuperRoom` is the
number of superblocks that fit; the choice of `flush_super_block` and
`read_super` between the zones is always zone 0, because mkfs has written to it
(never EMPTY) and nothing ever writes to zone 1 (always EMPTY).

### NatCache

The same table one level down.  `nat_list` is a sequence, since `update_nat` puts
an entry in front while `flush_nat` walks; `free_nat` is a set.  The initial states
are those `read_super` leaves.  The superblock's entries were appended after
`flush_nat` of the last session, so their NAT blocks hold an older address or none
(or the same, where the walk still came by), and `__insert_nat` stores them clean
whatever it is given.  `task[t].at`
says where a task is: in a section for reading (`walk`, `move`), waiting for a
NAT block (`read`), inserting its entries (`fill`), about to change an entry
without a lock (`invalidate`), or holding NULL (`null`).  `page[n]` is the stage of
the write of node `n`: `locked`, `io` (submitted), `append` and `count` (the two
stores of `cp_append_nat`).  The checkpoint is three phases and the walk with its
two pointers (`list_for_each_entry_safe` has fetched the next entry before the
body runs), where copying the address and clearing the mark are two steps.

Where the code races, the model is honest about what it can still say:

* `free_nat_empty` changes both lists under the *read* lock.  If another reader is
  inside, the pointers it follows are anything: two allocations may return the
  same nid, a lookup may run around `nat_list` for ever.  The model records this
  (`raced`).  After it only the readers' own next steps are followed: an entry that
  is moved, and given out, a second time, and a walk that misses its entry.  Both
  break the properties of the lists, so `OneOwner` and `EntryFound` say "unless
  raced"; without these words TLC finds either violated.  (The lock for writing
  is there, in a comment, `nat_mgmt.c:255`.)
* Two completions in `cp_append_nat` may take the same slot (`appendRaced`).
* `flush_nat` may clear the mark of an entry that has a newer address than the one
  it copied.  The superblock has the address; a restart clears the superblock, and
  the second walk passes the entry over.
* An entry from the superblock is clean over a stale NAT block.  If its node is not
  written again, the next checkpoint saves it nowhere: the finding of
  `checkpoint_remount`, one level down.

`lost` holds the entries of the last two kinds: those without a mark over an older
NAT block (`Unmarked`) when a checkpoint or its restart begins, less those written
since.  `AllSaved` is stated with `appendRaced` and `lost` as exceptions.  Without
either of them TLC finds it violated within a few thousand states, without `lost`
even if nothing restarts.  Nodes 1 and 3, appended by the
checkpoint alone in phase 3, are left to `Checkpoint`.

### PageIO

The data path of one file, lock by lock: `task[t].at` is the place in
`__prepare_page`, `do_prepare_page`, `get_dnode_page`, `submit_data_xio` or
`truncate` where a task is; `data[p].lock` is the page's lock, which a write hands
to the device until `end_io`, together with that of the direct node (`flight`).  A
section under a node page's lock that ends with the unlock is one step.  A node
that is not cached is read by `ReadNode`, after which the reader has to take the
lock once more, as in the code.  Blocks are never overwritten, so a version number
serves as the address of a block and as its content.

External and modelled from their use: the inode's `i_rwsem` (`owner`), taken by
writers and `setattr` and by nobody else; `write_cache_pages`, `truncate_setsize`,
`invalidate_mapping_pages`; and memory pressure (`Reclaim`, `ReclaimNode`), which
turns every page that is wrongly clean into lost data.  The inputs are a file of at
most three pages, of which two hang on a direct node; files are truncated
only while they have none, since `FileMap` has the walk itself.  The size on disk is
part of `Directory`'s inode.

`ReadsLastWrite` holds with one exception, and TLC confirms that it is needed.
A reader may look at the size, then a truncation drops the pages, the reader brings
one back with the old address (or, if the addresses are cleared between its two
walks, with address 0, which is a superblock), and `invalidate_mapping_pages`
passes over it because the reader still holds it.  When the file grows again it
shows that page instead of zeros.  `exposed` collects these pages; a page leaves it
when it is written (a version stands for the whole page: a write of a part leaves
the old data in the rest) or dropped, after which it is read as a hole.  No line of the repository speaks of this, so it is a
hazard and not a finding.

`NothingBehindEnd` does not say that there are no pages behind the end: clean ones
may be left, as above.  It says that none of them has an address, is dirty or in
flight, so that none can get one.

The locks cannot be waited for in a circle: a data page is locked before a node
page, a node is unlocked before its child is locked, and `end_io` waits for no page.

### Namespace and Directory

A directory is a sequence of slots (one entry per page) and a size; an inode is
three attributes, once in its node page (`ipage`) and once in memory (`inode`,
valid for the inodes in `cached`).  An operation of the VFS is one step: `i_rwsem`
of the directory is held over all of it, an inode being created is `I_NEW` until
it has a name.  What interleaves are operations of different directories,
`write_inode`, `evict_inode`, `iget`, files that are open when they lose their name,
and mounts.  `Remount` is a clean unmount and mount; crashes are the subject of
`Checkpoint`, from which this module takes that node pages and entries survive.

`ImplementsNamespace` maps the directories that have a name to a function from
names to inodes, through `find_entry`.  `Namespace` allows three things: give a
name to an inode without one, remove a name of a file, remove an empty directory.

Noticed while modelling, and no line of the repository says otherwise: `readdir`
counts its position in bytes and uses it as a page index, so that a listing whose
buffer was full once never sees the rest of the directory (`ListingExact` demands
all names of the other listings only); the inode number in `..` is that of the
directory itself; the NAT entry of a deleted inode is never freed, so its nid is
not used again.  `mkdir`'s failure path, which returns 0, and the second look at
the page in `delete_entry` cannot be reached by two tasks: the VFS has looked the
name up under the same exclusive lock.

### NodePath and FileMap

A path is the sequence `offset[0 .. depth]` that `get_path` computes.  Slots
(places for an address) and nodes are named by their paths, so a file is a
function from slots to addresses, the set of nodes whose parent names them
(`child`), and among these the ones without a NAT entry (`dangling`).  The three
actions are the whole of writing into the page cache (`Write`: `write_begin`
creates the nodes, `write_end` the size), writeback of one page (`WritePage`),
and truncation (`Truncate`: `setattr` or `evict_inode`).  `valid` is the part of
the zones' valid maps that belongs to the file; `content` and `blockOf` are
history.

`Truncate` is a composition of operators on a record, one for each piece of
the C code, in its order: `cut_*` is `xcpfs_recurse` with an offset, `clear_*`
without one, `Round` a round of the loops in `xcpfs_truncate_blocks`.  `offset[]`
is part of the record because the code changes it on the way and reads it
again; `PathLen` is the length that `xcpfs_recurse` recomputes from it.

Truncation is one step: `truncate_setsize` has waited for the writeback of the
pages behind the new end before it starts, a page in front of it is written
with its dnode locked from the reading of the old address to the storing of the
new one, and the walk locks the same pages.  Only the first indirect node is
modelled: `s_maxbytes` is the kernel's default of 2^31 - 1 bytes, so no file
reaches the second one or the double indirect node.  After a truncation has
left a dangling nid, the model stops following the file (`Intact`): what is
found behind that nid depends on whether its page is still cached.  A freed
nid is not given out again within a behaviour of one file.

The partial last block is committed as a whole page, so a truncation to 5000
bytes leaves a size of 8192 (`PartialBlock`).  Sizes count half pages to keep
this.

## 3. Runs

| Run | Instance | Shows |
|---|---|---|
| `zone_tables` | 8 zones of 2 blocks, 4 pages (two data, node, meta data), 4 writes; fresh, power-cycled and remounted devices | tables exact, valid map exact, wp behind the device, blocks in zones of their type, target never full |
| `zone_slots_and_writes` | 10 zones, 3 pages, 4 writes, power-cycled and remounted devices, fair | a slot is left for each type; a submitted write ends, the spinlock is released |
| `zone_slots_fresh` | as mkfs leaves it | **violated**: no slot left |
| `checkpoint_first` | two regular nodes in two NAT blocks, 3 changes, two restarts, fair | NAT saved, snapshot store implemented, the unmount ends |
| `checkpoint_crash` | a node, a change, a restart, a crash; two unmounts, of which the second finds the superblock zone full | the last snapshot survives a crash at any step and a superblock that was not written; the roots are recovered |
| `checkpoint_remount` | two sessions | **violated**: NAT entries are lost |
| `file_map` | nodes of 2 entries, 9 blocks, one dirty page, 2 blocks written, truncation to every size | no slot shared, what is reachable is valid, kept blocks stay valid, truncated blocks of the first direct node stay away, small files are freed |
| `file_block_lost` | nodes of 3 entries, 17 blocks | **violated**: a block before the end is lost |
| `file_deleted_left` | the same | **violated**: blocks of a deleted file stay allocated |
| `page_io` | two tasks, three pages (two behind a direct node), 2 writes, 2 changes of the size | a read finds the last write unless the page is exposed; no address and nothing to write behind the end |
| `directory` | root and three inodes, two names, two open at a time, a buffer of three entries | link counts exact, listings exact, a tree of names |
| `nat_cache` | two tasks, two meta and two regular nids in three NAT blocks (one of each in use, the meta one in the superblock over any older address), 2 node writes, a restart | one owner and entries found unless raced; marked entries saved |

**Bounds.**  A zone of two blocks is the smallest that can be partly full,
which is where a page keeps its zone, and full, which is where conditions and
tables change; four writes fill two zones and meet on one.  `NrTypeCap`
saturates a counter above every limit it is compared with, so the cap changes
no guard.  In `Checkpoint` one indirect and two direct nodes need three meta
nids; a second regular nid in another NAT block is what makes one block
rewritten without the other.  One restart runs each phase twice with an old
`cpsb`; two restarts add only repetitions, and are checked for termination.
One crash is enough: it forgets everything but the disk, so a second meets a
state a run with one crash starts from.  `checkpoint_first` stops at
the first superblock because of the finding below; `checkpoint_crash` goes on to the
second and shows what still holds of it.  In `checkpoint_crash` `SuperRoom` is 1, so that the second unmount meets
the full zone, and two mounts (`MaxMounts`) with what follows the last one are
enough for a crash before, between and after.  A third session can begin with the entry of a meta node lost; the
model stops where the code would read a node that has no block.

`file_map` has nodes of two entries, so that a direct node and the indirect
node can each be cut at their first and at their last entry, and nine blocks
reach into both children of the indirect node.  Two writes and one dirty page
suffice for a block that is kept and one that is freed, for a rewrite of the
same block, and, since pages may be written, truncated and written again, for
an old address meeting a new one; the number of truncations is not bounded.
The violated runs use three entries so that a middle entry exists.

`directory` has as many inodes as it takes to fill a page, free it and fill it
again beside another entry, to nest directories, and to remove the inner one
first; nids are used once, so each behaviour ends.  `DirtyLimit` bounds the inodes
that wait for `write_inode`: an operation dirties two, each of which may stay in
any state of the other.  Pages of two bytes (`PageBytes`) let a position in bytes
overshoot by pages that exist.

`page_io` has two tasks since writes in flight and memory pressure act beside them:
two writers, a writer and a flusher, or a reader and a truncation, with completions
of earlier writes between their steps.  Two writes make a file with data before
and after a truncation, or two creators; two changes of the size shrink and
grow it.  Tasks, and the nids a direct node can get, are interchangeable and
reduced by symmetry.

`nat_cache` has two writes because each race needs two, and one restart because
that is when the superblock is cleared.  The order in which a NAT block's entries
are inserted is fixed, as in the code.

Deadlock checking is off: a file system without work may rest, and the bounded
numbers of writes and changes run out.

**Fairness.**  `ZoneMgmt`: kernel spinlocks are queued, so a waiter for
`zm_info_lock` is served even if the lock is free only now and then: strong
fairness for the steps that take it.  The holder and the device proceed: weak
fairness.  `Checkpoint`: the task that unmounts runs, and pages submitted for
writeback are written: weak fairness for each.  No user operation and no crash
is fair.

### What the violations mean

* `zone_slots_fresh`.  mkfs opens zones 0, 3, 5 and 6.  On
  the first mount there is no zone table, so `nr_type` counts nothing, and
  `get_zone` opens `limit_type` zones *beside* those already open.  The limits
  (`xcpfs.c:68-71`, "1 superblock 1 reserved") are computed to leave a slot.
  On a fresh device they do not, and the first write of meta data, for which no
  zone is open, circles between `retry` and `open` under the spinlock.  After a
  mount that counts (`zone_slots_and_writes`) the slots are there.
* `checkpoint_remount`.  Entries of the superblock are handed to `insert_nat`
  with `dirty = true` so that they move to NAT blocks (`xcpfs.c:136`), but
  `__insert_nat` stores `dirty = false`.  Unmount, mount, unmount: the indirect
  meta node was in the first superblock only, is not written in the second
  session, and is in neither the second superblock nor its NAT block.

* `file_block_lost`.  `xcpfs_recurse` decrements the offset at which it cut a
  node, and its caller frees the node if the offset is then 0.  It is 0 when
  one block (or one child of an indirect node) remains.  Create a file of
  `900 + 3` blocks, truncate it to `900 + 1`: block 900 reads as a hole, and its
  valid bit stays set for ever.
* `file_deleted_left`.  `if(depth) i++` (`file.c:34`) also applies when
  everything is to be cleared, so child 0 of an indirect node is skipped.

The walk also keeps blocks *behind* the new end: the same offset is used for
the second direct node as for the first, and the child at the offset of an
indirect node is not entered at all.  They are read again when the file grows.
`xcpfs_recurse` also frees a child of the indirect node but zeroes `nid[i]` with
`i` behind the table (`file.c:59`), so the freed nid stays and a later write finds
no block behind it; the model has this (`dangling`) and follows the file no
further.  No line of the repository says what should be read in blocks that came
back, so this is not listed
as a finding; `NothingComesBack` states for which blocks it cannot happen.

## 4. Proofs

Every theorem holds for all values of the constants that satisfy the named
assumption of the module; a theorem that needs more has it as a hypothesis of
its own.  A property proved is written with the name the run checks.  The form
is the same everywhere: an invariant stronger than the property, the lemmas that
each action preserves each part of it, and a temporal step at the end.

### ZoneMgmt

Assumptions: `SizesAssumption`, `NrTypeCapAssumption`, `BootsAssumption` (device
geometry, types and mounts as in section 2).

| Theorem | Statement |
|---|---|
| `TypeCorrect` | `Spec => []TypeOK` |
| `TablesAlwaysExact` | `Spec => []TablesExact` |
| `TableBehindDevice` | `Spec => []WpBehindDevice` |
| `BlocksStayPlaced` | `Spec => []PlacedByType`, if every mount is `PlacedAtMount` |
| `TargetHasRoom` | `Spec => AllocTarget`, under the same hypothesis |
| `ValidMapAlwaysExact` | `Spec => []ValidMapExact`, if every mount is also `WrittenAtMount` |
| `EveryTypeHasRoom` | `Spec => []SlotForEveryType`, if every mount is `CountedAtMount`, `NodeLimit >= 1` and `MaxOpen >= NodeLimit + 5` |

`TablesExact` is not inductive.  The device reports to the file system a block
whose zone becomes full; the step that then empties the tables is only right if
that zone is a real one and the counters count the slots in use.  The invariant
is `IInv == TypeOK /\ DeviceInZone /\ TablesInv`: the device's write pointers
stay within their zones, the tables list the conditions (`Lists`, without
duplicates), and a counter is the cardinality of the used slots.  The
argument: lemmas say what one insertion or removal does to `Used`, to `Lists`
and to the cardinality; a zone that is inserted is not listed yet because its
condition says so, and there is a free slot because the counter is exact and
was compared with the size; a zone that fills is removed from both tables
whatever condition it was in.  One step per action, one lemma per table.

The others add parts to it.  `WpInv`: a zone's write pointer in the table is
the device's, or behind it while the last block written is in flight.
`PlacedInv`: every zone on record for a page (of its old, chosen, written or
valid address) is in use and of the page's type; the case that matters is
`get_zone` giving a type to a zone, which is only done to an EMPTY zone or zone 0
(`ZonesKeep`).  `ValidMapExact` rests on `RecordsInv` (no two pages have a block
on record in common, since the device never writes one twice), `WriterInv` (what
a writer at each label may rely on of its page's address) and `MapInv` (the bits
of blocks in use are set, those of arriving blocks not yet, every other bit is in
a zone of nodes, and the counters count the bits).  The hypotheses exclude mounts
of an inconsistent table, where the properties are false from the start.

`SlotForEveryType` rests on `SlotInv`: a type has at most `Share` open zones; while
`nr_type` is under the limit it counts all of them, so that `get_zone` opens one
more within the limit or, from `retry`, the first one; what a writer read before it
opens is still so, since it holds the lock; and no zone becomes CLOSED.
`SharesLeaveRoom` adds the shares up: they come to `MaxOpen - 1`, and a type
without an open zone leaves its own.  The active table also holds the CLOSED
zones.  The hypotheses are needed: with a limit of 2 node zones a device must
allow 7 open ones (or the limit for data is not positive), and the numbers are
tight in `zone_slots_and_writes`, which has 6 slots, a limit of 1 and 4 CLOSED
zones.

`get_zone`'s scan is a recursive function, so what it returns would need
induction over its argument.  `LeastElement`, the least-number principle from
`WellFoundedInduction`, replaces it: a least position where the claim fails
leads to a contradiction (`ScanIsScan`, `ScanFinds`, `ScanNone`).

### Checkpoint

Assumption: `NidsAssumption` (the sets of nids do not overlap).

| Theorem | Statement |
|---|---|
| `AddressesTyped` | `Spec => []TypeOK` |
| `FirstSessionSaved` | `Spec => [](sessions = 0 => NatSaved)` |
| `RootsAlwaysRecovered` | `Spec => RootsRecovered` |
| `CheckpointIsSnapshot` | `Spec => ImplementsStore`, if `SuperRoom <= 1 \/ MaxSessions <= 1` |

`IInv == TypeOK /\ AddressesOK /\ PathsOK /\ RootsOK /\ FirstOK`: every address
anywhere is of a block that was written; a NAT page is dirty only when the
direct node that will hold its address is there, and no superblock holds a
regular node; a clean root equals its last block, and the superblock being built
names it; and, until the first superblock
after mkfs's is written, a nid that was not given out is nowhere (`UnusedOK`),
clean pages are as on disk (`CleanOK`), and an entry is in its NAT block or
marked, and after `flush_nat` in its block or in the superblock (`RecordedOK`).
The last part does not hold in later sessions, and neither does `NatSaved`: an entry read from a
superblock's table into the cache is clean, so the next checkpoint does not
write it (run `checkpoint_remount` and its finding).  That is why
`FirstSessionSaved` speaks of the first session and `CheckpointIsSnapshot` of a
device or a history in which only one superblock is written; the run of TLC has
the same bound.  For the roots no such bound is needed.

### NatCache

Assumption: `NatCacheAssumption` (a finite table in the superblock, meta nids in
block 0 and only those).

| Theorem | Statement |
|---|---|
| `CacheTyped` | `Spec => []TypeOK` |
| `OneOwnerUnlessRaced` | `Spec => []OneOwner` |
| `LookupsSucceedUnlessRaced` | `Spec => []EntryFound` |
| `CheckpointSavesMarked` | `Spec => []AllSaved` |

`IInv` says where an entry is: on the list at one position, in a NAT block, or
in the superblock's slots; what each task at each label still relies on
(`TasksOK`); that the walk of `flush_nat` stands at an entry that is on the list
(`WalkOK`); that the superblock has a slot for every write that will append to it
(`CountOK`); and that a checkpoint will recover every entry that is not `lost`,
finds it on the way to the superblock, or has it still ahead of its walk
(`SavedOK`).  What `ListsOK` and `TasksOK` say of owners and of walks that found
nothing is conditional on `~raced`: the theorems claim one owner and successful
lookups up to a move beside another reader, which is where the code breaks both
(`nat_mgmt.c:208`), and no further.  Lists without repetition need lemmas on
positions when an entry moves to the front (`PositionOf`).

### PageIO

Assumption: `PageIOAssumption` (the pages of a file are an initial segment of
the naturals).

| Theorem | Statement |
|---|---|
| `LocksHeld` | `Spec => []TypeOK` |
| `ReadsFindLastWriteUnlessExposed` | `Spec => []ReadsLastWrite` |
| `NothingToWriteBehindEnd` | `Spec => []NothingBehindEnd` |

`IInv == Typed /\ TasksOK /\ NodesOK /\ FlightsOK /\ BehindOK /\ ContentsOK /\
ExposedOK`: a task at a label holds the lock it took and what it has read is still so while it
holds it; a page under writeback has a write in flight, and one only; without a
pending write the address leads to the contents; behind the end nothing is
written or has an address except where the task in the middle of a truncation
still has to pass; and an exposed page has no address and is not pending, so that
it is a hole again once it is dropped.

### Directory

Assumption: `DirectoryAssumption` (a finite set of inodes, `.` and `..` not among
the names).

| Theorem | Statement |
|---|---|
| `DirectoryTyped` | `Spec => []TypeOK` |
| `LinksAlwaysExact` | `Spec => []LinksExact` |
| `ListingAlwaysExact` | `Spec => []ListingExact` |
| `NamespaceImplemented` | `Spec => ImplementsNamespace` |

`LinksExact` is not inductive: that the count is right after `rmdir` depends on
the entry being the only one for that inode.  `DirInv == Typed /\ CacheInv /\
TreeInv /\ ListInv`: a clean inode equals its node page, and the removed
directories are those without a link (`CacheInv`); a directory's pages are its
dots, then free pages and names, no name twice, its size is their number, and no
inode has two entries anywhere (`TreeInv`); an open directory's position lies
behind the pages reported and, if no buffer was full, before the others
(`ListInv`).  The proof factors through the effect of a step on the attributes
and pages, wherever they are: `AddStep` (mknod, mkdir), `RemoveStep` (unlink,
rmdir) or neither (`QuietStep`: everything the inode cache does).  Each effect is
shown to keep the tree and to be an action of `Namespace`, and each operation to
have one of the effects.  The invariant does not say that every directory can be
reached from the root: no property asks for it, and nothing else needs it.

### NodePath and FileMap

`NodePath_proofs` and `FileMap_proofs` assume `PathAssumption` (positive node
sizes; both kinds of node have the same number of entries, which `get_path`
relies on) and `FileAssumption` (the largest file ends within the first indirect
node):

* `PathInverse`: the block number can be computed from `get_path`'s result.  The
  rounded-up quotients are shown to be the group a block is in (`GroupBounds`,
  `GroupLess`), which gives the four ranges and the shape of the path in each.
* `NoForeignBlockAlways`: `Spec => []NoForeignBlock`.
* `ReachableAlwaysValid`: `Spec => []ReachableValid`.
* `TreeTyped`: `Spec => []TypeOK`, with the clauses that nodes, dangling nids and
  used slots hang on nodes of the file.
* `KeptAlwaysValid`: `Spec => []KeptBlocksValid`.
* `NothingEverComesBack`: `Spec => []NothingComesBack`.
* `SmallFileAlwaysFreed`: `Spec => SmallFileFreed`, an action property.

None of the invariants is inductive.  A slot that is not reachable now may be
reached again when its nodes are created again, and the step that clears the
valid bit of one slot's address must not hit another slot with the same address.
`IInv` therefore speaks of all slots (`Owned`): every used slot is the slot of
the block its address was written for, and the address is valid.  With
`PathInverse` no address is in two slots, so clearing slots and bits together is
safe (`ClearSlotsGood`), wherever the walk happens to go: the first two theorems
hold for any content of `offset[]`.  That is also why the three defects above do
not break them: they lose or leave blocks, they do not mix them up.

The other theorems are about where the walk goes.  `Trims(s, t, f)` says that
between two states of the walk only nodes, slots and bits have been taken away,
that the tree still hangs together, and that no block before `f` has lost its
bit; it composes, and every operator of truncation is shown to satisfy it.
`PathShape` and `OffsetsOfTwo`, `OffsetsOfThree` say what `offset[]` holds when
the walk starts; only the first round that uses it needs that, the later rounds
lie behind the end altogether (`TruncateTrims`).  `TInv` adds to `IInv` that the
tree hangs together and that the last write to each block before the end is valid
and that block's own; `Fresh` adds that the slots of the first blocks hold it or
nothing, which needs that truncation empties all of them (`TruncateClears`).
`TruncateFrees` is the exact effect of the walk from within the inode's
addresses.

### Only model-checked

Liveness under fairness and `ENABLED` stay with TLC: `WriteCompletes`,
`UnmountEnds`.  Nothing is claimed of `NatSaved` and `ImplementsStore` of `Checkpoint`
beyond the first written superblock: the run `checkpoint_remount` shows that a
later checkpoint loses entries, which a mount then does not read back.

## 5. Not modelled, and the plan

Not modelled for good: wording of messages; `xcpfs_zone_mgmt` (close, finish,
reset), which nothing calls; time stamps and attributes; the thin wrappers in
`reg.c` and `xcpfs_rwsem.h`; failed allocations of memory and failed reads; build
files.

In order of importance:

1. `Zit`: reading the zone table at mount and flushing it while blocks complete;
   the quarter of a valid map that is copied and the 10 bits of `vblocks`.
2. The contexts in which completions run (interrupt or task) with `zm_info_lock`
   and `nat_info_rwsem`, and the readers of `cp_sem`.

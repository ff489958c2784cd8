------------------------------ MODULE Directory ------------------------------
(***************************************************************************)
(* The directories of xcpfs (dir.c) and the life of an inode: creation,    *)
(* lookup, writing back, eviction (inode.c, super.c).                      *)
(*                                                                         *)
(* A directory has one entry per page.  A page whose ino is 0 is free and  *)
(* is used again; otherwise the directory grows by a page, and its size is *)
(* what later scans go by.  An inode in memory is a copy of its node page, *)
(* to which write_inode brings it back; what happens to the node page      *)
(* until it is on the disk is the subject of module Checkpoint.            *)
(*                                                                         *)
(* An operation is one step: the VFS holds the directory's i_rwsem (for    *)
(* rmdir also the victim's) over all of it, and an inode being created is  *)
(* locked (I_NEW) until it has a name, which keeps the flusher off it.     *)
(* A nid is given out once (module NatCache).                              *)
(***************************************************************************)
EXTENDS Naturals, Sequences, FiniteSets, TLC

CONSTANTS Inos,       \* nids of inodes, the root's among them
          RootIno,
          Names,      \* names besides "." and ".."
          None,       \* no ino, no name
          PageBytes,  \* PAGE_SIZE
          Room,       \* entries a buffer of getdents holds
          OpenLimit,  \* bound: files and directories open at a time
          DirtyLimit  \* bound: inodes waiting for write_inode at a time

ASSUME DirectoryAssumption ==
  /\ IsFiniteSet(Inos) /\ RootIno \in Inos /\ None \notin Inos \cup Names
  /\ Names \cap {".", ".."} = {}
  /\ PageBytes \in Nat \ {0} /\ Room \in Nat \ {0} /\ OpenLimit \in Nat /\ DirtyLimit \in Nat

VARIABLES
  slots,     \* the entries in the pages of each directory
  ipage,     \* the inodes as their node pages have them
  inode,     \* the inodes in memory
  cached,    \* which are in memory
  dirty,     \* which of those wait for write_inode
  dead,      \* removed directories (S_DEAD of the VFS)
  opened,    \* inodes held by open files
  listing    \* an open directory being read

vars == <<slots, ipage, inode, cached, dirty, dead, opened, listing>>

NoInode == [kind |-> "none", nlink |-> 0, size |-> 0]
FreeSlot == [name |-> None, ino |-> None]
Dots(i) == <<[name |-> ".", ino |-> i], [name |-> "..", ino |-> i]>>
Idle == [dir |-> None, pos |-> 0, seen |-> {}, again |-> {}, kept |-> {}, full |-> FALSE]

\* mkfs: the root with its two entries, read by the first mount.
Root == [kind |-> "dir", nlink |-> 2, size |-> 2]
Init ==
  /\ slots = [i \in Inos |-> IF i = RootIno THEN Dots(i) ELSE <<>>]
  /\ ipage = [i \in Inos |-> IF i = RootIno THEN Root ELSE NoInode]
  /\ inode = ipage /\ cached = {RootIno} /\ dirty = {}
  /\ dead = {} /\ opened = {} /\ listing = Idle

-----------------------------------------------------------------------------
(* Scanning and changing a directory's pages. *)

Attr(i) == IF i \in cached THEN inode[i] ELSE ipage[i]
dir_pages(d) == 1 .. Attr(d).size

First(S) == CHOOSE k \in S : \A j \in S : k <= j

\* The page of the first entry with the name, none if there is none.
find_entry(d, n) ==
  LET found == {k \in dir_pages(d) : slots[d][k].ino # None /\ slots[d][k].name = n}
  IN  IF found = {} THEN {} ELSE {First(found)}

FreePages(d) == {k \in dir_pages(d) : slots[d][k].ino = None}
NewPage(d) == Attr(d).size + 1
Target(d) == IF FreePages(d) = {} THEN NewPage(d) ELSE First(FreePages(d))

\* add_link's effect on the pages and the size of d.
WithEntry(d, n, i) ==
  LET e == [name |-> n, ino |-> i]
  IN  IF Target(d) > Len(slots[d]) THEN Append(slots[d], e) ELSE [slots[d] EXCEPT ![Target(d)] = e]
Grown(d) == IF Target(d) > inode[d].size THEN Target(d) ELSE inode[d].size

\* delete_entry's effect.
WithoutEntry(d, k) == [slots[d] EXCEPT ![k] = FreeSlot]

\* "." and ".." do not count.
OneTooFar == 4
FirstCounted == 3
empty_dir(i) == \A k \in dir_pages(i) : k >= FirstCounted => slots[i][k].ino = None

\* The VFS enters only directories it has looked up and that are not removed.
LiveDir(d) == d \in cached /\ inode[d].kind = "dir" /\ d \notin dead

-----------------------------------------------------------------------------
(* Operations. *)

\* A name that was not kept all the time cannot be missed by a listing.
Forgotten(d, n) == [listing EXCEPT !.kept = IF listing.dir = d THEN @ \ {n} ELSE @]

mark_dirty(S) == dirty' = dirty \cup S /\ Cardinality(dirty \cup S) <= DirtyLimit

\* new_inode: a nid that no node page was ever written for.
Fresh(i) == Attr(i).kind = "none"

\* mknod: new_inode, add_link.
Create(d, n, i) ==
  /\ LiveDir(d) /\ find_entry(d, n) = {} /\ Fresh(i)
  /\ inode' = [inode EXCEPT ![i] = [kind |-> "reg", nlink |-> 1, size |-> 0], ![d].size = Grown(d)]
  /\ slots' = [slots EXCEPT ![d] = WithEntry(d, n, i)]
  /\ cached' = cached \cup {i} /\ mark_dirty({d, i})
  /\ UNCHANGED <<ipage, dead, opened, listing>>

\* inode_inc_link_count of the parent, then of the child.
ChildLinked(attr, d, i) == [attr EXCEPT ![i].nlink = @ + 1]
Linked(attr, d, i) == [attr EXCEPT ![d].nlink = @ + 1, ![i].nlink = @ + 1]

\* mkdir: new_inode, the link counts, init_dir, add_link.
Mkdir(d, n, i) ==
  /\ LiveDir(d) /\ find_entry(d, n) = {} /\ Fresh(i)
  /\ LET new == [inode EXCEPT ![i] = [kind |-> "dir", nlink |-> 1, size |-> 2], ![d].size = Grown(d)]
     IN  inode' = Linked(new, d, i)
  /\ slots' = [slots EXCEPT ![d] = WithEntry(d, n, i), ![i] = Dots(i)]
  /\ cached' = cached \cup {i} /\ mark_dirty({d, i})
  /\ UNCHANGED <<ipage, dead, opened, listing>>

\* iget of an inode that is not in memory reads its node page.
WithInode(S) == [i \in Inos |-> IF i \in S \ cached THEN ipage[i] ELSE inode[i]]

lookup(d, n) ==
  /\ LiveDir(d)
  /\ \E k \in find_entry(d, n) :
       /\ slots[d][k].ino \notin cached
       /\ inode' = WithInode({slots[d][k].ino})
       /\ cached' = cached \cup {slots[d][k].ino}
  /\ UNCHANGED <<slots, ipage, dirty, dead, opened, listing>>

\* unlink: the entry, then the inode's link count.
Unlink(d, n) ==
  /\ LiveDir(d)
  /\ \E k \in find_entry(d, n) :
       LET i == slots[d][k].ino IN
       /\ i \in cached /\ inode[i].kind = "reg"
       /\ slots' = [slots EXCEPT ![d] = WithoutEntry(d, k)]
       /\ inode' = [inode EXCEPT ![i].nlink = @ - 1]
       /\ mark_dirty({d, i})
  /\ listing' = Forgotten(d, n)
  /\ UNCHANGED <<ipage, cached, dead, opened>>

\* rmdir: unlink, then the parent's count and the directory's own.
UnlinkedTwice(attr, d, i) == [attr EXCEPT ![d].nlink = @ - 1, ![i].nlink = @ - 3]
Unlinked(attr, d, i) == [attr EXCEPT ![d].nlink = @ - 1, ![i].nlink = @ - 2]

Rmdir(d, n) ==
  /\ LiveDir(d)
  /\ \E k \in find_entry(d, n) :
       LET i == slots[d][k].ino IN
       /\ i \in cached /\ inode[i].kind = "dir" /\ empty_dir(i)
       /\ slots' = [slots EXCEPT ![d] = WithoutEntry(d, k)]
       /\ inode' = Unlinked(inode, d, i)
       /\ mark_dirty({d, i})
       /\ dead' = dead \cup {i}
  /\ listing' = Forgotten(d, n)
  /\ UNCHANGED <<ipage, cached, opened>>

\* Files; for directories see OpenDir.
Open(i) ==
  /\ i \in cached \ opened /\ inode[i].kind = "reg" /\ inode[i].nlink > 0
  /\ Cardinality(opened) < OpenLimit
  /\ opened' = opened \cup {i}
  /\ UNCHANGED <<slots, ipage, inode, cached, dirty, dead, listing>>

Close(i) ==
  /\ i \in opened /\ inode[i].kind = "reg"
  /\ opened' = opened \ {i}
  /\ UNCHANGED <<slots, ipage, inode, cached, dirty, dead, listing>>

-----------------------------------------------------------------------------
(* Reading a directory. *)

NamesIn(d) == {slots[d][k].name : k \in {j \in dir_pages(d) : slots[d][j].ino # None}}

OpenDir(d) ==
  /\ LiveDir(d) /\ listing = Idle
  /\ Cardinality(opened) < OpenLimit
  /\ opened' = opened \cup {d}
  /\ listing' = [Idle EXCEPT !.dir = d, !.kept = NamesIn(d)]
  /\ UNCHANGED <<slots, ipage, inode, cached, dirty, dead>>

ALIGN(pos) == ((pos + PageBytes - 1) \div PageBytes) * PageBytes

NotAdvanced(pos, end) == pos
Advanced(pos, end) == IF end > pos THEN pos + (end - pos) * PageBytes ELSE pos

\* One call: from the page whose index is pos on, as many entries as there is
\* room for.  The page at which the buffer is full is left for the next call;
\* pos has moved by the bytes of the pages before it.
readdir ==
  LET d == listing.dir
      pos == ALIGN(listing.pos)
      inuse == {k \in dir_pages(d) : k > pos /\ slots[d][k].ino # None}
      listed == {k \in inuse : Cardinality({j \in inuse : j <= k}) <= Room}
      full == listed # inuse
      end == IF full THEN First(inuse \ listed) - 1 ELSE Attr(d).size
      names == {slots[d][k].name : k \in listed}
      found == {slots[d][k].ino : k \in listed}
  IN  /\ LiveDir(d)
      /\ inuse # {}
      /\ listing' = [listing EXCEPT
           !.pos = Advanced(pos, end),
           !.seen = @ \cup names, !.again = @ \cup (listing.seen \cap names),
           !.full = @ \/ full]
      /\ inode' = WithInode(found)
      /\ cached' = cached \cup found
      /\ UNCHANGED <<slots, ipage, dirty, dead, opened>>

\* A call that finds nothing is the end.
ListingEnds ==
  /\ listing.dir # None
  /\ \A k \in dir_pages(listing.dir) : k > ALIGN(listing.pos) => slots[listing.dir][k].ino = None
  /\ listing' = Idle
  /\ opened' = opened \ {listing.dir}
  /\ UNCHANGED <<slots, ipage, inode, cached, dirty, dead>>

\* The directory is closed early, or was removed while it was read.
ListingStops ==
  /\ listing.dir # None
  /\ listing' = Idle
  /\ opened' = opened \ {listing.dir}
  /\ UNCHANGED <<slots, ipage, inode, cached, dirty, dead>>

-----------------------------------------------------------------------------
(* The inode cache. *)

\* update_inode_page.
Copied(i) == inode[i]

\* The flusher; the inode stays in memory.
write_inode(i) ==
  /\ i \in dirty
  /\ ipage' = [ipage EXCEPT ![i] = Copied(i)]
  /\ dirty' = dirty \ {i}
  /\ UNCHANGED <<slots, inode, cached, dead, opened, listing>>

\* evict_inode: the attributes are written; without a name the blocks go too.
evict_inode(i) ==
  /\ ipage' = [ipage EXCEPT ![i] = IF i \in dirty THEN Copied(i) ELSE @]
  /\ slots' = IF inode[i].nlink = 0 THEN [slots EXCEPT ![i] = <<>>] ELSE slots
  /\ inode' = [inode EXCEPT ![i] = NoInode]
  /\ cached' = cached \ {i} /\ dirty' = dirty \ {i}
  /\ UNCHANGED <<dead, opened, listing>>

\* The last reference to an inode without a name is dropped, or memory is
\* short: then only what is clean, closed and has no child in memory.
Dropped(i) == i \in cached \ opened /\ inode[i].nlink = 0
Shrinkable(i) ==
  /\ i \in cached \ (opened \cup dirty \cup {RootIno})
  /\ \A k \in dir_pages(i) : k >= FirstCounted => slots[i][k].ino \notin cached
Evict(i) == (Dropped(i) \/ Shrinkable(i)) /\ evict_inode(i)

\* Unmount and mount.  What is open cannot be unmounted; the checkpoint writes
\* every inode and every page.
Remount ==
  /\ opened = {} /\ \A i \in cached : ~Dropped(i)
  /\ ipage' = [i \in Inos |-> IF i \in dirty THEN Copied(i) ELSE ipage[i]]
  /\ inode' = [i \in Inos |-> IF i = RootIno THEN ipage'[i] ELSE NoInode]
  /\ cached' = {RootIno} /\ dirty' = {} /\ dead' = {}
  /\ UNCHANGED <<slots, opened, listing>>

-----------------------------------------------------------------------------
Next ==
  \/ \E d \in Inos, n \in Names :
       lookup(d, n) \/ Unlink(d, n) \/ Rmdir(d, n) \/ \E i \in Inos : Create(d, n, i) \/ Mkdir(d, n, i)
  \/ \E i \in Inos : Open(i) \/ Close(i) \/ OpenDir(i) \/ write_inode(i) \/ Evict(i)
  \/ readdir \/ ListingEnds \/ ListingStops \/ Remount

Spec == Init /\ [][Next]_vars

-----------------------------------------------------------------------------
(* Properties. *)

Inode == [kind : {"none", "reg", "dir"}, nlink : Nat, size : Nat]
Slot == [name : Names \cup {".", "..", None}, ino : Inos \cup {None}]

\* Every variable has its type; link counts never go below zero (the VFS warns
\* of drop_nlink at 0), only an inode in memory can be dirty, and a directory's
\* size never reaches behind its pages.
TypeOK ==
  /\ \A i \in Inos : \A k \in DOMAIN slots[i] : slots[i][k] \in Slot
  /\ ipage \in [Inos -> Inode] /\ inode \in [Inos -> Inode]
  /\ cached \subseteq Inos /\ dirty \subseteq cached /\ opened \subseteq cached
  /\ dead \subseteq Inos
  /\ listing.dir \in opened \cup {None} /\ listing.pos \in Nat
  /\ \A i \in Inos : Attr(i).kind = "dir" /\ Attr(i).nlink > 0 => Attr(i).size <= Len(slots[i])

Entries(d) == {slots[d][k] : k \in {j \in dir_pages(d) : slots[d][j].ino # None}}
Directories == {i \in Inos : Attr(i).kind = "dir" /\ Attr(i).nlink > 0}
Children(d) == {e.ino : e \in {x \in Entries(d) : x.name \in Names}}

\* Link counts agree with the entries: a directory has one link for its name,
\* one for its "." and one for each directory in it, a file one for its name,
\* and what has no name has none, so that eviction frees it, and only it.
\* mkdir, rmdir and unlink change counts and entries on different inodes, each
\* written back, evicted and read again at another time.
LinksExact ==
  \A i \in Inos :
    LET named == i = RootIno \/ \E d \in Directories : i \in Children(d)
    IN  Attr(i).nlink = IF ~named THEN 0
                        ELSE IF Attr(i).kind = "reg" THEN 1
                        ELSE 2 + Cardinality(Children(i) \cap Directories)

\* One getdents after another: what had its name all the time is reported at
\* most once, and, if no buffer was full, exactly once when the listing ends.
\* (readdir counts pos in bytes and starts at the page with that index, so after
\* a full buffer the rest of the directory is skipped.)
ListingExact ==
  LET ended == \A k \in dir_pages(listing.dir) :
                 k > ALIGN(listing.pos) => slots[listing.dir][k].ino = None
  IN  listing.dir # None =>
        /\ listing.kept \cap listing.again = {}
        /\ ended /\ ~listing.full => listing.kept \subseteq listing.seen

\* What the directories mean: for each directory and name the inode that
\* lookup would find.
Meaning(d, n) ==
  LET found == find_entry(d, n)
  IN  IF found = {} THEN None ELSE slots[d][First(found)].ino

Tree == [d \in Directories |-> [n \in Names |-> Meaning(d, n)]]

NS == INSTANCE Namespace WITH tree <- Tree

\* The directories implement a tree of names: no reuse of a page, growth,
\* write-back, eviction or mount adds, loses or redirects a name, a new inode
\* is never one that is named already, and only an empty directory goes.
ImplementsNamespace == NS!Spec

=============================================================================

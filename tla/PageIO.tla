------------------------------- MODULE PageIO -------------------------------
(***************************************************************************)
(* The data path of one regular file (data.c, xio.c, meta.c, inode.c):     *)
(* writers, readers, writeback and truncation meet in the page cache, where *)
(* each data page is found through the node page that holds its address.   *)
(*                                                                         *)
(* Pages below Direct have their address in the inode's own node, the      *)
(* others in one direct node, which the first writer creates.  A write in  *)
(* flight keeps the data page and its direct node locked until end_io.     *)
(* Memory pressure drops pages that are clean, unlocked and not in use.    *)
(*                                                                         *)
(* Blocks are never overwritten, so an address of a page is the version    *)
(* that was written there; 0 is no address, and the content of a hole.     *)
(* The disk holds of a node what the NAT leads to.                         *)
(***************************************************************************)
EXTENDS Integers, FiniteSets

CONSTANTS Tasks,
          Pages,        \* indices of the file's data pages
          Direct,       \* DEF_ADDRS_PER_INODE
          Ino,          \* the inode's nid
          Children,     \* nids the direct node can get
          Device,       \* holds the lock of a page that is being written
          None,
          MaxWrites,    \* bound: writes
          MaxTruncates  \* bound: changes of the size

ASSUME PageIOAssumption ==
  /\ Pages \subseteq Nat /\ \A p \in Pages : 0 .. p \subseteq Pages
  /\ Direct \in Nat
  /\ Ino \notin Children /\ None \notin Children \cup Tasks \cup {Ino, Device}
  /\ Device \notin Tasks /\ MaxWrites \in Nat /\ MaxTruncates \in Nat

VARIABLES
  data,      \* the file's pages in the page cache
  node,      \* the node inode's pages in the page cache
  disk,      \* what each node's last block holds
  used,      \* nids of direct nodes that were handed out
  flight,    \* the locked direct node of a data page being written
  task,      \* where each task is, with its local variables
  owner,     \* who holds the inode's lock
  size,      \* i_size in pages
  content,   \* history: what was last written to each page
  exposed,   \* history: pages the file grew over while they held old data, and
             \* that were neither written nor dropped since
  writes, truncates

counts == <<writes, truncates>>
file == <<owner, size, content, exposed, counts>>
vars == <<data, node, disk, used, flight, task, file>>

Nodes == {Ino} \cup Children
Junk == -1              \* what block 0, the superblock, holds for a reader
Absent == [state |-> "absent", ver |-> 0, dirty |-> FALSE, lock |-> None]
Hole == [addr |-> [p \in Pages |-> 0], child |-> None]
Idle == [op |-> "none", at |-> "idle", p |-> 0, d |-> None, again |-> FALSE, addr |-> 0]

\* An empty file whose inode was just created.
Init ==
  /\ data = [p \in Pages |-> Absent]
  /\ disk = [n \in Nodes |-> Hole]
  /\ node = [n \in Nodes |-> [cached |-> n = Ino, dirty |-> n = Ino, lock |-> None, body |-> Hole]]
  /\ used = {} /\ flight = [p \in Pages |-> None]
  /\ task = [t \in Tasks |-> Idle]
  /\ owner = None /\ size = 0 /\ content = [p \in Pages |-> 0] /\ exposed = {}
  /\ writes = 0 /\ truncates = 0

\* What a lookup finds in a node: its page, or its block.
Body(n) == IF node[n].cached THEN node[n].body ELSE disk[n]
DnodeOf(p) == IF p < Direct THEN Ino ELSE Body(Ino).child
AddrOf(p) == IF DnodeOf(p) = None THEN 0 ELSE Body(DnodeOf(p)).addr[p]

InCache(n) == node[n].cached
Free(n) == node[n].cached /\ node[n].lock = None
Goes(t, at) == task' = [task EXCEPT ![t].at = at]
Ends(t) == task' = [task EXCEPT ![t] = Idle]

\* Pages that come inside the file when it grows, with something else than zeros
\* in them, or on the way to them.
Reading(p) == \E t \in Tasks : task[t].p = p /\ task[t].again
Uncovered(new) ==
  {p \in size .. new - 1 : (data[p].state = "uptodate" /\ data[p].ver # 0) \/ Reading(p)}

-----------------------------------------------------------------------------
(* Beginnings.  Writers and setattr hold the inode's lock, readers and       *)
(* writeback do not.                                                         *)

Unlocked(t) == owner' = None
Locked(t) == owner' = t
Begin(t, op, p) ==
  /\ task[t] = Idle
  /\ task' = [task EXCEPT ![t] = [Idle EXCEPT !.op = op, !.at = "page", !.p = p]]
  /\ UNCHANGED <<data, node, disk, used, flight, size, content, exposed, truncates>>

BeginWrite(t, p) ==
  /\ owner = None /\ writes < MaxWrites
  /\ Locked(t) /\ writes' = writes + 1
  /\ Begin(t, "write", p)

\* filemap_read looks at i_size once before it looks for the page.
BeginRead(t, p) == p < size /\ Begin(t, "read", p) /\ UNCHANGED <<owner, writes>>
BeginFlush(t, p) == data[p].dirty /\ Begin(t, "flush", p) /\ UNCHANGED <<owner, writes>>

\* The first page behind a new end.
OneFurther(s) == s + 1
FirstBehind(s) == s

\* setattr of a file without a direct node (module FileMap has the others).
Resize(t) ==
  /\ task[t] = Idle /\ owner = None /\ truncates < MaxTruncates
  /\ Body(Ino).child = None
  /\ \E s \in 0 .. Direct :
       /\ s # size /\ size' = s
       /\ content' = [p \in Pages |-> IF p < s THEN content[p] ELSE 0]
       /\ exposed' = exposed \cup Uncovered(s)
       /\ task' = [task EXCEPT ![t] = [Idle EXCEPT !.op = "truncate", !.at = "drop", !.p = FirstBehind(s)]]
  /\ owner' = t /\ truncates' = truncates + 1
  /\ UNCHANGED <<data, node, disk, used, flight, writes>>

-----------------------------------------------------------------------------
(* __prepare_page, read_folio, and writepage up to the direct node. *)

\* The page is locked; an uptodate one is ready.
LockPage(t) ==
  LET p == task[t].p IN
  /\ task[t].at = "page" /\ task[t].op # "flush" /\ data[p].lock = None
  /\ IF data[p].state = "uptodate" /\ task[t].op = "read"
     THEN Ends(t) /\ UNCHANGED data
     ELSE /\ data' = [data EXCEPT ![p].lock = t, ![p].state = IF @ = "absent" THEN "empty" ELSE @]
          /\ Goes(t, IF data[p].state = "uptodate" THEN "copy" ELSE "inode")
  /\ UNCHANGED <<node, disk, used, flight, file>>

\* write_cache_pages locks the page, looks again, and clears the dirty mark.
LockDirty(t) ==
  LET p == task[t].p IN
  /\ task[t].at = "page" /\ task[t].op = "flush" /\ data[p].lock = None
  /\ IF data[p].dirty
     THEN data' = [data EXCEPT ![p].lock = t, ![p].dirty = FALSE] /\ Goes(t, "inode")
     ELSE Ends(t) /\ UNCHANGED data
  /\ UNCHANGED <<node, disk, used, flight, file>>

\* get_node_page of a page that is not in the cache: end_io unlocks it, and the
\* reader has to take the lock again.
Wanted(n) == \E t \in Tasks : \/ task[t].at \in {"inode", "create", "clear"} /\ n = Ino
                              \/ task[t].at = "child" /\ n = task[t].d
ReadNode(n) ==
  /\ ~node[n].cached /\ Wanted(n)
  /\ node' = [node EXCEPT ![n] = [cached |-> TRUE, dirty |-> FALSE, lock |-> None, body |-> disk[n]]]
  /\ UNCHANGED <<data, disk, used, flight, task, file>>

\* At the locked direct node.  do_prepare_page asks whether the block exists, and
\* unlocks; submit_data_xio walks again for its address.  A write keeps the lock.
Submit(t, d) ==
  LET p == task[t].p  a == node[d].body.addr[p] IN
  \/ /\ task[t].op = "flush"
     /\ node' = [node EXCEPT ![d].lock = Device]
     /\ data' = [data EXCEPT ![p].lock = Device]
     /\ flight' = [flight EXCEPT ![p] = d]
     /\ Ends(t)
  \/ /\ task[t].op # "flush" /\ task[t].again
     /\ task' = [task EXCEPT ![t].at = "io", ![t].addr = a]
     /\ UNCHANGED <<data, node, flight>>
  \/ /\ task[t].op # "flush" /\ ~task[t].again /\ a # 0
     /\ task' = [task EXCEPT ![t].at = "inode", ![t].again = TRUE]
     /\ UNCHANGED <<data, node, flight>>
  \/ /\ task[t].op # "flush" /\ ~task[t].again /\ a = 0
     /\ data' = [data EXCEPT ![p].state = "uptodate", ![p].ver = 0,
                             ![p].lock = IF task[t].op = "read" THEN None ELSE t]
     /\ IF task[t].op = "read" THEN Ends(t) ELSE Goes(t, "copy")
     /\ UNCHANGED <<node, flight>>

\* get_dnode_page at the inode's node.  Without create a missing child is EIO.
AtInode(t) ==
  LET p == task[t].p  c == node[Ino].body.child IN
  /\ task[t].at = "inode" /\ Free(Ino)
  /\ \/ p < Direct /\ Submit(t, Ino)
     \/ /\ p >= Direct /\ c # None
        /\ task' = [task EXCEPT ![t].at = "child", ![t].d = c]
        /\ UNCHANGED <<data, node, flight>>
     \/ /\ p >= Direct /\ c = None
        /\ IF task[t].op = "write" THEN Goes(t, "create") /\ UNCHANGED data
           ELSE Ends(t) /\ data' = [data EXCEPT ![p].lock = None, ![p].dirty = (task[t].op = "flush")]
        /\ UNCHANGED <<node, flight>>
  /\ UNCHANGED <<disk, used, file>>

\* It has unlocked the node to allocate a nid, and does not look again.
CreateChild(t) ==
  /\ task[t].at = "create" /\ Free(Ino)
  /\ \E c \in Children \ used :
       /\ used' = used \cup {c}
       /\ node' = [node EXCEPT ![Ino].body.child = c, ![Ino].dirty = TRUE]
       /\ task' = [task EXCEPT ![t].at = "child", ![t].d = c]
  /\ UNCHANGED <<data, disk, flight, file>>

AtChild(t) ==
  /\ task[t].at = "child" /\ Free(task[t].d)
  /\ Submit(t, task[t].d)
  /\ UNCHANGED <<disk, used, file>>

\* read_end_io unlocks the page; do_prepare_page locks it again.
ReadEnd(t) ==
  LET p == task[t].p IN
  /\ task[t].at = "io"
  /\ data' = [data EXCEPT ![p].state = "uptodate", ![p].lock = None,
                          ![p].ver = IF task[t].addr = 0 THEN Junk ELSE task[t].addr]
  /\ Goes(t, "relock")
  /\ UNCHANGED <<node, disk, used, flight, file>>

Relock(t) ==
  LET p == task[t].p IN
  /\ task[t].at = "relock" /\ data[p].lock = None
  /\ IF task[t].op = "read" THEN Ends(t) /\ UNCHANGED data
     ELSE Goes(t, "copy") /\ data' = [data EXCEPT ![p].lock = t]
  /\ UNCHANGED <<node, disk, used, flight, file>>

\* The data are copied; __commit_write marks the page and moves i_size.
Commit(t) ==
  LET p == task[t].p  new == IF p >= size THEN p + 1 ELSE size IN
  /\ task[t].at = "copy"
  /\ data' = [data EXCEPT ![p] = [state |-> "uptodate", ver |-> writes, dirty |-> TRUE, lock |-> None]]
  /\ content' = [content EXCEPT ![p] = writes]
  /\ size' = new /\ exposed' = (exposed \cup Uncovered(new)) \ {p}
  /\ owner' = IF owner = t THEN None ELSE owner
  /\ Ends(t)
  /\ UNCHANGED <<node, disk, used, flight, writes, truncates>>

-----------------------------------------------------------------------------
(* Completions, writeback of nodes, truncation, memory pressure. *)

\* xcpfs_write_end_io of a data page.
NotMarked(d) == node[d].dirty
Marked(d) == TRUE
WriteEnd(p) ==
  LET d == flight[p] IN
  /\ d # None
  /\ node' = [node EXCEPT ![d] = [@ EXCEPT !.body.addr[p] = data[p].ver, !.dirty = Marked(d), !.lock = None]]
  /\ data' = [data EXCEPT ![p].dirty = FALSE, ![p].lock = None]
  /\ flight' = [flight EXCEPT ![p] = None]
  /\ UNCHANGED <<disk, used, task, file>>

\* writepage of a node page, and its end_io.
FlushNode(n) ==
  /\ Free(n) /\ node[n].dirty
  /\ node' = [node EXCEPT ![n].dirty = FALSE, ![n].lock = Device]
  /\ UNCHANGED <<data, disk, used, flight, task, file>>

NodeWriteEnd(n) ==
  /\ node[n].lock = Device /\ \A p \in Pages : flight[p] # n
  /\ disk' = [disk EXCEPT ![n] = node[n].body]
  /\ node' = [node EXCEPT ![n].lock = None]
  /\ UNCHANGED <<data, used, flight, task, file>>

\* truncate_setsize drops the pages behind the new end, each when it is unlocked.
\* A reader that waits for a page's lock goes on with a page of no file.
DropPage(t) ==
  LET p == task[t].p IN
  /\ task[t].at = "drop" /\ p \in Pages /\ data[p].lock = None
  /\ data' = [data EXCEPT ![p] = Absent]
  /\ task' = [u \in Tasks |-> IF u = t THEN [task[t] EXCEPT !.p = p + 1]
                              ELSE IF task[u].at = "relock" /\ task[u].p = p THEN Idle ELSE task[u]]
  /\ exposed' = exposed \ {p}
  /\ UNCHANGED <<node, disk, used, flight, owner, size, content, counts>>

AllDropped(t) ==
  /\ task[t].at = "drop" /\ task[t].p \notin Pages
  /\ Goes(t, "clear")
  /\ UNCHANGED <<data, node, disk, used, flight, file>>

\* xcpfs_truncate: the addresses behind the end, with the node locked.
ClearAddrs(t) ==
  /\ task[t].at = "clear" /\ Free(Ino)
  /\ node' = [node EXCEPT ![Ino].dirty = TRUE,
                          ![Ino].body.addr = [p \in Pages |-> IF p < size THEN @[p] ELSE 0]]
  /\ Goes(t, "invalidate")
  /\ UNCHANGED <<data, disk, used, flight, file>>

\* A page that is clean, unlocked and not referenced.
Idles(p) ==
  /\ data[p].state # "absent" /\ data[p].lock = None /\ ~data[p].dirty
  /\ \A t \in Tasks : task[t].p = p => task[t].at # "relock"

\* invalidate_mapping_pages, which passes over what is in use.
Invalidate(t) ==
  /\ task[t].at = "invalidate"
  /\ data' = [p \in Pages |-> IF p >= size /\ Idles(p) THEN Absent ELSE data[p]]
  /\ exposed' = {p \in exposed : ~(p >= size /\ Idles(p))}
  /\ owner' = None
  /\ Ends(t)
  /\ UNCHANGED <<node, disk, used, flight, size, content, counts>>

Reclaim(p) ==
  /\ Idles(p)
  /\ data' = [data EXCEPT ![p] = Absent] /\ exposed' = exposed \ {p}
  /\ UNCHANGED <<node, disk, used, flight, task, owner, size, content, counts>>

ReclaimNode(n) ==
  /\ Free(n) /\ ~node[n].dirty /\ ~Wanted(n)
  /\ node' = [node EXCEPT ![n].cached = FALSE, ![n].body = Hole]
  /\ UNCHANGED <<data, disk, used, flight, task, file>>

-----------------------------------------------------------------------------
TaskStep(t) ==
  \/ LockPage(t) \/ LockDirty(t) \/ AtInode(t) \/ CreateChild(t) \/ AtChild(t)
  \/ ReadEnd(t) \/ Relock(t) \/ Commit(t) \/ DropPage(t) \/ AllDropped(t)
  \/ ClearAddrs(t) \/ Invalidate(t)

Next ==
  \/ \E t \in Tasks, p \in Pages : BeginWrite(t, p) \/ BeginRead(t, p) \/ BeginFlush(t, p)
  \/ \E t \in Tasks : Resize(t) \/ TaskStep(t)
  \/ \E p \in Pages : WriteEnd(p) \/ Reclaim(p)
  \/ \E n \in Nodes : ReadNode(n) \/ FlushNode(n) \/ NodeWriteEnd(n) \/ ReclaimNode(n)

Spec == Init /\ [][Next]_vars

-----------------------------------------------------------------------------
(* Properties. *)

\* Every variable has its type, and a page's lock has one holder at a time:
\* a task that works on a page, or the device for a page in flight.
TypeOK ==
  /\ \A p \in Pages :
       /\ data[p].state \in {"absent", "empty", "uptodate"} /\ data[p].ver \in Junk .. MaxWrites
       /\ data[p].lock \in Tasks \cup {None, Device}
       /\ (flight[p] # None) = (data[p].lock = Device)
       /\ flight[p] # None => node[flight[p]].lock = Device
       /\ data[p].dirty => data[p].state = "uptodate"
  /\ \A n \in Nodes : node[n].lock \in {None, Device} /\ Body(n).child \in Children \cup {None}
  /\ used \subseteq Children /\ owner \in Tasks \cup {None}
  /\ \A t \in Tasks : task[t].at \in {"inode", "create", "child", "io", "copy"} => data[task[t].p].lock = t

\* A read finds what was written last (or zeros after a truncation), in the
\* cache or through the node pages and blocks, although a page is dropped as
\* soon as it is clean, an address is stored at the end of a write only, and a
\* direct node is created with its parent unlocked.  Excepted are pages that a
\* reader brought back behind the new end while a truncation was between its
\* two halves, and over which the file grew again (data.c:92), until they are
\* written or dropped.
ReadsLastWrite ==
  \A p \in Pages \ exposed :
    p < size => content[p] = IF data[p].state = "uptodate" THEN data[p].ver ELSE AddrOf(p)

\* Once a truncation is over there is no address behind the end, and nothing
\* that could store one: no dirty page, and no write that was in flight when
\* the addresses were cleared.  Clean pages may be there, see ReadsLastWrite.
NothingBehindEnd ==
  (\A t \in Tasks : task[t].op # "truncate") =>
    \A p \in Pages : p >= size => AddrOf(p) = 0 /\ ~data[p].dirty /\ flight[p] = None

=============================================================================

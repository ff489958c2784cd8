---------------------------- MODULE PageIO_proofs ---------------------------
(***************************************************************************)
(* What holds of a file's pages for any number of tasks, pages and nodes,  *)
(* in every interleaving: the locks have one holder, a read finds the last *)
(* write unless the page is exposed, and behind the end of a truncated     *)
(* file there is no address and nothing to write.                          *)
(***************************************************************************)
EXTENDS PageIO, TLAPS

Version == Junk .. MaxWrites
PageState == [state : {"absent", "empty", "uptodate"}, ver : Version,
              dirty : BOOLEAN, lock : Tasks \cup {None, Device}]
NodeBody == [addr : [Pages -> Version], child : Children \cup {None}]
NodeState == [cached : BOOLEAN, dirty : BOOLEAN, lock : {None, Device}, body : NodeBody]
TaskState == [op : {"none", "read", "write", "flush", "truncate"},
              at : {"idle", "page", "inode", "create", "child", "io", "relock", "copy",
                    "drop", "clear", "invalidate"},
              p : Nat, d : Children \cup {None}, again : BOOLEAN, addr : Version]

Typed ==
  /\ data \in [Pages -> PageState] /\ flight \in [Pages -> Nodes \cup {None}]
  /\ node \in [Nodes -> NodeState] /\ disk \in [Nodes -> NodeBody]
  /\ task \in [Tasks -> TaskState]
  /\ used \subseteq Children /\ owner \in Tasks \cup {None}
  /\ size \in Nat /\ writes \in 0 .. MaxWrites /\ truncates \in 0 .. MaxTruncates
  /\ content \in [Pages -> Version] /\ exposed \subseteq Nat

-----------------------------------------------------------------------------
(* Tasks and their locks. *)

\* Where a task can be in its operation, and what it has found there.
Staged(s) ==
  \/ s = Idle
  \/ /\ s.op \in {"read", "write"} /\ s.p \in Pages
     /\ s.at \in {"page", "inode", "create", "child", "io", "relock", "copy"}
     /\ s.at = "page" => ~s.again
     /\ s.at = "io" => s.again
  \/ /\ s.op = "flush" /\ s.p \in Pages /\ s.at \in {"page", "inode", "child"} /\ ~s.again
  \/ s.op = "truncate" /\ s.at \in {"drop", "clear", "invalidate"} /\ ~s.again

\* A writer and a truncation have the inode's lock.
OwnerHolds ==
  \A t \in Tasks : (task[t].op \in {"write", "truncate"}) = (owner = t)

\* The direct node a task is at is the file's; only a writer creates it.
Arrived(s) ==
  /\ s.at \in {"create", "copy"} => s.op = "write"
  /\ s.at = "create" => s.p >= Direct /\ Body(Ino).child = None
  /\ s.at = "child" => s.p >= Direct /\ s.d # None /\ s.d = Body(Ino).child

\* A task between a page's lock and its unlock.
Works(s) == s.at \in {"inode", "create", "child", "io", "copy"}
Fetches(s) == s.op # "flush" /\ s.at \in {"inode", "create", "child", "io"}
Flushes(s) == s.op = "flush" /\ s.at \in {"inode", "child"}

PagesLocked ==
  \A t \in Tasks :
    Works(task[t]) => /\ data[task[t].p].lock = t
                      /\ Fetches(task[t]) => data[task[t].p].state = "empty"
                      /\ Flushes(task[t]) => data[task[t].p].state = "uptodate"

TasksOK ==
  /\ \A t \in Tasks : Staged(task[t]) /\ Arrived(task[t])
  /\ OwnerHolds /\ PagesLocked

-----------------------------------------------------------------------------
(* Nodes and writes in flight. *)

\* A clean node is what its block holds; a nid that was not handed out has none.
NodesOK ==
  /\ \A n \in Nodes :
       /\ node[n].cached /\ ~node[n].dirty /\ node[n].lock = None => node[n].body = disk[n]
       /\ ~node[n].cached => node[n].lock = None
  /\ \A c \in Children \ used : ~node[c].cached /\ disk[c] = Hole
  /\ Body(Ino).child \in used \cup {None}

\* A page in flight has its direct node locked, for itself alone.
FlightsOK ==
  /\ \A p \in Pages :
       /\ (flight[p] # None) = (data[p].lock = Device)
       /\ data[p].dirty => data[p].state = "uptodate"
       /\ flight[p] # None => /\ flight[p] = DnodeOf(p) /\ node[flight[p]].lock = Device
                              /\ data[p].state = "uptodate"
  /\ \A p, q \in Pages : flight[p] = flight[q] /\ flight[p] # None => p = q

-----------------------------------------------------------------------------
(* Contents. *)

\* A page whose content is on its way to the disk.
Pending(p) ==
  \/ data[p].dirty \/ flight[p] # None
  \/ \E t \in Tasks : Flushes(task[t]) /\ task[t].p = p

\* A truncation drops the pages behind the end, and clears their addresses.
BehindOK ==
  /\ \A p \in Pages : p >= size =>
       /\ content[p] = 0
       /\ (\A t \in Tasks : task[t].at = "drop" => task[t].p > p) => ~Pending(p)
       /\ (\A t \in Tasks : task[t].at \notin {"drop", "clear"}) => AddrOf(p) = 0
  /\ \A t \in Tasks : task[t].op = "truncate" =>
       Body(Ino).child = None /\ (task[t].at = "drop" => task[t].p >= size)

\* What a task has seen of a page's address.
Seen(s) ==
  /\ s.again /\ Fetches(s) => AddrOf(s.p) # 0
  /\ s.at = "io" => s.addr = AddrOf(s.p)

ContentsOK ==
  \A p \in Pages \ exposed : p < size =>
    /\ data[p].state = "uptodate" => data[p].ver = content[p]
    /\ ~Pending(p) => AddrOf(p) = content[p]
    /\ \A t \in Tasks : task[t].p = p => Seen(task[t])

\* A page with old data in it has no block, and is not on its way to one.
ExposedOK ==
  \A p \in Pages \cap exposed : content[p] = 0 /\ AddrOf(p) = 0 /\ ~Pending(p)

\* The inductive invariant.
IInv == Typed /\ TasksOK /\ NodesOK /\ FlightsOK /\ BehindOK /\ ContentsOK /\ ExposedOK

-----------------------------------------------------------------------------
(* What the lookups return. *)

LEMMA LookupTypes ==
  ASSUME Typed
  PROVE  /\ \A n \in Nodes : Body(n) \in NodeBody
         /\ \A p \in Pages : DnodeOf(p) \in Nodes \cup {None} /\ AddrOf(p) \in Version
<1>1. Ino \in Nodes /\ Children \subseteq Nodes
  BY DEF Nodes
<1>2. ASSUME NEW n \in Nodes PROVE Body(n) \in NodeBody
  BY DEF Typed, Body, NodeState
<1>3. ASSUME NEW p \in Pages PROVE DnodeOf(p) \in Nodes \cup {None}
  <2>1. Body(Ino).child \in Children \cup {None}
    BY <1>1, <1>2 DEF NodeBody
  <2> QED
    BY <1>1, <2>1 DEF DnodeOf
<1>4. ASSUME NEW p \in Pages PROVE AddrOf(p) \in Version
  <2>1. 0 \in Version
    BY PageIOAssumption DEF Version, Junk
  <2>2. CASE DnodeOf(p) # None
    <3>1. Body(DnodeOf(p)) \in NodeBody
      BY <1>2, <1>3, <2>2
    <3> QED
      BY <2>2, <3>1 DEF AddrOf, NodeBody
  <2> QED
    BY <2>1, <2>2 DEF AddrOf
<1> QED
  BY <1>2, <1>3, <1>4

\* Lookups depend on the nodes' bodies alone.
LEMMA SameBodies ==
  ASSUME Typed, \A n \in Nodes : Body(n)' = Body(n)
  PROVE  \A p \in Pages : DnodeOf(p)' = DnodeOf(p) /\ AddrOf(p)' = AddrOf(p)
<1>1. Ino \in Nodes
  BY DEF Nodes
<1>2. ASSUME NEW p \in Pages PROVE DnodeOf(p)' = DnodeOf(p)
  BY <1>1 DEF DnodeOf
<1>3. ASSUME NEW p \in Pages PROVE AddrOf(p)' = AddrOf(p)
  <2>1. CASE DnodeOf(p) = None
    BY <1>2, <2>1 DEF AddrOf
  <2>2. CASE DnodeOf(p) # None
    BY <1>2, <2>2, LookupTypes DEF AddrOf
  <2> QED
    BY <2>1, <2>2
<1> QED
  BY <1>2, <1>3

LEMMA SameNodes ==
  ASSUME UNCHANGED <<node, disk>>
  PROVE  /\ \A n : Body(n)' = Body(n)
         /\ \A p : DnodeOf(p)' = DnodeOf(p) /\ AddrOf(p)' = AddrOf(p)
BY DEF Body, DnodeOf, AddrOf

\* A step of one task, which takes no lock of another's page and gives the file
\* no direct node, keeps what holds of the others.
LEMMA OthersKeep ==
  ASSUME Typed, TasksOK, NEW t \in Tasks,
         \A u \in Tasks \ {t} : task[u]' = task[u] /\ (owner' = u) = (owner = u),
         Body(Ino)'.child = Body(Ino).child,
         \A p \in Pages : data[p].lock \in Tasks \ {t} =>
            data[p]'.lock = data[p].lock /\ data[p]'.state = data[p].state,
         Staged(task[t]'), Arrived(task[t])',
         (task[t]'.op \in {"write", "truncate"}) = (owner' = t),
         Works(task[t]') => /\ data[task[t].p]'.lock = t
                            /\ Fetches(task[t]') => data[task[t].p]'.state = "empty"
                            /\ Flushes(task[t]') => data[task[t].p]'.state = "uptodate"
  PROVE  TasksOK'
<1>1. ASSUME NEW u \in Tasks \ {t} PROVE Staged(task[u])' /\ Arrived(task[u])'
  <2>1. task[u]' = task[u] /\ Staged(task[u]) /\ Arrived(task[u])
    BY DEF TasksOK
  <2>2. Staged(task[u])'
    BY <2>1, Zenon DEF Staged, Idle
  <2>3. Arrived(task[u])'
    BY <2>1 DEF Arrived
  <2> QED
    BY <2>2, <2>3
<1>2. ASSUME NEW u \in Tasks \ {t}, Works(task[u]')
      PROVE  /\ data[task[u].p]'.lock = u
             /\ Fetches(task[u]') => data[task[u].p]'.state = "empty"
             /\ Flushes(task[u]') => data[task[u].p]'.state = "uptodate"
  <2>1. task[u]' = task[u]
    OBVIOUS
  <2>2. data[task[u].p].lock = u /\ task[u].p \in Pages
    BY <1>2, <2>1 DEF TasksOK, PagesLocked, Staged, Works, Idle
  <2>3. data[task[u].p]'.lock = u /\ data[task[u].p]'.state = data[task[u].p].state
    BY <2>1, <2>2
  <2> QED
    BY <1>2, <2>1, <2>2, <2>3 DEF TasksOK, PagesLocked
<1>3. OwnerHolds'
  BY DEF TasksOK, OwnerHolds
<1> QED
  BY <1>1, <1>2, <1>3 DEF TasksOK, PagesLocked, Staged

-----------------------------------------------------------------------------
(* Each action keeps the invariant. *)

LEMMA BeginKeeps ==
  ASSUME IInv, NEW t \in Tasks, NEW p \in Pages, NEW op \in {"read", "write", "flush"},
         Begin(t, op, p), writes' \in 0 .. MaxWrites, owner' = owner \/ owner = None,
         owner' = t <=> op = "write", op # "write" => owner' = owner
  PROVE  IInv'
<1> USE DEF IInv
<1>0. /\ task[t] = Idle
      /\ task' = [task EXCEPT ![t] = [Idle EXCEPT !.op = op, !.at = "page", !.p = p]]
      /\ UNCHANGED <<data, node, disk, used, flight, size, content, exposed, truncates>>
  BY DEF Begin
<1>1. Typed'
  <2>1. task' \in [Tasks -> TaskState]
    BY <1>0, PageIOAssumption DEF Typed, TaskState, Idle, Version, Junk
  <2> QED
    BY <1>0, <2>1, PageIOAssumption DEF Typed
<1>2. /\ \A u \in Tasks \ {t} : task[u]' = task[u]
      /\ task[t]'.op = op /\ task[t]'.at = "page" /\ task[t]'.p = p /\ ~task[t]'.again
  BY <1>0 DEF Typed, TaskState, Idle
<1>3. TasksOK'
  <2>1. Staged(task[t]') /\ Arrived(task[t])' /\ ~Works(task[t]')
    BY <1>2 DEF Staged, Arrived, Works
  <2>2. \A u \in Tasks \ {t} : (owner' = u) = (owner = u)
    BY PageIOAssumption
  <2> QED
    BY <1>0, <1>2, <2>1, <2>2, SameNodes, OthersKeep
<1>4. NodesOK'
  BY <1>0, SameNodes DEF NodesOK
<1>5. FlightsOK'
  BY <1>0, SameNodes DEF FlightsOK
<1>6. \A q \in Pages : Pending(q)' = Pending(q)
  BY <1>0, <1>2 DEF Pending, Flushes, Idle
<1>7. BehindOK'
  BY <1>0, <1>2, <1>6, SameNodes DEF BehindOK, Idle
<1>8. ContentsOK'
  BY <1>0, <1>2, <1>6, SameNodes DEF ContentsOK, Seen, Fetches
<1>9. ExposedOK'
  BY <1>0, <1>6, SameNodes DEF ExposedOK
<1> QED
  BY <1>1, <1>3, <1>4, <1>5, <1>7, <1>8, <1>9

LEMMA BeginningsKeep ==
  ASSUME IInv, NEW t \in Tasks, NEW p \in Pages,
         BeginWrite(t, p) \/ BeginRead(t, p) \/ BeginFlush(t, p)
  PROVE  IInv'
<1> USE PageIOAssumption DEF IInv
<1>1. task[t] = Idle /\ owner # t /\ writes \in 0 .. MaxWrites
  BY DEF BeginWrite, BeginRead, BeginFlush, Begin, TasksOK, OwnerHolds, Idle, Typed
<1>2. CASE BeginWrite(t, p)
  BY <1>1, <1>2, BeginKeeps DEF BeginWrite, Locked
<1>3. CASE BeginRead(t, p)
  BY <1>1, <1>3, BeginKeeps DEF BeginRead
<1>4. CASE BeginFlush(t, p)
  BY <1>1, <1>4, BeginKeeps DEF BeginFlush
<1> QED
  BY <1>2, <1>3, <1>4

LEMMA ResizeKeeps ==
  ASSUME IInv, NEW t \in Tasks, Resize(t)
  PROVE  IInv'
<1> USE DEF IInv
<1>1. PICK s \in 0 .. Direct :
        /\ size' = s
        /\ content' = [p \in Pages |-> IF p < s THEN content[p] ELSE 0]
        /\ exposed' = exposed \cup Uncovered(s)
        /\ task' = [task EXCEPT ![t] = [Idle EXCEPT !.op = "truncate", !.at = "drop", !.p = FirstBehind(s)]]
  BY DEF Resize
<1>2. /\ task[t] = Idle /\ owner = None /\ owner' = t /\ truncates' = truncates + 1
      /\ truncates < MaxTruncates /\ Body(Ino).child = None
      /\ UNCHANGED <<data, node, disk, used, flight, writes>>
  BY DEF Resize
<1>3. s \in Nat /\ 0 \in Version
  BY PageIOAssumption DEF Version, Junk
<1>4. Typed'
  <2>1. task' \in [Tasks -> TaskState]
    BY <1>1, <1>3 DEF Typed, TaskState, Idle, FirstBehind
  <2>2. content' \in [Pages -> Version]
    BY <1>1, <1>3 DEF Typed
  <2>3. exposed' \subseteq Nat
    BY <1>1, <1>3 DEF Typed, Uncovered
  <2> QED
    BY <1>1, <1>2, <1>3, <2>1, <2>2, <2>3, PageIOAssumption DEF Typed
<1>5. /\ \A u \in Tasks \ {t} : task[u]' = task[u]
      /\ task[t]'.op = "truncate" /\ task[t]'.at = "drop" /\ task[t]'.p = s /\ ~task[t]'.again
  BY <1>1 DEF Typed, TaskState, Idle, FirstBehind
<1>6. TasksOK'
  <2>1. Staged(task[t]') /\ Arrived(task[t])' /\ ~Works(task[t]')
    BY <1>5 DEF Staged, Arrived, Works
  <2>2. \A u \in Tasks \ {t} : (owner' = u) = (owner = u)
    BY <1>2, PageIOAssumption
  <2> QED
    BY <1>2, <1>5, <2>1, <2>2, SameNodes, OthersKeep
<1>7. NodesOK'
  BY <1>2, SameNodes DEF NodesOK
<1>8. FlightsOK'
  BY <1>2, SameNodes DEF FlightsOK
<1>9. \A q \in Pages : Pending(q)' = Pending(q)
  BY <1>2, <1>5 DEF Pending, Flushes, Idle
<1>10. \A u \in Tasks : task[u].op # "truncate" /\ task[u].at \notin {"drop", "clear"}
  BY <1>2, PageIOAssumption DEF TasksOK, OwnerHolds, Staged, Idle
<1>11. BehindOK'
  BY <1>1, <1>2, <1>3, <1>5, <1>9, <1>10, SameNodes, PageIOAssumption DEF BehindOK
<1>12. ContentsOK'
  <2> SUFFICES ASSUME NEW p \in Pages, p \notin exposed', p < s
               PROVE  /\ data[p].state = "uptodate" => data[p].ver = content[p]
                      /\ ~Pending(p) => AddrOf(p) = content[p]
                      /\ \A u \in Tasks : task[u]'.p = p => Seen(task[u])'
    BY <1>1, <1>2, <1>9, SameNodes DEF ContentsOK
  <2>1. CASE p < size
    <3>1. p \in Pages \ exposed
      BY <1>1
    <3>2. ASSUME NEW u \in Tasks, task[u]'.p = p PROVE task[u]' = task[u]
      BY <1>3, <1>5, <3>2
    <3>3. AddrOf(p)' = AddrOf(p)
      BY <1>2, SameNodes
    <3> QED
      BY <2>1, <3>1, <3>2, <3>3 DEF ContentsOK, Seen, Fetches
  <2>2. CASE ~(p < size)
    <3>1. p \in size .. s - 1 /\ p >= size
      BY <1>3, <2>2, PageIOAssumption DEF Typed
    <3>2. content[p] = 0 /\ AddrOf(p) = 0
      BY <1>10, <3>1 DEF BehindOK
    <3>3. ~(data[p].state = "uptodate" /\ data[p].ver # 0) /\ ~Reading(p)
      BY <1>1, <3>1 DEF Uncovered
    <3>4. ASSUME NEW u \in Tasks, task[u]'.p = p PROVE ~task[u]'.again /\ task[u]'.at # "io"
      BY <1>5, <1>6, <3>3, <3>4 DEF Reading, TasksOK, Staged, Idle
    <3> QED
      BY <3>2, <3>3, <3>4 DEF Seen
  <2> QED
    BY <2>1, <2>2
<1>13. ExposedOK'
  <2> SUFFICES ASSUME NEW p \in Pages \cap exposed'
               PROVE  content[p]' = 0 /\ AddrOf(p) = 0 /\ ~Pending(p)
    BY <1>2, <1>9, SameNodes DEF ExposedOK
  <2>1. content[p] = 0 => content[p]' = 0
    BY <1>1
  <2>2. CASE p \in exposed
    BY <2>1, <2>2 DEF ExposedOK
  <2>3. CASE p \notin exposed
    <3>1. p >= size
      BY <1>1, <2>3 DEF Uncovered, Typed
    <3> QED
      BY <1>10, <2>1, <3>1 DEF BehindOK
  <2> QED
    BY <2>2, <2>3
<1> QED
  BY <1>4, <1>6, <1>7, <1>8, <1>11, <1>12, <1>13

\* A step of a task on its page, which changes no node and nothing of the file.
LEMMA PageStepKeeps ==
  ASSUME IInv, NEW t \in Tasks, NEW p \in Pages, task[t].p = p, task[t].op # "truncate",
         UNCHANGED <<node, disk, used, flight, file>>,
         data' \in [Pages -> PageState], \A q \in Pages \ {p} : data[q]' = data[q],
         task' \in [Tasks -> TaskState], \A u \in Tasks \ {t} : task[u]' = task[u],
         data[p].lock \in {None, t}, data[p]'.lock # Device,
         data[p]'.dirty => data[p]'.state = "uptodate",
         Staged(task[t]'), Arrived(task[t])',
         (task[t]'.op = "write") = (owner = t), task[t]'.op # "truncate",
         task[t]'.p = p \/ task[t]' = Idle,
         Works(task[t]') => /\ data[p]'.lock = t
                            /\ Fetches(task[t]') => data[p]'.state = "empty"
                            /\ Flushes(task[t]') => data[p]'.state = "uptodate",
         data[p]'.dirty \/ Flushes(task[t]') <=> data[p].dirty \/ Flushes(task[t]),
         p < size /\ p \notin exposed =>
           /\ data[p]'.state = "uptodate" => data[p]'.ver = content[p]
           /\ task[t]'.p = p => Seen(task[t])'
  PROVE  IInv'
<1> USE DEF IInv
<1>0. UNCHANGED <<node, disk, used, flight, owner, size, content, exposed, writes, truncates>>
  BY DEF file, counts
<1>1. Typed'
  BY <1>0 DEF Typed
<1>2. TasksOK'
  <2>1. \A q \in Pages : data[q].lock \in Tasks \ {t} =>
          data[q]'.lock = data[q].lock /\ data[q]'.state = data[q].state
    BY PageIOAssumption
  <2>2. Works(task[t]') => task[t]'.p = p
    BY DEF Works, Idle
  <2> QED
    BY <1>0, <2>1, <2>2, SameNodes, OthersKeep
<1>3. NodesOK'
  BY <1>0, SameNodes DEF NodesOK
<1>4. FlightsOK'
  <2>1. data[p].lock # Device
    BY PageIOAssumption
  <2> QED
    BY <1>0, <2>1, SameNodes DEF FlightsOK
<1>5. ASSUME NEW q \in Pages PROVE Pending(q)' = Pending(q)
  <2>1. CASE q = p
    <3>1. Flushes(task[t]') => task[t]'.p = p
      BY DEF Flushes, Idle
    <3>2. (\E u \in Tasks : Flushes(task[u]') /\ task[u]'.p = p) <=>
            (Flushes(task[t]') \/ \E u \in Tasks \ {t} : Flushes(task[u]) /\ task[u].p = p)
      BY <3>1
    <3>3. (\E u \in Tasks : Flushes(task[u]) /\ task[u].p = p) <=>
            (Flushes(task[t]) \/ \E u \in Tasks \ {t} : Flushes(task[u]) /\ task[u].p = p)
      OBVIOUS
    <3> QED
      BY <1>0, <2>1, <3>2, <3>3 DEF Pending, Flushes
  <2>2. CASE q # p
    BY <1>0, <2>2 DEF Pending, Flushes, Idle
  <2> QED
    BY <2>1, <2>2
<1>6. task[t].at \notin {"drop", "clear"} /\ task[t]'.at \notin {"drop", "clear"}
  BY DEF TasksOK, Staged, Idle
<1>7. BehindOK'
  BY <1>0, <1>5, <1>6, SameNodes DEF BehindOK
<1>8. ContentsOK'
  <2> SUFFICES ASSUME NEW q \in Pages, q \notin exposed, q < size
               PROVE  /\ data[q]'.state = "uptodate" => data[q]'.ver = content[q]
                      /\ ~Pending(q) => AddrOf(q) = content[q]
                      /\ \A u \in Tasks : task[u]'.p = q => Seen(task[u])'
    BY <1>0, <1>5, SameNodes DEF ContentsOK
  <2>1. data[q]'.state = "uptodate" => data[q]'.ver = content[q]
    BY DEF ContentsOK
  <2>2. ASSUME NEW u \in Tasks, task[u]'.p = q PROVE Seen(task[u])'
    <3>1. CASE u = t
      BY <2>2, <3>1 DEF Seen, Idle
    <3>2. CASE u # t
      BY <1>0, <2>2, <3>2, SameNodes DEF ContentsOK, Seen, Fetches
    <3> QED
      BY <3>1, <3>2
  <2> QED
    BY <2>1, <2>2 DEF ContentsOK
<1>9. ExposedOK'
  BY <1>0, <1>5, SameNodes DEF ExposedOK
<1> QED
  BY <1>1, <1>2, <1>3, <1>4, <1>7, <1>8, <1>9

\* The task leaves its page.
LEMMA LeavingKeeps ==
  ASSUME IInv, NEW t \in Tasks, NEW p \in Pages, task[t].p = p, task[t].op \in {"read", "flush"},
         UNCHANGED <<node, disk, used, flight, file>>, Ends(t),
         data' \in [Pages -> PageState], \A q \in Pages \ {p} : data[q]' = data[q],
         data[p].lock \in {None, t}, data[p]'.lock # Device,
         data[p]'.dirty => data[p]'.state = "uptodate",
         data[p]'.dirty <=> data[p].dirty \/ Flushes(task[t]),
         p < size /\ p \notin exposed /\ data[p]'.state = "uptodate" => data[p]'.ver = content[p]
  PROVE  IInv'
<1>1. task' = [task EXCEPT ![t] = Idle] /\ task \in [Tasks -> TaskState]
  BY DEF Ends, IInv, Typed
<1>2. task[t]' = Idle /\ \A u \in Tasks \ {t} : task[u]' = task[u]
  BY <1>1
<1>3. Idle \in TaskState
  BY PageIOAssumption DEF TaskState, Idle, Version, Junk
<1>4. task' \in [Tasks -> TaskState]
  BY <1>1, <1>3
<1>5. owner # t
  BY DEF IInv, TasksOK, OwnerHolds
<1>6. /\ Staged(Idle) /\ Arrived(task[t])' /\ ~Works(Idle) /\ ~Flushes(Idle) /\ Seen(task[t])'
      /\ Idle.op = "none"
  BY <1>2 DEF Staged, Arrived, Works, Flushes, Seen, Idle
<1> QED
  BY <1>2, <1>4, <1>5, <1>6, PageStepKeeps

\* The task goes to another place of its operation on the page.
LEMMA GoingKeeps ==
  ASSUME IInv, NEW t \in Tasks, NEW p \in Pages, task[t].p = p,
         UNCHANGED <<node, disk, used, flight, file>>,
         data' \in [Pages -> PageState], \A q \in Pages \ {p} : data[q]' = data[q],
         data[p].lock \in {None, t}, data[p]'.lock = IF task[t]'.at = "relock" THEN None ELSE t,
         data[p]'.dirty => data[p]'.state = "uptodate",
         task' \in [Tasks -> TaskState], \A u \in Tasks \ {t} : task[u]' = task[u],
         task[t]'.p = p, task[t]'.op = task[t].op,
         \/ task[t].op \in {"read", "write"} /\ task[t]'.at \in {"inode", "create", "child", "io", "relock", "copy"}
         \/ task[t].op = "flush" /\ task[t]'.at \in {"inode", "child"} /\ ~task[t]'.again,
         task[t]'.at = "io" => task[t]'.again,
         Arrived(task[t])',
         Fetches(task[t]') => data[p]'.state = "empty",
         Flushes(task[t]') => data[p]'.state = "uptodate",
         data[p]'.dirty \/ Flushes(task[t]') <=> data[p].dirty \/ Flushes(task[t]),
         p < size /\ p \notin exposed =>
           /\ data[p]'.state = "uptodate" => data[p]'.ver = content[p]
           /\ Seen(task[t])'
  PROVE  IInv'
<1>1. Staged(task[t]')
  BY DEF Staged
<1>2. (task[t]'.op = "write") = (owner = t) /\ task[t].op # "truncate"
  BY DEF IInv, TasksOK, OwnerHolds
<1>3. data[p]'.lock # Device /\ (Works(task[t]') => data[p]'.lock = t)
  BY PageIOAssumption DEF Works
<1> QED
  BY <1>1, <1>2, <1>3, PageStepKeeps

LEMMA LockPageKeeps ==
  ASSUME IInv, NEW t \in Tasks, LockPage(t)
  PROVE  IInv'
<1> USE DEF IInv
<1>0. task[t].p \in Pages
  BY DEF LockPage, TasksOK, Staged, Idle
<1> PICK p \in Pages : task[t].p = p
  BY <1>0
<1>1. /\ p \in Pages /\ task[t].op \in {"read", "write"} /\ ~task[t].again
      /\ data[p] \in PageState /\ task[t] \in TaskState
      /\ task[t].at = "page" /\ data[p].lock = None
      /\ UNCHANGED <<node, disk, used, flight, file>>
  BY DEF LockPage, TasksOK, Staged, Typed, Idle
<1>2. ((task[t].op = "write") = (owner = t)) /\ ~Flushes(task[t])
  BY <1>1 DEF TasksOK, OwnerHolds, Flushes
<1>3. /\ data[p].dirty => data[p].state = "uptodate"
      /\ p < size /\ p \notin exposed /\ data[p].state = "uptodate" => data[p].ver = content[p]
  BY <1>1 DEF FlightsOK, ContentsOK
<1>4. CASE data[p].state = "uptodate" /\ task[t].op = "read"
  <2>1. data' = data /\ Ends(t)
    BY <1>4 DEF LockPage
  <2>2. data' \in [Pages -> PageState] /\ data[p]' = data[p] /\ \A q \in Pages \ {p} : data[q]' = data[q]
    BY <2>1 DEF Typed
  <2> QED
    BY <1>1, <1>2, <1>3, <1>4, <2>1, <2>2, LeavingKeeps, PageIOAssumption
<1>5. CASE ~(data[p].state = "uptodate" /\ task[t].op = "read")
  <2>1. /\ data' = [data EXCEPT ![p].lock = t, ![p].state = IF @ = "absent" THEN "empty" ELSE @]
        /\ task' = [task EXCEPT ![t].at = IF data[p].state = "uptodate" THEN "copy" ELSE "inode"]
    BY <1>5 DEF LockPage, Goes
  <2>2. /\ data' \in [Pages -> PageState] /\ \A q \in Pages \ {p} : data[q]' = data[q]
        /\ data[p]'.lock = t /\ data[p]'.dirty = data[p].dirty /\ data[p]'.ver = data[p].ver
        /\ data[p]'.state = IF data[p].state = "absent" THEN "empty" ELSE data[p].state
    BY <1>1, <2>1 DEF Typed, PageState
  <2>3. /\ task' \in [Tasks -> TaskState] /\ \A u \in Tasks \ {t} : task[u]' = task[u]
        /\ task[t]'.p = p /\ task[t]'.op = task[t].op /\ ~task[t]'.again
        /\ task[t]'.at = IF data[p].state = "uptodate" THEN "copy" ELSE "inode"
    BY <1>1, <2>1 DEF Typed, TaskState
  <2>4. Arrived(task[t])' /\ Seen(task[t])' /\ ~Flushes(task[t]')
    BY <1>1, <1>5, <2>3 DEF Arrived, Seen, Flushes
  <2>5. Fetches(task[t]') => data[p]'.state = "empty"
    BY <1>1, <2>2, <2>3 DEF Fetches, PageState
  <2> QED
    BY <1>1, <1>2, <1>3, <2>2, <2>3, <2>4, <2>5, GoingKeeps
<1> QED
  BY <1>4, <1>5

LEMMA LockDirtyKeeps ==
  ASSUME IInv, NEW t \in Tasks, LockDirty(t)
  PROVE  IInv'
<1> USE DEF IInv
<1>0. task[t].p \in Pages
  BY DEF LockDirty, TasksOK, Staged, Idle
<1> PICK p \in Pages : task[t].p = p
  BY <1>0
<1>1. /\ p \in Pages /\ task[t].op = "flush" /\ ~task[t].again /\ task[t].at = "page"
      /\ data[p] \in PageState /\ task[t] \in TaskState /\ data[p].lock = None
      /\ UNCHANGED <<node, disk, used, flight, file>>
  BY DEF LockDirty, TasksOK, Staged, Typed, Idle
<1>2. /\ data[p].dirty => data[p].state = "uptodate"
      /\ p < size /\ p \notin exposed /\ data[p].state = "uptodate" => data[p].ver = content[p]
      /\ ~Flushes(task[t])
  BY <1>1 DEF FlightsOK, ContentsOK, Flushes
<1>3. CASE ~data[p].dirty
  <2>1. data' = data /\ Ends(t)
    BY <1>3 DEF LockDirty
  <2>2. data' \in [Pages -> PageState] /\ data[p]' = data[p] /\ \A q \in Pages \ {p} : data[q]' = data[q]
    BY <2>1 DEF Typed
  <2> QED
    BY <1>1, <1>2, <1>3, <2>1, <2>2, LeavingKeeps, PageIOAssumption
<1>4. CASE data[p].dirty
  <2>1. /\ data' = [data EXCEPT ![p].lock = t, ![p].dirty = FALSE]
        /\ task' = [task EXCEPT ![t].at = "inode"]
    BY <1>4 DEF LockDirty, Goes
  <2>2. /\ data' \in [Pages -> PageState] /\ \A q \in Pages \ {p} : data[q]' = data[q]
        /\ data[p]'.lock = t /\ ~data[p]'.dirty /\ data[p]'.ver = data[p].ver
        /\ data[p]'.state = data[p].state
    BY <1>1, <2>1 DEF Typed, PageState
  <2>3. /\ task' \in [Tasks -> TaskState] /\ \A u \in Tasks \ {t} : task[u]' = task[u]
        /\ task[t]'.p = p /\ task[t]'.op = "flush" /\ ~task[t]'.again /\ task[t]'.at = "inode"
    BY <1>1, <2>1 DEF Typed, TaskState
  <2>4. Arrived(task[t])' /\ Seen(task[t])' /\ Flushes(task[t]') /\ ~Fetches(task[t]')
    BY <2>3 DEF Arrived, Seen, Flushes, Fetches
  <2> QED
    BY <1>1, <1>2, <1>4, <2>2, <2>3, <2>4, GoingKeeps
<1> QED
  BY <1>3, <1>4

LEMMA ReadEndKeeps ==
  ASSUME IInv, NEW t \in Tasks, ReadEnd(t)
  PROVE  IInv'
<1>0. task[t].p \in Pages
  BY DEF IInv, ReadEnd, TasksOK, Staged, Idle
<1> PICK p \in Pages : task[t].p = p
  BY <1>0
<1> DEFINE v == IF task[t].addr = 0 THEN Junk ELSE task[t].addr
<1> USE DEF IInv
<1>1. /\ p \in Pages /\ task[t].op \in {"read", "write"} /\ task[t].at = "io" /\ task[t].again
      /\ data[p] \in PageState /\ task[t] \in TaskState
      /\ data' = [data EXCEPT ![p].state = "uptodate", ![p].lock = None, ![p].ver = v]
      /\ task' = [task EXCEPT ![t].at = "relock"]
      /\ UNCHANGED <<node, disk, used, flight, file>>
  BY DEF ReadEnd, Goes, TasksOK, Staged, Typed, Idle
<1>2. data[p].lock = t /\ data[p].state = "empty" /\ ~data[p].dirty /\ ~Flushes(task[t])
  BY <1>1 DEF TasksOK, PagesLocked, Works, Fetches, Flushes, FlightsOK
<1>3. v \in Version
  BY <1>1, PageIOAssumption DEF TaskState, Version, Junk
<1>4. /\ data' \in [Pages -> PageState] /\ \A q \in Pages \ {p} : data[q]' = data[q]
      /\ data[p]'.lock = None /\ ~data[p]'.dirty /\ data[p]'.ver = v /\ data[p]'.state = "uptodate"
  <2> HIDE DEF v
  <2> QED
    BY <1>1, <1>2, <1>3 DEF Typed, PageState
<1>5. /\ task' \in [Tasks -> TaskState] /\ \A u \in Tasks \ {t} : task[u]' = task[u]
      /\ task[t]'.p = p /\ task[t]'.op = task[t].op /\ task[t]'.at = "relock"
  BY <1>1 DEF Typed, TaskState
<1>6. Arrived(task[t])' /\ Seen(task[t])' /\ ~Flushes(task[t]') /\ ~Fetches(task[t]')
  BY <1>5 DEF Arrived, Seen, Flushes, Fetches
<1>7. p < size /\ p \notin exposed => v = content[p]
  <2> SUFFICES ASSUME p < size, p \notin exposed PROVE v = content[p]
    OBVIOUS
  <2>1. AddrOf(p) # 0 /\ task[t].addr = AddrOf(p)
    BY <1>1 DEF ContentsOK, Seen, Fetches
  <2>2. ~Pending(p)
    BY <1>1, <1>2, PageIOAssumption DEF Pending, Flushes, FlightsOK, TasksOK, PagesLocked, Works
  <2> QED
    BY <1>1, <2>1, <2>2 DEF ContentsOK
<1> HIDE DEF v
<1> QED
  BY <1>1, <1>2, <1>4, <1>5, <1>6, <1>7, GoingKeeps

LEMMA RelockKeeps ==
  ASSUME IInv, NEW t \in Tasks, Relock(t)
  PROVE  IInv'
<1> USE DEF IInv
<1>0. task[t].p \in Pages
  BY DEF Relock, TasksOK, Staged, Idle
<1> PICK p \in Pages : task[t].p = p
  BY <1>0
<1>1. /\ p \in Pages /\ task[t].op \in {"read", "write"} /\ task[t].at = "relock"
      /\ data[p] \in PageState /\ task[t] \in TaskState /\ data[p].lock = None
      /\ UNCHANGED <<node, disk, used, flight, file>>
  BY DEF Relock, TasksOK, Staged, Typed, Idle
<1>2. /\ data[p].dirty => data[p].state = "uptodate"
      /\ p < size /\ p \notin exposed /\ data[p].state = "uptodate" => data[p].ver = content[p]
      /\ ~Flushes(task[t])
  BY <1>1 DEF FlightsOK, ContentsOK, Flushes
<1>3. CASE task[t].op = "read"
  <2>1. data' = data /\ Ends(t)
    BY <1>3 DEF Relock
  <2>2. data' \in [Pages -> PageState] /\ data[p]' = data[p] /\ \A q \in Pages \ {p} : data[q]' = data[q]
    BY <2>1 DEF Typed
  <2> QED
    BY <1>1, <1>2, <1>3, <2>1, <2>2, LeavingKeeps, PageIOAssumption
<1>4. CASE task[t].op = "write"
  <2>1. /\ data' = [data EXCEPT ![p].lock = t]
        /\ task' = [task EXCEPT ![t].at = "copy"]
    BY <1>4 DEF Relock, Goes
  <2>2. /\ data' \in [Pages -> PageState] /\ \A q \in Pages \ {p} : data[q]' = data[q]
        /\ data[p]'.lock = t /\ data[p]'.dirty = data[p].dirty /\ data[p]'.ver = data[p].ver
        /\ data[p]'.state = data[p].state
    BY <1>1, <2>1 DEF Typed, PageState
  <2>3. /\ task' \in [Tasks -> TaskState] /\ \A u \in Tasks \ {t} : task[u]' = task[u]
        /\ task[t]'.p = p /\ task[t]'.op = "write" /\ task[t]'.at = "copy"
    BY <1>1, <1>4, <2>1 DEF Typed, TaskState
  <2>4. Arrived(task[t])' /\ Seen(task[t])' /\ ~Flushes(task[t]') /\ ~Fetches(task[t]')
    BY <2>3 DEF Arrived, Seen, Flushes, Fetches
  <2> QED
    BY <1>1, <1>2, <1>4, <2>2, <2>3, <2>4, GoingKeeps
<1> QED
  BY <1>1, <1>3, <1>4

-----------------------------------------------------------------------------
(* At the direct node. *)

\* A page goes to the disk, with its direct node.
LEMMA FlyingKeeps ==
  ASSUME IInv, NEW t \in Tasks, NEW p \in Pages, NEW d \in Nodes, task[t].p = p,
         Flushes(task[t]), Free(d), d = DnodeOf(p), Ends(t),
         node' = [node EXCEPT ![d].lock = Device],
         data' = [data EXCEPT ![p].lock = Device],
         flight' = [flight EXCEPT ![p] = d], UNCHANGED <<disk, used, file>>
  PROVE  IInv'
<1> USE PageIOAssumption DEF IInv
<1>0. /\ UNCHANGED <<disk, used, owner, size, content, exposed, writes, truncates>>
      /\ task' = [task EXCEPT ![t] = Idle] /\ node[d].cached /\ node[d].lock = None
  BY DEF file, counts, Ends, Free
<1>1. task[t]' = Idle /\ \A u \in Tasks \ {t} : task[u]' = task[u]
  BY <1>0 DEF Typed
<1>2. /\ data' \in [Pages -> PageState] /\ \A q \in Pages \ {p} : data[q]' = data[q]
      /\ data[p]'.lock = Device /\ data[p]'.state = data[p].state
      /\ data[p]'.ver = data[p].ver /\ data[p]'.dirty = data[p].dirty
  <2>1. data[p] \in PageState
    BY DEF Typed
  <2> QED
    BY <2>1 DEF Typed, PageState
<1>3. /\ node' \in [Nodes -> NodeState] /\ \A n \in Nodes \ {d} : node[n]' = node[n]
      /\ node[d]'.lock = Device /\ node[d]'.body = node[d].body /\ node[d]'.cached
  BY <1>0 DEF Typed, NodeState
<1>4. flight' \in [Pages -> Nodes \cup {None}] /\ flight[p]' = d /\ \A q \in Pages \ {p} : flight[q]' = flight[q]
  BY DEF Typed
<1>5. Typed'
  <2>1. Idle \in TaskState
    BY DEF TaskState, Idle, Version, Junk
  <2> QED
    BY <1>0, <1>2, <1>3, <1>4, <2>1 DEF Typed
<1>6. \A n \in Nodes : Body(n)' = Body(n)
  BY <1>0, <1>3 DEF Body
<1>7. data[p].lock = t /\ data[p].state = "uptodate" /\ task[t].op = "flush"
  BY DEF TasksOK, PagesLocked, Flushes, Works
<1>8. TasksOK'
  <2>1. /\ Staged(task[t]') /\ Arrived(task[t])' /\ ~Works(task[t]')
        /\ task[t]'.op = "none"
    BY <1>1 DEF Staged, Arrived, Works, Idle
  <2>2. owner # t
    BY <1>7 DEF TasksOK, OwnerHolds
  <2>3. Body(Ino)'.child = Body(Ino).child
    BY <1>6 DEF Nodes
  <2>4. \A q \in Pages : data[q].lock \in Tasks \ {t} =>
          data[q]'.lock = data[q].lock /\ data[q]'.state = data[q].state
    BY <1>2, <1>7
  <2> QED
    BY <1>0, <1>1, <2>1, <2>2, <2>3, <2>4, OthersKeep
<1>9. NodesOK'
  <2>1. Body(Ino)' = Body(Ino)
    BY <1>6 DEF Nodes
  <2>2. d \notin Children \ used
    BY <1>0 DEF NodesOK
  <2>3. \A c \in Children \ used : ~node[c]'.cached /\ disk[c]' = Hole
    <3>1. Children \subseteq Nodes
      BY DEF Nodes
    <3> QED
      BY <1>0, <1>3, <2>2, <3>1 DEF NodesOK
  <2> QED
    BY <1>0, <1>3, <2>1, <2>3 DEF NodesOK
<1>10. FlightsOK'
  <2>1. \A q \in Pages : flight[q] # d
    BY <1>0 DEF FlightsOK, Nodes
  <2>2. \A q \in Pages : DnodeOf(q)' = DnodeOf(q)
    BY <1>6, SameBodies
  <2>3. d # None
    BY DEF Nodes
  <2>4. \A q \in Pages \ {p} : flight[q] # None => flight[q] \in Nodes \ {d}
    BY <2>1 DEF Typed
  <2>5. ASSUME NEW q \in Pages
        PROVE  /\ (flight[q]' # None) = (data[q]'.lock = Device)
               /\ data[q]'.dirty => data[q]'.state = "uptodate"
               /\ flight[q]' # None => /\ flight[q]' = DnodeOf(q)' /\ node'[flight'[q]].lock = Device
                                       /\ data[q]'.state = "uptodate"
    <3>1. CASE q = p
      BY <1>2, <1>3, <1>4, <1>7, <2>2, <2>3, <3>1
    <3>2. CASE q # p
      BY <1>2, <1>3, <1>4, <2>2, <2>4, <3>2 DEF FlightsOK
    <3> QED
      BY <3>1, <3>2
  <2>6. \A q, r \in Pages : flight[q]' = flight[r]' /\ flight[q]' # None => q = r
    BY <1>4, <2>1 DEF FlightsOK
  <2> QED
    BY <2>5, <2>6 DEF FlightsOK
<1>11. ASSUME NEW q \in Pages PROVE Pending(q)' = Pending(q)
  <2>1. CASE q = p
    BY <1>4, <2>1 DEF Pending, Nodes
  <2>2. CASE q # p
    BY <1>1, <1>2, <1>4, <2>2 DEF Pending, Flushes, Idle
  <2> QED
    BY <2>1, <2>2
<1>12. BehindOK'
  <2>1. task[t].at \notin {"drop", "clear"} /\ Body(Ino)' = Body(Ino)
    BY <1>6 DEF Flushes, Nodes
  <2> QED
    BY <1>0, <1>1, <1>6, <1>11, <2>1, SameBodies DEF BehindOK, Idle
<1>13. ContentsOK'
  BY <1>0, <1>1, <1>2, <1>6, <1>11, SameBodies DEF ContentsOK, Seen, Fetches, Idle
<1>14. ExposedOK'
  BY <1>0, <1>6, <1>11, SameBodies DEF ExposedOK
<1> QED
  BY <1>5, <1>8, <1>9, <1>10, <1>12, <1>13, <1>14

LEMMA SubmitKeeps ==
  ASSUME IInv, NEW t \in Tasks, NEW p \in Pages, NEW d \in Nodes, task[t].p = p,
         task[t].at \in {"inode", "child"}, Free(d), d = DnodeOf(p),
         Submit(t, d), UNCHANGED <<disk, used, file>>
  PROVE  IInv'
<1> USE DEF IInv
<1> DEFINE a == node[d].body.addr[p]
<1>1. /\ task[t].op \in {"read", "write", "flush"} /\ task[t] \in TaskState
      /\ task[t].op = "flush" <=> Flushes(task[t])
      /\ task[t].op # "flush" <=> Fetches(task[t])
      /\ data[p] \in PageState /\ data[p].lock = t
  BY DEF TasksOK, PagesLocked, Works, Fetches, Flushes, Staged, Typed, Idle
<1>2. a = AddrOf(p) /\ a \in Version
  <2>1. d # None /\ Body(d) = node[d].body
    BY PageIOAssumption DEF Nodes, Free, Body
  <2> QED
    BY <2>1, LookupTypes DEF AddrOf
<1> HIDE DEF a
<1>3. /\ p < size /\ p \notin exposed /\ data[p].state = "uptodate" => data[p].ver = content[p]
      /\ task[t].op # "flush" => data[p].state = "empty" /\ ~data[p].dirty
  BY <1>1 DEF ContentsOK, TasksOK, PagesLocked, Works, Fetches, FlightsOK
<1>4. CASE task[t].op = "flush"
  <2>1. /\ node' = [node EXCEPT ![d].lock = Device]
        /\ data' = [data EXCEPT ![p].lock = Device]
        /\ flight' = [flight EXCEPT ![p] = d] /\ Ends(t)
    BY <1>4 DEF Submit
  <2> QED
    BY <1>1, <1>4, <2>1, FlyingKeeps
<1>5. CASE task[t].op # "flush" /\ task[t].again
  <2>1. /\ task' = [task EXCEPT ![t].at = "io", ![t].addr = a]
        /\ UNCHANGED <<data, node, flight>>
    BY <1>5 DEF Submit, a
  <2>2. /\ task' \in [Tasks -> TaskState] /\ \A u \in Tasks \ {t} : task[u]' = task[u]
        /\ task[t]'.p = p /\ task[t]'.op = task[t].op /\ task[t]'.again /\ task[t]'.at = "io"
        /\ task[t]'.addr = a
    BY <1>1, <1>2, <1>5, <2>1 DEF Typed, TaskState
  <2>3. Arrived(task[t])' /\ ~Flushes(task[t]') /\ Fetches(task[t]')
    BY <1>5, <2>2 DEF Arrived, Flushes, Fetches
  <2>4. p < size /\ p \notin exposed => Seen(task[t])'
    <3>1. AddrOf(p)' = AddrOf(p)
      BY <2>1, SameNodes
    <3>2. p < size /\ p \notin exposed => AddrOf(p) # 0
      BY <1>1, <1>5 DEF ContentsOK, Seen
    <3> QED
      BY <1>2, <2>2, <3>1, <3>2 DEF Seen
  <2>5. data' \in [Pages -> PageState] /\ data[p]' = data[p] /\ \A q \in Pages \ {p} : data[q]' = data[q]
    BY <2>1 DEF Typed
  <2> QED
    BY <1>1, <1>3, <1>5, <2>1, <2>2, <2>3, <2>4, <2>5, GoingKeeps
<1>6. CASE task[t].op # "flush" /\ ~task[t].again /\ a # 0
  <2>1. /\ task' = [task EXCEPT ![t].at = "inode", ![t].again = TRUE]
        /\ UNCHANGED <<data, node, flight>>
    BY <1>6 DEF Submit, a
  <2>2. /\ task' \in [Tasks -> TaskState] /\ \A u \in Tasks \ {t} : task[u]' = task[u]
        /\ task[t]'.p = p /\ task[t]'.op = task[t].op /\ task[t]'.at = "inode"
    BY <1>1, <1>6, <2>1 DEF Typed, TaskState
  <2>3. Arrived(task[t])' /\ ~Flushes(task[t]') /\ Fetches(task[t]')
    BY <1>6, <2>2 DEF Arrived, Flushes, Fetches
  <2>4. Seen(task[t])'
    <3>1. AddrOf(p)' = AddrOf(p)
      BY <2>1, SameNodes
    <3> QED
      BY <1>2, <1>6, <2>2, <3>1 DEF Seen
  <2>5. data' \in [Pages -> PageState] /\ data[p]' = data[p] /\ \A q \in Pages \ {p} : data[q]' = data[q]
    BY <2>1 DEF Typed
  <2> QED
    BY <1>1, <1>3, <1>6, <2>1, <2>2, <2>3, <2>4, <2>5, GoingKeeps
<1>7. CASE task[t].op # "flush" /\ ~task[t].again /\ a = 0
  <2>1. /\ data' = [data EXCEPT ![p].state = "uptodate", ![p].ver = 0,
                                ![p].lock = IF task[t].op = "read" THEN None ELSE t]
        /\ IF task[t].op = "read" THEN Ends(t) ELSE Goes(t, "copy")
        /\ UNCHANGED <<node, flight>>
    BY <1>7 DEF Submit, a
  <2>2. /\ data' \in [Pages -> PageState] /\ \A q \in Pages \ {p} : data[q]' = data[q]
        /\ data[p]'.lock = (IF task[t].op = "read" THEN None ELSE t) /\ ~data[p]'.dirty
        /\ data[p]'.ver = 0 /\ data[p]'.state = "uptodate"
    BY <1>1, <1>2, <1>3, <1>7, <2>1 DEF Typed, PageState
  <2>3. p < size /\ p \notin exposed => content[p] = 0
    <3>1. ~Pending(p)
      BY <1>1, <1>3, <1>7, PageIOAssumption DEF Pending, Flushes, FlightsOK, TasksOK, PagesLocked, Works
    <3> QED
      BY <1>2, <1>7, <3>1 DEF ContentsOK
  <2>4. CASE task[t].op = "read"
    BY <1>1, <1>3, <2>1, <2>2, <2>3, <2>4, LeavingKeeps, PageIOAssumption
  <2>5. CASE task[t].op = "write"
    <3>1. /\ task' \in [Tasks -> TaskState] /\ \A u \in Tasks \ {t} : task[u]' = task[u]
          /\ task[t]'.p = p /\ task[t]'.op = "write" /\ task[t]'.at = "copy"
      BY <1>1, <2>1, <2>5 DEF Typed, TaskState, Goes
    <3>2. Arrived(task[t])' /\ Seen(task[t])' /\ ~Flushes(task[t]') /\ ~Fetches(task[t]')
      BY <3>1 DEF Arrived, Seen, Flushes, Fetches
    <3> QED
      BY <1>1, <1>3, <2>1, <2>2, <2>3, <2>5, <3>1, <3>2, GoingKeeps
  <2> QED
    BY <1>1, <1>7, <2>4, <2>5
<1> QED
  BY <1>4, <1>5, <1>6, <1>7

LEMMA AtInodeKeeps ==
  ASSUME IInv, NEW t \in Tasks, AtInode(t)
  PROVE  IInv'
<1> USE DEF IInv
<1>0. task[t].p \in Pages
  BY DEF AtInode, TasksOK, Staged, Idle
<1> PICK p \in Pages : task[t].p = p
  BY <1>0
<1> DEFINE c == node[Ino].body.child
<1>1. /\ task[t].op \in {"read", "write", "flush"} /\ task[t] \in TaskState /\ task[t].at = "inode"
      /\ task[t].op = "flush" <=> Flushes(task[t])
      /\ task[t].op # "flush" <=> Fetches(task[t])
      /\ data[p] \in PageState /\ data[p].lock = t
      /\ Free(Ino) /\ UNCHANGED <<disk, used, file>>
  BY DEF AtInode, TasksOK, PagesLocked, Works, Fetches, Flushes, Staged, Typed, Idle
<1>2. /\ p < size /\ p \notin exposed /\ data[p].state = "uptodate" => data[p].ver = content[p]
      /\ task[t].op # "flush" => data[p].state = "empty" /\ ~data[p].dirty
      /\ task[t].op = "flush" => data[p].state = "uptodate"
      /\ p < size /\ p \notin exposed => Seen(task[t])
  BY <1>1 DEF ContentsOK, TasksOK, PagesLocked, Works, Fetches, Flushes, FlightsOK
<1>3. Ino \in Nodes /\ Body(Ino) = node[Ino].body /\ c \in Children \cup {None} /\ p \in Nat /\ Direct \in Nat
  <2>1. Ino \in Nodes
    BY DEF Nodes
  <2>2. Body(Ino) = node[Ino].body
    BY <1>1 DEF Free, Body
  <2> QED
    BY <2>1, <2>2, LookupTypes, PageIOAssumption DEF NodeBody
<1>4. CASE p < Direct /\ Submit(t, Ino)
  <2>1. DnodeOf(p) = Ino
    BY <1>4 DEF DnodeOf
  <2> QED
    BY <1>1, <1>3, <1>4, <2>1, SubmitKeeps
<1>5. CASE p >= Direct /\ c # None /\ UNCHANGED <<data, node, flight>>
           /\ task' = [task EXCEPT ![t].at = "child", ![t].d = c]
  <2>1. /\ task' \in [Tasks -> TaskState] /\ \A u \in Tasks \ {t} : task[u]' = task[u]
        /\ task[t]'.p = p /\ task[t]'.op = task[t].op /\ task[t]'.at = "child"
        /\ task[t]'.again = task[t].again /\ task[t]'.d = c
    <3> HIDE DEF c
    <3> QED
      BY <1>1, <1>3, <1>5 DEF Typed, TaskState
  <2>2. Body(Ino)' = Body(Ino) /\ AddrOf(p)' = AddrOf(p)
    BY <1>1, <1>5, SameNodes
  <2>3. Arrived(task[t])'
    BY <1>3, <1>5, <2>1, <2>2 DEF Arrived
  <2>4. (Flushes(task[t]') <=> Flushes(task[t])) /\ (Fetches(task[t]') <=> Fetches(task[t]))
    BY <1>1, <2>1 DEF Flushes, Fetches
  <2>5. p < size /\ p \notin exposed => Seen(task[t])'
    BY <1>2, <2>1, <2>2, <2>4 DEF Seen
  <2>6. task[t].op = "flush" => ~task[t]'.again
    BY <2>1 DEF TasksOK, Staged, Idle
  <2>7. data' \in [Pages -> PageState] /\ data[p]' = data[p] /\ \A q \in Pages \ {p} : data[q]' = data[q]
    BY <1>5 DEF Typed
  <2>8. data[p].dirty => data[p].state = "uptodate"
    BY DEF FlightsOK
  <2> QED
    BY <1>1, <1>2, <1>5, <2>1, <2>3, <2>4, <2>5, <2>6, <2>7, <2>8, GoingKeeps
<1>6. CASE p >= Direct /\ c = None /\ UNCHANGED <<node, flight>> /\ task[t].op = "write"
           /\ Goes(t, "create") /\ UNCHANGED data
  <2>1. /\ task' \in [Tasks -> TaskState] /\ \A u \in Tasks \ {t} : task[u]' = task[u]
        /\ task[t]'.p = p /\ task[t]'.op = "write" /\ task[t]'.at = "create"
        /\ task[t]'.again = task[t].again
    BY <1>1, <1>6 DEF Typed, TaskState, Goes
  <2>2. Body(Ino)' = Body(Ino) /\ AddrOf(p)' = AddrOf(p)
    BY <1>1, <1>6, SameNodes
  <2>3. Arrived(task[t])' /\ ~Flushes(task[t]') /\ Fetches(task[t]')
    BY <1>3, <1>6, <2>1, <2>2 DEF Arrived, Flushes, Fetches
  <2>4. p < size /\ p \notin exposed => Seen(task[t])'
    BY <1>1, <1>2, <1>6, <2>1, <2>2 DEF Seen
  <2>5. data' \in [Pages -> PageState] /\ data[p]' = data[p] /\ \A q \in Pages \ {p} : data[q]' = data[q]
    BY <1>6 DEF Typed
  <2> QED
    BY <1>1, <1>2, <1>6, <2>1, <2>3, <2>4, <2>5, GoingKeeps
<1>7. CASE p >= Direct /\ c = None /\ UNCHANGED <<node, flight>> /\ task[t].op # "write" /\ Ends(t)
           /\ data' = [data EXCEPT ![p].lock = None, ![p].dirty = (task[t].op = "flush")]
  <2>1. /\ data' \in [Pages -> PageState] /\ \A q \in Pages \ {p} : data[q]' = data[q]
        /\ data[p]'.lock = None /\ (data[p]'.dirty <=> task[t].op = "flush")
        /\ data[p]'.ver = data[p].ver /\ data[p]'.state = data[p].state
    BY <1>1, <1>7 DEF Typed, PageState
  <2> QED
    BY <1>1, <1>2, <1>7, <2>1, LeavingKeeps, PageIOAssumption
<1> QED
  BY <1>4, <1>5, <1>6, <1>7 DEF AtInode

LEMMA AtChildKeeps ==
  ASSUME IInv, NEW t \in Tasks, AtChild(t)
  PROVE  IInv'
<1>0. task[t].p \in Pages
  BY DEF IInv, AtChild, TasksOK, Staged, Idle
<1> PICK p \in Pages : task[t].p = p
  BY <1>0
<1>1. p >= Direct /\ task[t].d # None /\ task[t].d = Body(Ino).child /\ task[t].d \in Children
  BY DEF IInv, AtChild, TasksOK, Arrived, Typed, TaskState
<1>2. task[t].d \in Nodes /\ task[t].d = DnodeOf(p)
  BY <1>1, PageIOAssumption DEF Nodes, DnodeOf
<1> QED
  BY <1>2, SubmitKeeps DEF AtChild

-----------------------------------------------------------------------------
(* Nodes come into the cache, go to the disk, and leave the cache. *)

\* A step of one node that leaves alone what a lookup finds in it.
LEMMA NodeStepKeeps ==
  ASSUME IInv, NEW n \in Nodes, UNCHANGED <<data, used, flight, task, file>>,
         node' \in [Nodes -> NodeState], disk' \in [Nodes -> NodeBody],
         \A m \in Nodes \ {n} : node[m]' = node[m] /\ disk[m]' = disk[m],
         Body(n)' = Body(n),
         node[n]'.cached /\ ~node[n]'.dirty /\ node[n]'.lock = None => node[n]'.body = disk[n]',
         ~node[n]'.cached => node[n]'.lock = None,
         n \in Children \ used => ~node[n]'.cached /\ disk[n]' = Hole,
         (\E p \in Pages : flight[p] = n) => node[n]'.lock = node[n].lock
  PROVE  IInv'
<1> USE DEF IInv
<1>0. UNCHANGED <<data, used, flight, task, owner, size, content, exposed, writes, truncates>>
  BY DEF file, counts
<1>1. Typed'
  BY <1>0 DEF Typed
<1>2. \A m \in Nodes : Body(m)' = Body(m)
  BY DEF Body
<1>3. Body(Ino)' = Body(Ino) /\ Children \subseteq Nodes
  BY <1>2 DEF Nodes
<1>4. \A p \in Pages : DnodeOf(p)' = DnodeOf(p) /\ AddrOf(p)' = AddrOf(p)
  BY <1>2, SameBodies
<1>5. TasksOK'
  BY <1>0, <1>3 DEF TasksOK, Arrived, OwnerHolds, PagesLocked
<1>6. NodesOK'
  BY <1>0, <1>3 DEF NodesOK
<1>7. FlightsOK'
  <2>1. ASSUME NEW p \in Pages, flight[p] # None PROVE node'[flight[p]].lock = node[flight[p]].lock
    BY <2>1 DEF Typed
  <2> QED
    BY <1>0, <1>4, <2>1 DEF FlightsOK
<1>8. \A p \in Pages : Pending(p)' = Pending(p)
  BY <1>0 DEF Pending
<1>9. BehindOK'
  BY <1>0, <1>3, <1>4, <1>8 DEF BehindOK
<1>10. ContentsOK'
  BY <1>0, <1>4, <1>8 DEF ContentsOK, Seen
<1>11. ExposedOK'
  BY <1>0, <1>4, <1>8 DEF ExposedOK
<1> QED
  BY <1>1, <1>5, <1>6, <1>7, <1>9, <1>10, <1>11

LEMMA NodesKeep ==
  ASSUME IInv, NEW n \in Nodes,
         ReadNode(n) \/ FlushNode(n) \/ NodeWriteEnd(n) \/ ReclaimNode(n)
  PROVE  IInv'
<1> USE PageIOAssumption DEF IInv
<1>0. /\ node[n] \in NodeState /\ disk[n] \in NodeBody /\ Hole \in NodeBody
      /\ node \in [Nodes -> NodeState] /\ disk \in [Nodes -> NodeBody]
  BY DEF Typed, Hole, NodeBody, Version, Junk
<1>1. CASE ReadNode(n)
  <2>1. PICK t \in Tasks : \/ task[t].at \in {"inode", "create", "clear"} /\ n = Ino
                           \/ task[t].at = "child" /\ n = task[t].d
    BY <1>1 DEF ReadNode, Wanted
  <2>2. n \notin Children \ used
    BY <2>1 DEF TasksOK, Arrived, NodesOK
  <2>3. /\ node[n]' = [cached |-> TRUE, dirty |-> FALSE, lock |-> None, body |-> disk[n]]
        /\ ~node[n].cached /\ \A m \in Nodes \ {n} : node[m]' = node[m]
        /\ UNCHANGED <<data, disk, used, flight, task, file>>
    BY <1>0, <1>1 DEF ReadNode
  <2>4. node' \in [Nodes -> NodeState]
    BY <1>0, <1>1 DEF ReadNode, NodeState
  <2>5. Body(n)' = Body(n)
    BY <2>3 DEF Body
  <2>6. ~ \E p \in Pages : flight[p] = n
    <3>1. node[n].lock = None /\ n # None
      BY <2>3 DEF NodesOK, Nodes
    <3> QED
      BY <3>1 DEF FlightsOK
  <2> QED
    BY <1>0, <2>2, <2>3, <2>4, <2>5, <2>6, NodeStepKeeps
<1>2. CASE FlushNode(n)
  <2>1. /\ node[n]' = [node[n] EXCEPT !.dirty = FALSE, !.lock = Device]
        /\ node[n].cached /\ node[n].lock = None /\ \A m \in Nodes \ {n} : node[m]' = node[m]
        /\ UNCHANGED <<data, disk, used, flight, task, file>>
    BY <1>0, <1>2 DEF FlushNode, Free
  <2>2. node[n]'.cached /\ node[n]'.lock = Device /\ node[n]'.body = node[n].body
    BY <1>0, <2>1 DEF NodeState
  <2>3. node' \in [Nodes -> NodeState]
    BY <1>0, <1>2 DEF FlushNode, NodeState
  <2>4. Body(n)' = Body(n) /\ n \notin Children \ used
    BY <2>1, <2>2 DEF Body, NodesOK
  <2>5. ~ \E p \in Pages : flight[p] = n
    BY <2>1 DEF FlightsOK, Nodes
  <2> QED
    BY <1>0, <2>1, <2>2, <2>3, <2>4, <2>5, NodeStepKeeps
<1>3. CASE NodeWriteEnd(n)
  <2>1. /\ node[n]' = [node[n] EXCEPT !.lock = None] /\ disk[n]' = node[n].body
        /\ node[n].lock = Device /\ \A p \in Pages : flight[p] # n
        /\ \A m \in Nodes \ {n} : node[m]' = node[m] /\ disk[m]' = disk[m]
        /\ UNCHANGED <<data, used, flight, task, file>>
    BY <1>0, <1>3 DEF NodeWriteEnd
  <2>2. node[n].cached /\ node[n]'.cached /\ node[n]'.lock = None /\ node[n]'.body = node[n].body
    BY <1>0, <2>1 DEF NodeState, NodesOK
  <2>3. node' \in [Nodes -> NodeState] /\ disk' \in [Nodes -> NodeBody]
    BY <1>0, <1>3 DEF NodeWriteEnd, NodeState
  <2>4. Body(n)' = Body(n) /\ n \notin Children \ used
    BY <2>1, <2>2 DEF Body, NodesOK
  <2> QED
    BY <1>0, <2>1, <2>2, <2>3, <2>4, NodeStepKeeps
<1>4. CASE ReclaimNode(n)
  <2>1. /\ node[n]' = [node[n] EXCEPT !.cached = FALSE, !.body = Hole]
        /\ node[n].cached /\ node[n].lock = None /\ ~node[n].dirty
        /\ \A m \in Nodes \ {n} : node[m]' = node[m]
        /\ UNCHANGED <<data, disk, used, flight, task, file>>
    BY <1>0, <1>4 DEF ReclaimNode, Free
  <2>2. ~node[n]'.cached /\ node[n]'.lock = None
    BY <1>0, <2>1 DEF NodeState
  <2>3. node' \in [Nodes -> NodeState]
    BY <1>0, <1>4 DEF ReclaimNode, NodeState
  <2>4. Body(n)' = Body(n) /\ n \notin Children \ used
    BY <2>1, <2>2 DEF Body, NodesOK
  <2> QED
    BY <1>0, <2>1, <2>2, <2>3, <2>4, NodeStepKeeps
<1> QED
  BY <1>1, <1>2, <1>3, <1>4

\* A writer gives the file its direct node.
LEMMA CreateChildKeeps ==
  ASSUME IInv, NEW t \in Tasks, CreateChild(t)
  PROVE  IInv'
<1> USE PageIOAssumption DEF IInv
<1>0. PICK c \in Children \ used :
        /\ used' = used \cup {c}
        /\ node' = [node EXCEPT ![Ino].body.child = c, ![Ino].dirty = TRUE]
        /\ task' = [task EXCEPT ![t].at = "child", ![t].d = c]
  BY DEF CreateChild
<1>1. /\ task[t].at = "create" /\ node[Ino].cached /\ node[Ino].lock = None
      /\ UNCHANGED <<data, disk, flight, owner, size, content, exposed, writes, truncates>>
  BY DEF CreateChild, Free, file, counts
<1>2. /\ task[t].op = "write" /\ task[t].p \in Pages /\ task[t].p >= Direct /\ owner = t
      /\ Body(Ino).child = None
  BY <1>1 DEF TasksOK, Staged, Arrived, OwnerHolds, Idle
<1> PICK p \in Pages : task[t].p = p
  BY <1>2
<1>3. /\ Ino \in Nodes /\ Children \subseteq Nodes /\ node[Ino] \in NodeState /\ c # Ino /\ c # None
  BY DEF Nodes, Typed
<1>4. /\ node' \in [Nodes -> NodeState] /\ \A n \in Nodes \ {Ino} : node[n]' = node[n]
      /\ node[Ino]'.cached /\ node[Ino]'.dirty /\ node[Ino]'.lock = None
      /\ node[Ino]'.body.child = c /\ node[Ino]'.body.addr = node[Ino].body.addr
  BY <1>0, <1>1, <1>3 DEF Typed, NodeState, NodeBody
<1>5. /\ task' \in [Tasks -> TaskState] /\ \A u \in Tasks \ {t} : task[u]' = task[u]
      /\ task[t]'.p = p /\ task[t]'.op = "write" /\ task[t]'.at = "child"
      /\ task[t]'.again = task[t].again /\ task[t]'.d = c
  <2>1. task[t] \in TaskState
    BY DEF Typed
  <2> QED
    BY <1>0, <1>2, <2>1 DEF Typed, TaskState
<1>6. Typed'
  BY <1>0, <1>1, <1>4, <1>5 DEF Typed
<1>7. /\ Body(Ino)'.child = c /\ Body(Ino)'.addr = Body(Ino).addr
      /\ \A n \in Nodes \ {Ino} : Body(n)' = Body(n)
  BY <1>1, <1>4 DEF Body
<1>8. Body(c) = Hole
  BY DEF Body, NodesOK
<1>9. ASSUME NEW q \in Pages PROVE AddrOf(q)' = AddrOf(q)
  <2>1. CASE q < Direct
    BY <1>3, <1>7, <2>1 DEF AddrOf, DnodeOf
  <2>2. CASE ~(q < Direct)
    BY <1>2, <1>3, <1>7, <1>8, <2>2 DEF AddrOf, DnodeOf, Hole
  <2> QED
    BY <2>1, <2>2
<1>10. \A u \in Tasks \ {t} : task[u].op \notin {"write", "truncate"} /\ task[u].at \notin {"create", "child"}
  BY <1>2 DEF TasksOK, OwnerHolds, Arrived
<1>11. TasksOK'
  <2>1. \A u \in Tasks \ {t} : Staged(task[u]') /\ Arrived(task[u])'
    BY <1>5, <1>10 DEF TasksOK, Staged, Arrived
  <2>2. Staged(task[t]') /\ Arrived(task[t])'
    BY <1>2, <1>3, <1>5, <1>7 DEF Staged, Arrived
  <2>3. OwnerHolds'
    BY <1>1, <1>2, <1>5 DEF OwnerHolds, TasksOK
  <2>4. PagesLocked'
    <3>1. data[p].lock = t /\ data[p].state = "empty"
      BY <1>1, <1>2 DEF TasksOK, PagesLocked, Works, Fetches
    <3> QED
      BY <1>1, <1>5, <3>1 DEF PagesLocked, TasksOK, Flushes
  <2> QED
    BY <2>1, <2>2, <2>3, <2>4 DEF TasksOK, Staged
<1>12. NodesOK'
  BY <1>0, <1>1, <1>3, <1>4, <1>7 DEF NodesOK
<1>13. FlightsOK'
  <2>1. \A q \in Pages : flight[q] # Ino
    BY <1>1, <1>3 DEF FlightsOK
  <2>2. \A q \in Pages : flight[q] # None => q < Direct
    BY <1>2 DEF FlightsOK, DnodeOf
  <2>3. \A q \in Pages : q < Direct => flight[q] = None
    BY <2>1 DEF FlightsOK, DnodeOf
  <2> QED
    BY <1>1, <2>2, <2>3 DEF FlightsOK
<1>14. \A q \in Pages : Pending(q)' = Pending(q)
  BY <1>1, <1>2, <1>5 DEF Pending, Flushes
<1>15. BehindOK'
  BY <1>1, <1>2, <1>5, <1>9, <1>10, <1>14 DEF BehindOK
<1>16. ContentsOK'
  BY <1>1, <1>2, <1>5, <1>9, <1>14 DEF ContentsOK, Seen, Fetches
<1>17. ExposedOK'
  BY <1>1, <1>9, <1>14 DEF ExposedOK
<1> QED
  BY <1>6, <1>11, <1>12, <1>13, <1>15, <1>16, <1>17

-----------------------------------------------------------------------------
(* A write is committed, and reaches its address. *)

LEMMA CommitKeeps ==
  ASSUME IInv, NEW t \in Tasks, Commit(t)
  PROVE  IInv'
<1> USE PageIOAssumption DEF IInv
<1>1. task[t].at = "copy" /\ task[t].op = "write" /\ task[t].p \in Pages /\ owner = t
  BY DEF Commit, TasksOK, Staged, Arrived, OwnerHolds, Idle
<1> PICK p \in Pages : task[t].p = p
  BY <1>1
<1> DEFINE new == IF p >= size THEN p + 1 ELSE size
           page == [state |-> "uptodate", ver |-> writes, dirty |-> TRUE, lock |-> None]
<1>2. /\ data' = [data EXCEPT ![p] = page]
      /\ content' = [content EXCEPT ![p] = writes]
      /\ size' = new /\ exposed' = (exposed \cup Uncovered(new)) \ {p}
      /\ owner' = None /\ task' = [task EXCEPT ![t] = Idle]
      /\ UNCHANGED <<node, disk, used, flight, writes, truncates>>
  BY <1>1 DEF Commit, Ends
<1>3. p \in Nat /\ new \in Nat /\ size \in Nat /\ size <= new /\ p < new
  BY DEF Typed
<1> HIDE DEF new
<1>4. writes \in Version /\ page \in PageState /\ Idle \in TaskState
  BY DEF Typed, Version, Junk, PageState, TaskState, Idle
<1>5. data[p]' = page /\ content[p]' = writes /\ task[t]' = Idle
  BY <1>2 DEF Typed
<1>6. /\ \A q \in Pages \ {p} : data[q]' = data[q] /\ content[q]' = content[q]
      /\ \A u \in Tasks \ {t} : task[u]' = task[u]
  BY <1>2 DEF Typed
<1>7. Typed'
  <2>1. Uncovered(new) \subseteq Nat
    BY <1>3 DEF Uncovered
  <2>2. exposed' \subseteq Nat
    BY <1>2, <2>1 DEF Typed
  <2> HIDE DEF page
  <2> QED
    BY <1>2, <1>3, <1>4, <2>2 DEF Typed
<1>8. data[p].lock = t /\ flight[p] = None
  BY <1>1 DEF TasksOK, PagesLocked, Works, FlightsOK
<1>9. \A u \in Tasks \ {t} : /\ task[u].op \notin {"write", "truncate"}
                             /\ task[u].at \notin {"drop", "clear"}
                             /\ Works(task[u]) => task[u].p # p
  BY <1>1, <1>8 DEF TasksOK, OwnerHolds, PagesLocked, Staged, Idle
<1>10. TasksOK'
  <2>1. /\ Staged(task[t]') /\ Arrived(task[t])' /\ ~Works(task[t]')
        /\ task[t]'.op = "none"
    BY <1>5 DEF Staged, Arrived, Works, Idle
  <2>2. \A q \in Pages : data[q].lock \in Tasks \ {t} =>
          data[q]'.lock = data[q].lock /\ data[q]'.state = data[q].state
    BY <1>6, <1>8
  <2> QED
    BY <1>1, <1>2, <1>6, <2>1, <2>2, SameNodes, OthersKeep
<1>11. NodesOK'
  BY <1>2, SameNodes DEF NodesOK
<1>12. FlightsOK'
  BY <1>2, <1>5, <1>6, <1>8, SameNodes DEF FlightsOK
<1>13. \A q \in Pages \ {p} : Pending(q)' = Pending(q)
  BY <1>2, <1>5, <1>6 DEF Pending, Flushes, Idle
<1>14. \A u \in Tasks : task[u].op # "truncate" /\ task[u].at \notin {"drop", "clear"}
  BY <1>1, <1>9
<1>15. \A q \in Pages : q >= size => content[q] = 0 /\ AddrOf(q) = 0 /\ ~Pending(q)
  BY <1>14 DEF BehindOK
<1>16. BehindOK'
  <2> SUFFICES ASSUME NEW q \in Pages, q >= new
               PROVE  content[q]' = 0 /\ ~Pending(q)' /\ AddrOf(q)' = 0
    <3>1. \A u \in Tasks : task[u]'.op # "truncate"
      BY <1>5, <1>6, <1>14 DEF Idle
    <3> QED
      BY <1>2, <3>1 DEF BehindOK
  <2>1. q # p /\ q >= size
    BY <1>3
  <2> QED
    BY <1>2, <1>6, <1>13, <1>15, <2>1, SameNodes
<1>17. ContentsOK'
  <2> SUFFICES ASSUME NEW q \in Pages, q \notin exposed', q < new
               PROVE  /\ data[q]'.state = "uptodate" => data[q]'.ver = content[q]'
                      /\ ~Pending(q)' => AddrOf(q)' = content[q]'
                      /\ \A u \in Tasks : task[u]'.p = q => Seen(task[u])'
    BY <1>2 DEF ContentsOK
  <2>1. AddrOf(q)' = AddrOf(q) /\ (q # p => q \notin exposed)
    BY <1>2, SameNodes
  <2>2. Seen(task[t])'
    BY <1>5 DEF Seen, Idle
  <2>3. CASE q = p
    <3>1. Pending(q)'
      BY <1>5, <2>3 DEF Pending
    <3>2. ASSUME NEW u \in Tasks \ {t}, task[u]'.p = q PROVE Seen(task[u])'
      BY <1>6, <1>9, <2>3, <3>2 DEF Seen, Fetches, Works
    <3> QED
      BY <1>5, <2>2, <2>3, <3>1, <3>2
  <2>4. CASE q # p /\ q < size
    <3>1. ASSUME NEW u \in Tasks \ {t}, task[u]'.p = q PROVE Seen(task[u])'
      BY <1>6, <2>1, <2>4, <3>1 DEF ContentsOK, Seen, Fetches
    <3> QED
      BY <1>6, <1>13, <2>1, <2>2, <2>4, <3>1 DEF ContentsOK
  <2>5. CASE q # p /\ ~(q < size)
    <3>1. q \in size .. new - 1 /\ q >= size
      BY <1>3, <2>5
    <3>2. ~(data[q].state = "uptodate" /\ data[q].ver # 0) /\ ~Reading(q)
      BY <1>2, <2>5, <3>1 DEF Uncovered
    <3>3. ASSUME NEW u \in Tasks \ {t}, task[u]'.p = q PROVE ~task[u]'.again /\ task[u]'.at # "io"
      BY <1>6, <3>2, <3>3 DEF Reading, TasksOK, Staged, Idle
    <3>4. \A u \in Tasks : task[u]'.p = q => Seen(task[u])'
      BY <2>2, <3>3 DEF Seen
    <3> QED
      BY <1>6, <1>15, <2>1, <2>5, <3>1, <3>2, <3>4
  <2> QED
    BY <2>3, <2>4, <2>5
<1>18. ExposedOK'
  <2> SUFFICES ASSUME NEW q \in Pages \cap exposed'
               PROVE  content[q]' = 0 /\ AddrOf(q) = 0 /\ ~Pending(q)'
    BY <1>2, SameNodes DEF ExposedOK
  <2>1. q # p
    BY <1>2
  <2>2. CASE q \in exposed
    BY <1>6, <1>13, <2>1, <2>2 DEF ExposedOK
  <2>3. CASE q \notin exposed
    <3>1. q >= size
      BY <1>2, <1>3, <2>3 DEF Uncovered
    <3> QED
      BY <1>6, <1>13, <1>15, <2>1, <3>1
  <2> QED
    BY <2>2, <2>3
<1> QED
  BY <1>7, <1>10, <1>11, <1>12, <1>16, <1>17, <1>18

LEMMA WriteEndKeeps ==
  ASSUME IInv, NEW p \in Pages, WriteEnd(p)
  PROVE  IInv'
<1> USE PageIOAssumption DEF IInv
<1>0. flight[p] \in Nodes /\ flight[p] # None
  BY DEF WriteEnd, Typed
<1> PICK d \in Nodes : flight[p] = d
  BY <1>0
<1>1. /\ node' = [node EXCEPT ![d] = [@ EXCEPT !.body.addr[p] = data[p].ver, !.dirty = TRUE, !.lock = None]]
      /\ data' = [data EXCEPT ![p].dirty = FALSE, ![p].lock = None]
      /\ flight' = [flight EXCEPT ![p] = None]
      /\ UNCHANGED <<disk, used, task, owner, size, content, exposed, writes, truncates>>
  BY DEF WriteEnd, Marked, file, counts
<1>2. /\ data[p] \in PageState /\ node[d] \in NodeState /\ d = DnodeOf(p) /\ d # None
      /\ node[d].lock = Device /\ node[d].cached
      /\ data[p].state = "uptodate" /\ data[p].lock = Device
  BY <1>0 DEF Typed, FlightsOK, NodesOK
<1>3. /\ data' \in [Pages -> PageState] /\ \A q \in Pages \ {p} : data[q]' = data[q]
      /\ data[p]'.lock = None /\ ~data[p]'.dirty
      /\ data[p]'.ver = data[p].ver /\ data[p]'.state = "uptodate"
  BY <1>1, <1>2 DEF Typed, PageState
<1>4. /\ node' \in [Nodes -> NodeState] /\ \A n \in Nodes \ {d} : node[n]' = node[n]
      /\ node[d]'.cached /\ node[d]'.dirty /\ node[d]'.lock = None
      /\ node[d]'.body.child = node[d].body.child
      /\ node[d]'.body.addr = [node[d].body.addr EXCEPT ![p] = data[p].ver]
  BY <1>1, <1>2 DEF Typed, NodeState, NodeBody, PageState
<1>5. flight' \in [Pages -> Nodes \cup {None}] /\ flight[p]' = None /\ \A q \in Pages \ {p} : flight[q]' = flight[q]
  BY <1>1 DEF Typed
<1>6. Typed'
  BY <1>1, <1>3, <1>4, <1>5 DEF Typed
<1>7. /\ Ino \in Nodes /\ Children \subseteq Nodes
      /\ \A n \in Nodes \ {d} : Body(n)' = Body(n)
      /\ Body(d)'.child = Body(d).child
      /\ Body(d)'.addr = [Body(d).addr EXCEPT ![p] = data[p].ver]
      /\ Body(d).addr \in [Pages -> Version]
  BY <1>1, <1>2, <1>4 DEF Body, Nodes, NodeState, NodeBody
<1>8. Body(Ino)'.child = Body(Ino).child /\ \A q : DnodeOf(q)' = DnodeOf(q)
  BY <1>7 DEF DnodeOf
<1>9. /\ AddrOf(p)' = data[p].ver
      /\ \A q \in Pages \ {p} : AddrOf(q)' = AddrOf(q)
  <2>1. AddrOf(p)' = data[p].ver
    BY <1>2, <1>7, <1>8 DEF AddrOf
  <2>2. ASSUME NEW q \in Pages \ {p} PROVE AddrOf(q)' = AddrOf(q)
    <3>1. CASE DnodeOf(q) = None
      BY <1>8, <3>1 DEF AddrOf
    <3>2. CASE DnodeOf(q) = d
      BY <1>2, <1>7, <1>8, <3>2 DEF AddrOf
    <3>3. CASE DnodeOf(q) \notin {None, d}
      BY <1>7, <1>8, <3>3, LookupTypes DEF AddrOf
    <3> QED
      BY <3>1, <3>2, <3>3
  <2> QED
    BY <2>1, <2>2
<1>10. TasksOK'
  <2>1. \A u \in Tasks : Works(task[u]) => task[u].p # p
    BY <1>2 DEF TasksOK, PagesLocked
  <2>2. \A u \in Tasks : Works(task[u]) => task[u].p \in Pages \ {p}
    BY <2>1 DEF TasksOK, Staged, Works, Idle
  <2> QED
    BY <1>1, <1>3, <1>8, <2>2 DEF TasksOK, Arrived, OwnerHolds, PagesLocked
<1>11. NodesOK'
  <2>1. d \notin Children \ used
    BY <1>2 DEF NodesOK
  <2> QED
    BY <1>1, <1>4, <1>7, <1>8, <2>1 DEF NodesOK
<1>12. FlightsOK'
  <2>1. \A q \in Pages \ {p} : flight[q] # d
    BY <1>2 DEF FlightsOK
  <2>2. \A q \in Pages \ {p} : flight[q] # None => flight[q] \in Nodes \ {d}
    BY <2>1 DEF Typed
  <2> QED
    BY <1>3, <1>4, <1>5, <1>8, <2>2 DEF FlightsOK
<1>13. /\ \A q \in Pages \ {p} : Pending(q)' = Pending(q)
       /\ Pending(p)
  BY <1>1, <1>2, <1>3, <1>5 DEF Pending
<1>14. BehindOK'
  <2>1. p >= size => ~ \A u \in Tasks : task[u].at = "drop" => task[u].p > p
    BY <1>13 DEF BehindOK
  <2>2. p >= size => \E u \in Tasks : task[u].at = "drop" /\ ~(task[u].p > p)
    BY <2>1
  <2> QED
    BY <1>1, <1>8, <1>9, <1>13, <2>2 DEF BehindOK
<1>15. ContentsOK'
  <2> SUFFICES ASSUME NEW q \in Pages, q \notin exposed, q < size
               PROVE  /\ data[q]'.state = "uptodate" => data[q]'.ver = content[q]
                      /\ ~Pending(q)' => AddrOf(q)' = content[q]
                      /\ \A u \in Tasks : task[u].p = q => Seen(task[u])'
    BY <1>1 DEF ContentsOK
  <2>1. CASE q = p
    <3>1. \A u \in Tasks : Works(task[u]) => task[u].p # p
      BY <1>2 DEF TasksOK, PagesLocked
    <3>2. \A u \in Tasks : task[u].p = p => Seen(task[u])'
      BY <1>1, <3>1 DEF Seen, Fetches, Works
    <3> QED
      BY <1>2, <1>3, <1>9, <2>1, <3>2 DEF ContentsOK
  <2>2. CASE q # p
    <3>1. \A u \in Tasks : task[u].p = q => Seen(task[u])'
      BY <1>1, <1>9, <2>2 DEF ContentsOK, Seen, Fetches
    <3> QED
      BY <1>3, <1>9, <1>13, <2>2, <3>1 DEF ContentsOK
  <2> QED
    BY <2>1, <2>2
<1>16. ExposedOK'
  <2>1. p \notin exposed
    BY <1>13 DEF ExposedOK
  <2> QED
    BY <1>1, <1>9, <1>13, <2>1 DEF ExposedOK
<1> QED
  BY <1>6, <1>10, <1>11, <1>12, <1>14, <1>15, <1>16

-----------------------------------------------------------------------------
(* Pages are dropped, by memory pressure and by a truncation. *)

\* Pages that are clean, unlocked and either found on the disk again or behind
\* the end are dropped; the tasks that waited for them give up.
LEMMA DroppingKeeps ==
  ASSUME IInv, NEW P \in SUBSET Pages, UNCHANGED <<node, disk, used, flight>>,
         data' = [p \in Pages |-> IF p \in P THEN Absent ELSE data[p]],
         \A p \in P : data[p].lock = None /\ (data[p].dirty => p >= size)
  PROVE  /\ data' \in [Pages -> PageState]
         /\ \A p \in Pages : flight[p]' = flight[p] /\ DnodeOf(p)' = DnodeOf(p) /\ AddrOf(p)' = AddrOf(p)
         /\ NodesOK' /\ FlightsOK'
         /\ \A p \in Pages : data[p].lock # None => data[p]' = data[p]
         /\ \A p \in P : ~data[p]'.dirty /\ data[p]'.state = "absent" /\ flight[p] = None
                         /\ \A t \in Tasks : Works(task[t]) => task[t].p # p
         /\ \A p \in Pages \ P : data[p]' = data[p]
<1> USE PageIOAssumption DEF IInv
<1>1. Absent \in PageState /\ Absent.lock = None /\ ~Absent.dirty /\ Absent.state = "absent"
  BY DEF Absent, PageState, Version, Junk
<1>2. data' \in [Pages -> PageState]
  BY <1>1 DEF Typed
<1>3. NodesOK'
  BY SameNodes DEF NodesOK
<1>4. \A p \in P : data[p]' = Absent /\ flight[p] = None
                   /\ \A t \in Tasks : Works(task[t]) => task[t].p # p
  <2> SUFFICES ASSUME NEW p \in P
               PROVE  /\ data[p]' = Absent /\ flight[p] = None
                      /\ \A t \in Tasks : Works(task[t]) => task[t].p # p
    OBVIOUS
  <2>1. p \in Pages /\ data[p].lock = None
    OBVIOUS
  <2>2. flight[p] = None
    BY <2>1 DEF FlightsOK
  <2>3. \A t \in Tasks : Works(task[t]) => task[t].p # p
    BY <2>1 DEF TasksOK, PagesLocked
  <2> QED
    BY <2>1, <2>2, <2>3
<1>5. \A p \in Pages \ P : data[p]' = data[p]
  OBVIOUS
<1>6. FlightsOK'
  BY <1>1, <1>4, <1>5, SameNodes DEF FlightsOK
<1> QED
  BY <1>1, <1>2, <1>3, <1>4, <1>5, <1>6, SameNodes

LEMMA ReclaimKeeps ==
  ASSUME IInv, NEW p \in Pages, Reclaim(p)
  PROVE  IInv'
<1> USE PageIOAssumption DEF IInv
<1>1. /\ data' = [q \in Pages |-> IF q \in {p} THEN Absent ELSE data[q]]
      /\ data[p].lock = None /\ ~data[p].dirty
      /\ exposed' = exposed \ {p}
      /\ UNCHANGED <<node, disk, used, flight, task, owner, size, content, writes, truncates>>
  BY DEF Reclaim, Idles, Typed, counts
<1>2. /\ data' \in [Pages -> PageState]
      /\ \A q \in Pages : DnodeOf(q)' = DnodeOf(q) /\ AddrOf(q)' = AddrOf(q)
      /\ NodesOK' /\ FlightsOK'
      /\ \A q \in Pages : data[q].lock # None => data[q]' = data[q]
      /\ ~data[p]'.dirty /\ data[p]'.state = "absent" /\ flight[p] = None
      /\ \A t \in Tasks : Works(task[t]) => task[t].p # p
      /\ \A q \in Pages \ {p} : data[q]' = data[q]
  <2>1. {p} \in SUBSET Pages
    OBVIOUS
  <2>2. \A q \in {p} : data[q].lock = None /\ (data[q].dirty => q >= size)
    BY <1>1
  <2> HIDE DEF IInv
  <2> QED
    BY <1>1, <2>1, <2>2, DroppingKeeps
<1>3. Typed'
  BY <1>1, <1>2 DEF Typed
<1>4. TasksOK'
  <2>1. \A t \in Tasks : Works(task[t]) => task[t].p \in Pages
    BY DEF TasksOK, Staged, Works, Idle
  <2> QED
    BY <1>1, <1>2, <2>1, SameNodes DEF TasksOK, Arrived, OwnerHolds, PagesLocked
<1>5. ~Pending(p) /\ \A q \in Pages : Pending(q)' = Pending(q)
  <2>1. ~Pending(p) /\ ~Pending(p)'
    BY <1>1, <1>2 DEF Pending, Works, Flushes
  <2> QED
    BY <1>1, <1>2, <2>1 DEF Pending
<1>6. BehindOK'
  BY <1>1, <1>2, <1>5, SameNodes DEF BehindOK
<1>7. ContentsOK'
  <2>1. \A t \in Tasks : task[t].p = p => Seen(task[t])
    BY <1>2 DEF Seen, Fetches, Works
  <2>2. p < size => AddrOf(p) = content[p]
    BY <1>5 DEF ContentsOK, ExposedOK
  <2> QED
    BY <1>1, <1>2, <1>5, <2>1, <2>2 DEF ContentsOK, Seen
<1>8. ExposedOK'
  BY <1>1, <1>2, <1>5 DEF ExposedOK
<1> QED
  BY <1>2, <1>3, <1>4, <1>6, <1>7, <1>8

LEMMA DropPageKeeps ==
  ASSUME IInv, NEW t \in Tasks, DropPage(t)
  PROVE  IInv'
<1> USE PageIOAssumption DEF IInv
<1>0. task[t].p \in Pages
  BY DEF DropPage
<1> PICK p \in Pages : task[t].p = p
  BY <1>0
<1>1. /\ data' = [q \in Pages |-> IF q \in {p} THEN Absent ELSE data[q]]
      /\ task' = [u \in Tasks |-> IF u = t THEN [task[t] EXCEPT !.p = p + 1]
                                  ELSE IF task[u].at = "relock" /\ task[u].p = p THEN Idle ELSE task[u]]
      /\ task[t].at = "drop" /\ data[p].lock = None
      /\ exposed' = exposed \ {p}
      /\ UNCHANGED <<node, disk, used, flight, owner, size, content, writes, truncates>>
  BY DEF DropPage, Typed, counts
<1>2. /\ task[t].op = "truncate" /\ owner = t /\ p >= size /\ Body(Ino).child = None
      /\ \A u \in Tasks \ {t} : task[u].op \notin {"write", "truncate"} /\ task[u].at # "drop"
  BY <1>1 DEF TasksOK, Staged, OwnerHolds, BehindOK, Idle
<1>3. /\ data' \in [Pages -> PageState]
      /\ \A q \in Pages : DnodeOf(q)' = DnodeOf(q) /\ AddrOf(q)' = AddrOf(q)
      /\ NodesOK' /\ FlightsOK'
      /\ \A q \in Pages : data[q].lock # None => data[q]' = data[q]
      /\ ~data[p]'.dirty /\ data[p]'.state = "absent" /\ flight[p] = None
      /\ \A u \in Tasks : Works(task[u]) => task[u].p # p
      /\ \A q \in Pages \ {p} : data[q]' = data[q]
  <2>1. {p} \in SUBSET Pages
    OBVIOUS
  <2>2. \A q \in {p} : data[q].lock = None /\ (data[q].dirty => q >= size)
    BY <1>1, <1>2
  <2> HIDE DEF IInv
  <2> QED
    BY <1>1, <2>1, <2>2, DroppingKeeps
<1>4. /\ task' \in [Tasks -> TaskState]
      /\ task[t]'.p = p + 1 /\ task[t]'.op = "truncate" /\ task[t]'.at = "drop" /\ ~task[t]'.again
  <2>1. task[t] \in TaskState /\ Idle \in TaskState /\ p + 1 \in Nat /\ ~task[t].again
    BY <1>1 DEF Typed, TaskState, Idle, Version, Junk, TasksOK, Staged
  <2> QED
    BY <1>1, <1>2, <2>1 DEF Typed, TaskState
<1>5. \A u \in Tasks \ {t} : \/ task[u]' = task[u]
                             \/ task[u]' = Idle /\ task[u].at = "relock" /\ task[u].op = "read"
  <2>1. \A u \in Tasks \ {t} : task[u].at = "relock" => task[u].op = "read"
    BY <1>2 DEF TasksOK, Staged, Idle
  <2> QED
    BY <1>1, <2>1
<1>6. Typed'
  BY <1>1, <1>3, <1>4 DEF Typed
<1>7. TasksOK'
  <2>1. Staged(task[t]') /\ Arrived(task[t])' /\ ~Works(task[t]')
    BY <1>4 DEF Staged, Arrived, Works
  <2>2. Staged(Idle) /\ ~Works(Idle) /\ Idle.op = "none" /\ Idle.at = "idle"
    BY DEF Staged, Works, Idle
  <2>3. ASSUME NEW u \in Tasks \ {t} PROVE Staged(task[u]') /\ Arrived(task[u])'
    <3>1. Body(Ino)' = Body(Ino)
      BY <1>1, SameNodes
    <3>2. Staged(task[u]) /\ Arrived(task[u])
      BY DEF TasksOK
    <3>3. CASE task[u]' = task[u]
      BY <3>1, <3>2, <3>3 DEF Arrived
    <3>4. CASE task[u]' = Idle
      BY <2>2, <3>4 DEF Arrived
    <3> QED
      BY <1>5, <3>3, <3>4
  <2>4. OwnerHolds'
    BY <1>1, <1>2, <1>4, <1>5, <2>2 DEF TasksOK, OwnerHolds
  <2>5. PagesLocked'
    <3>1. \A u \in Tasks : Works(task[u]') => u # t /\ task[u]' = task[u] /\ task[u].p \in Pages \ {p}
      BY <1>3, <1>5, <2>1, <2>2 DEF TasksOK, Staged, Works, Idle
    <3>2. \A u \in Tasks : Works(task[u]') => data[task[u].p]' = data[task[u].p]
      BY <1>3, <3>1
    <3> QED
      BY <3>1, <3>2 DEF TasksOK, PagesLocked
  <2> QED
    BY <2>1, <2>3, <2>4, <2>5 DEF TasksOK, Staged
<1>8. \A q \in Pages : Pending(q)' => Pending(q) /\ q # p
  <2>1. \A u \in Tasks : Flushes(task[u]') => task[u]' = task[u]
    BY <1>4, <1>5 DEF Flushes, Idle
  <2>2. \A u \in Tasks : Flushes(task[u]) => Works(task[u])
    BY DEF Flushes, Works
  <2> QED
    BY <1>1, <1>3, <2>1, <2>2 DEF Pending, Flushes
<1>9. \A q \in Pages \ {p} : Pending(q) => Pending(q)'
  <2>1. \A u \in Tasks : Flushes(task[u]) => task[u]' = task[u]
    BY <1>1, <1>5 DEF Flushes
  <2> QED
    BY <1>1, <1>3, <2>1 DEF Pending, Flushes
<1>10. BehindOK'
  <2>1. ASSUME NEW q \in Pages, q >= size, p + 1 > q PROVE ~Pending(q)'
    <3>1. CASE q = p
      BY <1>8, <3>1
    <3>2. CASE q # p
      BY <1>2, <1>8, <2>1, <3>2 DEF BehindOK
    <3> QED
      BY <3>1, <3>2
  <2>2. Body(Ino)' = Body(Ino)
    BY <1>1, SameNodes
  <2> QED
    BY <1>1, <1>2, <1>3, <1>4, <1>5, <2>1, <2>2 DEF BehindOK, Idle, Typed
<1>11. ContentsOK'
  <2> SUFFICES ASSUME NEW q \in Pages, q \notin exposed', q < size
               PROVE  /\ data[q]'.state = "uptodate" => data[q]'.ver = content[q]
                      /\ ~Pending(q)' => AddrOf(q)' = content[q]
                      /\ \A u \in Tasks : task[u]'.p = q => Seen(task[u])'
    BY <1>1 DEF ContentsOK
  <2>1. q # p
    <3>1. p \in Nat /\ q \in Nat /\ size \in Nat
      BY DEF Typed
    <3> QED
      BY <1>2, <3>1
  <2>2. data[q]' = data[q] /\ AddrOf(q)' = AddrOf(q)
    BY <1>3, <2>1
  <2>3. ASSUME NEW u \in Tasks, task[u]'.p = q PROVE Seen(task[u])'
    <3>1. CASE u = t
      BY <1>4, <3>1 DEF Seen
    <3>2. CASE u # t /\ task[u]' = task[u]
      BY <1>1, <2>1, <2>2, <2>3, <3>2 DEF ContentsOK, Seen, Fetches
    <3>3. CASE u # t /\ task[u]' = Idle
      BY <3>3 DEF Seen, Idle
    <3> QED
      BY <1>5, <3>1, <3>2, <3>3
  <2> QED
    BY <1>1, <1>9, <2>1, <2>2, <2>3 DEF ContentsOK
<1>12. ExposedOK'
  BY <1>1, <1>3, <1>8 DEF ExposedOK
<1> QED
  BY <1>3, <1>6, <1>7, <1>10, <1>11, <1>12

\* The pages of the file are an initial interval: behind the last page there is none.
LEMMA AllDroppedKeeps ==
  ASSUME IInv, NEW t \in Tasks, AllDropped(t)
  PROVE  IInv'
<1> USE PageIOAssumption DEF IInv
<1>1. /\ task' = [task EXCEPT ![t].at = "clear"]
      /\ task[t].at = "drop" /\ task[t].p \notin Pages /\ task[t] \in TaskState
      /\ UNCHANGED <<data, node, disk, used, flight, owner, size, content, exposed, writes, truncates>>
  BY DEF AllDropped, Goes, Typed, file, counts
<1>2. task[t].op = "truncate" /\ owner = t /\ ~task[t].again
  BY <1>1 DEF TasksOK, Staged, OwnerHolds, Idle
<1>3. /\ task' \in [Tasks -> TaskState] /\ \A u \in Tasks \ {t} : task[u]' = task[u]
      /\ task[t]'.op = "truncate" /\ task[t]'.at = "clear" /\ ~task[t]'.again /\ task[t]'.p = task[t].p
  BY <1>1, <1>2 DEF Typed, TaskState
<1>4. Typed'
  BY <1>1, <1>3 DEF Typed
<1>5. TasksOK'
  <2>1. Staged(task[t]') /\ Arrived(task[t])' /\ ~Works(task[t]')
    BY <1>3 DEF Staged, Arrived, Works
  <2> QED
    BY <1>1, <1>2, <1>3, <2>1, SameNodes, OthersKeep
<1>6. NodesOK' /\ FlightsOK'
  BY <1>1, SameNodes DEF NodesOK, FlightsOK
<1>7. \A q \in Pages : Pending(q)' = Pending(q)
  BY <1>1, <1>3 DEF Pending, Flushes
<1>8. BehindOK'
  <2>1. ASSUME NEW q \in Pages PROVE task[t].p > q
    <3>1. task[t].p \in Nat /\ q \in Nat
      BY <1>1 DEF TaskState
    <3> QED
      BY <1>1, <3>1
  <2>2. \A u \in Tasks \ {t} : task[u].at \notin {"drop", "clear"}
    BY <1>2 DEF TasksOK, OwnerHolds, Staged, Idle
  <2>3. \A q \in Pages : q >= size => ~Pending(q)
    BY <2>1, <2>2 DEF BehindOK
  <2> QED
    BY <1>1, <1>2, <1>3, <1>7, <2>3, SameNodes DEF BehindOK
<1>9. ContentsOK'
  <2>1. Seen(task[t])'
    BY <1>3 DEF Seen
  <2> QED
    BY <1>1, <1>3, <1>7, <2>1, SameNodes DEF ContentsOK, Seen, Fetches
<1>10. ExposedOK'
  BY <1>1, <1>7, SameNodes DEF ExposedOK
<1> QED
  BY <1>4, <1>5, <1>6, <1>8, <1>9, <1>10

LEMMA ClearAddrsKeeps ==
  ASSUME IInv, NEW t \in Tasks, ClearAddrs(t)
  PROVE  IInv'
<1> USE PageIOAssumption DEF IInv
<1> DEFINE left == [p \in Pages |-> IF p < size THEN node[Ino].body.addr[p] ELSE 0]
<1>1. /\ task' = [task EXCEPT ![t].at = "invalidate"]
      /\ task[t].at = "clear" /\ task[t] \in TaskState
      /\ node[Ino].cached /\ node[Ino].lock = None
      /\ UNCHANGED <<data, disk, used, flight, owner, size, content, exposed, writes, truncates>>
  BY DEF ClearAddrs, Goes, Free, Typed, file, counts
<1>2. task[t].op = "truncate" /\ owner = t /\ ~task[t].again /\ Body(Ino).child = None
  BY <1>1 DEF TasksOK, Staged, OwnerHolds, BehindOK, Idle
<1>3. /\ task' \in [Tasks -> TaskState] /\ \A u \in Tasks \ {t} : task[u]' = task[u]
      /\ task[t]'.op = "truncate" /\ task[t]'.at = "invalidate" /\ ~task[t]'.again
  BY <1>1, <1>2 DEF Typed, TaskState
<1>4. Ino \in Nodes /\ Children \subseteq Nodes /\ node[Ino] \in NodeState /\ left \in [Pages -> Version]
  BY DEF Nodes, Typed, NodeState, NodeBody, Version, Junk
<1>5. /\ node' \in [Nodes -> NodeState] /\ \A n \in Nodes \ {Ino} : node[n]' = node[n]
      /\ node[Ino]'.cached /\ node[Ino]'.dirty /\ node[Ino]'.lock = None
      /\ node[Ino]'.body.child = node[Ino].body.child
      /\ node[Ino]'.body.addr = left
  BY <1>1, <1>4 DEF ClearAddrs, Typed, NodeState, NodeBody
<1>6. Typed'
  BY <1>1, <1>3, <1>5 DEF Typed
<1>7. /\ Body(Ino)'.child = None /\ Body(Ino)'.addr = left /\ Body(Ino).addr = node[Ino].body.addr
      /\ \A n \in Nodes \ {Ino} : Body(n)' = Body(n)
  BY <1>1, <1>2, <1>5 DEF Body
<1>8. ASSUME NEW q \in Pages PROVE AddrOf(q)' = IF q < size THEN AddrOf(q) ELSE 0
  <2>1. CASE q < Direct
    BY <1>4, <1>7, <2>1 DEF AddrOf, DnodeOf
  <2>2. CASE ~(q < Direct)
    BY <1>2, <1>7, <2>2 DEF AddrOf, DnodeOf
  <2> QED
    BY <2>1, <2>2
<1>9. TasksOK'
  <2>1. Staged(task[t]') /\ Arrived(task[t])' /\ ~Works(task[t]')
    BY <1>3 DEF Staged, Arrived, Works
  <2> QED
    BY <1>1, <1>2, <1>3, <1>7, <2>1, OthersKeep
<1>10. NodesOK'
  BY <1>1, <1>4, <1>5, <1>7 DEF NodesOK
<1>11. FlightsOK'
  <2>1. \A q \in Pages : flight[q] = None
    BY <1>1, <1>2, <1>4 DEF FlightsOK, DnodeOf
  <2> QED
    BY <1>1, <2>1 DEF FlightsOK
<1>12. \A q \in Pages : Pending(q)' = Pending(q)
  BY <1>1, <1>3 DEF Pending, Flushes
<1>13. BehindOK'
  <2>1. \A u \in Tasks : task[u].at # "drop"
    BY <1>1, <1>2 DEF TasksOK, OwnerHolds, Staged, Idle
  <2>2. \A q \in Pages : q >= size => ~Pending(q)
    BY <2>1 DEF BehindOK
  <2>3. \A q \in Pages : q >= size => AddrOf(q)' = 0
    <3>1. size \in Nat
      BY DEF Typed
    <3> QED
      BY <1>8, <3>1
  <2> QED
    BY <1>1, <1>3, <1>7, <1>12, <2>1, <2>2, <2>3 DEF BehindOK
<1>14. ContentsOK'
  <2>1. Seen(task[t])'
    BY <1>3 DEF Seen
  <2> QED
    BY <1>1, <1>3, <1>8, <1>12, <2>1 DEF ContentsOK, Seen, Fetches
<1>15. ExposedOK'
  BY <1>1, <1>8, <1>12 DEF ExposedOK
<1> QED
  BY <1>6, <1>9, <1>10, <1>11, <1>13, <1>14, <1>15

LEMMA InvalidateKeeps ==
  ASSUME IInv, NEW t \in Tasks, Invalidate(t)
  PROVE  IInv'
<1> USE PageIOAssumption DEF IInv
<1> DEFINE P == {p \in Pages : p >= size /\ Idles(p)}
<1>1. /\ data' = [p \in Pages |-> IF p \in P THEN Absent ELSE data[p]]
      /\ task' = [task EXCEPT ![t] = Idle] /\ task[t].at = "invalidate" /\ owner' = None
      /\ exposed' \subseteq exposed /\ \A q \in exposed \ exposed' : q >= size
      /\ UNCHANGED <<node, disk, used, flight, size, content, writes, truncates>>
  BY DEF Invalidate, Ends, counts
<1>2. task[t].op = "truncate" /\ owner = t
  BY <1>1 DEF TasksOK, Staged, OwnerHolds, Idle
<1>3. /\ data' \in [Pages -> PageState]
      /\ \A q \in Pages : DnodeOf(q)' = DnodeOf(q) /\ AddrOf(q)' = AddrOf(q)
      /\ NodesOK' /\ FlightsOK'
      /\ \A q \in Pages : data[q].lock # None => data[q]' = data[q]
      /\ \A q \in P : ~data[q]'.dirty /\ data[q]'.state = "absent"
      /\ \A q \in Pages \ P : data[q]' = data[q]
  <2>1. P \in SUBSET Pages
    OBVIOUS
  <2>2. \A q \in P : data[q].lock = None /\ (data[q].dirty => q >= size)
    BY DEF Idles
  <2> HIDE DEF IInv, P
  <2> QED
    BY <1>1, <2>1, <2>2, DroppingKeeps
<1>4. /\ task[t]' = Idle /\ \A u \in Tasks \ {t} : task[u]' = task[u]
      /\ Idle \in TaskState /\ task' \in [Tasks -> TaskState]
  <2>1. Idle \in TaskState
    BY DEF TaskState, Idle, Version, Junk
  <2> QED
    BY <1>1, <2>1 DEF Typed
<1>5. Typed'
  BY <1>1, <1>3, <1>4 DEF Typed
<1>6. TasksOK'
  <2>1. /\ Staged(task[t]') /\ Arrived(task[t])' /\ ~Works(task[t]')
        /\ task[t]'.op = "none"
    BY <1>4 DEF Staged, Arrived, Works, Idle
  <2>2. \A q \in Pages : data[q].lock \in Tasks \ {t} =>
          data[q]'.lock = data[q].lock /\ data[q]'.state = data[q].state
    BY <1>3
  <2> HIDE DEF P
  <2> QED
    BY <1>1, <1>2, <1>4, <2>1, <2>2, SameNodes, OthersKeep
<1>7. \A q \in P : q >= size /\ ~data[q].dirty
  BY DEF Idles
<1>8. \A q \in Pages : Pending(q)' = Pending(q)
  <2>1. \A q \in Pages : data[q]'.dirty <=> data[q].dirty
    BY <1>3, <1>7
  <2>2. ~Flushes(task[t]') /\ ~Flushes(task[t])
    BY <1>2, <1>4 DEF Flushes, Idle
  <2> HIDE DEF P
  <2> QED
    BY <1>1, <1>4, <2>1, <2>2 DEF Pending, Flushes
<1>9. BehindOK'
  <2>1. \A u \in Tasks : task[u].at \notin {"drop", "clear"}
    BY <1>1, <1>2 DEF TasksOK, OwnerHolds, Staged, Idle
  <2>2. \A q \in Pages : q >= size => ~Pending(q) /\ AddrOf(q) = 0 /\ content[q] = 0
    BY <2>1 DEF BehindOK
  <2>3. \A u \in Tasks : task[u]'.op # "truncate"
    BY <1>2, <1>4 DEF TasksOK, OwnerHolds, Idle
  <2> HIDE DEF P
  <2> QED
    BY <1>1, <1>3, <1>8, <2>2, <2>3 DEF BehindOK
<1>10. ContentsOK'
  <2>1. Seen(task[t])'
    BY <1>4 DEF Seen, Idle
  <2>2. \A q \in Pages : q < size => q \notin P /\ (q \notin exposed' => q \notin exposed)
    <3>1. size \in Nat
      BY DEF Typed
    <3> QED
      BY <1>1, <1>7, <3>1
  <2> HIDE DEF P
  <2> QED
    BY <1>1, <1>3, <1>4, <1>8, <2>1, <2>2 DEF ContentsOK, Seen, Fetches
<1>11. ExposedOK'
  BY <1>1, <1>3, <1>8 DEF ExposedOK
<1> QED
  BY <1>3, <1>5, <1>6, <1>9, <1>10, <1>11

-----------------------------------------------------------------------------
(* The results. *)

LEMMA InitHolds == Init => IInv
<1> SUFFICES ASSUME Init PROVE IInv
  OBVIOUS
<1> USE PageIOAssumption DEF Init, Idle, Absent, Hole
<1>1. Typed
  BY DEF Typed, PageState, NodeState, NodeBody, TaskState, Version, Junk, Nodes
<1>2. /\ \A n \in Nodes : Body(n) = Hole
      /\ \A p \in Pages : AddrOf(p) = 0
      /\ Ino \in Nodes
  BY DEF Body, AddrOf, DnodeOf, Nodes
<1>3. \A p \in Pages : ~Pending(p)
  BY DEF Pending, Flushes
<1>4. TasksOK
  BY DEF TasksOK, Staged, Arrived, OwnerHolds, PagesLocked, Works
<1>5. NodesOK /\ FlightsOK
  <2>1. Body(Ino).child = None
    BY <1>2
  <2>2. \A n \in Nodes : node[n].body = disk[n] /\ node[n].lock = None
    OBVIOUS
  <2>3. \A c \in Children \ used : ~node[c].cached /\ disk[c] = Hole
    BY DEF Nodes
  <2>4. FlightsOK
    BY DEF FlightsOK
  <2> QED
    BY <2>1, <2>2, <2>3, <2>4 DEF NodesOK
<1>6. BehindOK /\ ContentsOK /\ ExposedOK
  BY <1>2, <1>3 DEF BehindOK, ContentsOK, ExposedOK, Seen
<1> QED
  BY <1>1, <1>4, <1>5, <1>6 DEF IInv

LEMMA StepKeeps == IInv /\ [Next]_vars => IInv'
<1> SUFFICES ASSUME IInv, [Next]_vars PROVE IInv'
  OBVIOUS
<1>1. CASE \E t \in Tasks, p \in Pages : BeginWrite(t, p) \/ BeginRead(t, p) \/ BeginFlush(t, p)
  BY <1>1, BeginningsKeep
<1>2. CASE \E t \in Tasks : Resize(t) \/ TaskStep(t)
  BY <1>2, ResizeKeeps, LockPageKeeps, LockDirtyKeeps, AtInodeKeeps, CreateChildKeeps,
     AtChildKeeps, ReadEndKeeps, RelockKeeps, CommitKeeps, DropPageKeeps, AllDroppedKeeps,
     ClearAddrsKeeps, InvalidateKeeps DEF TaskStep
<1>3. CASE \E p \in Pages : WriteEnd(p) \/ Reclaim(p)
  BY <1>3, WriteEndKeeps, ReclaimKeeps
<1>4. CASE \E n \in Nodes : ReadNode(n) \/ FlushNode(n) \/ NodeWriteEnd(n) \/ ReclaimNode(n)
  BY <1>4, NodesKeep
<1>5. CASE UNCHANGED vars
  <2>1. UNCHANGED <<data, node, disk, used, flight, task, owner, size, content, exposed, writes, truncates>>
    BY <1>5 DEF vars, file, counts
  <2>2. Typed' /\ NodesOK' /\ FlightsOK'
    BY <2>1, SameNodes DEF IInv, Typed, NodesOK, FlightsOK
  <2>3. TasksOK'
    BY <2>1, SameNodes DEF IInv, TasksOK, Arrived, OwnerHolds, PagesLocked
  <2>4. \A p \in Pages : Pending(p)' = Pending(p)
    BY <2>1 DEF Pending
  <2> QED
    BY <2>1, <2>2, <2>3, <2>4, SameNodes DEF IInv, BehindOK, ContentsOK, ExposedOK, Seen
<1> QED
  BY <1>1, <1>2, <1>3, <1>4, <1>5 DEF Next

LEMMA Inductive == Spec => []IInv
BY InitHolds, StepKeeps, PTL DEF Spec

\* The locks of pages have one holder at a time, whatever the tasks do (data.c,
\* xio.c): the task that works on the page, or the device until end_io.
THEOREM LocksHeld == Spec => []TypeOK
<1>1. IInv => TypeOK
  <2> SUFFICES ASSUME IInv PROVE TypeOK
    OBVIOUS
  <2>1. \A n \in Nodes : node[n].lock \in {None, Device} /\ Body(n).child \in Children \cup {None}
    BY LookupTypes DEF IInv, Typed, NodeState, NodeBody
  <2>2. ASSUME NEW p \in Pages
        PROVE  /\ data[p].state \in {"absent", "empty", "uptodate"} /\ data[p].ver \in Junk .. MaxWrites
               /\ data[p].lock \in Tasks \cup {None, Device}
               /\ (flight[p] # None) = (data[p].lock = Device)
               /\ flight[p] # None => node[flight[p]].lock = Device
               /\ data[p].dirty => data[p].state = "uptodate"
    <3>1. data[p] \in PageState
      BY DEF IInv, Typed
    <3> QED
      BY <3>1 DEF IInv, FlightsOK, PageState, Version
  <2> QED
    BY <2>1, <2>2 DEF TypeOK, IInv, Typed, TasksOK, PagesLocked, Works
<1> QED
  BY <1>1, Inductive, PTL

\* What was written last is what a read finds, in every interleaving of writers,
\* readers, writeback, truncation and memory pressure (data.c:65, xio.c:36),
\* except in the pages where old data came back while a truncation was between
\* its two halves, and over which the file grew (data.c:92): those keep them
\* until they are written or dropped.
THEOREM ReadsFindLastWriteUnlessExposed == Spec => []ReadsLastWrite
<1>1. IInv => ReadsLastWrite
  <2> SUFFICES ASSUME IInv, NEW p \in Pages \ exposed, p < size
               PROVE  content[p] = IF data[p].state = "uptodate" THEN data[p].ver ELSE AddrOf(p)
    BY DEF ReadsLastWrite
  <2>1. CASE data[p].state = "uptodate"
    BY <2>1 DEF IInv, ContentsOK
  <2>2. CASE data[p].state # "uptodate"
    <3>1. ~Pending(p)
      BY <2>2 DEF Pending, IInv, FlightsOK, TasksOK, PagesLocked, Works, Flushes
    <3> QED
      BY <2>2, <3>1 DEF IInv, ContentsOK
  <2> QED
    BY <2>1, <2>2
<1> QED
  BY <1>1, Inductive, PTL

\* Behind the end of a file that was truncated there is no address and nothing to
\* write (file.c, node.c): a page that was dirty or in flight is waited for and
\* dropped before the addresses are cleared.  Of clean pages it says nothing.
THEOREM NothingToWriteBehindEnd == Spec => []NothingBehindEnd
<1>1. IInv => NothingBehindEnd
  <2> SUFFICES ASSUME IInv, \A t \in Tasks : task[t].op # "truncate", NEW p \in Pages, p >= size
               PROVE  AddrOf(p) = 0 /\ ~data[p].dirty /\ flight[p] = None
    BY DEF NothingBehindEnd
  <2>1. \A t \in Tasks : task[t].at \notin {"drop", "clear"}
    BY DEF IInv, TasksOK, Staged, Idle
  <2> QED
    BY <2>1 DEF IInv, BehindOK, Pending
<1> QED
  BY <1>1, Inductive, PTL
=============================================================================

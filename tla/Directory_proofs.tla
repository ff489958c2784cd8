-------------------------- MODULE Directory_proofs --------------------------
(* The directories stay a tree of names: types, link counts, listings and
   the implementation of Namespace. *)
EXTENDS Directory, FiniteSetTheorems, WellFoundedInduction, TLAPS

(***************************************************************************)
(* The invariant.                                                          *)
(***************************************************************************)

Typed ==
  /\ slots \in [Inos -> Seq(Slot)]
  /\ ipage \in [Inos -> Inode] /\ inode \in [Inos -> Inode]
  /\ cached \subseteq Inos /\ dirty \subseteq cached /\ opened \subseteq cached
  /\ dead \subseteq Inos

\* A clean inode is what its node page says, and the removed directories are
\* those without a link.
CacheInv ==
  /\ \A i \in cached \ dirty : inode[i] = ipage[i]
  /\ \A i \in dead : Attr(i).kind = "dir" /\ Attr(i).nlink = 0
  /\ \A i \in cached : inode[i].kind = "dir" /\ inode[i].nlink = 0 => i \in dead

\* The pages of a directory: "." and "..", then free pages and names, none
\* of them twice.
DotsOK(d) ==
  /\ Attr(d).kind = "dir" /\ Attr(d).size = Len(slots[d]) /\ Attr(d).size >= 2
  /\ slots[d][1] = [name |-> ".", ino |-> d]
  /\ slots[d][2] = [name |-> "..", ino |-> d]

EntryOK(e) ==
  \/ e = FreeSlot
  \/ e.name \in Names /\ e.ino \in Inos \ {RootIno} /\ Attr(e.ino).kind \in {"reg", "dir"}

OneEntry(d) ==
  \A k, j \in dir_pages(d) :
    slots[d][k].ino # None /\ slots[d][j].ino # None /\ slots[d][k].name = slots[d][j].name => k = j

PagesOK(d) ==
  /\ DotsOK(d) /\ OneEntry(d)
  /\ \A k \in dir_pages(d) : k >= 3 => EntryOK(slots[d][k])

\* Page k of d holds an entry for i that has a name.
ChildAt(d, k, i) == k \in dir_pages(d) /\ k >= 3 /\ slots[d][k].ino = i /\ i # None

\* Nothing has two names.
OneName ==
  \A d, e \in Directories : \A k, j \in Nat, i \in Inos :
    ChildAt(d, k, i) /\ ChildAt(e, j, i) => d = e /\ k = j

TreeInv ==
  /\ Attr(RootIno).kind = "dir"
  /\ \A d \in Directories : PagesOK(d)
  /\ OneName /\ LinksExact

(***************************************************************************)
(* Facts about states.                                                     *)
(***************************************************************************)

\* A set of naturals has a least element.
LEMMA LeastElement ==
  ASSUME NEW T \in SUBSET Nat, T # {}
  PROVE  \E m \in T : \A k \in T : m <= k
  <1>1. PICK m \in T : \A k \in T : ~(<<k, m>> \in OpToRel(<, Nat))
    BY WFMin, NatLessThanWellFounded
  <1>2. \A k \in T : (k < m) => <<k, m>> \in OpToRel(<, Nat)
    BY Zenon DEF OpToRel
  <1>3. \A k \in T : ~(k < m)
    BY <1>1, <1>2, Zenon
  <1>4. T \subseteq Nat /\ m \in T
    OBVIOUS
  <1>5. \A k \in T : m <= k
    BY <1>3, <1>4, SMT
  <1> QED
    BY <1>5, Zenon

\* First(S) is what its name says.
LEMMA FirstIsLeast ==
  ASSUME NEW S \in SUBSET Nat, S # {}
  PROVE  First(S) \in S /\ \A k \in S : First(S) <= k
  BY LeastElement DEF First

\* The attributes of an inode, wherever they are.
LEMMA AttrType ==
  ASSUME Typed, NEW i \in Inos
  PROVE  /\ Attr(i) \in Inode
         /\ Attr(i).nlink \in Nat /\ Attr(i).size \in Nat
         /\ Attr(i) = [kind |-> Attr(i).kind, nlink |-> Attr(i).nlink, size |-> Attr(i).size]
  <1>1. Attr(i) \in Inode
    BY DEF Typed, Attr
  <1> QED
    BY <1>1 DEF Inode

\* A page of a directory.
LEMMA PageFacts ==
  ASSUME Typed, NEW d \in Inos, PagesOK(d), NEW k \in dir_pages(d)
  PROVE  /\ k \in Nat /\ k \in DOMAIN slots[d] /\ slots[d][k] \in Slot
         /\ k < 3 => k \in {1, 2} /\ slots[d][k].ino = d /\ slots[d][k].name \in {".", ".."}
         /\ k >= 3 => \/ slots[d][k] = FreeSlot /\ slots[d][k].ino = None
                      \/ /\ slots[d][k].ino # None /\ slots[d][k].name \in Names
                         /\ slots[d][k].ino \in Inos \ {RootIno}
                         /\ Attr(slots[d][k].ino).kind \in {"reg", "dir"}
  <1>1. /\ Attr(d).size \in Nat /\ slots[d] \in Seq(Slot) /\ Attr(d).size = Len(slots[d])
    BY AttrType DEF Typed, PagesOK, DotsOK
  <1>2. k \in Nat /\ k \in DOMAIN slots[d] /\ slots[d][k] \in Slot /\ k >= 1
    BY <1>1 DEF dir_pages
  <1>3. CASE k < 3
    <2>1. k = 1 \/ k = 2
      BY <1>2, <1>3
    <2> QED
      BY <1>2, <1>3, <2>1 DEF PagesOK, DotsOK
  <1>4. CASE k >= 3
    <2>1. EntryOK(slots[d][k])
      BY <1>4 DEF PagesOK
    <2>2. slots[d][k].ino \in Inos => slots[d][k].ino # None
      BY DirectoryAssumption
    <2> QED
      BY <1>2, <1>4, <2>1, <2>2 DEF EntryOK, FreeSlot
  <1> QED
    BY <1>2, <1>3, <1>4

\* The children of a directory are what its pages from the third on name.
LEMMA ChildrenAre ==
  ASSUME Typed, NEW d \in Inos, PagesOK(d)
  PROVE  /\ \A i : i \in Children(d) <=> \E k \in Nat : ChildAt(d, k, i)
         /\ Children(d) \subseteq Inos \ {RootIno}
         /\ \A i \in Children(d) : Attr(i).kind \in {"reg", "dir"}
  <1>1. ASSUME NEW i, i \in Children(d) PROVE \E k \in Nat : ChildAt(d, k, i)
    <2>1. PICK k \in dir_pages(d) : slots[d][k].ino # None /\ slots[d][k].name \in Names /\ slots[d][k].ino = i
      BY <1>1 DEF Children, Entries
    <2>2. k >= 3 /\ k \in Nat
      BY <2>1, PageFacts, DirectoryAssumption
    <2> QED
      BY <2>1, <2>2 DEF ChildAt
  <1>2. ASSUME NEW i, NEW k \in Nat, ChildAt(d, k, i) 
        PROVE  /\ i \in Children(d) /\ i \in Inos \ {RootIno} /\ Attr(i).kind \in {"reg", "dir"}
    <2>1. /\ k \in dir_pages(d) /\ k >= 3 /\ slots[d][k].ino = i /\ i # None
      BY <1>2 DEF ChildAt
    <2>2. slots[d][k].name \in Names /\ i \in Inos \ {RootIno} /\ Attr(i).kind \in {"reg", "dir"}
      BY <2>1, PageFacts DEF FreeSlot
    <2>3. slots[d][k] \in Entries(d)
      BY <2>1 DEF Entries
    <2> QED
      BY <2>1, <2>2, <2>3 DEF Children
  <1> QED
    BY <1>1, <1>2

\* What find_entry finds is the one page with the name.
LEMMA EntryFound ==
  ASSUME Typed, NEW d \in Inos, PagesOK(d), NEW n \in Names
  PROVE  /\ \A k \in find_entry(d, n) :
              /\ find_entry(d, n) = {k} /\ k \in dir_pages(d) /\ k >= 3
              /\ slots[d][k].ino # None /\ slots[d][k].name = n
              /\ Meaning(d, n) = slots[d][k].ino /\ ChildAt(d, k, slots[d][k].ino)
         /\ find_entry(d, n) = {} =>
              /\ Meaning(d, n) = None
              /\ \A k \in dir_pages(d) : slots[d][k].ino = None \/ slots[d][k].name # n
         /\ \A k \in dir_pages(d) :
              slots[d][k].ino # None /\ slots[d][k].name = n => find_entry(d, n) = {k}
  <1> DEFINE found == {k \in dir_pages(d) : slots[d][k].ino # None /\ slots[d][k].name = n}
  <1>1. dir_pages(d) \subseteq Nat
    BY AttrType DEF dir_pages
  <1>2. \A k, j \in found : k = j
    BY DEF PagesOK, OneEntry
  <1>3. ASSUME NEW k \in found PROVE found = {k} /\ First(found) = k
    <2>1. found = {k}
      BY <1>2, <1>3
    <2>2. found \in SUBSET Nat
      BY <1>1
    <2> QED
      BY <2>1, <2>2, FirstIsLeast
  <1>4. find_entry(d, n) = IF found = {} THEN {} ELSE {First(found)}
    BY DEF find_entry
  <1>5. ASSUME NEW k \in found
        PROVE  /\ find_entry(d, n) = {k} /\ k \in dir_pages(d) /\ k >= 3
               /\ slots[d][k].ino # None /\ slots[d][k].name = n
               /\ Meaning(d, n) = slots[d][k].ino /\ ChildAt(d, k, slots[d][k].ino)
    <2>1. find_entry(d, n) = {k}
      BY <1>3, <1>4
    <2>2. k >= 3
      BY <1>5, PageFacts, DirectoryAssumption
    <2>3. First({k}) = k
      BY <1>3
    <2>4. Meaning(d, n) = slots[d][k].ino
      BY <2>1, <2>3 DEF Meaning
    <2> QED
      BY <1>5, <2>1, <2>2, <2>4 DEF ChildAt
  <1>6. \A k \in find_entry(d, n) : k \in found
    BY <1>3, <1>4
  <1>7. find_entry(d, n) = {} => found = {} /\ Meaning(d, n) = None
    BY <1>4 DEF Meaning
  <1> QED
    BY <1>5, <1>6, <1>7

\* i is the root or has a name in some directory.
Named(i) == i = RootIno \/ \E d \in Directories : i \in Children(d)

\* The subdirectories of i, which its link count counts.
Sub(i) == Children(i) \cap Directories

\* So many that they can be counted.
LEMMA SubFinite ==
  ASSUME NEW i
  PROVE  IsFiniteSet(Sub(i)) /\ Cardinality(Sub(i)) \in Nat
  <1>1. Sub(i) \subseteq Inos
    BY DEF Sub, Directories
  <1> QED
    BY <1>1, DirectoryAssumption, FS_Subset, FS_CardinalityType

\* What LinksExact says of an inode with and without a name: a file has one
\* link, a directory at least two, so the named directories are Directories.
LEMMA NamedFacts ==
  ASSUME Typed, TreeInv, NEW i \in Inos
  PROVE  /\ RootIno \in Directories
         /\ ~Named(i) => Attr(i).nlink = 0
         /\ Named(i) /\ Attr(i).kind = "reg" => Attr(i).nlink = 1
         /\ Named(i) /\ Attr(i).kind # "reg" =>
              /\ Attr(i).kind = "dir" /\ i \in Directories
              /\ Attr(i).nlink = 2 + Cardinality(Sub(i))
         /\ Attr(i).kind = "none" => ~Named(i)
         /\ i \in Directories => Named(i)
  <1>1. \A j \in Inos : Attr(j).nlink = IF ~Named(j) THEN 0
                                      ELSE IF Attr(j).kind = "reg" THEN 1
                                      ELSE 2 + Cardinality(Sub(j))
    BY DEF TreeInv, LinksExact, Named, Sub
  <1>2. ASSUME NEW j \in Inos, Named(j), Attr(j).kind # "reg"
        PROVE  Attr(j).kind = "dir" /\ j \in Directories
    <2>1. Attr(j).kind = "dir"
      <3>1. CASE j = RootIno
        BY <3>1 DEF TreeInv
      <3>2. CASE \E d \in Directories : j \in Children(d)
        BY <1>2, <3>2, ChildrenAre DEF TreeInv, Directories
      <3> QED
        BY <1>2, <3>1, <3>2 DEF Named
    <2>2. Attr(j).nlink > 0
      BY <1>1, <1>2, SubFinite
    <2> QED
      BY <2>1, <2>2 DEF Directories
  <1>3. RootIno \in Inos /\ Named(RootIno) /\ Attr(RootIno).kind = "dir"
    BY DirectoryAssumption DEF Named, TreeInv
  <1>4. RootIno \in Directories
    BY <1>2, <1>3
  <1>5. Attr(i).kind = "none" => ~Named(i)
    BY <1>2
  <1>6. i \in Directories => Named(i)
    <2> SUFFICES ASSUME i \in Directories, ~Named(i) PROVE FALSE
      OBVIOUS
    <2> QED
      BY <1>1 DEF Directories
  <1> QED
    BY <1>1, <1>2, <1>4, <1>5, <1>6

(***************************************************************************)
(* What steps leave alone.                                                 *)
(***************************************************************************)

\* An inode in use keeps its kind.
KindsKeep == \A i \in Inos : Attr(i).kind \in {"reg", "dir"} => Attr(i)'.kind = Attr(i).kind

\* A directory whose size and pages are not touched.
LEMMA PagesKeep ==
  ASSUME Typed, NEW d \in Inos, PagesOK(d), KindsKeep,
         Attr(d)'.size = Attr(d).size, slots'[d] = slots[d]
  PROVE  /\ PagesOK(d)' /\ dir_pages(d)' = dir_pages(d)
         /\ \A k \in Nat : \A i : ChildAt(d, k, i)' <=> ChildAt(d, k, i)
         /\ Children(d)' = Children(d) /\ NamesIn(d)' = NamesIn(d)
         /\ \A n \in Names : Meaning(d, n)' = Meaning(d, n)
  <1>1. dir_pages(d)' = dir_pages(d)
    BY DEF dir_pages
  <1>2. DotsOK(d)'
    BY DEF PagesOK, DotsOK, KindsKeep
  <1>3. OneEntry(d)'
    BY <1>1 DEF PagesOK, OneEntry
  <1>4. ASSUME NEW k \in dir_pages(d), k >= 3 PROVE EntryOK(slots[d][k])'
    <2>1. EntryOK(slots[d][k])
      BY <1>4 DEF PagesOK
    <2> QED
      BY <2>1 DEF EntryOK, KindsKeep
  <1>5. PagesOK(d)'
    BY <1>1, <1>2, <1>3, <1>4 DEF PagesOK
  <1>6. \A k \in Nat : \A i : ChildAt(d, k, i)' <=> ChildAt(d, k, i)
    BY <1>1 DEF ChildAt
  <1>7. Children(d)' = Children(d)
    BY <1>1 DEF Children, Entries
  <1>8. \A n \in Names : find_entry(d, n)' = find_entry(d, n)
    BY <1>1 DEF find_entry
  <1>9. \A n \in Names : Meaning(d, n)' = Meaning(d, n)
    BY <1>8 DEF Meaning
  <1>10. NamesIn(d)' = NamesIn(d)
    BY <1>1 DEF NamesIn
  <1> QED
    BY <1>1, <1>5, <1>6, <1>7, <1>9, <1>10

\* A step that changes no attribute and no page of a directory: reading,
\* writing back, evicting, mounting.
LEMMA TreeKeeps ==
  ASSUME Typed, TreeInv, \A i \in Inos : Attr(i)' = Attr(i),
         \A d \in Directories : slots'[d] = slots[d]
  PROVE  /\ TreeInv' /\ Directories' = Directories
         /\ \A d \in Directories, n \in Names : Meaning(d, n)' = Meaning(d, n)
  <1>1. Directories' = Directories /\ Directories \subseteq Inos
    BY DEF Directories
  <1>2. KindsKeep
    BY DEF KindsKeep
  <1>3. ASSUME NEW d \in Directories
        PROVE  /\ PagesOK(d)' /\ Children(d)' = Children(d)
               /\ \A k \in Nat : \A i : ChildAt(d, k, i)' <=> ChildAt(d, k, i)
               /\ \A n \in Names : Meaning(d, n)' = Meaning(d, n)
    <2>1. d \in Inos /\ PagesOK(d) /\ Attr(d)'.size = Attr(d).size
      BY <1>1 DEF TreeInv
    <2> QED
      BY <1>2, <2>1, PagesKeep
  <1>4. OneName'
    <2> SUFFICES ASSUME NEW d \in Directories, NEW e \in Directories, NEW k \in Nat, NEW j \in Nat,
                        NEW i \in Inos, ChildAt(d, k, i)', ChildAt(e, j, i)'
                 PROVE  d = e /\ k = j
      BY <1>1 DEF OneName
    <2>1. ChildAt(d, k, i) /\ ChildAt(e, j, i)
      BY <1>3
    <2> QED
      BY <2>1 DEF TreeInv, OneName
  <1>5. LinksExact'
    <2> SUFFICES ASSUME NEW i \in Inos
                 PROVE  Attr(i)'.nlink = IF ~(i = RootIno \/ \E d \in Directories : i \in Children(d)') THEN 0
                                         ELSE IF Attr(i)'.kind = "reg" THEN 1
                                         ELSE 2 + Cardinality(Children(i)' \cap Directories)
      BY <1>1 DEF LinksExact
    <2>1. Attr(i).nlink = IF ~(i = RootIno \/ \E d \in Directories : i \in Children(d)) THEN 0
                          ELSE IF Attr(i).kind = "reg" THEN 1
                          ELSE 2 + Cardinality(Children(i) \cap Directories)
      BY DEF TreeInv, LinksExact
    <2>2. Attr(i)' = Attr(i)
      OBVIOUS
    <2>3. CASE i \in Directories
      BY <1>3, <2>1, <2>2, <2>3
    <2>4. CASE i \notin Directories
      <3>1. ~Named(i) \/ Attr(i).kind = "reg"
        BY <2>4, NamedFacts
      <3> QED
        BY <1>3, <2>1, <2>2, <3>1 DEF Named
    <2> QED
      BY <2>3, <2>4
  <1>6. Attr(RootIno)'.kind = "dir"
    BY DirectoryAssumption DEF TreeInv
  <1> QED
    BY <1>1, <1>3, <1>4, <1>5, <1>6 DEF TreeInv

(***************************************************************************)
(* A name is added.                                                        *)
(***************************************************************************)

\* The effect of mknod and mkdir on attributes and pages: the entry goes to
\* page t of d, which was free or comes behind the last one.
AddStep(d, n, i, t) ==
  /\ d \in Directories /\ n \in Names /\ i \in Inos
  /\ Attr(i).kind = "none" /\ find_entry(d, n) = {}
  /\ t \in Nat /\ t >= 3
  /\ \/ t <= Attr(d).size /\ slots[d][t].ino = None /\ Attr(d)'.size = Attr(d).size
     \/ t = Attr(d).size + 1 /\ Attr(d)'.size = t
  /\ Len(slots'[d]) = Attr(d)'.size
  /\ slots'[d][t] = [name |-> n, ino |-> i]
  /\ \A k \in dir_pages(d) : k # t => slots'[d][k] = slots[d][k]
  /\ Attr(d)'.kind = Attr(d).kind
  /\ \A j \in Inos \ {d, i} : Attr(j)' = Attr(j) /\ slots'[j] = slots[j]
  /\ \/ /\ Attr(i)' = [kind |-> "reg", nlink |-> 1, size |-> 0]
        /\ Attr(d)'.nlink = Attr(d).nlink
     \/ /\ Attr(i)' = [kind |-> "dir", nlink |-> 2, size |-> 2]
        /\ Attr(d)'.nlink = Attr(d).nlink + 1
        /\ slots'[i] = Dots(i)

\* The first consequences: which directories there are, and what is in them.
LEMMA AddEntries ==
  ASSUME Typed, TreeInv, NEW d, NEW n, NEW i, NEW t, AddStep(d, n, i, t)
  PROVE  /\ d # i /\ d \in Inos /\ i \notin Directories /\ KindsKeep /\ i # RootIno
         /\ ~Named(i)
         /\ Directories' = IF Attr(i)'.kind = "dir" THEN Directories \cup {i} ELSE Directories
         /\ dir_pages(d)' = dir_pages(d) \cup {t}
         /\ \A k \in Nat, x \in Inos : ChildAt(d, k, x)' <=> ChildAt(d, k, x) \/ (k = t /\ x = i)
         /\ PagesOK(d)'
         /\ Children(d)' = Children(d) \cup {i}
  <1>1. /\ d \in Inos /\ i \in Inos /\ d # i /\ Attr(d).kind = "dir" /\ Attr(d).nlink > 0
        /\ Attr(d).nlink \in Nat /\ Attr(d).size \in Nat /\ PagesOK(d)
    BY AttrType DEF AddStep, Directories, TreeInv
  <1>2. i \notin Directories /\ ~Named(i) /\ i # RootIno
    BY <1>1, NamedFacts DEF AddStep, Directories, TreeInv
  <1>3. KindsKeep
    BY <1>1 DEF KindsKeep, AddStep
  <1>4. \A j \in Inos \ {d, i} : j \in Directories' <=> j \in Directories
    BY DEF AddStep, Directories
  <1>5. d \in Directories' /\ d \in Directories
    BY <1>1 DEF AddStep, Directories
  <1>6. i \in Directories' <=> Attr(i)'.kind = "dir"
    BY <1>1 DEF AddStep, Directories
  <1>7. Directories' = IF Attr(i)'.kind = "dir" THEN Directories \cup {i} ELSE Directories
    <2>1. Directories \subseteq Inos /\ Directories' \subseteq Inos
      BY DEF Directories
    <2>2. \A j \in Inos : j \in Directories' <=> j \in Directories \/ (j = i /\ Attr(i)'.kind = "dir")
      BY <1>2, <1>4, <1>5, <1>6
    <2>3. CASE Attr(i)'.kind = "dir"
      <3>1. Directories' = Directories \cup {i}
        BY <1>1, <2>1, <2>2, <2>3
      <3> QED
        BY <2>3, <3>1
    <2>4. CASE Attr(i)'.kind # "dir"
      <3>1. Directories' = Directories
        BY <2>1, <2>2, <2>4
      <3> QED
        BY <2>4, <3>1
    <2> QED
      BY <2>3, <2>4
  <1>8. dir_pages(d)' = dir_pages(d) \cup {t}
    BY <1>1 DEF AddStep, dir_pages
  <1>9. /\ dir_pages(d) \subseteq Nat
        /\ \A k \in dir_pages(d) : k = t => slots[d][k].ino = None
        /\ \A k \in dir_pages(d)' : k # t => k \in dir_pages(d) /\ slots'[d][k] = slots[d][k]
        /\ slots'[d][t] = [name |-> n, ino |-> i] /\ t >= 3
    BY <1>1, <1>8 DEF AddStep, dir_pages
  <1>10. /\ slots'[d][t].ino = i /\ slots'[d][t].name = n /\ i # None
    BY <1>1, <1>9, DirectoryAssumption
  <1>11. \A k \in Nat, x \in Inos : ChildAt(d, k, x)' <=> ChildAt(d, k, x) \/ (k = t /\ x = i)
    BY <1>8, <1>9, <1>10 DEF ChildAt
  <1>12. DotsOK(d)'
    <2>1. 1 \in dir_pages(d) /\ 2 \in dir_pages(d)
      BY <1>1 DEF dir_pages, PagesOK, DotsOK
    <2>2. slots'[d][1] = slots[d][1] /\ slots'[d][2] = slots[d][2]
      BY <1>9, <2>1 DEF AddStep
    <2>3. Attr(d)'.size = Len(slots'[d]) /\ Attr(d)'.size >= 2 /\ Attr(d)'.kind = "dir"
      BY <1>1 DEF AddStep, PagesOK, DotsOK
    <2> QED
      BY <1>1, <2>2, <2>3 DEF PagesOK, DotsOK
  <1>13. OneEntry(d)'
    <2>1. ASSUME NEW k \in dir_pages(d), slots[d][k].ino # None PROVE slots[d][k].name # n
      BY <1>1, <2>1, EntryFound DEF AddStep
    <2>2. ASSUME NEW k \in dir_pages(d)', NEW j \in dir_pages(d)',
                 slots'[d][k].ino # None, slots'[d][j].ino # None,
                 slots'[d][k].name = slots'[d][j].name
          PROVE  k = j
      <3>1. CASE k = t /\ j # t
        BY <1>9, <1>10, <2>1, <2>2, <3>1
      <3>2. CASE k # t /\ j = t
        BY <1>9, <1>10, <2>1, <2>2, <3>2
      <3>3. CASE k # t /\ j # t
        BY <1>1, <1>9, <2>2, <3>3 DEF PagesOK, OneEntry
      <3> QED
        BY <3>1, <3>2, <3>3
    <2> QED
      BY <2>2 DEF OneEntry
  <1>14. ASSUME NEW k \in dir_pages(d)', k >= 3 PROVE EntryOK(slots[d][k])'
    <2>1. CASE k = t
      BY <1>1, <1>2, <1>10, <2>1 DEF EntryOK, AddStep
    <2>2. CASE k # t
      <3>1. EntryOK(slots[d][k]) /\ slots'[d][k] = slots[d][k]
        BY <1>1, <1>9, <1>14, <2>2 DEF PagesOK
      <3> QED
        BY <1>3, <3>1 DEF EntryOK, KindsKeep
    <2> QED
      BY <2>1, <2>2
  <1>15. PagesOK(d)'
    BY <1>12, <1>13, <1>14 DEF PagesOK
  <1>16. Entries(d)' = Entries(d) \cup {[name |-> n, ino |-> i]}
    <2>1. ASSUME NEW e \in Entries(d)' PROVE e \in Entries(d) \cup {[name |-> n, ino |-> i]}
      BY <1>9, <2>1 DEF Entries
    <2>2. ASSUME NEW e \in Entries(d) PROVE e \in Entries(d)'
      <3>1. PICK k \in dir_pages(d) : slots[d][k].ino # None /\ e = slots[d][k]
        BY <2>2 DEF Entries
      <3>2. k # t /\ k \in dir_pages(d)' /\ slots'[d][k] = slots[d][k]
        BY <1>8, <1>9, <3>1
      <3> QED
        BY <3>1, <3>2 DEF Entries
    <2>3. [name |-> n, ino |-> i] \in Entries(d)'
      BY <1>8, <1>9, <1>10 DEF Entries
    <2> QED
      BY <2>1, <2>2, <2>3
  <1>17. Children(d)' = Children(d) \cup {i}
    BY <1>10, <1>16 DEF Children, AddStep
  <1> QED
    BY <1>1, <1>2, <1>3, <1>7, <1>8, <1>11, <1>15, <1>17

\* The other directories, and a new one, which has its dots only.
LEMMA AddOthers ==
  ASSUME Typed, TreeInv, NEW d, NEW n, NEW i, NEW t, AddStep(d, n, i, t)
  PROVE  /\ \A e \in Directories \ {d} :
              /\ PagesOK(e)' /\ Children(e)' = Children(e)
              /\ \A k \in Nat, x \in Inos : ChildAt(e, k, x)' <=> ChildAt(e, k, x)
              /\ \A m \in Names : Meaning(e, m)' = Meaning(e, m)
         /\ Attr(i)'.kind = "dir" =>
              /\ PagesOK(i)' /\ Children(i)' = {}
              /\ \A k \in Nat, x \in Inos : ~ChildAt(i, k, x)'
              /\ \A m \in Names : Meaning(i, m)' = None
  <1>1. /\ d \in Inos /\ i \in Inos /\ d # i /\ i \notin Directories /\ KindsKeep
        /\ Directories \subseteq Inos
    BY AddEntries DEF AddStep, Directories
  <1>2. ASSUME NEW e \in Directories \ {d}
        PROVE  /\ PagesOK(e)' /\ Children(e)' = Children(e)
               /\ \A k \in Nat, x \in Inos : ChildAt(e, k, x)' <=> ChildAt(e, k, x)
               /\ \A m \in Names : Meaning(e, m)' = Meaning(e, m)
    <2>1. e \in Inos /\ PagesOK(e) /\ Attr(e)' = Attr(e) /\ slots'[e] = slots[e]
      BY <1>1 DEF AddStep, TreeInv
    <2> QED
      BY <1>1, <2>1, PagesKeep
  <1>3. ASSUME Attr(i)'.kind = "dir"
        PROVE  /\ PagesOK(i)' /\ Children(i)' = {}
               /\ \A k \in Nat, x \in Inos : ~ChildAt(i, k, x)'
               /\ \A m \in Names : Meaning(i, m)' = None
    <2>1. /\ Attr(i)' = [kind |-> "dir", nlink |-> 2, size |-> 2]
          /\ slots'[i] = <<[name |-> ".", ino |-> i], [name |-> "..", ino |-> i]>>
      BY <1>3 DEF AddStep, Dots
    <2>2. dir_pages(i)' = {1, 2}
      BY <2>1 DEF dir_pages
    <2>3. /\ slots'[i][1] = [name |-> ".", ino |-> i] /\ slots'[i][2] = [name |-> "..", ino |-> i]
          /\ Len(slots'[i]) = 2
      BY <2>1
    <2>4. DotsOK(i)'
      BY <2>1, <2>3 DEF DotsOK
    <2>5. OneEntry(i)'
      BY <2>2, <2>3 DEF OneEntry
    <2>6. PagesOK(i)'
      BY <2>2, <2>4, <2>5 DEF PagesOK
    <2>7. \A k \in {1, 2} : slots'[i][k].name \notin Names
      BY <2>3, DirectoryAssumption
    <2>8. Children(i)' = {}
      BY <2>2, <2>7 DEF Children, Entries
    <2>9. \A k \in Nat, x \in Inos : ~ChildAt(i, k, x)'
      BY <2>2 DEF ChildAt
    <2>10. \A m \in Names : find_entry(i, m)' = {}
      BY <2>2, <2>7 DEF find_entry
    <2> QED
      BY <2>6, <2>8, <2>9, <2>10 DEF Meaning
  <1> QED
    BY <1>2, <1>3

\* The tree has one name more.
LEMMA AddMeaning ==
  ASSUME Typed, TreeInv, NEW d, NEW n, NEW i, NEW t, AddStep(d, n, i, t)
  PROVE  /\ Meaning(d, n) = None /\ Meaning(d, n)' = i
         /\ \A m \in Names \ {n} : Meaning(d, m)' = Meaning(d, m)
  <1>1. /\ d \in Inos /\ PagesOK(d) /\ n \in Names /\ find_entry(d, n) = {}
        /\ dir_pages(d) \subseteq Nat /\ t \in Nat
        /\ dir_pages(d)' = dir_pages(d) \cup {t}
    <2>1. d \in Inos /\ dir_pages(d)' = dir_pages(d) \cup {t}
      BY AddEntries
    <2>2. d \in Directories /\ n \in Names /\ find_entry(d, n) = {} /\ t \in Nat
      BY DEF AddStep
    <2>3. PagesOK(d)
      BY <2>2 DEF TreeInv
    <2>4. dir_pages(d) \subseteq Nat
      BY <2>1, AttrType DEF dir_pages
    <2> QED
      BY <2>1, <2>2, <2>3, <2>4
  <1>2. /\ \A k \in dir_pages(d) : k = t => slots[d][k].ino = None
        /\ \A k \in dir_pages(d) : k # t => slots'[d][k] = slots[d][k]
        /\ slots'[d][t].ino = i /\ slots'[d][t].name = n /\ i # None
    BY <1>1, DirectoryAssumption, AttrType DEF AddStep, dir_pages
  <1>3. \A k \in dir_pages(d) : slots[d][k].ino = None \/ slots[d][k].name # n
    BY <1>1, EntryFound
  <1>4. Meaning(d, n) = None
    BY <1>1, EntryFound
  <1>5. Meaning(d, n)' = i
    <2>1. {k \in dir_pages(d)' : slots'[d][k].ino # None /\ slots'[d][k].name = n} = {t}
      BY <1>1, <1>2, <1>3
    <2>2. First({t}) = t
      BY <1>1, FirstIsLeast
    <2>3. find_entry(d, n)' = {t}
      BY <2>1, <2>2 DEF find_entry
    <2> QED
      BY <1>2, <2>2, <2>3 DEF Meaning
  <1>6. ASSUME NEW m \in Names \ {n} PROVE Meaning(d, m)' = Meaning(d, m)
    <2>1. {k \in dir_pages(d)' : slots'[d][k].ino # None /\ slots'[d][k].name = m}
            = {k \in dir_pages(d) : slots[d][k].ino # None /\ slots[d][k].name = m}
      BY <1>1, <1>2
    <2>2. find_entry(d, m)' = find_entry(d, m)
      BY <2>1 DEF find_entry
    <2>3. find_entry(d, m) # {} => First(find_entry(d, m)) \in dir_pages(d) /\ slots[d][First(find_entry(d, m))].ino # None
      <3>1. ASSUME NEW k \in find_entry(d, m)
            PROVE  First(find_entry(d, m)) = k /\ k \in dir_pages(d) /\ slots[d][k].ino # None
        <4>1. find_entry(d, m) = {k} /\ k \in dir_pages(d) /\ slots[d][k].ino # None
          BY <1>1, <3>1, EntryFound
        <4> QED
          BY <1>1, <4>1, FirstIsLeast
      <3> QED
        BY <3>1
    <2> QED
      BY <1>2, <2>2, <2>3 DEF Meaning
  <1> QED
    BY <1>4, <1>5, <1>6

\* A step that adds a name keeps the tree and the link counts.
LEMMA AddTree ==
  ASSUME Typed, TreeInv, NEW d, NEW n, NEW i, NEW t, AddStep(d, n, i, t)
  PROVE  TreeInv'
  <1>1. /\ d # i /\ d \in Inos /\ i \in Inos /\ i \notin Directories /\ i # RootIno /\ ~Named(i)
        /\ d \in Directories /\ Directories \subseteq Inos
        /\ Directories' = IF Attr(i)'.kind = "dir" THEN Directories \cup {i} ELSE Directories
        /\ \A k \in Nat, x \in Inos : ChildAt(d, k, x)' <=> ChildAt(d, k, x) \/ (k = t /\ x = i)
        /\ PagesOK(d)' /\ Children(d)' = Children(d) \cup {i}
    BY AddEntries DEF AddStep, Directories
  <1>2. \A e \in Directories : i \notin Children(e)
    BY <1>1 DEF Named
  <1>3. \A e \in Directories, k \in Nat : ~ChildAt(e, k, i)
    BY <1>1, <1>2, ChildrenAre DEF TreeInv
  <1>4. \A e \in Directories' : PagesOK(e)'
    BY <1>1, AddOthers
  <1>5. Attr(RootIno)'.kind = "dir"
    BY <1>1, AddEntries, DirectoryAssumption DEF KindsKeep, TreeInv
  <1>6. OneName'
    <2> SUFFICES ASSUME NEW e \in Directories', NEW f \in Directories', NEW k \in Nat, NEW j \in Nat,
                        NEW x \in Inos, ChildAt(e, k, x)', ChildAt(f, j, x)'
                 PROVE  e = f /\ k = j
      BY DEF OneName
    <2>1. /\ e \in Directories /\ (ChildAt(e, k, x) \/ (e = d /\ k = t /\ x = i))
          /\ f \in Directories /\ (ChildAt(f, j, x) \/ (f = d /\ j = t /\ x = i))
      BY <1>1, AddOthers
    <2>2. CASE x = i
      BY <1>3, <2>1, <2>2
    <2>3. CASE x # i
      BY <2>1, <2>3 DEF TreeInv, OneName
    <2> QED
      BY <2>2, <2>3
  <1>7. \A x \in Inos : Named(x)' <=> Named(x) \/ x = i
    BY <1>1, AddOthers DEF Named
  <1>8. ASSUME NEW x \in Inos
        PROVE  Attr(x)'.nlink = IF ~Named(x)' THEN 0
                                ELSE IF Attr(x)'.kind = "reg" THEN 1
                                ELSE 2 + Cardinality(Sub(x)')
    <2>1. CASE x = i
      <3>1. Named(x)'
        BY <1>7, <2>1
      <3>2. CASE Attr(i)'.kind = "reg"
        BY <2>1, <3>1, <3>2 DEF AddStep
      <3>3. CASE Attr(i)'.kind = "dir"
        <4>1. Sub(i)' = {} /\ Attr(i)'.nlink = 2
          BY <3>3, AddOthers DEF Sub, AddStep
        <4> QED
          BY <2>1, <3>1, <3>3, <4>1, FS_EmptySet
      <3> QED
        BY <3>2, <3>3 DEF AddStep
    <2>2. CASE x = d
      <3>1. /\ Named(d) /\ Attr(d).kind = "dir" /\ Attr(d).nlink = 2 + Cardinality(Sub(d))
            /\ Attr(d)'.kind = "dir"
        BY <1>1, NamedFacts DEF AddStep, Directories
      <3>2. CASE Attr(i)'.kind = "reg"
        <4>1. Sub(d)' = Sub(d)
          BY <1>1, <3>2 DEF Sub
        <4>2. Attr(d)'.nlink = Attr(d).nlink
          BY <3>2 DEF AddStep
        <4> QED
          BY <1>1, <1>7, <2>2, <3>1, <4>1, <4>2
      <3>3. CASE Attr(i)'.kind = "dir"
        <4>1. Sub(d)' = Sub(d) \cup {i} /\ i \notin Sub(d)
          BY <1>1, <1>2, <3>3 DEF Sub
        <4>2. Attr(d)'.nlink = Attr(d).nlink + 1
          BY <3>3 DEF AddStep
        <4>3. Cardinality(Sub(d)') = Cardinality(Sub(d)) + 1
          BY <4>1, SubFinite, FS_AddElement
        <4> QED
          BY <1>1, <1>7, <2>2, <3>1, <4>2, <4>3, SubFinite
      <3> QED
        BY <3>2, <3>3 DEF AddStep
    <2>3. CASE x # i /\ x # d
      <3>1. Attr(x)' = Attr(x) /\ (Named(x)' <=> Named(x))
        BY <1>7, <2>3 DEF AddStep
      <3>2. CASE Named(x) /\ Attr(x).kind # "reg"
        <4>1. x \in Directories /\ Attr(x).nlink = 2 + Cardinality(Sub(x))
          BY <3>2, NamedFacts
        <4>2. Children(x)' = Children(x) /\ i \notin Children(x)
          BY <1>2, <2>3, <4>1, AddOthers
        <4>3. Sub(x)' = Sub(x)
          BY <1>1, <4>2 DEF Sub
        <4> QED
          BY <3>1, <3>2, <4>1, <4>3
      <3> QED
        BY <3>1, <3>2, NamedFacts
    <2> QED
      BY <2>1, <2>2, <2>3
  <1>9. LinksExact'
    BY <1>8 DEF LinksExact, Named, Sub
  <1> QED
    BY <1>4, <1>5, <1>6, <1>9 DEF TreeInv

(***************************************************************************)
(* A name is removed.                                                      *)
(***************************************************************************)

\* The effect of unlink and rmdir on attributes and pages.
RemoveStep(d, n, i, k) ==
  /\ d \in Directories /\ n \in Names /\ i \in Inos /\ i # d
  /\ k \in find_entry(d, n) /\ slots[d][k].ino = i
  /\ slots'[d] = WithoutEntry(d, k)
  /\ \A j \in Inos \ {d} : slots'[j] = slots[j]
  /\ Attr(d)'.size = Attr(d).size /\ Attr(d)'.kind = Attr(d).kind
  /\ Attr(i)'.size = Attr(i).size /\ Attr(i)'.kind = Attr(i).kind /\ Attr(i)'.nlink = 0
  /\ \A j \in Inos \ {d, i} : Attr(j)' = Attr(j)
  /\ \/ Attr(i).kind = "reg" /\ Attr(d)'.nlink = Attr(d).nlink
     \/ Attr(i).kind = "dir" /\ Children(i) = {} /\ Attr(d)'.nlink = Attr(d).nlink - 1

\* What d holds afterwards.
LEMMA RemoveEntries ==
  ASSUME Typed, TreeInv, NEW d, NEW n, NEW i, NEW k, RemoveStep(d, n, i, k)
  PROVE  /\ d \in Inos /\ i # RootIno /\ KindsKeep /\ i \in Children(d)
         /\ k \in Nat /\ k \in dir_pages(d) /\ ChildAt(d, k, i) /\ slots[d][k].name = n
         /\ dir_pages(d)' = dir_pages(d)
         /\ slots'[d][k] = FreeSlot
         /\ \A j \in dir_pages(d) : j # k => slots'[d][j] = slots[d][j]
         /\ \A j \in Nat, x \in Inos : ChildAt(d, j, x)' <=> ChildAt(d, j, x) /\ j # k
         /\ PagesOK(d)'
         /\ Children(d)' = Children(d) \ {i}
  <1>1. /\ d \in Inos /\ d \in Directories /\ PagesOK(d) /\ n \in Names /\ i \in Inos /\ i # None
        /\ k \in find_entry(d, n) /\ slots[d][k].ino = i /\ slots'[d] = WithoutEntry(d, k)
    BY DirectoryAssumption DEF RemoveStep, Directories, TreeInv
  <1>2. k \in dir_pages(d) /\ k >= 3 /\ slots[d][k].name = n /\ ChildAt(d, k, i)
    BY <1>1, EntryFound
  <1>3. KindsKeep
    BY DEF KindsKeep, RemoveStep
  <1>4. dir_pages(d)' = dir_pages(d)
    BY DEF dir_pages, RemoveStep
  <1>5. /\ Attr(d).size \in Nat /\ slots[d] \in Seq(Slot) /\ Len(slots[d]) = Attr(d).size
        /\ dir_pages(d) = 1 .. Len(slots[d]) /\ Attr(d).size >= 2
    BY <1>1, AttrType DEF Typed, PagesOK, DotsOK, dir_pages
  <1>6. /\ slots'[d][k] = FreeSlot /\ Len(slots'[d]) = Len(slots[d])
        /\ \A j \in dir_pages(d) : j # k => slots'[d][j] = slots[d][j]
    BY <1>1, <1>2, <1>5 DEF WithoutEntry
  <1>7. \A j \in Nat, x \in Inos : ChildAt(d, j, x)' <=> ChildAt(d, j, x) /\ j # k
    <2>1. slots'[d][k].ino = None
      BY <1>6 DEF FreeSlot
    <2> QED
      BY <1>4, <1>6, <2>1 DEF ChildAt
  <1>8. DotsOK(d)'
    <2>1. 1 \in dir_pages(d) /\ 2 \in dir_pages(d) /\ k # 1 /\ k # 2
      BY <1>2, <1>5
    <2>2. slots'[d][1] = slots[d][1] /\ slots'[d][2] = slots[d][2]
      BY <1>6, <2>1
    <2>3. Attr(d)'.size = Len(slots'[d]) /\ Attr(d)'.size >= 2 /\ Attr(d)'.kind = "dir"
      BY <1>1, <1>5, <1>6 DEF RemoveStep, PagesOK, DotsOK
    <2> QED
      BY <1>1, <2>2, <2>3 DEF PagesOK, DotsOK
  <1>9. OneEntry(d)'
    <2> SUFFICES ASSUME NEW a \in dir_pages(d), NEW b \in dir_pages(d), slots'[d][a].ino # None,
                        slots'[d][b].ino # None, slots'[d][a].name = slots'[d][b].name
                 PROVE  a = b
      BY <1>4 DEF OneEntry
    <2>1. a # k /\ b # k
      BY <1>6 DEF FreeSlot
    <2> QED
      BY <1>1, <1>6, <2>1 DEF PagesOK, OneEntry
  <1>10. ASSUME NEW j \in dir_pages(d), j >= 3 PROVE EntryOK(slots[d][j])'
    <2>1. CASE j = k
      BY <1>6, <2>1 DEF EntryOK, FreeSlot
    <2>2. CASE j # k
      <3>1. EntryOK(slots[d][j]) /\ slots'[d][j] = slots[d][j]
        BY <1>1, <1>6, <1>10, <2>2 DEF PagesOK
      <3> QED
        BY <1>3, <3>1 DEF EntryOK, KindsKeep
    <2> QED
      BY <2>1, <2>2
  <1>11. PagesOK(d)'
    BY <1>4, <1>8, <1>9, <1>10 DEF PagesOK
  <1>12. i \in Children(d) /\ i # RootIno /\ k \in Nat
    BY <1>1, <1>2, <1>5, ChildrenAre
  <1>13. Children(d)' = Children(d) \ {i}
    <2>1. ASSUME NEW x, x \in Children(d)' PROVE x \in Children(d) \ {i}
      <3>1. PICK j \in dir_pages(d) : slots'[d][j].ino # None /\ slots'[d][j].name \in Names /\ slots'[d][j].ino = x
        BY <1>4, <2>1 DEF Children, Entries
      <3>2. j # k /\ slots[d][j] = slots'[d][j]
        BY <1>6, <3>1 DEF FreeSlot
      <3>3. slots[d][j] \in Entries(d)
        BY <3>1, <3>2 DEF Entries
      <3>4. x \in Children(d)
        BY <3>1, <3>2, <3>3 DEF Children
      <3>5. j >= 3 /\ j \in Nat
        BY <1>1, <3>1, <3>2, PageFacts, DirectoryAssumption
      <3>6. ChildAt(d, j, x)
        BY <3>1, <3>2, <3>5 DEF ChildAt
      <3>7. x # i
        BY <1>1, <1>2, <1>12, <3>2, <3>5, <3>6 DEF TreeInv, OneName
      <3> QED
        BY <3>4, <3>7
    <2>2. ASSUME NEW x, x \in Children(d) \ {i} PROVE x \in Children(d)'
      <3>1. PICK j \in dir_pages(d) : slots[d][j].ino # None /\ slots[d][j].name \in Names /\ slots[d][j].ino = x
        BY <2>2 DEF Children, Entries
      <3>2. j # k /\ slots'[d][j] = slots[d][j]
        BY <1>1, <1>6, <2>2, <3>1
      <3>3. slots'[d][j] \in Entries(d)'
        BY <1>4, <3>1, <3>2 DEF Entries
      <3> QED
        BY <3>1, <3>2, <3>3 DEF Children
    <2> QED
      BY <2>1, <2>2
  <1> QED
    BY <1>1, <1>2, <1>3, <1>4, <1>6, <1>7, <1>11, <1>12, <1>13

\* The other directories; a removed directory was empty and is gone.
LEMMA RemoveOthers ==
  ASSUME Typed, TreeInv, NEW d, NEW n, NEW i, NEW k, RemoveStep(d, n, i, k)
  PROVE  /\ Directories' = Directories \ {i} /\ d \in Directories'
         /\ \A e \in Directories \ {d, i} :
              /\ PagesOK(e)' /\ Children(e)' = Children(e)
              /\ \A j \in Nat, x \in Inos : ChildAt(e, j, x)' <=> ChildAt(e, j, x)
              /\ \A m \in Names : Meaning(e, m)' = Meaning(e, m)
         /\ i \in Directories => Children(i) = {} /\ Attr(d)'.nlink = Attr(d).nlink - 1
         /\ i \notin Directories => Attr(i).kind = "reg" /\ Attr(d)'.nlink = Attr(d).nlink
         /\ Attr(d).nlink = 2 + Cardinality(Sub(d)) /\ Attr(d).kind = "dir"
  <1>1. /\ d \in Inos /\ d # i /\ d \in Directories /\ i \in Inos /\ KindsKeep /\ i \in Children(d)
        /\ Directories \subseteq Inos /\ i # RootIno
    BY RemoveEntries DEF RemoveStep, Directories
  <1>2. /\ Attr(d).nlink = 2 + Cardinality(Sub(d)) /\ Attr(d).kind = "dir"
        /\ Attr(d).nlink \in Nat
    BY <1>1, NamedFacts, AttrType DEF Directories
  <1>3. Named(i)
    BY <1>1 DEF Named
  <1>4. /\ Attr(i).kind = "dir" => i \in Directories
        /\ Attr(i).kind = "reg" => i \notin Directories
    BY <1>1, <1>3, NamedFacts DEF Directories
  <1>5. i \in Directories => i \in Sub(d)
    BY <1>1 DEF Sub
  <1>6. Attr(d)'.nlink > 0
    <2>1. CASE Attr(d)'.nlink = Attr(d).nlink
      BY <1>1, <2>1 DEF Directories
    <2>2. CASE Attr(d)'.nlink = Attr(d).nlink - 1
      BY <1>2, <2>2, SubFinite
    <2> QED
      BY <2>1, <2>2 DEF RemoveStep
  <1>7. d \in Directories'
    BY <1>1, <1>2, <1>6 DEF Directories, RemoveStep
  <1>8. Directories' = Directories \ {i}
    <2>1. \A j \in Inos : j \in Directories' <=> j \in Directories /\ j # i
      <3>1. i \notin Directories'
        BY <1>1 DEF Directories, RemoveStep
      <3>2. \A j \in Inos \ {d, i} : j \in Directories' <=> j \in Directories
        BY DEF Directories, RemoveStep
      <3> QED
        BY <1>1, <1>7, <3>1, <3>2
    <2>2. Directories' \subseteq Inos
      BY DEF Directories
    <2> QED
      BY <1>1, <2>1, <2>2
  <1>9. ASSUME NEW e \in Directories \ {d, i}
        PROVE  /\ PagesOK(e)' /\ Children(e)' = Children(e)
               /\ \A j \in Nat, x \in Inos : ChildAt(e, j, x)' <=> ChildAt(e, j, x)
               /\ \A m \in Names : Meaning(e, m)' = Meaning(e, m)
    <2>1. e \in Inos /\ PagesOK(e) /\ Attr(e)' = Attr(e) /\ slots'[e] = slots[e]
      BY <1>1 DEF RemoveStep, TreeInv
    <2> QED
      BY <1>1, <2>1, PagesKeep
  <1>10. /\ i \in Directories => Children(i) = {} /\ Attr(d)'.nlink = Attr(d).nlink - 1
         /\ i \notin Directories => Attr(i).kind = "reg" /\ Attr(d)'.nlink = Attr(d).nlink
    BY <1>4 DEF RemoveStep
  <1> QED
    BY <1>2, <1>7, <1>8, <1>9, <1>10

\* The tree has one name less.
LEMMA RemoveMeaning ==
  ASSUME Typed, TreeInv, NEW d, NEW n, NEW i, NEW k, RemoveStep(d, n, i, k)
  PROVE  /\ Meaning(d, n) = i /\ Meaning(d, n)' = None
         /\ \A m \in Names \ {n} : Meaning(d, m)' = Meaning(d, m)
  <1>1. /\ d \in Inos /\ PagesOK(d) /\ n \in Names /\ k \in find_entry(d, n) /\ slots[d][k].ino = i
    BY RemoveEntries DEF RemoveStep, TreeInv
  <1>2. /\ dir_pages(d)' = dir_pages(d) /\ k \in dir_pages(d) /\ slots[d][k].name = n
        /\ slots'[d][k].ino = None
        /\ \A j \in dir_pages(d) : j # k => slots'[d][j] = slots[d][j]
    BY RemoveEntries DEF FreeSlot
  <1>3. dir_pages(d) \subseteq Nat
    BY <1>1, AttrType DEF dir_pages
  <1>4. Meaning(d, n) = i
    BY <1>1, EntryFound
  <1>5. Meaning(d, n)' = None
    <2>1. find_entry(d, n) = {k}
      BY <1>1, EntryFound
    <2>2. \A j \in dir_pages(d) : slots[d][j].ino # None /\ slots[d][j].name = n => j = k
      BY <1>1, <2>1, EntryFound
    <2>3. {j \in dir_pages(d)' : slots'[d][j].ino # None /\ slots'[d][j].name = n} = {}
      BY <1>2, <2>2
    <2>4. find_entry(d, n)' = {}
      BY <2>3 DEF find_entry
    <2> QED
      BY <2>4 DEF Meaning
  <1>6. ASSUME NEW m \in Names \ {n} PROVE Meaning(d, m)' = Meaning(d, m)
    <2>1. {j \in dir_pages(d)' : slots'[d][j].ino # None /\ slots'[d][j].name = m}
            = {j \in dir_pages(d) : slots[d][j].ino # None /\ slots[d][j].name = m}
      BY <1>2
    <2>2. find_entry(d, m)' = find_entry(d, m)
      BY <2>1 DEF find_entry
    <2>3. ASSUME NEW j \in find_entry(d, m)
          PROVE  First(find_entry(d, m)) = j /\ slots'[d][j] = slots[d][j]
      <3>1. find_entry(d, m) = {j} /\ j \in dir_pages(d) /\ slots[d][j].name = m
        BY <1>1, <2>3, EntryFound
      <3>2. First(find_entry(d, m)) = j
        BY <1>3, <3>1, FirstIsLeast
      <3> QED
        BY <1>2, <3>1, <3>2
    <2> QED
      BY <2>2, <2>3 DEF Meaning
  <1> QED
    BY <1>4, <1>5, <1>6

\* A step that removes a name keeps them, too.
LEMMA RemoveTree ==
  ASSUME Typed, TreeInv, NEW d, NEW n, NEW i, NEW k, RemoveStep(d, n, i, k)
  PROVE  TreeInv'
  <1>1. /\ d # i /\ d \in Inos /\ i \in Inos /\ i # RootIno /\ KindsKeep
        /\ d \in Directories /\ Directories \subseteq Inos /\ Directories' = Directories \ {i}
        /\ k \in Nat /\ ChildAt(d, k, i) /\ i \in Children(d)
        /\ \A j \in Nat, x \in Inos : ChildAt(d, j, x)' <=> ChildAt(d, j, x) /\ j # k
        /\ PagesOK(d)' /\ Children(d)' = Children(d) \ {i}
    BY RemoveEntries, RemoveOthers DEF RemoveStep, Directories
  <1>2. \A e \in Directories' : PagesOK(e)'
    BY <1>1, RemoveOthers
  <1>3. Attr(RootIno)'.kind = "dir"
    BY <1>1, DirectoryAssumption DEF KindsKeep, TreeInv
  <1>4. OneName'
    <2> SUFFICES ASSUME NEW e \in Directories', NEW f \in Directories', NEW a \in Nat, NEW b \in Nat,
                        NEW x \in Inos, ChildAt(e, a, x)', ChildAt(f, b, x)'
                 PROVE  e = f /\ a = b
      BY DEF OneName
    <2>1. ChildAt(e, a, x) /\ ChildAt(f, b, x) /\ e \in Directories /\ f \in Directories
      BY <1>1, RemoveOthers
    <2> QED
      BY <2>1 DEF TreeInv, OneName
  <1>5. \A e \in Directories' : i \notin Children(e)'
    <2> SUFFICES ASSUME NEW e \in Directories', i \in Children(e)' PROVE FALSE
      OBVIOUS
    <2>1. e \in Directories /\ e # d /\ i \in Children(e)
      BY <1>1, RemoveOthers
    <2>2. PICK j \in Nat : ChildAt(e, j, i)
      BY <1>1, <2>1, ChildrenAre DEF TreeInv
    <2> QED
      BY <1>1, <2>1, <2>2 DEF TreeInv, OneName
  <1>6. ASSUME NEW x \in Inos PROVE Named(x)' <=> Named(x) /\ x # i
    <2>1. CASE x = i
      BY <1>1, <1>5, <2>1 DEF Named
    <2>2. CASE x # i /\ \E e \in Directories : x \in Children(e)
      <3>1. PICK e \in Directories : x \in Children(e)
        BY <2>2
      <3>2. e # i
        BY <3>1, RemoveOthers
      <3>3. e \in Directories' /\ x \in Children(e)'
        BY <1>1, <2>2, <3>1, <3>2, RemoveOthers
      <3> QED
        BY <2>2, <3>1, <3>3 DEF Named
    <2>3. CASE x # i /\ ~\E e \in Directories : x \in Children(e)
      <3>1. ~\E e \in Directories' : x \in Children(e)'
        BY <1>1, <2>3, RemoveOthers
      <3> QED
        BY <2>3, <3>1 DEF Named
    <2> QED
      BY <2>1, <2>2, <2>3
  <1>7. ASSUME NEW x \in Inos
        PROVE  Attr(x)'.nlink = IF ~Named(x)' THEN 0
                                ELSE IF Attr(x)'.kind = "reg" THEN 1
                                ELSE 2 + Cardinality(Sub(x)')
    <2>1. CASE x = i
      BY <1>6, <2>1 DEF RemoveStep
    <2>2. CASE x = d
      <3>1. /\ Named(d)' /\ Attr(d)'.kind = "dir" /\ Attr(d).nlink = 2 + Cardinality(Sub(d))
        BY <1>1, <1>6, NamedFacts, RemoveOthers DEF RemoveStep
      <3>2. CASE i \notin Directories
        <4>1. Sub(d)' = Sub(d)
          BY <1>1, <3>2 DEF Sub
        <4> QED
          BY <2>2, <3>1, <3>2, <4>1, RemoveOthers
      <3>3. CASE i \in Directories
        <4>1. Sub(d)' = Sub(d) \ {i} /\ i \in Sub(d)
          BY <1>1, <3>3 DEF Sub
        <4>2. Cardinality(Sub(d)') = Cardinality(Sub(d)) - 1
          BY <4>1, SubFinite, FS_RemoveElement
        <4>3. Attr(d)'.nlink = Attr(d).nlink - 1
          BY <3>3, RemoveOthers
        <4> QED
          BY <2>2, <3>1, <4>2, <4>3, SubFinite
      <3> QED
        BY <3>2, <3>3
    <2>3. CASE x # i /\ x # d
      <3>1. Attr(x)' = Attr(x) /\ (Named(x)' <=> Named(x))
        BY <1>6, <2>3 DEF RemoveStep
      <3>2. CASE Named(x) /\ Attr(x).kind # "reg"
        <4>1. x \in Directories /\ Attr(x).nlink = 2 + Cardinality(Sub(x))
          BY <3>2, NamedFacts
        <4>2. i \notin Children(x)
          <5>1. x \in Directories' /\ Children(x)' = Children(x)
            BY <1>1, <2>3, <4>1, RemoveOthers
          <5> QED
            BY <1>5, <5>1
        <4>3. Sub(x)' = Sub(x)
          BY <1>1, <2>3, <4>1, <4>2, RemoveOthers DEF Sub
        <4> QED
          BY <3>1, <3>2, <4>1, <4>3
      <3> QED
        BY <3>1, <3>2, NamedFacts
    <2> QED
      BY <2>1, <2>2, <2>3
  <1>8. LinksExact'
    BY <1>7 DEF LinksExact, Named, Sub
  <1> QED
    BY <1>2, <1>3, <1>4, <1>8 DEF TreeInv

(***************************************************************************)
(* The effects of the operations.                                          *)
(***************************************************************************)

\* A directory the VFS enters has its links.
LEMMA LiveIsDirectory ==
  ASSUME Typed, CacheInv, TreeInv, NEW d \in Inos, LiveDir(d)
  PROVE  d \in Directories /\ d \in cached /\ d \notin dead /\ PagesOK(d) /\ Attr(d) = inode[d]
  <1>1. d \in cached /\ d \notin dead /\ Attr(d) = inode[d] /\ Attr(d).kind = "dir"
    BY DEF LiveDir, Attr
  <1>2. Attr(d).nlink \in Nat /\ Attr(d).nlink # 0
    BY <1>1, AttrType DEF CacheInv
  <1> QED
    BY <1>1, <1>2 DEF Directories, TreeInv

\* Where add_link puts an entry, and how far the directory grows.
LEMMA Growth ==
  ASSUME Typed, NEW d \in cached, PagesOK(d), NEW n \in Names, NEW i \in Inos
  PROVE  /\ Target(d) \in Nat /\ Target(d) >= 3 /\ Grown(d) \in Nat
         /\ \/ Target(d) <= Attr(d).size /\ slots[d][Target(d)].ino = None /\ Grown(d) = Attr(d).size
            \/ Target(d) = Attr(d).size + 1 /\ Grown(d) = Target(d)
         /\ WithEntry(d, n, i) \in Seq(Slot) /\ Len(WithEntry(d, n, i)) = Grown(d)
         /\ WithEntry(d, n, i)[Target(d)] = [name |-> n, ino |-> i]
         /\ \A k \in dir_pages(d) : k # Target(d) => WithEntry(d, n, i)[k] = slots[d][k]
  <1>1. /\ d \in Inos /\ Attr(d) = inode[d] /\ Attr(d).size \in Nat /\ Attr(d).size >= 2
        /\ slots[d] \in Seq(Slot) /\ Len(slots[d]) = Attr(d).size /\ dir_pages(d) = 1 .. Len(slots[d])
    BY AttrType DEF Typed, PagesOK, DotsOK, Attr, dir_pages
  <1>2. [name |-> n, ino |-> i] \in Slot
    BY DEF Slot
  <1>3. CASE FreePages(d) = {}
    <2>1. Target(d) = Len(slots[d]) + 1 /\ Grown(d) = Target(d)
      BY <1>1, <1>3 DEF Target, NewPage, Grown
    <2>2. WithEntry(d, n, i) = Append(slots[d], [name |-> n, ino |-> i])
      BY <1>1, <2>1 DEF WithEntry
    <2> QED
      BY <1>1, <1>2, <2>1, <2>2
  <1>4. CASE FreePages(d) # {}
    <2>1. FreePages(d) \in SUBSET Nat
      BY <1>1 DEF FreePages
    <2>2. Target(d) \in FreePages(d)
      BY <1>4, <2>1, FirstIsLeast DEF Target
    <2>3. Target(d) \in 1 .. Len(slots[d]) /\ slots[d][Target(d)].ino = None
      BY <1>1, <2>2 DEF FreePages
    <2>4. Target(d) >= 3
      <3>1. d # None
        BY <1>1, DirectoryAssumption
      <3>2. ~(Target(d) < 3)
        BY <1>1, <2>3, <3>1, PageFacts
      <3> QED
        BY <2>3, <3>2
    <2>5. WithEntry(d, n, i) = [slots[d] EXCEPT ![Target(d)] = [name |-> n, ino |-> i]]
      BY <1>1, <2>3 DEF WithEntry
    <2>6. Grown(d) = Attr(d).size
      BY <1>1, <2>3 DEF Grown
    <2> QED
      BY <1>1, <1>2, <2>3, <2>4, <2>5, <2>6
  <1> QED
    BY <1>3, <1>4

\* What the caches and the removed directories are after an addition.
LEMMA AddCache ==
  ASSUME Typed, CacheInv, TreeInv, NEW d, NEW n, NEW i, NEW t, AddStep(d, n, i, t), d \in cached, d \notin dead,
         \A j \in Inos \ {d, i} : inode'[j] = inode[j],
         cached' = cached \cup {i}, dirty' = dirty \cup {d, i}, ipage' = ipage, dead' = dead
  PROVE  CacheInv'
  <1>1. d \in Inos /\ i \in Inos /\ d \in Directories /\ i \notin dead /\ d # i /\ cached \subseteq Inos /\ dead \subseteq Inos
    BY AddEntries DEF AddStep, CacheInv, Typed
  <1>2. ASSUME NEW j \in cached' \ dirty' PROVE inode'[j] = ipage'[j]
    BY <1>1, <1>2 DEF CacheInv
  <1>3. ASSUME NEW j \in dead' PROVE Attr(j)'.kind = "dir" /\ Attr(j)'.nlink = 0
    BY <1>1, <1>3 DEF CacheInv, AddStep
  <1>4. ASSUME NEW j \in cached', inode'[j].kind = "dir", inode'[j].nlink = 0 PROVE j \in dead'
    <2>1. Attr(j)' = inode'[j]
      BY <1>4 DEF Attr
    <2>2. j # i
      BY <1>4, <2>1 DEF AddStep
    <2>3. j # d
      <3>1. d \in Directories'
        BY <1>1, AddEntries
      <3> QED
        BY <1>4, <2>1, <3>1 DEF Directories
    <2> QED
      BY <1>1, <1>4, <2>2, <2>3 DEF CacheInv
  <1> QED
    BY <1>2, <1>3, <1>4 DEF CacheInv

\* Another link count.
LEMMA Relinked ==
  ASSUME NEW r \in Inode, NEW x \in Nat
  PROVE  /\ [r EXCEPT !.nlink = x] \in Inode
         /\ [r EXCEPT !.nlink = x].nlink = x
         /\ [r EXCEPT !.nlink = x].kind = r.kind /\ [r EXCEPT !.nlink = x].size = r.size
  BY DEF Inode

\* create and mknod add a file.
LEMMA CreateAdds ==
  ASSUME Typed, CacheInv, TreeInv, NEW d \in Inos, NEW n \in Names, NEW i \in Inos, Create(d, n, i)
  PROVE  AddStep(d, n, i, Target(d)) /\ CacheInv' /\ Typed'
  <1>1. d \in Directories /\ d \in cached /\ d \notin dead /\ PagesOK(d) /\ Attr(d) = inode[d]
    BY LiveIsDirectory DEF Create
  <1>2. Attr(i).kind = "none" /\ d # i
    BY <1>1 DEF Create, Fresh, Directories
  <1>3. Attr(d) \in Inode /\ Attr(d) = [kind |-> Attr(d).kind, nlink |-> Attr(d).nlink, size |-> Attr(d).size]
    BY AttrType
  <1>4. PICK g : g = Grown(d)
    OBVIOUS
  <1>5. PICK w : w = WithEntry(d, n, i)
    OBVIOUS
  <1>6. /\ inode' = [inode EXCEPT ![i] = [kind |-> "reg", nlink |-> 1, size |-> 0], ![d].size = g]
        /\ slots' = [slots EXCEPT ![d] = w] /\ cached' = cached \cup {i} /\ ipage' = ipage
        /\ dirty' = dirty \cup {d, i} /\ dead' = dead /\ opened' = opened
    BY <1>4, <1>5 DEF Create, mark_dirty
  <1>7. g \in Nat /\ w \in Seq(Slot) /\ Len(w) = g
    BY <1>1, <1>4, <1>5, Growth
  <1>8. /\ inode'[i] = [kind |-> "reg", nlink |-> 1, size |-> 0]
        /\ inode'[d] = [inode[d] EXCEPT !.size = g]
        /\ \A j \in Inos \ {d, i} : inode'[j] = inode[j]
        /\ inode' \in [Inos -> Inode]
    <2>1. inode \in [Inos -> Inode]
      BY DEF Typed
    <2> QED
      BY <1>2, <1>6, <1>7, <2>1 DEF Inode
  <1>9. slots'[d] = w /\ (\A j \in Inos \ {d} : slots'[j] = slots[j]) /\ slots' \in [Inos -> Seq(Slot)]
    BY <1>6, <1>7 DEF Typed
  <1>10. /\ Attr(d)'.size = g /\ Attr(d)'.kind = Attr(d).kind /\ Attr(d)'.nlink = Attr(d).nlink
         /\ Attr(i)' = [kind |-> "reg", nlink |-> 1, size |-> 0]
         /\ \A j \in Inos \ {d, i} : Attr(j)' = Attr(j)
    BY <1>1, <1>3, <1>6, <1>8 DEF Attr
  <1>11. AddStep(d, n, i, Target(d))
    <2>1. find_entry(d, n) = {}
      BY DEF Create
    <2> QED
      BY <1>1, <1>2, <1>4, <1>5, <1>7, <1>9, <1>10, <2>1, Growth DEF AddStep
  <1>12. CacheInv'
    BY <1>1, <1>6, <1>8, <1>11, AddCache
  <1>13. Typed'
    BY <1>1, <1>6, <1>8, <1>9 DEF Typed
  <1> QED
    BY <1>11, <1>12, <1>13

\* mkdir adds a directory with its two dots.
LEMMA MkdirAdds ==
  ASSUME Typed, CacheInv, TreeInv, NEW d \in Inos, NEW n \in Names, NEW i \in Inos, Mkdir(d, n, i)
  PROVE  AddStep(d, n, i, Target(d)) /\ CacheInv' /\ Typed'
  <1>1. d \in Directories /\ d \in cached /\ d \notin dead /\ PagesOK(d) /\ Attr(d) = inode[d]
    BY LiveIsDirectory DEF Mkdir
  <1>2. Attr(i).kind = "none" /\ d # i
    BY <1>1 DEF Mkdir, Fresh, Directories
  <1>3. Attr(d) \in Inode /\ Attr(d) = [kind |-> Attr(d).kind, nlink |-> Attr(d).nlink, size |-> Attr(d).size]
    BY AttrType
  <1>4. PICK g : g = Grown(d)
    OBVIOUS
  <1>5. PICK w : w = WithEntry(d, n, i)
    OBVIOUS
  <1>6. /\ slots' = [slots EXCEPT ![d] = w, ![i] = Dots(i)] /\ cached' = cached \cup {i} /\ ipage' = ipage
        /\ dirty' = dirty \cup {d, i} /\ dead' = dead /\ opened' = opened
    BY <1>5 DEF Mkdir, mark_dirty
  <1>7. g \in Nat /\ w \in Seq(Slot) /\ Len(w) = g
    BY <1>1, <1>4, <1>5, Growth
  <1>8. PICK new : new = [inode EXCEPT ![i] = [kind |-> "dir", nlink |-> 1, size |-> 2], ![d].size = g]
    OBVIOUS
  <1>9. inode' = Linked(new, d, i)
    BY <1>4, <1>8 DEF Mkdir
  <1>10. /\ new[i] = [kind |-> "dir", nlink |-> 1, size |-> 2]
         /\ new[d] = [inode[d] EXCEPT !.size = g]
         /\ \A j \in Inos \ {d, i} : new[j] = inode[j]
         /\ new \in [Inos -> Inode]
    <2>1. inode \in [Inos -> Inode]
      BY DEF Typed
    <2> QED
      BY <1>2, <1>7, <1>8, <2>1 DEF Inode
  <1>11. /\ inode'[i] = [kind |-> "dir", nlink |-> 2, size |-> 2]
         /\ inode'[d] = [new[d] EXCEPT !.nlink = @ + 1]
         /\ \A j \in Inos \ {d, i} : inode'[j] = new[j]
         /\ inode' \in [Inos -> Inode]
    <2>1. inode' = [new EXCEPT ![d].nlink = @ + 1, ![i].nlink = @ + 1]
      BY <1>9 DEF Linked
    <2>2. new[d] \in Inode /\ new[d].nlink \in Nat /\ [new[d] EXCEPT !.nlink = @ + 1] \in Inode
      <3>1. new[d] \in Inode
        BY <1>1, <1>10 DEF Typed
      <3>2. new[d].nlink \in Nat
        BY <3>1 DEF Inode
      <3> QED
        BY <3>1, <3>2, Relinked
    <2>3. [new[i] EXCEPT !.nlink = @ + 1] = [kind |-> "dir", nlink |-> 2, size |-> 2]
      BY <1>10
    <2>4. inode'[i] = [new[i] EXCEPT !.nlink = @ + 1] /\ inode'[d] = [new[d] EXCEPT !.nlink = @ + 1]
      BY <1>2, <1>10, <2>1
    <2>5. /\ \A j \in Inos \ {d, i} : inode'[j] = new[j]
          /\ DOMAIN inode' = Inos /\ inode' = [j \in Inos |-> inode'[j]]
      BY <1>10, <2>1
    <2>6. inode'[i] \in Inode
      BY <2>3, <2>4 DEF Inode
    <2>7. \A j \in Inos : inode'[j] \in Inode
      BY <1>10, <2>2, <2>4, <2>5, <2>6
    <2> QED
      BY <2>3, <2>4, <2>5, <2>7
  <1>12. /\ slots'[d] = w /\ (\A j \in Inos \ {d, i} : slots'[j] = slots[j]) /\ slots'[i] = Dots(i)
         /\ slots' \in [Inos -> Seq(Slot)]
    <2>1. Dots(i) \in Seq(Slot)
      BY DEF Dots, Slot
    <2> QED
      BY <1>2, <1>6, <1>7, <2>1 DEF Typed
  <1>13. /\ Attr(d)'.size = g /\ Attr(d)'.kind = Attr(d).kind /\ Attr(d)'.nlink = Attr(d).nlink + 1
         /\ Attr(i)' = [kind |-> "dir", nlink |-> 2, size |-> 2]
         /\ \A j \in Inos \ {d, i} : Attr(j)' = Attr(j)
    BY <1>1, <1>3, <1>6, <1>10, <1>11 DEF Attr
  <1>14. AddStep(d, n, i, Target(d))
    <2>1. find_entry(d, n) = {}
      BY DEF Mkdir
    <2> QED
      BY <1>1, <1>2, <1>4, <1>5, <1>7, <1>12, <1>13, <2>1, Growth DEF AddStep
  <1>15. CacheInv'
    BY <1>1, <1>6, <1>10, <1>11, <1>14, AddCache
  <1>16. Typed'
    BY <1>1, <1>6, <1>11, <1>12 DEF Typed
  <1> QED
    BY <1>14, <1>15, <1>16

\* What the caches and the removed directories are after a removal.
LEMMA RemoveCache ==
  ASSUME Typed, CacheInv, TreeInv, NEW d, NEW n, NEW i, NEW k, RemoveStep(d, n, i, k), d \notin dead,
         \A j \in Inos \ {d, i} : inode'[j] = inode[j],
         cached' = cached, dirty' = dirty \cup {d, i}, ipage' = ipage,
         \/ dead' = dead /\ Attr(i).kind = "reg"
         \/ dead' = dead \cup {i} /\ Attr(i).kind = "dir"
  PROVE  CacheInv'
  <1>1. d \in Inos /\ i \in Inos /\ d # i /\ cached \subseteq Inos /\ dead \subseteq Inos
    BY RemoveEntries DEF RemoveStep, Typed
  <1>2. ASSUME NEW j \in cached' \ dirty' PROVE inode'[j] = ipage'[j]
    BY <1>1, <1>2 DEF CacheInv
  <1>3. ASSUME NEW j \in dead' PROVE Attr(j)'.kind = "dir" /\ Attr(j)'.nlink = 0
    <2>1. CASE j = i
      <3>1. Attr(i).kind = "dir"
        BY <1>3, <2>1 DEF CacheInv
      <3> QED
        BY <2>1, <3>1 DEF RemoveStep
    <2>2. CASE j # i
      BY <1>1, <1>3, <2>2 DEF CacheInv, RemoveStep
    <2> QED
      BY <2>1, <2>2
  <1>4. ASSUME NEW j \in cached', inode'[j].kind = "dir", inode'[j].nlink = 0 PROVE j \in dead'
    <2>1. Attr(j)' = inode'[j]
      BY <1>4 DEF Attr
    <2>2. j # d
      <3>1. d \in Directories'
        BY RemoveOthers
      <3> QED
        BY <1>4, <2>1, <3>1 DEF Directories
    <2>3. CASE j = i
      BY <1>4, <2>1, <2>3 DEF RemoveStep
    <2>4. CASE j # i
      BY <1>1, <1>4, <2>2, <2>4 DEF CacheInv
    <2> QED
      BY <2>3, <2>4
  <1> QED
    BY <1>2, <1>3, <1>4 DEF CacheInv

\* delete_entry leaves a directory's pages.
LEMMA FreedTyped ==
  ASSUME Typed, NEW d \in Inos, PagesOK(d), NEW k \in dir_pages(d)
  PROVE  WithoutEntry(d, k) \in Seq(Slot)
  <1>1. FreeSlot \in Slot
    BY DEF FreeSlot, Slot
  <1>2. slots[d] \in Seq(Slot) /\ k \in DOMAIN slots[d]
    BY PageFacts DEF Typed
  <1> QED
    BY <1>1, <1>2 DEF WithoutEntry

\* unlink removes a file's only name.
LEMMA UnlinkRemoves ==
  ASSUME Typed, CacheInv, TreeInv, NEW d \in Inos, NEW n \in Names, Unlink(d, n)
  PROVE  (\E i, k : RemoveStep(d, n, i, k)) /\ CacheInv' /\ Typed'
  <1>1. d \in Directories /\ d \in cached /\ d \notin dead /\ PagesOK(d) /\ Attr(d) = inode[d]
    BY LiveIsDirectory DEF Unlink
  <1>2. PICK k \in find_entry(d, n) :
          /\ slots[d][k].ino \in cached /\ inode[slots[d][k].ino].kind = "reg"
          /\ slots' = [slots EXCEPT ![d] = WithoutEntry(d, k)]
          /\ inode' = [inode EXCEPT ![slots[d][k].ino].nlink = @ - 1]
          /\ mark_dirty({d, slots[d][k].ino})
    BY DEF Unlink
  <1>3. PICK i : i = slots[d][k].ino
    OBVIOUS
  <1>4. PICK w : w = WithoutEntry(d, k)
    OBVIOUS
  <1>5. /\ i \in cached /\ i \in Inos /\ inode[i].kind = "reg" /\ Attr(i) = inode[i] /\ i # d
        /\ slots' = [slots EXCEPT ![d] = w] /\ inode' = [inode EXCEPT ![i].nlink = @ - 1]
        /\ dirty' = dirty \cup {d, i} /\ ipage' = ipage /\ cached' = cached /\ dead' = dead /\ opened' = opened
    BY <1>1, <1>2, <1>3, <1>4 DEF Unlink, mark_dirty, Attr, Typed, Directories
  <1>6. k \in dir_pages(d) /\ slots[d][k].ino = i /\ ChildAt(d, k, i) /\ k \in Nat
    <2>1. k \in dir_pages(d) /\ ChildAt(d, k, slots[d][k].ino)
      BY <1>1, <1>2, EntryFound
    <2> QED
      BY <1>1, <1>3, <2>1, PageFacts
  <1>7. Attr(i).nlink = 1
    <2>1. Named(i)
      BY <1>1, <1>6, ChildrenAre DEF Named
    <2> QED
      BY <1>5, <2>1, NamedFacts
  <1>8. /\ inode'[i].nlink = 0 /\ inode'[i].kind = inode[i].kind /\ inode'[i].size = inode[i].size
        /\ \A j \in Inos \ {i} : inode'[j] = inode[j]
        /\ inode' \in [Inos -> Inode]
    <2>1. inode \in [Inos -> Inode] /\ inode[i] \in Inode /\ inode[i].nlink - 1 = 0
      BY <1>5, <1>7 DEF Typed
    <2>2. inode' = [inode EXCEPT ![i] = [inode[i] EXCEPT !.nlink = 0]]
      BY <1>5, <2>1
    <2>3. inode'[i] = [inode[i] EXCEPT !.nlink = 0]
      BY <1>5, <2>1, <2>2
    <2>4. inode'[i] \in Inode /\ inode'[i].nlink = 0 /\ inode'[i].kind = inode[i].kind /\ inode'[i].size = inode[i].size
      <3>1. PICK r \in Inode : r = inode[i]
        BY <2>1
      <3>2. PICK x \in Nat : x = 0
        OBVIOUS
      <3>3. inode'[i] = [r EXCEPT !.nlink = x]
        BY <2>3, <3>1, <3>2
      <3> QED
        BY <3>1, <3>2, <3>3, Relinked
    <2>5. \A j \in Inos \ {i} : inode'[j] = inode[j]
      BY <2>1, <2>2
    <2>6. inode' \in [Inos -> Inode]
      BY <2>1, <2>2, <2>3, <2>4
    <2> QED
      BY <2>4, <2>5, <2>6
  <1>9. slots'[d] = w /\ (\A j \in Inos \ {d} : slots'[j] = slots[j]) /\ slots' \in [Inos -> Seq(Slot)]
    <2>1. w \in Seq(Slot)
      BY <1>1, <1>4, <1>6, FreedTyped
    <2> QED
      BY <1>5, <2>1 DEF Typed
  <1>10. RemoveStep(d, n, i, k)
    <2>1. \A j \in Inos \ {i} : Attr(j)' = Attr(j)
      BY <1>5, <1>8 DEF Attr
    <2>2. Attr(i)' = inode'[i]
      BY <1>5 DEF Attr
    <2> QED
      BY <1>1, <1>2, <1>4, <1>5, <1>6, <1>8, <1>9, <2>1, <2>2 DEF RemoveStep
  <1>11. CacheInv'
    BY <1>1, <1>5, <1>8, <1>10, RemoveCache
  <1>12. Typed'
    BY <1>1, <1>5, <1>8, <1>9 DEF Typed
  <1> QED
    BY <1>10, <1>11, <1>12

\* What rmdir finds empty has no entries.
LEMMA EmptyIsEmpty ==
  ASSUME Typed, NEW i \in Inos, PagesOK(i), empty_dir(i)
  PROVE  Children(i) = {}
  <1>1. \A k \in Nat : \A x : ~ChildAt(i, k, x)
    BY DEF ChildAt, empty_dir, FirstCounted
  <1> QED
    BY <1>1, ChildrenAre

\* rmdir removes an empty directory, and with it both of its own links.
LEMMA RmdirRemoves ==
  ASSUME Typed, CacheInv, TreeInv, NEW d \in Inos, NEW n \in Names, Rmdir(d, n)
  PROVE  (\E i, k : RemoveStep(d, n, i, k)) /\ CacheInv' /\ Typed'
  <1>1. d \in Directories /\ d \in cached /\ d \notin dead /\ PagesOK(d) /\ Attr(d) = inode[d]
    BY LiveIsDirectory DEF Rmdir
  <1>2. PICK k \in find_entry(d, n) :
          /\ slots[d][k].ino \in cached /\ inode[slots[d][k].ino].kind = "dir" /\ empty_dir(slots[d][k].ino)
          /\ slots' = [slots EXCEPT ![d] = WithoutEntry(d, k)]
          /\ inode' = Unlinked(inode, d, slots[d][k].ino)
          /\ mark_dirty({d, slots[d][k].ino})
          /\ dead' = dead \cup {slots[d][k].ino}
    BY DEF Rmdir
  <1>3. PICK i : i = slots[d][k].ino
    OBVIOUS
  <1>4. PICK w : w = WithoutEntry(d, k)
    OBVIOUS
  <1>5. /\ i \in cached /\ i \in Inos /\ inode[i].kind = "dir" /\ Attr(i) = inode[i] /\ empty_dir(i)
        /\ slots' = [slots EXCEPT ![d] = w]
        /\ inode' = [inode EXCEPT ![d].nlink = @ - 1, ![i].nlink = @ - 2]
        /\ dirty' = dirty \cup {d, i} /\ ipage' = ipage /\ cached' = cached
        /\ dead' = dead \cup {i} /\ opened' = opened
    BY <1>1, <1>2, <1>3, <1>4 DEF Rmdir, mark_dirty, Attr, Typed, Directories, Unlinked
  <1>6. k \in dir_pages(d) /\ slots[d][k].ino = i /\ ChildAt(d, k, i) /\ k \in Nat /\ k >= 3
    <2>1. k \in dir_pages(d) /\ ChildAt(d, k, slots[d][k].ino) /\ k >= 3
      BY <1>1, <1>2, EntryFound
    <2> QED
      BY <1>1, <1>3, <2>1, PageFacts
  <1>7. i \in Sub(d) /\ Named(i) /\ i \in Directories /\ Attr(i).nlink = 2 + Cardinality(Sub(i))
    <2>1. i \in Children(d)
      BY <1>1, <1>6, ChildrenAre
    <2>2. Named(i)
      BY <1>1, <2>1 DEF Named
    <2>3. i \in Directories /\ Attr(i).nlink = 2 + Cardinality(Sub(i))
      BY <1>5, <2>2, NamedFacts
    <2> QED
      BY <2>1, <2>2, <2>3 DEF Sub
  <1>8. Children(i) = {} /\ Attr(i).nlink = 2
    <2>1. Children(i) = {}
      BY <1>5, <1>7, EmptyIsEmpty DEF TreeInv
    <2>2. Sub(i) = {}
      BY <2>1 DEF Sub
    <2> QED
      BY <1>7, <2>1, <2>2, FS_EmptySet
  <1>9. i # d
    BY <1>5, <1>6, ChildrenAre, <1>1, <1>8
  <1>10. Attr(d).nlink - 1 \in Nat
    <2>1. Attr(d).nlink = 2 + Cardinality(Sub(d))
      BY <1>1, NamedFacts DEF Directories
    <2> QED
      BY <2>1, SubFinite
  <1>11. /\ inode'[i].nlink = 0 /\ inode'[i].kind = inode[i].kind /\ inode'[i].size = inode[i].size
         /\ inode'[d].nlink = inode[d].nlink - 1 /\ inode'[d].kind = inode[d].kind /\ inode'[d].size = inode[d].size
         /\ \A j \in Inos \ {d, i} : inode'[j] = inode[j]
         /\ inode' \in [Inos -> Inode]
    <2>1. /\ inode \in [Inos -> Inode] /\ inode[i] \in Inode /\ inode[d] \in Inode
          /\ inode[i].nlink - 2 = 0 /\ inode[d].nlink - 1 \in Nat
      BY <1>1, <1>5, <1>8, <1>10 DEF Typed
    <2>2. PICK x : x = inode[d].nlink - 1
      OBVIOUS
    <2>3. inode' = [inode EXCEPT ![d] = [inode[d] EXCEPT !.nlink = x], ![i] = [inode[i] EXCEPT !.nlink = 0]]
      BY <1>1, <1>5, <1>9, <2>1, <2>2
    <2>4. inode'[i] = [inode[i] EXCEPT !.nlink = 0] /\ inode'[d] = [inode[d] EXCEPT !.nlink = x]
      BY <1>5, <1>9, <2>1, <2>3
    <2>5. inode'[i] \in Inode /\ inode'[i].nlink = 0 /\ inode'[i].kind = inode[i].kind /\ inode'[i].size = inode[i].size
      BY <2>1, <2>4, Relinked
    <2>6. inode'[d] \in Inode /\ inode'[d].nlink = x /\ inode'[d].kind = inode[d].kind /\ inode'[d].size = inode[d].size
      BY <2>1, <2>2, <2>4, Relinked
    <2>7. \A j \in Inos \ {d, i} : inode'[j] = inode[j]
      BY <2>1, <2>3
    <2>8. inode' \in [Inos -> Inode]
      BY <1>5, <2>1, <2>3, <2>4, <2>5, <2>6
    <2> QED
      BY <2>2, <2>5, <2>6, <2>7, <2>8
  <1>12. slots'[d] = w /\ (\A j \in Inos \ {d} : slots'[j] = slots[j]) /\ slots' \in [Inos -> Seq(Slot)]
    <2>1. w \in Seq(Slot)
      BY <1>1, <1>4, <1>6, FreedTyped
    <2> QED
      BY <1>5, <2>1 DEF Typed
  <1>13. RemoveStep(d, n, i, k)
    <2>1. \A j \in Inos \ {d, i} : Attr(j)' = Attr(j)
      BY <1>5, <1>11 DEF Attr
    <2>2. Attr(i)' = inode'[i] /\ Attr(d)' = inode'[d]
      BY <1>1, <1>5 DEF Attr
    <2> QED
      BY <1>1, <1>2, <1>4, <1>5, <1>6, <1>8, <1>9, <1>11, <1>12, <2>1, <2>2 DEF RemoveStep
  <1>14. CacheInv'
    BY <1>1, <1>5, <1>11, <1>13, RemoveCache
  <1>15. Typed'
    BY <1>1, <1>5, <1>11, <1>12 DEF Typed
  <1> QED
    BY <1>13, <1>14, <1>15

\* Inodes with names are read into memory.
LEMMA ReadIn ==
  ASSUME Typed, CacheInv, TreeInv, NEW S, S \subseteq Inos, \A x \in S : Named(x),
         inode' = WithInode(S), cached' = cached \cup S, UNCHANGED <<slots, ipage, dirty, dead, opened>>
  PROVE  (\A i \in Inos : Attr(i)' = Attr(i)) /\ CacheInv' /\ Typed'
  <1>1. /\ \A i \in Inos : inode'[i] = IF i \in S \ cached THEN ipage[i] ELSE inode[i]
        /\ inode' \in [Inos -> Inode]
    BY DEF WithInode, Typed
  <1>2. \A i \in Inos : Attr(i)' = Attr(i)
    BY <1>1 DEF Attr
  <1>3. Typed'
    BY <1>1 DEF Typed
  <1>4. ASSUME NEW i \in cached' \ dirty' PROVE inode'[i] = ipage'[i]
    BY <1>1, <1>4 DEF CacheInv, Typed
  <1>5. \A i \in dead' : Attr(i)'.kind = "dir" /\ Attr(i)'.nlink = 0
    BY <1>2 DEF CacheInv, Typed
  <1>6. ASSUME NEW i \in cached', inode'[i].kind = "dir", inode'[i].nlink = 0 PROVE i \in dead'
    <2>1. i \in Inos /\ Attr(i)' = inode'[i] /\ Attr(i) = inode'[i]
      BY <1>2, <1>3, <1>6 DEF Attr, Typed
    <2>2. CASE i \in cached
      BY <1>6, <2>1, <2>2 DEF CacheInv, Attr
    <2>3. CASE i \notin cached
      <3>1. Named(i) /\ Attr(i).kind # "reg"
        BY <1>6, <2>1, <2>3
      <3>2. Attr(i).nlink = 2 + Cardinality(Sub(i))
        BY <2>1, <3>1, NamedFacts
      <3> QED
        BY <1>6, <2>1, <3>2, SubFinite
    <2> QED
      BY <2>2, <2>3
  <1> QED
    BY <1>2, <1>3, <1>4, <1>5, <1>6 DEF CacheInv

\* Every entry of a directory, its dots included, is for an inode with a name.
LEMMA EntriesNamed ==
  ASSUME Typed, TreeInv, NEW d \in Directories, NEW k \in dir_pages(d), slots[d][k].ino # None
  PROVE  slots[d][k].ino \in Inos /\ Named(slots[d][k].ino)
  <1>1. d \in Inos /\ PagesOK(d) /\ Named(d)
    BY NamedFacts DEF Directories, TreeInv
  <1>2. k \in Nat
    BY <1>1, PageFacts
  <1>3. CASE k < 3
    BY <1>1, <1>3, PageFacts
  <1>4. CASE k >= 3
    <2>1. slots[d][k].ino \in Inos /\ ChildAt(d, k, slots[d][k].ino)
      BY <1>1, <1>4, PageFacts DEF ChildAt
    <2>2. slots[d][k].ino \in Children(d)
      BY <1>1, <1>2, <2>1, ChildrenAre
    <2> QED
      BY <2>1, <2>2 DEF Named
  <1> QED
    BY <1>2, <1>3, <1>4

\* lookup may read an inode, and changes nothing else.
LEMMA LookupReads ==
  ASSUME Typed, CacheInv, TreeInv, NEW d \in Inos, NEW n \in Names, lookup(d, n)
  PROVE  (\A i \in Inos : Attr(i)' = Attr(i)) /\ CacheInv' /\ Typed'
  <1>1. d \in Directories /\ PagesOK(d)
    BY LiveIsDirectory DEF lookup
  <1>2. PICK k \in find_entry(d, n) :
          inode' = WithInode({slots[d][k].ino}) /\ cached' = cached \cup {slots[d][k].ino}
    BY DEF lookup
  <1>3. slots[d][k].ino \in Inos /\ Named(slots[d][k].ino)
    <2>1. k \in dir_pages(d) /\ slots[d][k].ino # None
      BY <1>1, <1>2, EntryFound
    <2> QED
      BY <1>1, <2>1, EntriesNamed
  <1>4. UNCHANGED <<slots, ipage, dirty, dead, opened>>
    BY DEF lookup
  <1> QED
    BY <1>2, <1>3, <1>4, ReadIn

\* readdir reads the inodes of the entries it lists.
LEMMA ReaddirReads ==
  ASSUME Typed, CacheInv, TreeInv, listing.dir \in Inos, readdir
  PROVE  (\A i \in Inos : Attr(i)' = Attr(i)) /\ CacheInv' /\ Typed'
  <1>1. listing.dir \in Directories
    BY LiveIsDirectory DEF readdir
  <1>2. PICK S :
          /\ S \subseteq {slots[listing.dir][k].ino : k \in {j \in dir_pages(listing.dir) : slots[listing.dir][j].ino # None}}
          /\ inode' = WithInode(S) /\ cached' = cached \cup S
    BY Zenon DEF readdir
  <1>3. \A x \in S : x \in Inos /\ Named(x)
    BY <1>1, <1>2, EntriesNamed
  <1>4. UNCHANGED <<slots, ipage, dirty, dead, opened>>
    BY DEF readdir
  <1> QED
    BY <1>2, <1>3, <1>4, ReadIn

\* write_inode makes the node page what the inode is.
LEMMA WriteKeeps ==
  ASSUME Typed, CacheInv, NEW i \in Inos, write_inode(i)
  PROVE  (\A j \in Inos : Attr(j)' = Attr(j)) /\ CacheInv' /\ Typed'
  <1>1. /\ i \in dirty /\ i \in cached /\ ipage' = [ipage EXCEPT ![i] = inode[i]] /\ dirty' = dirty \ {i}
        /\ UNCHANGED <<slots, inode, cached, dead, opened>>
    BY DEF write_inode, Copied, Typed
  <1>2. \A j \in Inos : Attr(j)' = Attr(j)
    BY <1>1 DEF Attr, Typed
  <1>3. Typed'
    BY <1>1 DEF Typed
  <1>4. CacheInv'
    <2>1. \A j \in cached' \ dirty' : inode'[j] = ipage'[j]
      BY <1>1 DEF CacheInv, Typed
    <2>2. \A j \in dead' : Attr(j)'.kind = "dir" /\ Attr(j)'.nlink = 0
      BY <1>1, <1>2 DEF CacheInv, Typed
    <2> QED
      BY <1>1, <2>1, <2>2 DEF CacheInv
  <1> QED
    BY <1>2, <1>3, <1>4

\* An inode leaves memory; its pages go only if it has no name.
LEMMA EvictKeeps ==
  ASSUME Typed, CacheInv, NEW i \in Inos, Evict(i)
  PROVE  /\ \A j \in Inos : Attr(j)' = Attr(j)
         /\ CacheInv' /\ Typed'
         /\ i \notin opened /\ opened' = opened /\ listing' = listing
         /\ \A j \in Inos : j # i \/ j \in Directories => slots'[j] = slots[j]
  <1>1. /\ i \in cached \ opened
        /\ ipage' = [ipage EXCEPT ![i] = IF i \in dirty THEN inode[i] ELSE @]
        /\ slots' = IF inode[i].nlink = 0 THEN [slots EXCEPT ![i] = <<>>] ELSE slots
        /\ inode' = [inode EXCEPT ![i] = NoInode]
        /\ cached' = cached \ {i} /\ dirty' = dirty \ {i}
        /\ UNCHANGED <<dead, opened, listing>>
    BY DEF Evict, evict_inode, Dropped, Shrinkable, Copied
  <1>2. /\ ipage \in [Inos -> Inode] /\ inode \in [Inos -> Inode] /\ slots \in [Inos -> Seq(Slot)]
        /\ NoInode \in Inode /\ <<>> \in Seq(Slot)
    BY DEF Typed, NoInode, Inode
  <1>3. /\ ipage'[i] = inode[i] /\ \A j \in Inos \ {i} : ipage'[j] = ipage[j] /\ inode'[j] = inode[j]
    BY <1>1, <1>2 DEF CacheInv
  <1>4. \A j \in Inos : Attr(j)' = Attr(j)
    BY <1>1, <1>3 DEF Attr
  <1>5. ipage' \in [Inos -> Inode] /\ inode' \in [Inos -> Inode] /\ slots' \in [Inos -> Seq(Slot)]
    BY <1>1, <1>2
  <1>6. Typed'
    BY <1>1, <1>5 DEF Typed
  <1>7. CacheInv'
    <2>1. \A j \in cached' \ dirty' : inode'[j] = ipage'[j]
      BY <1>1, <1>3 DEF CacheInv, Typed
    <2>2. \A j \in dead' : Attr(j)'.kind = "dir" /\ Attr(j)'.nlink = 0
      BY <1>1, <1>4 DEF CacheInv, Typed
    <2>3. \A j \in cached' : inode'[j] = inode[j] /\ j \in cached
      BY <1>1, <1>3 DEF Typed
    <2> QED
      BY <1>1, <2>1, <2>2, <2>3 DEF CacheInv
  <1>8. ASSUME NEW j \in Inos, j # i \/ j \in Directories PROVE slots'[j] = slots[j]
    <2>1. CASE j # i
      BY <1>1, <1>2, <2>1
    <2>2. CASE j = i
      <3>1. inode[i].nlink # 0
        BY <1>1, <1>8, <2>2, AttrType DEF Directories, Attr
      <3> QED
        BY <1>1, <3>1
    <2> QED
      BY <2>1, <2>2
  <1> QED
    BY <1>1, <1>4, <1>6, <1>7, <1>8

\* After a mount every attribute is what it was before the unmount.
LEMMA RemountKeeps ==
  ASSUME Typed, CacheInv, TreeInv, Remount
  PROVE  (\A j \in Inos : Attr(j)' = Attr(j)) /\ CacheInv' /\ Typed'
  <1>1. /\ ipage' = [i \in Inos |-> IF i \in dirty THEN inode[i] ELSE ipage[i]]
        /\ inode' = [i \in Inos |-> IF i = RootIno THEN ipage'[i] ELSE NoInode]
        /\ cached' = {RootIno} /\ dirty' = {} /\ dead' = {} /\ slots' = slots /\ opened' = {}
    BY DEF Remount, Copied
  <1>2. ipage \in [Inos -> Inode] /\ inode \in [Inos -> Inode] /\ NoInode \in Inode
    BY DEF Typed, NoInode, Inode
  <1>3. ipage' \in [Inos -> Inode] /\ inode' \in [Inos -> Inode]
    <2>1. ipage' \in [Inos -> Inode]
      BY <1>1, <1>2
    <2> QED
      BY <1>1, <1>2, <2>1
  <1>4. \A j \in Inos : ipage'[j] = Attr(j)
    BY <1>1 DEF CacheInv, Typed, Attr
  <1>5. \A j \in Inos : Attr(j)' = Attr(j)
    BY <1>1, <1>4 DEF Attr
  <1>6. Typed'
    BY <1>1, <1>3, DirectoryAssumption DEF Typed
  <1>7. inode'[RootIno] = ipage'[RootIno] /\ inode'[RootIno].nlink # 0
    <2>1. RootIno \in Directories /\ RootIno \in Inos
      BY NamedFacts, DirectoryAssumption
    <2>2. inode'[RootIno] = ipage'[RootIno]
      BY <1>1, <2>1
    <2> QED
      BY <1>4, <2>1, <2>2 DEF Directories
  <1>8. CacheInv'
    BY <1>1, <1>7 DEF CacheInv
  <1> QED
    BY <1>5, <1>6, <1>8

(***************************************************************************)
(* Reading a directory.                                                    *)
(***************************************************************************)

Called == Names \cup {".", "..", None}
Listings == [dir : Inos \cup {None}, pos : Nat, seen : SUBSET Called, again : SUBSET Called,
             kept : SUBSET Called, full : BOOLEAN]

\* The pages of kept names lie before pos if they were reported and, as long
\* as no buffer was full, behind it if not: pos, which counts bytes, never
\* runs past a page that was not looked at.
Reported(d) ==
  /\ listing.kept \cap listing.again = {}
  /\ listing.kept \subseteq NamesIn(d)
  /\ \A k \in dir_pages(d) :
       slots[d][k].ino # None /\ slots[d][k].name \in listing.kept =>
         /\ slots[d][k].name \in listing.seen => k <= listing.pos
         /\ ~listing.full /\ slots[d][k].name \notin listing.seen => k > ALIGN(listing.pos)

ListInv ==
  /\ listing \in Listings
  /\ listing.dir # None =>
       listing.dir \in opened /\ PagesOK(listing.dir) /\ Reported(listing.dir)

\* The rounding up of pos, and the first page.
LEMMA AlignUp ==
  /\ \A pos \in Nat : ALIGN(pos) \in Nat /\ ALIGN(pos) >= pos
  /\ ALIGN(0) = 0
  <1> DEFINE P == PageBytes
  <1>1. P \in Nat /\ P > 0
    BY DirectoryAssumption
  <1>2. ASSUME NEW pos \in Nat PROVE ALIGN(pos) \in Nat /\ ALIGN(pos) >= pos
    <2>1. PICK a \in Nat : a = pos + P - 1
      BY <1>1
    <2>2. PICK q : q = a \div P
      OBVIOUS
    <2>3. PICK r : r = a % P
      OBVIOUS
    <2>4. q \in Nat /\ r \in Nat /\ r < P /\ a = q * P + r
      BY <1>1, <2>1, <2>2, <2>3, Z3
    <2>5. PICK m : m = q * P
      OBVIOUS
    <2>6. m \in Nat
      BY <1>1, <2>4, <2>5
    <2>7. m >= pos
      BY <1>1, <2>1, <2>4, <2>5, <2>6
    <2>8. ALIGN(pos) = m
      BY <2>1, <2>2, <2>5 DEF ALIGN
    <2> QED
      BY <2>6, <2>7, <2>8
  <1>3. ALIGN(0) = 0
    <2>1. (0 + P - 1) \div P = 0
      BY <1>1
    <2> QED
      BY <1>1, <2>1 DEF ALIGN
  <1> QED
    BY <1>2, <1>3

\* pos after a call: not before the last page it looked at.
LEMMA AdvanceFar ==
  ASSUME NEW pos \in Nat, NEW end \in Int
  PROVE  Advanced(pos, end) \in Nat /\ Advanced(pos, end) >= pos /\ Advanced(pos, end) >= end
  <1>1. PageBytes \in Nat /\ PageBytes > 0
    BY DirectoryAssumption
  <1>2. CASE end > pos
    <2>1. PICK a \in Nat : a = end - pos
      BY <1>2
    <2>2. PICK m : m = a * PageBytes
      OBVIOUS
    <2>3. m \in Nat /\ m >= a
      BY <1>1, <2>1, <2>2
    <2>4. Advanced(pos, end) = pos + m
      BY <1>2, <2>1, <2>2 DEF Advanced
    <2> QED
      BY <1>2, <2>1, <2>3, <2>4
  <1>3. CASE ~(end > pos)
    BY <1>3 DEF Advanced
  <1> QED
    BY <1>2, <1>3

\* Steps that touch neither the listing nor its directory.
LEMMA ListKeeps ==
  ASSUME Typed, ListInv, KindsKeep, listing' = listing,
         listing.dir # None => /\ listing.dir \in opened'
                               /\ Attr(listing.dir)'.size = Attr(listing.dir).size
                               /\ slots'[listing.dir] = slots[listing.dir]
  PROVE  ListInv'
  <1>1. CASE listing.dir = None
    BY <1>1 DEF ListInv
  <1>2. CASE listing.dir # None
    <2>1. PICK d : d = listing.dir
      OBVIOUS
    <2>2. d \in Inos /\ PagesOK(d) /\ Reported(d) /\ d \in opened'
      BY <1>2, <2>1 DEF ListInv, Listings
    <2>3. Attr(d)'.size = Attr(d).size /\ slots'[d] = slots[d]
      BY <1>2, <2>1
    <2>4. PagesOK(d)' /\ dir_pages(d)' = dir_pages(d) /\ NamesIn(d)' = NamesIn(d)
      BY <2>2, <2>3, PagesKeep
    <2>5. Reported(d)'
      BY <2>2, <2>3, <2>4 DEF Reported
    <2> QED
      BY <2>1, <2>2, <2>4, <2>5 DEF ListInv
  <1> QED
    BY <1>1, <1>2

\* No listing.
LEMMA ListIdle ==
  ASSUME listing' = Idle
  PROVE  ListInv'
  <1>1. Idle \in Listings /\ Idle.dir = None
    BY DEF Idle, Listings
  <1> QED
    BY <1>1 DEF ListInv

\* A directory is opened: nothing was reported yet.
LEMMA ListOpened ==
  ASSUME Typed, CacheInv, TreeInv, NEW d \in Inos, OpenDir(d)
  PROVE  ListInv'
  <1>1. /\ PagesOK(d) /\ d # None /\ d \in opened'
        /\ slots' = slots /\ inode' = inode /\ cached' = cached /\ ipage' = ipage
    BY LiveIsDirectory, DirectoryAssumption DEF OpenDir
  <1>2. PICK N : N = NamesIn(d)
    OBVIOUS
  <1>3. listing' = [dir |-> d, pos |-> 0, seen |-> {}, again |-> {}, kept |-> N, full |-> FALSE]
    BY <1>2 DEF OpenDir, Idle
  <1>4. N \subseteq Called
    <2>1. \A k \in dir_pages(d) : slots[d][k] \in Slot
      BY <1>1, PageFacts
    <2>2. \A e \in Slot : e.name \in Called
      BY DEF Slot, Called
    <2> QED
      BY <1>2, <2>1, <2>2 DEF NamesIn
  <1>5. listing' \in Listings /\ listing'.dir = d
    BY <1>3, <1>4 DEF Listings
  <1>6. Attr(d)' = Attr(d) /\ \A i : Attr(i)' = Attr(i)
    BY <1>1 DEF Attr
  <1>7. PagesOK(d)' /\ dir_pages(d)' = dir_pages(d) /\ NamesIn(d)' = N
    BY <1>1, <1>2, <1>6, PagesKeep DEF KindsKeep
  <1>8. \A k \in dir_pages(d) : k > 0
    <2>1. Attr(d).size \in Nat
      BY AttrType
    <2> QED
      BY <2>1 DEF dir_pages
  <1>9. Reported(d)'
    BY <1>1, <1>3, <1>7, <1>8, AlignUp DEF Reported
  <1> QED
    BY <1>1, <1>5, <1>7, <1>9 DEF ListInv

\* A call lists the first pages in use, as many as fit: the page from which the
\* next call starts lies behind all of them.
LEMMA ListAdvances ==
  ASSUME Typed, CacheInv, TreeInv, ListInv, readdir
  PROVE  ListInv'
  <1>1. PICK d : d = listing.dir
    OBVIOUS
  <1>2. d \in Inos /\ d \in Directories /\ d # None /\ PagesOK(d) /\ d \in opened /\ Reported(d)
    <2>1. LiveDir(d) /\ d \in Inos
      BY <1>1 DEF readdir, LiveDir, Typed
    <2> QED
      BY <1>1, <2>1, LiveIsDirectory, DirectoryAssumption DEF ListInv
  <1>3. \A i \in Inos : Attr(i)' = Attr(i)
    BY <1>1, <1>2, ReaddirReads
  <1>4. PICK old \in Listings : old = listing
    BY DEF ListInv
  <1>5. PICK pos : pos = ALIGN(old.pos)
    OBVIOUS
  <1>6. PICK inuse : inuse = {k \in dir_pages(d) : k > pos /\ slots[d][k].ino # None}
    OBVIOUS
  <1>7. PICK listed : listed = {k \in inuse : Cardinality({j \in inuse : j <= k}) <= Room}
    OBVIOUS
  <1>8. PICK end : end = IF listed # inuse THEN First(inuse \ listed) - 1 ELSE Attr(d).size
    OBVIOUS
  <1>9. PICK names : names = {slots[d][k].name : k \in listed}
    OBVIOUS
  <1>10. /\ listing' = [old EXCEPT !.pos = Advanced(pos, end), !.seen = @ \cup names,
                          !.again = @ \cup (old.seen \cap names), !.full = @ \/ (listed # inuse)]
         /\ UNCHANGED <<slots, opened>>
    <2> DEFINE D == listing.dir
               P == ALIGN(listing.pos)
               I == {k \in dir_pages(D) : k > P /\ slots[D][k].ino # None}
               L == {k \in I : Cardinality({j \in I : j <= k}) <= Room}
               E == IF L # I THEN First(I \ L) - 1 ELSE Attr(D).size
               M == {slots[D][k].name : k \in L}
    <2>1. listing' = [listing EXCEPT !.pos = Advanced(P, E), !.seen = @ \cup M,
                        !.again = @ \cup (listing.seen \cap M), !.full = @ \/ (L # I)]
      BY Zenon DEF readdir
    <2>2. D = d /\ P = pos /\ listing = old
      BY <1>1, <1>4, <1>5
    <2>3. I = inuse
      BY <1>6, <2>2, Zenon
    <2>4. L = listed
      BY <1>7, <2>3, Zenon
    <2>5. E = end /\ M = names
      BY <1>8, <1>9, <2>2, <2>3, <2>4, Zenon
    <2> HIDE DEF D, P, I, L, E, M
    <2>6. listing' = [old EXCEPT !.pos = Advanced(pos, end), !.seen = @ \cup names,
                        !.again = @ \cup (old.seen \cap names), !.full = @ \/ (listed # inuse)]
      BY <2>1, <2>2, <2>3, <2>4, <2>5, Zenon
    <2> QED
      BY <2>6 DEF readdir
  <1>11. /\ pos \in Nat /\ pos >= old.pos /\ old.pos \in Nat
    BY <1>4, <1>5, AlignUp DEF Listings
  <1>12. /\ Attr(d).size \in Nat /\ inuse \in SUBSET (1 .. Attr(d).size)
    BY <1>2, <1>6, AttrType DEF dir_pages
  <1>13. end \in Int /\ \A k \in listed : k <= end
    <2>1. /\ inuse \in SUBSET Nat /\ IsFiniteSet(inuse) /\ listed \subseteq inuse
          /\ \A k \in inuse : k <= Attr(d).size
      <3>1. IsFiniteSet(1 .. Attr(d).size)
        BY <1>12, FS_Interval
      <3> QED
        <4>1. IsFiniteSet(inuse)
          BY <1>12, <3>1, FS_Subset
        <4>2. listed \subseteq inuse
          BY <1>7
        <4>3. \A k \in inuse : k \in Nat /\ k <= Attr(d).size
          BY <1>12
        <4> QED
          BY <4>1, <4>2, <4>3
    <2>2. ASSUME NEW k \in listed, NEW j \in inuse, j <= k PROVE j \in listed
      <3>1. \A x \in inuse : x \in Nat
        BY <2>1
      <3>2. /\ {x \in inuse : x <= j} \subseteq {x \in inuse : x <= k}
            /\ IsFiniteSet({x \in inuse : x <= k})
        <4>1. {x \in inuse : x <= k} \subseteq inuse
          OBVIOUS
        <4>2. k \in Nat /\ j \in Nat
          BY <2>1, <2>2
        <4>3. {x \in inuse : x <= j} \subseteq {x \in inuse : x <= k}
          <5>1. ASSUME NEW x \in inuse, x <= j PROVE x <= k
            <6>1. x \in Nat /\ j <= k
              BY <2>2, <3>1
            <6> QED
              BY <4>2, <5>1, <6>1
          <5> QED
            BY <5>1, Zenon
        <4> QED
          BY <2>1, <4>1, <4>3, FS_Subset
      <3>3. /\ Cardinality({x \in inuse : x <= j}) <= Cardinality({x \in inuse : x <= k})
            /\ Cardinality({x \in inuse : x <= j}) \in Nat /\ Cardinality({x \in inuse : x <= k}) \in Nat
        BY <3>2, FS_Subset, FS_CardinalityType
      <3>4. Cardinality({x \in inuse : x <= k}) <= Room
        BY <1>7, <2>2
      <3>5. Cardinality({x \in inuse : x <= j}) <= Room
        BY <3>3, <3>4, DirectoryAssumption
      <3> QED
        BY <1>7, <2>2, <3>5
    <2>3. CASE listed = inuse
      BY <1>8, <1>12, <2>1, <2>3
    <2>4. CASE listed # inuse
      <3>1. inuse \ listed \in SUBSET Nat /\ inuse \ listed # {}
        BY <2>1, <2>4
      <3>2. PICK f : f = First(inuse \ listed)
        OBVIOUS
      <3>3. f \in inuse /\ f \notin listed /\ f \in Nat /\ end = f - 1
        BY <1>8, <2>4, <3>1, <3>2, FirstIsLeast
      <3>4. ASSUME NEW k \in listed PROVE k <= end
        <4>1. k \in Nat /\ ~(f <= k)
          BY <2>1, <2>2, <3>3
        <4> QED
          BY <3>3, <4>1
      <3>5. end \in Int
        BY <3>3
      <3> QED
        BY <3>4, <3>5, Zenon
    <2> QED
      BY <2>3, <2>4
  <1>14. PICK new : new = Advanced(pos, end)
    OBVIOUS
  <1>15. new \in Nat /\ new >= pos /\ new >= end
    BY <1>11, <1>13, <1>14, AdvanceFar
  <1>16. names \subseteq Called
    <2>1. \A k \in dir_pages(d) : slots[d][k] \in Slot
      BY <1>2, PageFacts
    <2>2. \A e \in Slot : e.name \in Called
      BY DEF Slot, Called
    <2> QED
      BY <1>6, <1>7, <1>9, <2>1, <2>2
  <1>17. /\ listing'.dir = d /\ listing'.pos = new /\ listing'.seen = old.seen \cup names
         /\ listing'.again = old.again \cup (old.seen \cap names) /\ listing'.kept = old.kept
         /\ listing'.full = (old.full \/ (listed # inuse))
         /\ listing' \in Listings
    <2>1. /\ DOMAIN old = {"dir", "pos", "seen", "again", "kept", "full"}
          /\ old.full \in BOOLEAN /\ old.dir \in Inos \cup {None} /\ old.kept \subseteq Called
          /\ old.seen \subseteq Called /\ old.again \subseteq Called
      BY DEF Listings
    <2>2. PICK b \in BOOLEAN : b = (old.full \/ (listed # inuse))
      OBVIOUS
    <2>3. listing' = [dir |-> old.dir, pos |-> new, seen |-> old.seen \cup names,
                      again |-> old.again \cup (old.seen \cap names), kept |-> old.kept, full |-> b]
      BY <1>10, <1>14, <2>2 DEF Listings
    <2> QED
      BY <1>1, <1>4, <1>15, <1>16, <2>1, <2>2, <2>3 DEF Listings
  <1>18. PagesOK(d)' /\ dir_pages(d)' = dir_pages(d) /\ NamesIn(d)' = NamesIn(d)
    BY <1>2, <1>3, <1>10, PagesKeep DEF KindsKeep
  <1>19. /\ \A k, j \in dir_pages(d) :
              slots[d][k].ino # None /\ slots[d][j].ino # None /\ slots[d][k].name = slots[d][j].name => k = j
         /\ old.kept \cap old.again = {} /\ old.kept \subseteq NamesIn(d)
         /\ \A k \in dir_pages(d) : slots[d][k].ino # None /\ slots[d][k].name \in old.kept =>
              /\ slots[d][k].name \in old.seen => k <= old.pos
              /\ ~old.full /\ slots[d][k].name \notin old.seen => k > pos
    BY <1>2, <1>4, <1>5 DEF Reported, PagesOK, OneEntry
  <1>20. ASSUME NEW x \in old.kept, x \in old.seen \cap names PROVE FALSE
    <2>1. PICK k \in listed : x = slots[d][k].name
      BY <1>9, <1>20
    <2>2. k \in dir_pages(d) /\ k > pos /\ slots[d][k].ino # None /\ k \in Nat
      BY <1>6, <1>7, <1>12, <2>1
    <2> QED
      BY <1>11, <1>19, <1>20, <2>1, <2>2
  <1>21. ASSUME NEW k \in dir_pages(d), slots[d][k].ino # None, slots[d][k].name \in old.kept
         PROVE  /\ slots[d][k].name \in old.seen \cup names => k <= new
                /\ ~(old.full \/ (listed # inuse)) /\ slots[d][k].name \notin old.seen \cup names => k > ALIGN(new)
    <2>1. k \in Nat
      BY <1>12, <1>21 DEF dir_pages
    <2>2. CASE slots[d][k].name \in names
      <3>1. PICK j \in listed : slots[d][k].name = slots[d][j].name
        BY <1>9, <2>2
      <3>2. j \in dir_pages(d) /\ slots[d][j].ino # None
        BY <1>6, <1>7, <3>1
      <3>3. k = j
        BY <1>19, <1>21, <3>1, <3>2
      <3> QED
        BY <1>13, <1>15, <2>1, <2>2, <3>1, <3>3
    <2>3. CASE slots[d][k].name \in old.seen
      BY <1>11, <1>15, <1>19, <1>21, <2>1, <2>3
    <2>4. CASE slots[d][k].name \notin old.seen \cup names
      <3>1. ASSUME ~old.full, listed = inuse PROVE FALSE
        <4>1. k > pos
          BY <1>19, <1>21, <2>4, <3>1
        <4>2. k \in listed
          BY <1>6, <1>21, <3>1, <4>1
        <4> QED
          BY <1>9, <2>4, <4>2
      <3> QED
        BY <2>4, <3>1
    <2> QED
      BY <2>2, <2>3, <2>4
  <1>22. Reported(d)'
    <2>1. listing'.kept \cap listing'.again = {}
      BY <1>17, <1>19, <1>20
    <2>2. \A k \in dir_pages(d)' :
            slots'[d][k].ino # None /\ slots'[d][k].name \in listing'.kept =>
              /\ slots'[d][k].name \in listing'.seen => k <= listing'.pos
              /\ ~listing'.full /\ slots'[d][k].name \notin listing'.seen => k > ALIGN(listing'.pos)
      BY <1>10, <1>17, <1>18, <1>21
    <2>3. ALIGN(listing'.pos) = ALIGN(listing.pos)'
      BY DEF ALIGN
    <2> QED
      BY <1>17, <1>18, <1>19, <2>1, <2>2, <2>3 DEF Reported
  <1> QED
    BY <1>2, <1>10, <1>17, <1>18, <1>22 DEF ListInv

\* A name that is added was not kept.
LEMMA ListAdds ==
  ASSUME Typed, TreeInv, ListInv, NEW d, NEW n, NEW i, NEW t, AddStep(d, n, i, t),
         listing' = listing, opened' = opened
  PROVE  ListInv'
  <1>1. CASE listing.dir # d
    <2>1. ASSUME listing.dir # None
          PROVE  Attr(listing.dir)'.size = Attr(listing.dir).size /\ slots'[listing.dir] = slots[listing.dir]
      <3>1. listing.dir \in Inos /\ Attr(listing.dir).kind = "dir"
        BY <2>1 DEF ListInv, Listings, PagesOK, DotsOK
      <3> QED
        BY <1>1, <3>1 DEF AddStep
    <2>2. KindsKeep
      BY AddEntries
    <2> QED
      BY <2>1, <2>2, ListKeeps DEF ListInv
  <1>2. CASE listing.dir = d
    <2>1. /\ d \in Inos /\ d # None /\ d \in opened /\ PagesOK(d) /\ Reported(d) /\ n \in Names
          /\ find_entry(d, n) = {} /\ i \in Inos /\ i # None
      <3>1. d \in Inos /\ i \in Inos /\ n \in Names /\ find_entry(d, n) = {}
        BY AddEntries DEF AddStep
      <3>2. d # None /\ i # None
        BY <3>1, DirectoryAssumption
      <3> QED
        BY <1>2, <3>1, <3>2 DEF ListInv
    <2>2. PagesOK(d)' /\ dir_pages(d)' = dir_pages(d) \cup {t}
      BY AddEntries
    <2>3. \A k \in dir_pages(d) : slots[d][k].ino # None => slots[d][k].name # n
      BY <2>1, EntryFound
    <2>4. n \notin listing.kept
      BY <2>1, <2>3 DEF Reported, NamesIn
    <2>5. /\ slots'[d][t].name = n
          /\ \A k \in dir_pages(d) : k # t => slots'[d][k] = slots[d][k]
          /\ \A k \in dir_pages(d) : k = t => slots[d][k].ino = None
      BY <2>1, AttrType DEF AddStep, dir_pages
    <2>6. NamesIn(d) \subseteq NamesIn(d)'
      <3> SUFFICES ASSUME NEW k \in dir_pages(d), slots[d][k].ino # None PROVE slots[d][k].name \in NamesIn(d)'
        BY DEF NamesIn
      <3>1. k \in dir_pages(d)' /\ slots'[d][k] = slots[d][k]
        BY <2>2, <2>5
      <3> QED
        BY <3>1 DEF NamesIn
    <2>7. Reported(d)'
      BY <2>1, <2>2, <2>4, <2>5, <2>6 DEF Reported, ALIGN
    <2> QED
      BY <1>2, <2>1, <2>2, <2>7 DEF ListInv
  <1> QED
    BY <1>1, <1>2

\* A removed name need not be reported.
LEMMA ListRemoves ==
  ASSUME Typed, TreeInv, ListInv, NEW d, NEW n, NEW i, NEW k, RemoveStep(d, n, i, k),
         listing' = Forgotten(d, n), opened' = opened
  PROVE  ListInv'
  <1>1. PICK old \in Listings : old = listing
    BY DEF ListInv
  <1>2. listing' = [old EXCEPT !.kept = IF old.dir = d THEN @ \ {n} ELSE @]
    BY <1>1 DEF Forgotten
  <1>3. CASE listing.dir # d
    <2>1. listing' = listing
      BY <1>1, <1>2, <1>3 DEF Listings
    <2>2. ASSUME listing.dir # None
          PROVE  Attr(listing.dir)'.size = Attr(listing.dir).size /\ slots'[listing.dir] = slots[listing.dir]
      <3>1. PICK e \in Inos : e = listing.dir
        BY <1>1, <2>2 DEF Listings
      <3>2. e # d /\ slots'[e] = slots[e] /\ (e = i \/ Attr(e)' = Attr(e))
        BY <1>3, <3>1 DEF RemoveStep
      <3>3. Attr(e)'.size = Attr(e).size
        BY <3>2 DEF RemoveStep
      <3> QED
        BY <2>1, <3>1, <3>2, <3>3
    <2>3. KindsKeep
      BY RemoveEntries
    <2> QED
      BY <2>1, <2>2, <2>3, ListKeeps DEF ListInv
  <1>4. CASE listing.dir = d
    <2>1. /\ d \in Inos /\ d # None /\ d \in opened /\ PagesOK(d) /\ Reported(d) /\ n \in Names
      BY <1>4, RemoveEntries, DirectoryAssumption DEF ListInv, RemoveStep
    <2>2. PICK K : K = old.kept \ {n}
      OBVIOUS
    <2>3. /\ listing'.dir = d /\ listing'.pos = old.pos /\ listing'.seen = old.seen /\ listing'.again = old.again
          /\ listing'.kept = K /\ listing'.full = old.full
          /\ listing' \in Listings
      <3>1. listing' = [old EXCEPT !.kept = K]
        BY <1>1, <1>2, <1>4, <2>2
      <3>2. K \subseteq Called
        BY <2>2 DEF Listings
      <3> QED
        BY <1>1, <1>4, <3>1, <3>2 DEF Listings
    <2>4. /\ PagesOK(d)' /\ dir_pages(d)' = dir_pages(d) /\ slots[d][k].name = n
          /\ slots'[d][k].ino = None
          /\ \A j \in dir_pages(d) : j # k => slots'[d][j] = slots[d][j]
      BY RemoveEntries DEF FreeSlot
    <2>5. K \subseteq NamesIn(d)'
      <3> SUFFICES ASSUME NEW x \in K PROVE x \in NamesIn(d)'
        OBVIOUS
      <3>1. x \in NamesIn(d) /\ x # n
        BY <1>1, <2>1, <2>2 DEF Reported
      <3>2. PICK j \in dir_pages(d) : slots[d][j].ino # None /\ x = slots[d][j].name
        BY <3>1 DEF NamesIn
      <3>3. j \in dir_pages(d)' /\ slots'[d][j] = slots[d][j]
        BY <2>4, <3>1, <3>2
      <3> QED
        BY <3>2, <3>3 DEF NamesIn
    <2>6. K \cap old.again = {}
      BY <1>1, <2>1, <2>2 DEF Reported
    <2>7. ASSUME NEW j \in dir_pages(d), slots'[d][j].ino # None, slots'[d][j].name \in K
          PROVE  /\ slots'[d][j].name \in old.seen => j <= old.pos
                 /\ ~old.full /\ slots'[d][j].name \notin old.seen => j > ALIGN(old.pos)
      <3>1. slots'[d][j] = slots[d][j]
        BY <2>4, <2>7
      <3> QED
        BY <1>1, <2>1, <2>2, <2>7, <3>1 DEF Reported
    <2>8. Reported(d)'
      <3>1. ALIGN(listing.pos)' = ALIGN(old.pos)
        BY <2>3 DEF ALIGN
      <3> QED
        BY <2>3, <2>4, <2>5, <2>6, <2>7, <3>1 DEF Reported
    <2> QED
      BY <2>1, <2>3, <2>4, <2>8 DEF ListInv
  <1> QED
    BY <1>3, <1>4

(***************************************************************************)
(* The invariant holds.                                                    *)
(***************************************************************************)

DirInv == Typed /\ CacheInv /\ TreeInv /\ ListInv

\* What mkfs leaves.
LEMMA InitTree ==
  ASSUME Init
  PROVE  /\ DirInv
         /\ Directories = {RootIno} /\ \A n \in Names : Meaning(RootIno, n) = None
  <1>1. /\ RootIno \in Inos /\ inode = ipage /\ cached = {RootIno} /\ dirty = {} /\ dead = {} /\ opened = {}
        /\ slots[RootIno] = Dots(RootIno) /\ ipage[RootIno] = Root
        /\ \A i \in Inos \ {RootIno} : slots[i] = <<>> /\ ipage[i] = NoInode
    BY DirectoryAssumption DEF Init
  <1>2. /\ Attr(RootIno) = Root
        /\ \A i \in Inos \ {RootIno} : Attr(i) = NoInode
    BY <1>1 DEF Attr
  <1>3. Root \in Inode /\ NoInode \in Inode
    BY DEF Root, NoInode, Inode
  <1>4. \A i \in Inos : Dots(i) \in Seq(Slot)
    BY DEF Dots, Slot
  <1>5. Typed
    <2>1. slots \in [Inos -> Seq(Slot)]
      BY <1>4 DEF Init
    <2>2. ipage \in [Inos -> Inode]
      BY <1>3 DEF Init
    <2> QED
      BY <1>1, <2>1, <2>2 DEF Typed
  <1>6. CacheInv
    BY <1>1 DEF CacheInv, Root
  <1>7. ListInv
    <2>1. listing = Idle /\ Idle \in Listings /\ Idle.dir = None
      BY DEF Init, Idle, Listings
    <2> QED
      BY <2>1 DEF ListInv
  <1>8. Directories = {RootIno}
    BY <1>1, <1>2 DEF Directories, Root, NoInode
  <1>9. dir_pages(RootIno) = {1, 2}
    BY <1>2 DEF dir_pages, Root
  <1>10. /\ slots[RootIno][1] = [name |-> ".", ino |-> RootIno] /\ slots[RootIno][2] = [name |-> "..", ino |-> RootIno]
         /\ Len(slots[RootIno]) = 2
    BY <1>1 DEF Dots
  <1>11. PagesOK(RootIno)
    <2>1. DotsOK(RootIno)
      BY <1>2, <1>10 DEF DotsOK, Root
    <2>2. OneEntry(RootIno)
      BY <1>9, <1>10 DEF OneEntry
    <2> QED
      BY <1>9, <2>1, <2>2 DEF PagesOK
  <1>12. \A k \in Nat : \A i : ~ChildAt(RootIno, k, i)
    BY <1>9 DEF ChildAt
  <1>13. Children(RootIno) = {}
    BY <1>1, <1>5, <1>11, <1>12, ChildrenAre
  <1>14. OneName
    BY <1>8, <1>12 DEF OneName
  <1>15. LinksExact
    <2>1. Cardinality(Children(RootIno) \cap Directories) = 0
      BY <1>13, FS_EmptySet
    <2>2. Attr(RootIno).nlink = 2 /\ Attr(RootIno).kind = "dir" /\ \A i \in Inos \ {RootIno} : Attr(i).nlink = 0
      BY <1>2 DEF Root, NoInode
    <2> QED
      BY <1>8, <1>13, <2>1, <2>2 DEF LinksExact
  <1>16. TreeInv
    BY <1>2, <1>8, <1>11, <1>14, <1>15 DEF TreeInv, Root
  <1>17. ASSUME NEW n \in Names PROVE Meaning(RootIno, n) = None
    <2>1. \A k \in find_entry(RootIno, n) : k \in dir_pages(RootIno) /\ k >= 3
      BY <1>1, <1>5, <1>11, EntryFound
    <2>2. find_entry(RootIno, n) = {}
      BY <1>9, <2>1
    <2> QED
      BY <2>2 DEF Meaning
  <1> QED
    BY <1>5, <1>6, <1>7, <1>8, <1>16, <1>17 DEF DirInv

\* A step gives a name, takes one away, or leaves all of them.
TreeStep ==
  \/ \E d, n, i, t : AddStep(d, n, i, t)
  \/ \E d, n, i, k : RemoveStep(d, n, i, k)
  \/ Directories' = Directories /\ \A d \in Directories, n \in Names : Meaning(d, n)' = Meaning(d, n)

\* A step that changes no attribute and no page of a directory.
LEMMA QuietStep ==
  ASSUME DirInv, \A i \in Inos : Attr(i)' = Attr(i), \A d \in Directories : slots'[d] = slots[d],
         CacheInv', Typed', ListInv'
  PROVE  DirInv' /\ TreeStep
  <1>1. TreeInv' /\ Directories' = Directories /\ \A d \in Directories, n \in Names : Meaning(d, n)' = Meaning(d, n)
    BY TreeKeeps DEF DirInv
  <1> QED
    BY <1>1 DEF DirInv, TreeStep

\* A step on the caches while a directory may be open.
LEMMA QuietList ==
  ASSUME Typed, ListInv, \A i \in Inos : Attr(i)' = Attr(i), slots' = slots, listing' = listing,
         listing.dir # None => listing.dir \in opened'
  PROVE  ListInv'
  <1>1. KindsKeep
    BY DEF KindsKeep
  <1>2. ASSUME listing.dir # None PROVE Attr(listing.dir)'.size = Attr(listing.dir).size
    <2>1. PICK d \in Inos : d = listing.dir
      BY <1>2 DEF ListInv, Listings
    <2> QED
      BY <2>1
  <1> QED
    BY <1>1, <1>2, ListKeeps

\* Every step keeps the invariant, and is one of the three to the tree.
LEMMA DirStep ==
  ASSUME DirInv, [Next]_vars
  PROVE  DirInv' /\ TreeStep
  <1> USE DEF DirInv
  <1>1. ASSUME NEW d \in Inos, NEW n \in Names, lookup(d, n) PROVE DirInv' /\ TreeStep
    <2>1. (\A i \in Inos : Attr(i)' = Attr(i)) /\ CacheInv' /\ Typed'
      BY <1>1, LookupReads
    <2>2. slots' = slots /\ opened' = opened /\ listing' = listing
      BY <1>1 DEF lookup
    <2>3. ListInv'
      BY <2>1, <2>2, QuietList DEF ListInv
    <2> QED
      BY <2>1, <2>2, <2>3, QuietStep
  <1>2. ASSUME NEW d \in Inos, NEW n \in Names, NEW i \in Inos, Create(d, n, i) PROVE DirInv' /\ TreeStep
    <2>1. AddStep(d, n, i, Target(d)) /\ CacheInv' /\ Typed'
      BY <1>2, CreateAdds
    <2>2. listing' = listing /\ opened' = opened
      BY <1>2 DEF Create
    <2>3. TreeInv' /\ ListInv'
      BY <2>1, <2>2, AddTree, ListAdds
    <2> QED
      BY <2>1, <2>3 DEF TreeStep
  <1>3. ASSUME NEW d \in Inos, NEW n \in Names, NEW i \in Inos, Mkdir(d, n, i) PROVE DirInv' /\ TreeStep
    <2>1. AddStep(d, n, i, Target(d)) /\ CacheInv' /\ Typed'
      BY <1>3, MkdirAdds
    <2>2. listing' = listing /\ opened' = opened
      BY <1>3 DEF Mkdir
    <2>3. TreeInv' /\ ListInv'
      BY <2>1, <2>2, AddTree, ListAdds
    <2> QED
      BY <2>1, <2>3 DEF TreeStep
  <1>4. ASSUME NEW d \in Inos, NEW n \in Names, Unlink(d, n) \/ Rmdir(d, n) PROVE DirInv' /\ TreeStep
    <2>1. (\E i, k : RemoveStep(d, n, i, k)) /\ CacheInv' /\ Typed'
      BY <1>4, UnlinkRemoves, RmdirRemoves
    <2>2. PICK i, k : RemoveStep(d, n, i, k)
      BY <2>1
    <2>3. listing' = Forgotten(d, n) /\ opened' = opened
      BY <1>4 DEF Unlink, Rmdir
    <2>4. TreeInv' /\ ListInv'
      BY <2>2, <2>3, RemoveTree, ListRemoves
    <2> QED
      BY <2>1, <2>4 DEF TreeStep
  <1>5. ASSUME UNCHANGED <<slots, ipage, inode, cached, dirty, dead>>
        PROVE  /\ \A i \in Inos : Attr(i)' = Attr(i)
               /\ CacheInv' /\ (opened' \subseteq cached => Typed')
    BY <1>5 DEF Attr, CacheInv, Typed
  <1>6. ASSUME NEW i \in Inos, Open(i) \/ Close(i) PROVE DirInv' /\ TreeStep
    <2>1. /\ UNCHANGED <<slots, ipage, inode, cached, dirty, dead>> /\ listing' = listing
          /\ i \in cached /\ inode[i].kind = "reg" /\ opened \ {i} \subseteq opened' /\ opened' \subseteq cached
      BY <1>6 DEF Open, Close, Typed
    <2>2. listing.dir # None => listing.dir # i
      BY <2>1 DEF ListInv, PagesOK, DotsOK, Attr
    <2>3. listing.dir # None => listing.dir \in opened'
      BY <2>1, <2>2 DEF ListInv
    <2>4. ListInv'
      BY <1>5, <2>1, <2>3, QuietList
    <2> QED
      BY <1>5, <2>1, <2>4, QuietStep
  <1>7. ASSUME NEW d \in Inos, OpenDir(d) PROVE DirInv' /\ TreeStep
    <2>1. UNCHANGED <<slots, ipage, inode, cached, dirty, dead>> /\ opened' \subseteq cached
      BY <1>7 DEF OpenDir, LiveDir, Typed
    <2> QED
      BY <1>5, <1>7, <2>1, QuietStep, ListOpened
  <1>8. ASSUME NEW i \in Inos, write_inode(i) PROVE DirInv' /\ TreeStep
    <2>1. (\A j \in Inos : Attr(j)' = Attr(j)) /\ CacheInv' /\ Typed'
      BY <1>8, WriteKeeps
    <2>2. slots' = slots /\ opened' = opened /\ listing' = listing
      BY <1>8 DEF write_inode
    <2>3. ListInv'
      BY <2>1, <2>2, QuietList DEF ListInv
    <2> QED
      BY <2>1, <2>2, <2>3, QuietStep
  <1>9. ASSUME NEW i \in Inos, Evict(i) PROVE DirInv' /\ TreeStep
    <2>1. /\ \A j \in Inos : Attr(j)' = Attr(j)
          /\ CacheInv' /\ Typed'
          /\ i \notin opened /\ opened' = opened /\ listing' = listing
          /\ \A j \in Inos : j # i \/ j \in Directories => slots'[j] = slots[j]
      BY <1>9, EvictKeeps
    <2>2. ASSUME listing.dir # None
          PROVE  Attr(listing.dir)'.size = Attr(listing.dir).size /\ slots'[listing.dir] = slots[listing.dir]
      <3>1. PICK d \in Inos : d = listing.dir
        BY <2>2 DEF ListInv, Listings
      <3>2. d # i
        BY <2>1, <2>2, <3>1 DEF ListInv
      <3> QED
        BY <2>1, <3>1, <3>2
    <2>3. KindsKeep
      BY <2>1 DEF KindsKeep
    <2>4. ListInv'
      BY <2>1, <2>2, <2>3, ListKeeps DEF ListInv
    <2>5. \A d \in Directories : slots'[d] = slots[d]
      BY <2>1 DEF Directories
    <2> QED
      BY <2>1, <2>4, <2>5, QuietStep
  <1>10. CASE readdir
    <2>1. listing.dir \in Inos
      BY <1>10 DEF readdir, LiveDir, Typed
    <2>2. (\A i \in Inos : Attr(i)' = Attr(i)) /\ CacheInv' /\ Typed' /\ slots' = slots
      BY <1>10, <2>1, ReaddirReads DEF readdir
    <2>3. ListInv'
      BY <1>10, ListAdvances
    <2> QED
      BY <2>2, <2>3, QuietStep
  <1>11. CASE ListingEnds \/ ListingStops
    <2>1. /\ UNCHANGED <<slots, ipage, inode, cached, dirty, dead>> /\ listing' = Idle
          /\ opened' \subseteq cached
      BY <1>11 DEF ListingEnds, ListingStops, Typed
    <2> QED
      BY <1>5, <2>1, ListIdle, QuietStep
  <1>12. CASE Remount
    <2>1. (\A j \in Inos : Attr(j)' = Attr(j)) /\ CacheInv' /\ Typed'
      BY <1>12, RemountKeeps
    <2>2. slots' = slots /\ opened' = opened /\ listing' = listing
      BY <1>12 DEF Remount
    <2>3. ListInv'
      BY <2>1, <2>2, QuietList DEF ListInv
    <2> QED
      BY <2>1, <2>2, <2>3, QuietStep
  <1>13. CASE UNCHANGED vars
    <2>1. /\ UNCHANGED <<slots, ipage, inode, cached, dirty, dead>> /\ listing' = listing /\ opened' = opened
      BY <1>13 DEF vars
    <2>2. opened' \subseteq cached /\ (listing.dir # None => listing.dir \in opened')
      BY <2>1 DEF Typed, ListInv
    <2>3. ListInv'
      BY <1>5, <2>1, <2>2, QuietList
    <2> QED
      BY <1>5, <2>1, <2>2, <2>3, QuietStep
  <1>14. CASE Next
    <2> HIDE DEF DirInv
    <2> QED
      BY <1>1, <1>2, <1>3, <1>4, <1>6, <1>7, <1>8, <1>9, <1>10, <1>11, <1>12, <1>14, Zenon DEF Next
  <1> QED
    BY <1>13, <1>14

(***************************************************************************)
(* The tree of names.                                                      *)
(***************************************************************************)

\* A meaning is a child.
LEMMA MeaningIsChild ==
  ASSUME Typed, TreeInv, NEW d \in Directories, NEW n \in Names, Meaning(d, n) # None
  PROVE  Meaning(d, n) \in Children(d)
  <1>1. d \in Inos /\ PagesOK(d)
    BY DEF Directories, TreeInv
  <1>2. PICK k : k \in find_entry(d, n)
    BY <1>1, EntryFound
  <1>3. k \in dir_pages(d) /\ Meaning(d, n) = slots[d][k].ino /\ ChildAt(d, k, slots[d][k].ino)
    BY <1>1, <1>2, EntryFound
  <1>4. k \in Nat
    BY <1>1, <1>3, PageFacts
  <1> QED
    BY <1>1, <1>3, <1>4, ChildrenAre

\* To add a name is an action of Namespace.
LEMMA AddIsAdd ==
  ASSUME Typed, TreeInv, NEW d, NEW n, NEW i, NEW t, AddStep(d, n, i, t)
  PROVE  NS!Add(d, n, i)
  <1>1. /\ d \in Directories /\ n \in Names /\ i \in Inos /\ d # i /\ ~Named(i) /\ i \notin Directories
        /\ Directories' = IF Attr(i)'.kind = "dir" THEN Directories \cup {i} ELSE Directories
        /\ Meaning(d, n) = None /\ Meaning(d, n)' = i
        /\ \A m \in Names \ {n} : Meaning(d, m)' = Meaning(d, m)
        /\ \A e \in Directories \ {d}, m \in Names : Meaning(e, m)' = Meaning(e, m)
        /\ Attr(i)'.kind = "dir" => \A m \in Names : Meaning(i, m)' = None
    BY AddEntries, AddMeaning, AddOthers DEF AddStep
  <1>2. /\ DOMAIN Tree = Directories
        /\ \A e \in Directories : Tree[e] = [m \in Names |-> Meaning(e, m)]
        /\ DOMAIN Tree' = Directories'
        /\ \A e \in Directories' : Tree'[e] = [m \in Names |-> Meaning(e, m)']
        /\ Tree' = [e \in Directories' |-> Tree'[e]]
    BY DEF Tree
  <1>3. Tree[d][n] = None
    BY <1>1, <1>2
  <1>4. i \in NS!Unused
    <2>1. ASSUME NEW e \in Directories, NEW m \in Names, Tree[e][m] = i PROVE FALSE
      <3>1. Meaning(e, m) = i /\ i # None
        BY <1>1, <1>2, <2>1, DirectoryAssumption
      <3>2. i \in Children(e)
        BY <3>1, MeaningIsChild
      <3> QED
        BY <1>1, <3>2 DEF Named
    <2> QED
      BY <1>1, <1>2, <2>1 DEF NS!Unused, NS!Named
  <1>5. Tree'[d] = [Tree[d] EXCEPT ![n] = i]
    BY <1>1, <1>2
  <1>6. \A e \in Directories \ {d} : Tree'[e] = Tree[e]
    BY <1>1, <1>2
  <1>7. CASE Attr(i)'.kind = "dir"
    <2>1. Directories' = Directories \cup {i}
      BY <1>1, <1>7
    <2>2. Tree'[i] = [m \in Names |-> None]
      <3>1. i \in Directories'
        BY <2>1
      <3>2. Tree'[i] = [m \in Names |-> Meaning(i, m)']
        BY <1>2, <3>1
      <3>3. \A m \in Names : Meaning(i, m)' = None
        BY <1>1, <1>7
      <3> QED
        BY <3>2, <3>3
    <2>3. \A e \in Directories \cup {i} :
            Tree'[e] = IF e = i THEN NS!Empty ELSE IF e = d THEN [Tree[d] EXCEPT ![n] = i] ELSE Tree[e]
      BY <1>1, <1>5, <1>6, <2>2 DEF NS!Empty
    <2>4. Tree' = [e \in DOMAIN Tree \cup {i} |->
                     IF e = i THEN NS!Empty ELSE IF e = d THEN [Tree[d] EXCEPT ![n] = i] ELSE Tree[e]]
      BY <1>2, <2>1, <2>3
    <2> QED
      BY <1>3, <1>4, <2>4 DEF NS!Add
  <1>8. CASE Attr(i)'.kind # "dir"
    <2>1. Directories' = Directories
      BY <1>1, <1>8
    <2>2. PICK f : f = [Tree[d] EXCEPT ![n] = i]
      OBVIOUS
    <2>3. Tree' = [Tree EXCEPT ![d] = f]
      <3>1. Tree = [e \in Directories |-> Tree[e]]
        BY DEF Tree
      <3> QED
        BY <1>1, <1>2, <1>5, <1>6, <2>1, <2>2, <3>1
    <2>4. Tree' = [Tree EXCEPT ![d][n] = i]
      BY <2>2, <2>3
    <2> QED
      BY <1>3, <1>4, <2>4 DEF NS!Add
  <1> QED
    BY <1>7, <1>8

\* So is to remove one.
LEMMA RemoveIsRemove ==
  ASSUME Typed, TreeInv, NEW d, NEW n, NEW i, NEW k, RemoveStep(d, n, i, k)
  PROVE  NS!Remove(d, n)
  <1>1. /\ d \in Directories /\ n \in Names /\ i \in Inos /\ i # d /\ i # None
        /\ Directories' = Directories \ {i}
        /\ Meaning(d, n) = i /\ Meaning(d, n)' = None
        /\ \A m \in Names \ {n} : Meaning(d, m)' = Meaning(d, m)
        /\ \A e \in Directories \ {d, i}, m \in Names : Meaning(e, m)' = Meaning(e, m)
        /\ i \in Directories => Children(i) = {}
    BY RemoveMeaning, RemoveOthers, DirectoryAssumption DEF RemoveStep
  <1>2. /\ DOMAIN Tree = Directories
        /\ \A e \in Directories : Tree[e] = [m \in Names |-> Meaning(e, m)]
        /\ DOMAIN Tree' = Directories'
        /\ \A e \in Directories' : Tree'[e] = [m \in Names |-> Meaning(e, m)']
        /\ Tree' = [e \in Directories' |-> Tree'[e]]
    BY DEF Tree
  <1>3. Tree[d][n] = i
    BY <1>1, <1>2
  <1>4. ASSUME i \in DOMAIN Tree PROVE Tree[i] = NS!Empty
    <2>1. i \in Directories
      BY <1>2, <1>4
    <2>2. \A m \in Names : Meaning(i, m) = None
      BY <1>1, <2>1, MeaningIsChild
    <2> QED
      BY <1>2, <2>1, <2>2 DEF NS!Empty
  <1>5. \A e \in Directories \ {i} : Tree'[e] = IF e = d THEN [Tree[e] EXCEPT ![n] = None] ELSE Tree[e]
    <2>1. Tree'[d] = [Tree[d] EXCEPT ![n] = None]
      BY <1>1, <1>2
    <2>2. \A e \in Directories \ {d, i} : Tree'[e] = Tree[e]
      BY <1>1, <1>2
    <2> QED
      BY <2>1, <2>2
  <1>6. Tree' = [e \in DOMAIN Tree \ {i} |-> IF e = d THEN [Tree[e] EXCEPT ![n] = None] ELSE Tree[e]]
    BY <1>1, <1>2, <1>5
  <1> QED
    BY <1>1, <1>3, <1>4, <1>6 DEF NS!Remove

(***************************************************************************)
(* The theorems.                                                           *)
(***************************************************************************)

\* The invariant holds always.
LEMMA DirAlways == Spec => []DirInv
  <1>1. Init => DirInv
    BY InitTree
  <1>2. DirInv /\ [Next]_vars => DirInv'
    BY DirStep
  <1> QED
    BY <1>1, <1>2, PTL DEF Spec

\* Every variable keeps its type, link counts stay naturals however often the
\* inode is written back, evicted and read again, and no directory's size
\* reaches behind its pages.
THEOREM DirectoryTyped == Spec => []TypeOK
  <1>1. DirInv => TypeOK
    <2> SUFFICES ASSUME DirInv PROVE TypeOK
      OBVIOUS
    <2>1. \A i \in Inos : \A k \in DOMAIN slots[i] : slots[i][k] \in Slot
      BY DEF DirInv, Typed
    <2>2. /\ ipage \in [Inos -> Inode] /\ inode \in [Inos -> Inode]
          /\ cached \subseteq Inos /\ dirty \subseteq cached /\ opened \subseteq cached /\ dead \subseteq Inos
      BY DEF DirInv, Typed
    <2>3. listing.dir \in opened \cup {None} /\ listing.pos \in Nat
      BY DEF DirInv, ListInv, Listings
    <2>4. ASSUME NEW i \in Inos, Attr(i).kind = "dir", Attr(i).nlink > 0 PROVE Attr(i).size <= Len(slots[i])
      <3>1. PagesOK(i)
        BY <2>4 DEF DirInv, TreeInv, Directories
      <3>2. Attr(i).size = Len(slots[i]) /\ Attr(i).size \in Nat
        BY <3>1, AttrType DEF DirInv, PagesOK, DotsOK
      <3> QED
        BY <3>2
    <2> QED
      BY <2>1, <2>2, <2>3, <2>4 DEF TypeOK
  <1> QED
    BY <1>1, DirAlways, PTL

\* What mkdir, rmdir and unlink do to the counts of two inodes agrees with the
\* entries they write, whatever the flusher and the inode cache do meanwhile:
\* an inode has as many links as names, and none if it has no name.
THEOREM LinksAlwaysExact == Spec => []LinksExact
  <1>1. DirInv => LinksExact
    BY DEF DirInv, TreeInv
  <1> QED
    BY <1>1, DirAlways, PTL

\* readdir, called again and again while names come and go, reports what stays
\* at most once, and exactly once as long as no buffer was full.
THEOREM ListingAlwaysExact == Spec => []ListingExact
  <1>1. DirInv => ListingExact
    <2> SUFFICES ASSUME DirInv, listing.dir # None
                 PROVE  /\ listing.kept \cap listing.again = {}
                        /\ (\A k \in dir_pages(listing.dir) :
                              k > ALIGN(listing.pos) => slots[listing.dir][k].ino = None) /\ ~listing.full
                             => listing.kept \subseteq listing.seen
      BY DEF ListingExact
    <2>1. Reported(listing.dir)
      BY DEF DirInv, ListInv
    <2>2. ASSUME \A k \in dir_pages(listing.dir) : k > ALIGN(listing.pos) => slots[listing.dir][k].ino = None,
                 ~listing.full, NEW x \in listing.kept
          PROVE  x \in listing.seen
      <3>1. x \in NamesIn(listing.dir)
        BY <2>1 DEF Reported
      <3>2. PICK k \in dir_pages(listing.dir) :
              slots[listing.dir][k].ino # None /\ x = slots[listing.dir][k].name
        BY <3>1 DEF NamesIn
      <3> QED
        BY <2>1, <2>2, <3>2 DEF Reported
    <2> QED
      BY <2>1, <2>2 DEF Reported
  <1> QED
    BY <1>1, DirAlways, PTL

\* The directories, with their pages, caches and write-back, implement the tree
\* of names: every step of them adds one name to one that has none, takes one
\* away, of an empty directory only, or changes no name.
THEOREM NamespaceImplemented == Spec => ImplementsNamespace
  <1>1. Init => NS!Init
    <2> SUFFICES ASSUME Init PROVE NS!Init
      OBVIOUS
    <2>1. Directories = {RootIno} /\ \A n \in Names : Meaning(RootIno, n) = None
      BY InitTree
    <2>2. Tree = [d \in {RootIno} |-> NS!Empty]
      BY <2>1 DEF Tree, NS!Empty
    <2> QED
      BY <2>2 DEF NS!Init
  <1>2. DirInv /\ [Next]_vars => [NS!Next]_Tree
    <2> SUFFICES ASSUME DirInv, [Next]_vars, Tree' # Tree PROVE NS!Next
      OBVIOUS
    <2>1. DOMAIN Tree = Directories
      BY DEF Tree
    <2>2. CASE \E d, n, i, t : AddStep(d, n, i, t)
      <3>1. PICK d, n, i, t : AddStep(d, n, i, t)
        BY <2>2
      <3>2. d \in Directories /\ n \in Names /\ i \in Inos
        BY <3>1 DEF AddStep
      <3>3. NS!Add(d, n, i)
        BY <3>1, AddIsAdd DEF DirInv
      <3> QED
        BY <2>1, <3>2, <3>3 DEF NS!Next
    <2>3. CASE \E d, n, i, k : RemoveStep(d, n, i, k)
      <3>1. PICK d, n, i, k : RemoveStep(d, n, i, k)
        BY <2>3
      <3>2. d \in Directories /\ n \in Names
        BY <3>1 DEF RemoveStep
      <3>3. NS!Remove(d, n)
        BY <3>1, RemoveIsRemove DEF DirInv
      <3> QED
        BY <2>1, <3>2, <3>3 DEF NS!Next
    <2>4. CASE Directories' = Directories /\ \A d \in Directories, n \in Names : Meaning(d, n)' = Meaning(d, n)
      BY <2>4 DEF Tree
    <2> QED
      BY <2>2, <2>3, <2>4, DirStep DEF TreeStep
  <1> QED
    BY <1>1, <1>2, DirAlways, PTL DEF Spec, ImplementsNamespace, NS!Spec
=============================================================================

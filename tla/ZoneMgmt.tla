------------------------------ MODULE ZoneMgmt ------------------------------
(***************************************************************************)
(* The zone allocator of xcpfs: zone_mgmt.c, driven by the write path of   *)
(* xio.c, from the state fill_super (xcpfs.c) leaves behind.               *)
(*                                                                         *)
(* A page is one cached file system block.  Its writer reads the block's   *)
(* current address, asks alloc_zone for a zone, clears the old block in    *)
(* the zone table, appends to the zone and, when the append completes,     *)
(* records the address the device chose.  Several pages are written at     *)
(* once; zm_info_lock is the only thing they exclude each other with.      *)
(*                                                                         *)
(* Block addresses are pairs <<zone, offset>>; write pointers are absolute *)
(* block numbers, as in the code.  The `dirty' marks of zones and the      *)
(* restart request to a running checkpoint are left to other modules.      *)
(***************************************************************************)
EXTENDS Integers, FiniteSets

CONSTANTS NrZones,      \* zones of the device
          ZoneBlocks,   \* blocks of address space per zone
          CapBlocks,    \* writable blocks per zone
          MaxOpen,      \* device limit on open zones
          MaxActive,    \* device limit on active zones
          NodeLimit,    \* limit_type[ZONE_TYPE_NODE], 2 in the code
          Page,         \* the cached blocks that are written
          TypeOf,       \* page type of each page
          Boots,        \* states the mount can leave behind
          MaxIO,        \* bound: number of writes started in a behaviour
          NrTypeCap,    \* bound: nr_type stops counting here, above every limit
          None          \* empty table slot, free lock

PageTypes == {"META_NODE", "META_DATA", "REG_NODE", "REG_DATA"}
ZoneTypes == PageTypes \cup {"FREE"}
Conds == {"EMPTY", "IMP_OPEN", "EXP_OPEN", "CLOSED", "FULL"}

Zones == 0 .. NrZones - 1
OpenSlots == 0 .. MaxOpen - 1
ActiveSlots == 0 .. MaxActive - 1
Addrs == Zones \X (0 .. ZoneBlocks - 1)

\* Address 0 is a real block of zone 0 and also the mark of "no block yet".
NullAddr == <<0, 0>>

Start(z) == z * ZoneBlocks
blk2zone(a) == a[1]

ASSUME SizesAssumption ==
  /\ NrZones \in Nat \ {0} /\ MaxOpen \in Nat \ {0} /\ MaxActive \in Nat \ {0}
  /\ ZoneBlocks \in Nat /\ CapBlocks \in 2 .. ZoneBlocks
  /\ NodeLimit \in Nat /\ MaxIO \in Nat
  /\ TypeOf \in [Page -> PageTypes]
  /\ None \notin Zones /\ None \notin Page

\* The limits of init_zm_info: META_DATA is set twice, META_NODE never.
limit_type == [t \in ZoneTypes |->
                 CASE t = "META_DATA" -> 1
                   [] t = "REG_NODE"  -> NodeLimit
                   [] t = "REG_DATA"  -> MaxOpen - 4 - NodeLimit
                   [] OTHER           -> 0]

ASSUME NrTypeCapAssumption ==
  NrTypeCap \in Nat /\ \A t \in ZoneTypes : limit_type[t] <= NrTypeCap

-----------------------------------------------------------------------------
(* What a mount finds and builds. *)

\* The slots of a table that hold a zone.
Used(table) == {i \in DOMAIN table : table[i] # None}

\* The table lists exactly the zones of S, none of them twice.
Lists(table, S) ==
  /\ \A i \in Used(table) : table[i] \in S
  /\ \A z \in S : \E i \in Used(table) : table[i] = z
  /\ \A i, j \in Used(table) : table[i] = table[j] => i = j

\* report_zones_cb fills the tables from slot 0 on, in zone order.
FilledInOrder(table, S) ==
  /\ Lists(table, S)
  /\ \A i \in Used(table), j \in DOMAIN table :
       j < i => /\ j \in Used(table)
                /\ table[j] < table[i]

OpenConds == {"IMP_OPEN", "EXP_OPEN"}
ActiveConds == OpenConds \cup {"CLOSED"}

\* A state fill_super can leave: conditions and write pointers are the
\* device's, the tables follow the conditions, and nr_type counts the zones
\* of the on-disk zone table if there is one (b.zit).
Mounted(b) ==
  /\ b.cond \in [Zones -> Conds] /\ b.wp \in [Zones -> Nat]
  /\ b.opened \in [OpenSlots -> Zones \cup {None}]
  /\ b.active \in [ActiveSlots -> Zones \cup {None}]
  /\ FilledInOrder(b.opened, {z \in Zones : b.cond[z] \in OpenConds})
  /\ FilledInOrder(b.active, {z \in Zones : b.cond[z] \in ActiveConds})
  /\ b.zone_type \in [Zones -> ZoneTypes]
  /\ b.nr_type = [t \in ZoneTypes |->
       IF b.zit
       THEN Cardinality({z \in Zones : b.cond[z] # "EMPTY" /\ b.zone_type[z] = t})
       ELSE 0]
  /\ b.vblocks \in [Zones -> Nat] /\ b.valid_map \subseteq Addrs
  /\ \A a \in b.valid_map : b.zit /\ b.cond[a[1]] # "EMPTY"
  /\ b.addr \in [Page -> Addrs]
  /\ \A z \in Zones : /\ b.cond[z] = "EMPTY" => b.wp[z] = Start(z)
                      /\ b.cond[z] # "FULL" => b.wp[z] \in Start(z) .. Start(z) + CapBlocks - 1
                      /\ b.cond[z] = "FULL" => b.wp[z] = Start(z) + ZoneBlocks

\* Zone 0 was closed or opened explicitly (mkfs opens it), never implicitly.
SuperNotImplicit(b) == b.cond[0] # "IMP_OPEN"

\* What an unmount writes and a mount reads back: a block lies in a used zone
\* of its page's type, and the superblock zones have no type as long as
\* get_empty_zone finds another one.
PlacedAtMount(b) ==
  /\ \A p \in Page :
       LET z == blk2zone(b.addr[p]) IN
       z # 0 => b.cond[z] # "EMPTY" /\ b.zone_type[z] = TypeOf[p]
  /\ (\E z \in Zones : z >= 2 /\ b.cond[z] = "EMPTY")
       => \A z \in Zones : z < 2 => b.zone_type[z] = "FREE"

\* The superblock is written, an EMPTY zone has no valid blocks, and the
\* addresses read at mount are of written blocks, each of one page.
WrittenAtMount(b) ==
  /\ b.cond[0] # "EMPTY" /\ b.wp[0] > 0
  /\ \A z \in Zones : b.cond[z] = "EMPTY" => b.vblocks[z] = 0
  /\ \A p \in Page : b.addr[p] # NullAddr =>
       LET z == blk2zone(b.addr[p]) IN Start(z) + b.addr[p][2] < b.wp[z]
  /\ \A p, q \in Page : b.addr[p] = b.addr[q] => p = q \/ b.addr[p] = NullAddr

\* How many open zones of a type get_zone may come to: it opens one under the
\* type's limit or when it has found none.  Untyped, only zone 0 is open.
Share(t) == IF limit_type[t] > 1 THEN limit_type[t] ELSE 1

\* A mount with a zone table on disk, within the shares, and with few enough
\* CLOSED zones, which stay in the active table for ever.
CountedAtMount(b) ==
  /\ b.zit
  /\ \A t \in ZoneTypes :
       Cardinality({z \in Zones : b.cond[z] \in OpenConds /\ b.zone_type[z] = t}) <= Share(t)
  /\ Cardinality({z \in Zones : b.cond[z] = "CLOSED"}) <= MaxActive - MaxOpen + 1

ASSUME BootsAssumption == \A b \in Boots : Mounted(b) /\ SuperNotImplicit(b)

-----------------------------------------------------------------------------
VARIABLES
  dwp,               \* the device's own write pointers
  cond, wp, zone_type, vblocks,  \* struct xcpfs_zone_info of each zone
  valid_map,         \* the blocks whose valid_map bit is set
  zone_opened, zone_opened_count,
  zone_active, zone_active_count,
  nr_type,
  zm_info_lock,      \* the page whose writer holds the lock, or None
  pc,                \* where the writer of each page is
  old_blkaddr,       \* xio->old_blkaddr, read when the write is submitted
  new_zone,          \* the zone alloc_zone put into xio->new_blkaddr
  bi_sector,         \* the address the device put into the bio
  addr,              \* NAT entry or dnode slot of each page
  nio,               \* writes started so far
  ioerr,             \* history: some append was refused by the device
  emptyAtMount       \* history: the zones that were EMPTY at mount

tableVars == <<cond, zone_opened, zone_opened_count, zone_active, zone_active_count>>
mapVars == <<vblocks, valid_map>>
ioVars == <<nio, ioerr, emptyAtMount>>
vars == <<dwp, tableVars, wp, zone_type, mapVars, nr_type, zm_info_lock,
          pc, old_blkaddr, new_zone, bi_sector, addr, ioVars>>

Init ==
  \E b \in Boots :
    /\ cond = b.cond /\ wp = b.wp /\ dwp = b.wp
    /\ zone_type = b.zone_type /\ nr_type = b.nr_type
    /\ vblocks = b.vblocks /\ valid_map = b.valid_map
    /\ zone_opened = b.opened /\ zone_active = b.active
    /\ zone_opened_count = Cardinality(Used(b.opened))
    /\ zone_active_count = Cardinality(Used(b.active))
    /\ zm_info_lock = None
    /\ pc = [p \in Page |-> "idle"]
    /\ old_blkaddr = [p \in Page |-> NullAddr]
    /\ new_zone = [p \in Page |-> 0]
    /\ bi_sector = [p \in Page |-> NullAddr]
    /\ addr = b.addr
    /\ nio = 0 /\ ioerr = FALSE
    /\ emptyAtMount = {z \in Zones : b.cond[z] = "EMPTY"}

-----------------------------------------------------------------------------
(* The tables of open and active zones. *)

\* The first slot of the table that holds v, as a set: empty if none does.
FirstSlot(table, v) ==
  {i \in DOMAIN table : table[i] = v /\ \A j \in DOMAIN table : j < i => table[j] # v}

insert_zone_opened(z) ==
  \/ \E i \in FirstSlot(zone_opened, None) :
       /\ zone_opened' = [zone_opened EXCEPT ![i] = z]
       /\ zone_opened_count' = zone_opened_count + 1
  \/ /\ \A i \in OpenSlots : zone_opened[i] # None
     /\ UNCHANGED <<zone_opened, zone_opened_count>>

insert_zone_active(z) ==
  \/ \E i \in FirstSlot(zone_active, None) :
       /\ zone_active' = [zone_active EXCEPT ![i] = z]
       /\ zone_active_count' = zone_active_count + 1
  \/ /\ \A i \in ActiveSlots : zone_active[i] # None
     /\ UNCHANGED <<zone_active, zone_active_count>>

remove_zone_opened(z) ==
  \/ \E i \in FirstSlot(zone_opened, z) :
       /\ zone_opened' = [zone_opened EXCEPT ![i] = None]
       /\ zone_opened_count' = zone_opened_count - 1
  \/ /\ \A i \in OpenSlots : zone_opened[i] # z
     /\ UNCHANGED <<zone_opened, zone_opened_count>>

remove_zone_active(z) ==
  \/ \E i \in FirstSlot(zone_active, z) :
       /\ zone_active' = [zone_active EXCEPT ![i] = None]
       /\ zone_active_count' = zone_active_count - 1
  \/ /\ \A i \in ActiveSlots : zone_active[i] # z
     /\ UNCHANGED <<zone_active, zone_active_count>>

\* The device opens any zone that is not full.
DeviceOpens(z) == cond[z] # "FULL"

OpenRefused(z) ==
  \/ cond[z] = "EXP_OPEN"
  \/ zone_opened_count = MaxOpen
  \/ zone_active_count = MaxActive
  \/ ~DeviceOpens(z)

\* A closed zone is in the active table already.
EnterActiveAlways(z) == insert_zone_active(z)
EnterActive(z) ==
  IF cond[z] # "CLOSED" THEN insert_zone_active(z)
  ELSE UNCHANGED <<zone_active, zone_active_count>>

xcpfs_zone_open(z) ==
  \/ OpenRefused(z) /\ UNCHANGED tableVars
  \/ /\ ~OpenRefused(z)
     /\ insert_zone_opened(z)
     /\ EnterActive(z)
     /\ cond' = [cond EXCEPT ![z] = "EXP_OPEN"]

\* The first EMPTY zone from zone 2 on, else zone 0 (the code's "TODO GC").
EmptyZones == {z \in Zones : z >= 2 /\ cond[z] = "EMPTY"}
get_empty_zone ==
  IF EmptyZones = {} THEN {0} ELSE {z \in EmptyZones : \A y \in EmptyZones : z <= y}

CandidateOfAnyType(z, t) == z # None /\ zone_type[z] # "FREE"
Candidate(z, t) == z # None /\ zone_type[z] = t

\* get_zone's scan of the open table for a zone of type t.  A candidate's
\* relative write pointer is compared with the best one's absolute pointer.
\* Nothing counts in-flight writes: start_flight and end_flight do nothing.
Unbounded == NrZones * ZoneBlocks + 1
ScanTarget(t) ==
  LET scan[n \in 0 .. MaxOpen] ==
        IF n = 0 THEN [inflight |-> Unbounded, tar |-> None]
        ELSE LET z == zone_opened[n - 1]
                 best == scan[n - 1]
             IN  IF Candidate(z, t) /\ wp[z] - Start(z) < best.inflight
                 THEN [inflight |-> wp[z], tar |-> z]
                 ELSE best
  IN  scan[MaxOpen].tar

-----------------------------------------------------------------------------
(* The write path of one page. *)

Goto(p, label) == pc' = [pc EXCEPT ![p] = label]

\* submit_node_xio and submit_data_xio read the address to be replaced, from
\* the NAT or from the dnode, which stays locked until end_io.
SubmitXio(p) ==
  /\ pc[p] = "idle" /\ nio < MaxIO
  /\ nio' = nio + 1
  /\ old_blkaddr' = [old_blkaddr EXCEPT ![p] = addr[p]]
  /\ Goto(p, "alloc")
  /\ UNCHANGED <<dwp, tableVars, wp, zone_type, mapVars, nr_type, zm_info_lock,
                 new_zone, bi_sector, addr, ioerr, emptyAtMount>>

\* Another zone of the type may be opened.
AnyNumber(t) == TRUE
UnderLimit(t) == nr_type[t] < limit_type[t]

\* A block stays in its zone until that is FULL; zone 0 stands for "no zone".
KeepsFullZone(z) == z # 0
KeepsZone(z) == cond[z] # "FULL" /\ z # 0

\* alloc_zone up to get_zone.
AllocZone(p) ==
  /\ pc[p] = "alloc" /\ zm_info_lock = None
  /\ LET z == blk2zone(old_blkaddr[p]) IN
     \/ /\ KeepsZone(z)
        /\ new_zone' = [new_zone EXCEPT ![p] = z]
        /\ Goto(p, "invalidate")
        /\ UNCHANGED zm_info_lock
     \/ /\ ~KeepsZone(z)
        /\ zm_info_lock' = p
        /\ Goto(p, IF UnderLimit(TypeOf[p]) THEN "open" ELSE "scan")
        /\ UNCHANGED new_zone
  /\ UNCHANGED <<dwp, tableVars, wp, zone_type, mapVars, nr_type, old_blkaddr, bi_sector, addr, ioVars>>

UnlockForgotten == UNCHANGED zm_info_lock
Unlock == zm_info_lock' = None

\* get_zone from `retry': take the zone the scan finds, or open one.
ScanOpened(p) ==
  /\ pc[p] = "scan" /\ zm_info_lock = p
  /\ \/ \E z \in Zones :
          /\ ScanTarget(TypeOf[p]) = z
          /\ new_zone' = [new_zone EXCEPT ![p] = z]
          /\ Unlock
          /\ Goto(p, "invalidate")
     \/ /\ ScanTarget(TypeOf[p]) = None
        /\ Goto(p, "open")
        /\ UNCHANGED <<new_zone, zm_info_lock>>
  /\ UNCHANGED <<dwp, tableVars, wp, zone_type, mapVars, nr_type, old_blkaddr, bi_sector, addr, ioVars>>

\* get_zone from `open': whatever zone_open answers, the zone gets the type.
OpenZone(p) ==
  /\ pc[p] = "open" /\ zm_info_lock = p
  /\ \/ /\ zone_opened_count < MaxOpen
        /\ \E z \in get_empty_zone :
             /\ xcpfs_zone_open(z)
             /\ zone_type' = [zone_type EXCEPT ![z] = TypeOf[p]]
        /\ nr_type' = [nr_type EXCEPT ![TypeOf[p]] = IF @ < NrTypeCap THEN @ + 1 ELSE @]
     \/ /\ zone_opened_count >= MaxOpen
        /\ UNCHANGED <<tableVars, zone_type, nr_type>>
  /\ Goto(p, "scan")
  /\ UNCHANGED <<dwp, wp, mapVars, zm_info_lock, old_blkaddr, new_zone, bi_sector, addr, ioVars>>

\* alloc_zone's second lock section: the old block is dead from now on.  A
\* page without a block clears block 0 of zone 0.
invalidate_uncounted(a) == valid_map' = valid_map \ {a} /\ UNCHANGED vblocks
invalidate_blkaddr(a) ==
  /\ valid_map' = valid_map \ {a}
  /\ vblocks' = [vblocks EXCEPT ![blk2zone(a)] = @ - 1]

InvalidateOld(p) ==
  /\ pc[p] = "invalidate" /\ zm_info_lock = None
  /\ invalidate_blkaddr(old_blkaddr[p])
  /\ Goto(p, "submit")
  /\ UNCHANGED <<dwp, tableVars, wp, zone_type, nr_type, zm_info_lock,
                 old_blkaddr, new_zone, bi_sector, addr, ioVars>>

\* The device appends at its write pointer, or fails when the zone is full;
\* the bio then still carries an address at the start of the zone.
DeviceAppend(p) ==
  /\ pc[p] = "submit"
  /\ LET z == new_zone[p] IN
     \/ /\ dwp[z] < Start(z) + CapBlocks
        /\ bi_sector' = [bi_sector EXCEPT ![p] = <<z, dwp[z] - Start(z)>>]
        /\ dwp' = [dwp EXCEPT ![z] = @ + 1]
        /\ UNCHANGED ioerr
     \/ /\ dwp[z] >= Start(z) + CapBlocks
        /\ \E off \in {0, 1} : bi_sector' = [bi_sector EXCEPT ![p] = <<z, off>>]
        /\ ioerr' = TRUE
        /\ UNCHANGED dwp
  /\ Goto(p, "endio")
  /\ UNCHANGED <<tableVars, wp, zone_type, mapVars, nr_type, zm_info_lock,
                 old_blkaddr, new_zone, addr, nio, emptyAtMount>>

\* The address end_io takes from the bio.
NextOf(a) == <<a[1], a[2] + 1>>
Appended(a) == a

\* write_end_io: bi_status is not looked at; NAT entry or dnode slot first,
EndIO(p) ==
  /\ pc[p] = "endio"
  /\ addr' = [addr EXCEPT ![p] = Appended(bi_sector[p])]
  /\ Goto(p, "validate")
  /\ UNCHANGED <<dwp, tableVars, wp, zone_type, mapVars, nr_type, zm_info_lock,
                 old_blkaddr, new_zone, bi_sector, ioVars>>

Higher(a, b) == IF a >= b THEN a ELSE b

LatestWp(z, a) == Start(z) + a[2] + 1
NewWp(z, a) == Higher(wp[z], Start(z) + a[2] + 1)

\* A zone written to its capacity leaves both tables.
ZoneFull(z) ==
  /\ cond' = [cond EXCEPT ![z] = "FULL"]
  /\ remove_zone_active(z)
  /\ remove_zone_opened(z)

\* then validate_blkaddr, in its lock section.
ValidateBlkaddr(p) ==
  /\ pc[p] = "validate" /\ zm_info_lock = None
  /\ LET a == bi_sector[p]
         z == blk2zone(a)
     IN  /\ valid_map' = valid_map \cup {a}
         /\ vblocks' = [vblocks EXCEPT ![z] = @ + 1]
         /\ wp' = [wp EXCEPT ![z] = NewWp(z, a)]
         /\ \/ NewWp(z, a) = Start(z) + CapBlocks /\ ZoneFull(z)
            \/ NewWp(z, a) # Start(z) + CapBlocks /\ UNCHANGED tableVars
  /\ Goto(p, "idle")
  /\ UNCHANGED <<dwp, zone_type, nr_type, zm_info_lock, old_blkaddr, new_zone, bi_sector, addr, ioVars>>

\* Truncation frees the block of a data page; the page cache has waited for
\* its writeback before.
TruncateBlock(p) ==
  /\ TypeOf[p] = "REG_DATA"
  /\ pc[p] = "idle" /\ addr[p] # NullAddr /\ zm_info_lock = None
  /\ invalidate_blkaddr(addr[p])
  /\ addr' = [addr EXCEPT ![p] = NullAddr]
  /\ UNCHANGED <<dwp, tableVars, wp, zone_type, nr_type, zm_info_lock, pc,
                 old_blkaddr, new_zone, bi_sector, ioVars>>

\* Truncation frees a direct or indirect node: invalidate_nat alone, with no
\* lock on the node, whose page may be anywhere on its way to the device.
FreeNode(p) ==
  /\ TypeOf[p] = "REG_NODE" /\ addr[p] # NullAddr
  /\ addr' = [addr EXCEPT ![p] = NullAddr]
  /\ UNCHANGED <<dwp, tableVars, wp, zone_type, mapVars, nr_type, zm_info_lock, pc,
                 old_blkaddr, new_zone, bi_sector, ioVars>>

Next ==
  \E p \in Page :
    \/ SubmitXio(p) \/ AllocZone(p) \/ ScanOpened(p) \/ OpenZone(p)
    \/ InvalidateOld(p) \/ DeviceAppend(p) \/ EndIO(p) \/ ValidateBlkaddr(p)
    \/ TruncateBlock(p) \/ FreeNode(p)

Spec == Init /\ [][Next]_vars

\* The spinlock is a queued one, so a waiter is served (strong fairness); its
\* holder and the device run (weak fairness).  Nobody has to start a write.
Fairness ==
  \A p \in Page :
    /\ SF_vars(AllocZone(p) \/ InvalidateOld(p) \/ ValidateBlkaddr(p))
    /\ WF_vars(ScanOpened(p) \/ OpenZone(p) \/ DeviceAppend(p) \/ EndIO(p))

FairSpec == Spec /\ Fairness

-----------------------------------------------------------------------------
(* Properties *)

Labels == {"idle", "alloc", "scan", "open", "invalidate", "submit", "endio", "validate"}

\* Every variable keeps its type.
TypeOK ==
  /\ dwp \in [Zones -> Nat] /\ wp \in [Zones -> Nat]
  /\ cond \in [Zones -> Conds] /\ zone_type \in [Zones -> ZoneTypes]
  /\ vblocks \in [Zones -> Int] /\ valid_map \subseteq Addrs
  /\ zone_opened \in [OpenSlots -> Zones \cup {None}]
  /\ zone_active \in [ActiveSlots -> Zones \cup {None}]
  /\ zone_opened_count \in Int /\ zone_active_count \in Int
  /\ nr_type \in [ZoneTypes -> Nat]
  /\ zm_info_lock \in Page \cup {None}
  /\ pc \in [Page -> Labels]
  /\ old_blkaddr \in [Page -> Addrs] /\ new_zone \in [Page -> Zones]
  /\ bi_sector \in [Page -> Addrs] /\ addr \in [Page -> Addrs]
  /\ nio \in 0 .. MaxIO /\ ioerr \in BOOLEAN /\ emptyAtMount \subseteq Zones

\* The table of open zones and its counter agree with the zones' conditions
\* whatever order zones are opened and filled in: zone_open and
\* validate_blkaddr update three structures by separate calls whose results
\* nobody checks.
OpenTableExact ==
  /\ Lists(zone_opened, {z \in Zones : cond[z] \in OpenConds})
  /\ zone_opened_count = Cardinality(Used(zone_opened))

\* The same for the table of active zones, which a closed zone also is in.
ActiveTableExact ==
  /\ Lists(zone_active, {z \in Zones : cond[z] \in ActiveConds})
  /\ zone_active_count = Cardinality(Used(zone_active))

TablesExact == OpenTableExact /\ ActiveTableExact

\* A page's block in zone z is recorded and not yet invalidated.
Live(p) == addr[p] # NullAddr
           /\ pc[p] \in {"idle", "alloc", "scan", "open", "invalidate"}
LiveIn(z) == {addr[p] : p \in {q \in Page : Live(q) /\ blk2zone(addr[q]) = z}}
ValidIn(z) == {a \in valid_map : blk2zone(a) = z}

\* Unless the device refused an append, the valid map of a zone written since
\* the mount has a bit for every live block, a data zone has no other bit,
\* vblocks counts the bits, and no two pages share a block: clearing the old
\* block (alloc_zone) and setting the new one (end_io) are steps of their own,
\* with other writers between them.
ValidMapExact ==
  ~ioerr =>
    /\ \A z \in emptyAtMount :
         /\ LiveIn(z) \subseteq ValidIn(z)
         /\ zone_type[z] # "REG_NODE" => ValidIn(z) \subseteq LiveIn(z)
         /\ vblocks[z] = Cardinality(ValidIn(z))
    /\ \A p, q \in Page : addr[p] = addr[q] => p = q \/ addr[p] = NullAddr

\* The zone table never runs ahead of the device: its write pointer is what
\* completed appends prove, and a zone it calls FULL takes no more appends on
\* the device (completions arrive in any order, and wp takes their maximum).
WpBehindDevice ==
  ~ioerr =>
    \A z \in Zones :
      /\ wp[z] <= dwp[z]
      /\ cond[z] = "FULL" => dwp[z] >= Start(z) + CapBlocks
      /\ (z >= 2 /\ \A p \in Page : ~(pc[p] \in {"endio", "validate"} /\ blk2zone(bi_sector[p]) = z))
           => /\ wp[z] = dwp[z]
              /\ dwp[z] = Start(z) + CapBlocks => cond[z] = "FULL"

\* A block lies in a zone of its page's type, zone 0 apart: a page keeps the
\* zone of its old block without any look at the zone's type, and get_zone
\* types a zone before it knows that the zone could be opened.
PlacedByType ==
  \A p \in Page :
    /\ blk2zone(addr[p]) # 0 => zone_type[blk2zone(addr[p])] = TypeOf[p]
    /\ pc[p] \in {"invalidate", "submit"} /\ new_zone[p] # 0
         => zone_type[new_zone[p]] = TypeOf[p]

\* alloc_zone never chooses a zone the table knows to be full, and chooses a
\* superblock zone only when no zone is empty any more (get_empty_zone).
AllocTarget ==
  [][\A p \in Page :
       pc[p] \in {"alloc", "scan"} /\ pc'[p] = "invalidate" =>
         /\ cond[new_zone'[p]] # "FULL"
         /\ new_zone'[p] \in {0, 1} => EmptyZones = {}]_vars

\* The zones of type t in the open table.
OpenOfType(t) == {i \in Used(zone_opened) : zone_type[zone_opened[i]] = t}

\* xcpfs.c:71 "1 superblock 1 reserved": the limits leave a slot for every
\* type that has no open zone yet, or get_zone spins for ever on the lock.
SlotForEveryType ==
  \A t \in PageTypes :
    OpenOfType(t) = {} /\ EmptyZones # {} => zone_opened_count < MaxOpen /\ zone_active_count < MaxActive

\* A write that was submitted is completed, unless the device ran out of empty
\* zones: get_zone's loop ends and the lock it spins under is released.
WriteCompletes ==
  \A p \in Page : pc[p] = "alloc" ~> (pc[p] = "idle" \/ EmptyZones = {})

=============================================================================

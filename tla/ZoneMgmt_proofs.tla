--------------------------- MODULE ZoneMgmt_proofs ---------------------------
(* The zone allocator: its tables are exact, its write pointers are behind
   the device's, blocks lie in zones of their type, every live block has its
   bit in a valid map, and every type has room in the tables. *)
EXTENDS ZoneMgmt, FiniteSetTheorems, WellFoundedInduction, TLAPS

(***************************************************************************)
(* Tables.  Lists(table, S) says that the used slots of a table are in a   *)
(* one-to-one correspondence with S; the counter of a table is the number  *)
(* of its used slots.                                                      *)
(***************************************************************************)

\* A used slot is a slot, and there are finitely many of them: the C arrays
\* zone_opened and zone_active have a fixed length.
LEMMA UsedFinite ==
  ASSUME NEW n \in Nat, NEW table, DOMAIN table = 0 .. n - 1
  PROVE  /\ Used(table) \subseteq 0 .. n - 1
         /\ IsFiniteSet(Used(table))
         /\ Cardinality(Used(table)) \in Nat
  <1>1. Used(table) \subseteq 0 .. n - 1
    BY DEF Used
  <1>2. IsFiniteSet(0 .. n - 1)
    BY FS_Interval
  <1> QED
    BY <1>1, <1>2, FS_Subset, FS_CardinalityType

\* A table without a free slot has as many entries as slots, which is what
\* zone_open tests on the counter before it inserts.
LEMMA FullTable ==
  ASSUME NEW n \in Nat, NEW table, DOMAIN table = 0 .. n - 1,
         \A i \in 0 .. n - 1 : table[i] # None
  PROVE  Cardinality(Used(table)) = n
  <1>1. Used(table) = 0 .. n - 1
    BY DEF Used
  <1> QED
    BY <1>1, FS_Interval

\* __insert_zone of a zone the table does not list.
LEMMA InsertLists ==
  ASSUME NEW n \in Nat, NEW table \in [0 .. n - 1 -> Zones \cup {None}],
         NEW S, NEW z \in Zones, Lists(table, S), z \notin S,
         NEW i \in FirstSlot(table, None)
  PROVE  /\ Lists([table EXCEPT ![i] = z], S \cup {z})
         /\ Cardinality(Used([table EXCEPT ![i] = z])) = Cardinality(Used(table)) + 1
  <1> DEFINE new == [table EXCEPT ![i] = z]
  <1>1. i \in 0 .. n - 1 /\ table[i] = None
    BY DEF FirstSlot
  <1>2. z # None
    BY SizesAssumption
  <1>3. Used(new) = Used(table) \cup {i}
    BY <1>1, <1>2 DEF Used
  <1>4. i \notin Used(table)
    BY <1>1 DEF Used
  <1>5. Cardinality(Used(new)) = Cardinality(Used(table)) + 1
    BY <1>3, <1>4, UsedFinite, FS_AddElement
  <1>6. Lists(new, S \cup {z})
    <2>1. \A j \in Used(table) : new[j] = table[j] /\ table[j] \in S
      BY <1>4 DEF Lists, Used
    <2>2. new[i] = z
      BY <1>1
    <2>3. \A j \in Used(new) : new[j] \in S \cup {z}
      BY <1>3, <2>1, <2>2
    <2>4. \A y \in S \cup {z} : \E j \in Used(new) : new[j] = y
      BY <1>3, <2>1, <2>2 DEF Lists
    <2>5. \A j, k \in Used(new) : new[j] = new[k] => j = k
      BY <1>3, <2>1, <2>2 DEF Lists
    <2> HIDE DEF new
    <2> QED
      BY <2>3, <2>4, <2>5 DEF Lists
  <1> QED
    BY <1>5, <1>6

\* __remove_zone of a zone the table lists.
LEMMA RemoveLists ==
  ASSUME NEW n \in Nat, NEW table \in [0 .. n - 1 -> Zones \cup {None}],
         NEW S, NEW z \in Zones, Lists(table, S),
         NEW i \in FirstSlot(table, z)
  PROVE  /\ Lists([table EXCEPT ![i] = None], S \ {z})
         /\ Cardinality(Used([table EXCEPT ![i] = None])) = Cardinality(Used(table)) - 1
  <1> DEFINE new == [table EXCEPT ![i] = None]
  <1>1. i \in 0 .. n - 1 /\ table[i] = z
    BY DEF FirstSlot
  <1>2. z # None
    BY SizesAssumption
  <1>3. i \in Used(table) /\ Used(new) = Used(table) \ {i}
    BY <1>1, <1>2 DEF Used
  <1>4. Cardinality(Used(new)) = Cardinality(Used(table)) - 1
    BY <1>3, UsedFinite, FS_RemoveElement
  <1>5. Lists(new, S \ {z})
    <2>1. \A j \in Used(new) : j # i /\ j \in Used(table) /\ new[j] = table[j]
      BY <1>3 DEF Used
    <2> QED
      BY <1>1, <1>3, <2>1 DEF Lists
  <1> QED
    BY <1>4, <1>5

(***************************************************************************)
(* The four table operations as the code calls them.                       *)
(***************************************************************************)

TablesTyped ==
  /\ cond \in [Zones -> Conds]
  /\ zone_opened \in [OpenSlots -> Zones \cup {None}]
  /\ zone_active \in [ActiveSlots -> Zones \cup {None}]
  /\ zone_opened_count \in Int /\ zone_active_count \in Int

\* insert_zone_opened adds the zone, unless the table was full.
LEMMA InsertOpened ==
  ASSUME TablesTyped, NEW S, NEW z \in Zones, z \notin S,
         Lists(zone_opened, S), zone_opened_count = Cardinality(Used(zone_opened)),
         zone_opened_count # MaxOpen,
         insert_zone_opened(z)
  PROVE  /\ zone_opened' \in [OpenSlots -> Zones \cup {None}]
         /\ Lists(zone_opened', S \cup {z})
         /\ zone_opened_count' = Cardinality(Used(zone_opened'))
         /\ zone_opened_count' \in Int
  <1>1. MaxOpen \in Nat /\ DOMAIN zone_opened = 0 .. MaxOpen - 1
    BY SizesAssumption DEF TablesTyped, OpenSlots
  <1>2. PICK i \in FirstSlot(zone_opened, None) :
          /\ zone_opened' = [zone_opened EXCEPT ![i] = z]
          /\ zone_opened_count' = zone_opened_count + 1
    BY <1>1, FullTable DEF insert_zone_opened, OpenSlots
  <1>3. zone_opened \in [0 .. MaxOpen - 1 -> Zones \cup {None}]
    BY DEF TablesTyped, OpenSlots
  <1>4. /\ Lists(zone_opened', S \cup {z})
        /\ zone_opened_count' = Cardinality(Used(zone_opened'))
    BY <1>1, <1>2, <1>3, InsertLists
  <1>5. zone_opened' \in [OpenSlots -> Zones \cup {None}]
    BY <1>2, <1>3 DEF OpenSlots
  <1>6. zone_opened_count' \in Int
    BY <1>2 DEF TablesTyped
  <1> QED
    BY <1>4, <1>5, <1>6

\* insert_zone_active adds the zone, unless the table was full.
LEMMA InsertActive ==
  ASSUME TablesTyped, NEW S, NEW z \in Zones, z \notin S,
         Lists(zone_active, S), zone_active_count = Cardinality(Used(zone_active)),
         zone_active_count # MaxActive,
         insert_zone_active(z)
  PROVE  /\ zone_active' \in [ActiveSlots -> Zones \cup {None}]
         /\ Lists(zone_active', S \cup {z})
         /\ zone_active_count' = Cardinality(Used(zone_active'))
         /\ zone_active_count' \in Int
  <1>1. MaxActive \in Nat /\ DOMAIN zone_active = 0 .. MaxActive - 1
    BY SizesAssumption DEF TablesTyped, ActiveSlots
  <1>2. PICK i \in FirstSlot(zone_active, None) :
          /\ zone_active' = [zone_active EXCEPT ![i] = z]
          /\ zone_active_count' = zone_active_count + 1
    BY <1>1, FullTable DEF insert_zone_active, ActiveSlots
  <1>3. zone_active \in [0 .. MaxActive - 1 -> Zones \cup {None}]
    BY DEF TablesTyped, ActiveSlots
  <1>4. /\ Lists(zone_active', S \cup {z})
        /\ zone_active_count' = Cardinality(Used(zone_active'))
    BY <1>1, <1>2, <1>3, InsertLists
  <1>5. zone_active' \in [ActiveSlots -> Zones \cup {None}]
    BY <1>2, <1>3 DEF ActiveSlots
  <1>6. zone_active_count' \in Int
    BY <1>2 DEF TablesTyped
  <1> QED
    BY <1>4, <1>5, <1>6

\* remove_zone_opened removes the zone; of a zone that is not in the table
\* it changes nothing.
LEMMA RemoveOpened ==
  ASSUME TablesTyped, NEW S, NEW z \in Zones,
         Lists(zone_opened, S), zone_opened_count = Cardinality(Used(zone_opened)),
         remove_zone_opened(z)
  PROVE  /\ zone_opened' \in [OpenSlots -> Zones \cup {None}]
         /\ Lists(zone_opened', S \ {z})
         /\ zone_opened_count' = Cardinality(Used(zone_opened'))
         /\ zone_opened_count' \in Int
  <1>1. MaxOpen \in Nat /\ zone_opened \in [0 .. MaxOpen - 1 -> Zones \cup {None}]
    BY SizesAssumption DEF TablesTyped, OpenSlots
  <1>2. CASE \E i \in FirstSlot(zone_opened, z) :
               /\ zone_opened' = [zone_opened EXCEPT ![i] = None]
               /\ zone_opened_count' = zone_opened_count - 1
    <2>1. PICK i \in FirstSlot(zone_opened, z) :
               /\ zone_opened' = [zone_opened EXCEPT ![i] = None]
               /\ zone_opened_count' = zone_opened_count - 1
      BY <1>2
    <2>2. /\ Lists(zone_opened', S \ {z})
          /\ zone_opened_count' = Cardinality(Used(zone_opened'))
      BY <1>1, <2>1, RemoveLists
    <2>3. zone_opened' \in [OpenSlots -> Zones \cup {None}]
      BY <1>1, <2>1 DEF OpenSlots
    <2>4. zone_opened_count' \in Int
      BY <2>1 DEF TablesTyped
    <2> QED
      BY <2>2, <2>3, <2>4
  <1>3. CASE /\ \A i \in OpenSlots : zone_opened[i] # z
             /\ UNCHANGED <<zone_opened, zone_opened_count>>
    <2>1. z \notin S
      BY <1>1, <1>3 DEF Lists, Used, OpenSlots
    <2>2. S \ {z} = S
      BY <2>1
    <2> QED
      BY <1>3, <2>2 DEF TablesTyped
  <1> QED
    BY <1>2, <1>3 DEF remove_zone_opened

\* The same for remove_zone_active.
LEMMA RemoveActive ==
  ASSUME TablesTyped, NEW S, NEW z \in Zones,
         Lists(zone_active, S), zone_active_count = Cardinality(Used(zone_active)),
         remove_zone_active(z)
  PROVE  /\ zone_active' \in [ActiveSlots -> Zones \cup {None}]
         /\ Lists(zone_active', S \ {z})
         /\ zone_active_count' = Cardinality(Used(zone_active'))
         /\ zone_active_count' \in Int
  <1>1. MaxActive \in Nat /\ zone_active \in [0 .. MaxActive - 1 -> Zones \cup {None}]
    BY SizesAssumption DEF TablesTyped, ActiveSlots
  <1>2. CASE \E i \in FirstSlot(zone_active, z) :
               /\ zone_active' = [zone_active EXCEPT ![i] = None]
               /\ zone_active_count' = zone_active_count - 1
    <2>1. PICK i \in FirstSlot(zone_active, z) :
               /\ zone_active' = [zone_active EXCEPT ![i] = None]
               /\ zone_active_count' = zone_active_count - 1
      BY <1>2
    <2>2. /\ Lists(zone_active', S \ {z})
          /\ zone_active_count' = Cardinality(Used(zone_active'))
      BY <1>1, <2>1, RemoveLists
    <2>3. zone_active' \in [ActiveSlots -> Zones \cup {None}]
      BY <1>1, <2>1 DEF ActiveSlots
    <2>4. zone_active_count' \in Int
      BY <2>1 DEF TablesTyped
    <2> QED
      BY <2>2, <2>3, <2>4
  <1>3. CASE /\ \A i \in ActiveSlots : zone_active[i] # z
             /\ UNCHANGED <<zone_active, zone_active_count>>
    <2>1. z \notin S
      BY <1>1, <1>3 DEF Lists, Used, ActiveSlots
    <2>2. S \ {z} = S
      BY <2>1
    <2> QED
      BY <1>3, <2>2 DEF TablesTyped
  <1> QED
    BY <1>2, <1>3 DEF remove_zone_active

(***************************************************************************)
(* The inductive invariant.  The tables stay exact because a zone that is  *)
(* opened is not in them: get_empty_zone answers an EMPTY zone or zone 0,  *)
(* and zone 0 is never implicitly open.                                    *)
(***************************************************************************)

TablesInv == TablesTyped /\ TablesExact /\ cond[0] # "IMP_OPEN"

OpenNow == {z \in Zones : cond[z] \in OpenConds}
ActiveNow == {z \in Zones : cond[z] \in ActiveConds}

\* get_empty_zone answers a zone, which is EMPTY unless it is zone 0.
LEMMA EmptyZone ==
  ASSUME NEW z \in get_empty_zone
  PROVE  z \in Zones /\ (z = 0 \/ cond[z] = "EMPTY")
  <1>1. 0 \in Zones
    BY SizesAssumption DEF Zones
  <1> QED
    BY <1>1 DEF get_empty_zone, EmptyZones

\* xcpfs_zone_open keeps the tables exact for the zones it is called with.
LEMMA OpenKeepsTables ==
  ASSUME TablesInv, NEW z \in Zones, z = 0 \/ cond[z] = "EMPTY",
         xcpfs_zone_open(z)
  PROVE  TablesInv'
  <1>1. CASE OpenRefused(z) /\ UNCHANGED tableVars
    BY <1>1 DEF TablesInv, TablesTyped, TablesExact, OpenTableExact, ActiveTableExact,
                tableVars
  <1>2. CASE ~OpenRefused(z) /\ insert_zone_opened(z) /\ EnterActive(z)
             /\ cond' = [cond EXCEPT ![z] = "EXP_OPEN"]
    <2>1. /\ TablesTyped
          /\ Lists(zone_opened, OpenNow) /\ zone_opened_count = Cardinality(Used(zone_opened))
          /\ Lists(zone_active, ActiveNow) /\ zone_active_count = Cardinality(Used(zone_active))
          /\ zone_opened_count # MaxOpen /\ zone_active_count # MaxActive
      BY <1>2 DEF TablesInv, TablesExact, OpenTableExact, ActiveTableExact, OpenNow,
                  ActiveNow, OpenRefused
    <2>2. cond[z] \in {"EMPTY", "CLOSED"}
      BY <1>2 DEF TablesInv, TablesTyped, OpenRefused, DeviceOpens, Conds
    <2>3. /\ cond' \in [Zones -> Conds] /\ cond'[0] # "IMP_OPEN"
          /\ OpenNow' = OpenNow \cup {z}
          /\ ActiveNow' = ActiveNow \cup {z}
      BY <1>2 DEF TablesInv, TablesTyped, Conds, OpenNow, ActiveNow, OpenConds, ActiveConds
    <2>4. z \notin OpenNow
      BY <2>2 DEF OpenNow, OpenConds
    <2>5. /\ zone_opened' \in [OpenSlots -> Zones \cup {None}]
          /\ Lists(zone_opened', OpenNow \cup {z})
          /\ zone_opened_count' = Cardinality(Used(zone_opened'))
          /\ zone_opened_count' \in Int
      BY <1>2, <2>1, <2>4, InsertOpened
    <2>6. /\ zone_active' \in [ActiveSlots -> Zones \cup {None}]
          /\ Lists(zone_active', ActiveNow \cup {z})
          /\ zone_active_count' = Cardinality(Used(zone_active'))
          /\ zone_active_count' \in Int
      <3>1. CASE cond[z] = "CLOSED"
        <4>1. ActiveNow \cup {z} = ActiveNow
          BY <3>1 DEF ActiveNow, ActiveConds
        <4>2. UNCHANGED <<zone_active, zone_active_count>>
          BY <1>2, <3>1 DEF EnterActive
        <4> QED
          BY <2>1, <4>1, <4>2 DEF TablesTyped
      <3>2. CASE cond[z] = "EMPTY"
        <4>1. z \notin ActiveNow
          BY <3>2 DEF ActiveNow, ActiveConds, OpenConds
        <4>2. insert_zone_active(z)
          BY <1>2, <3>2 DEF EnterActive
        <4> QED
          BY <2>1, <4>1, <4>2, InsertActive
      <3> QED
        BY <2>2, <3>1, <3>2
    <2> QED
      BY <2>3, <2>5, <2>6 DEF TablesInv, TablesTyped, TablesExact, OpenTableExact,
                              ActiveTableExact, OpenNow, ActiveNow
  <1> QED
    BY <1>1, <1>2 DEF xcpfs_zone_open

\* The FULL branch of validate_blkaddr keeps the tables exact for any zone,
\* one that was in no table included.
LEMMA FullKeepsTables ==
  ASSUME TablesInv, NEW z \in Zones, ZoneFull(z)
  PROVE  TablesInv'
  <1>1. /\ TablesTyped
        /\ Lists(zone_opened, OpenNow) /\ zone_opened_count = Cardinality(Used(zone_opened))
        /\ Lists(zone_active, ActiveNow) /\ zone_active_count = Cardinality(Used(zone_active))
    BY DEF TablesInv, TablesExact, OpenTableExact, ActiveTableExact, OpenNow, ActiveNow
  <1>2. /\ cond' \in [Zones -> Conds] /\ cond'[0] # "IMP_OPEN"
        /\ OpenNow' = OpenNow \ {z}
        /\ ActiveNow' = ActiveNow \ {z}
    BY DEF ZoneFull, TablesInv, TablesTyped, Conds, OpenNow, ActiveNow, OpenConds, ActiveConds
  <1>3. /\ zone_opened' \in [OpenSlots -> Zones \cup {None}]
        /\ Lists(zone_opened', OpenNow \ {z})
        /\ zone_opened_count' = Cardinality(Used(zone_opened'))
        /\ zone_opened_count' \in Int
    BY <1>1, RemoveOpened DEF ZoneFull
  <1>4. /\ zone_active' \in [ActiveSlots -> Zones \cup {None}]
        /\ Lists(zone_active', ActiveNow \ {z})
        /\ zone_active_count' = Cardinality(Used(zone_active'))
        /\ zone_active_count' \in Int
    BY <1>1, RemoveActive DEF ZoneFull
  <1> QED
    BY <1>2, <1>3, <1>4 DEF TablesInv, TablesTyped, TablesExact, OpenTableExact,
                            ActiveTableExact, OpenNow, ActiveNow

\* Only zone_open and validate_blkaddr touch the tables.
LEMMA TablesStep ==
  ASSUME TablesInv, TypeOK, [Next]_vars
  PROVE  TablesInv'
  <1>1. CASE UNCHANGED tableVars
    BY <1>1 DEF TablesInv, TablesTyped, TablesExact, OpenTableExact, ActiveTableExact,
                tableVars
  <1>2. ASSUME NEW p \in Page, OpenZone(p)
        PROVE  TablesInv'
    <2>1. CASE \E z \in get_empty_zone : xcpfs_zone_open(z)
      BY <2>1, EmptyZone, OpenKeepsTables
    <2> QED
      BY <1>1, <1>2, <2>1 DEF OpenZone
  <1>3. ASSUME NEW p \in Page, ValidateBlkaddr(p)
        PROVE  TablesInv'
    <2>1. blk2zone(bi_sector[p]) \in Zones
      BY DEF TypeOK, Addrs, blk2zone
    <2>2. CASE ZoneFull(blk2zone(bi_sector[p]))
      BY <2>1, <2>2, FullKeepsTables
    <2> QED
      BY <1>1, <1>3, <2>2 DEF ValidateBlkaddr
  <1>4. ASSUME NEW p \in Page,
               \/ SubmitXio(p) \/ AllocZone(p) \/ ScanOpened(p) \/ InvalidateOld(p)
               \/ DeviceAppend(p) \/ EndIO(p) \/ TruncateBlock(p) \/ FreeNode(p)
        PROVE  UNCHANGED tableVars
    BY <1>4 DEF SubmitXio, AllocZone, ScanOpened, InvalidateOld, DeviceAppend, EndIO,
                TruncateBlock, FreeNode
  <1>5. CASE UNCHANGED vars
    BY <1>1, <1>5 DEF vars
  <1> QED
    BY <1>1, <1>2, <1>3, <1>4, <1>5 DEF Next

(***************************************************************************)
(* Type correctness needs one fact about the device: its write pointer     *)
(* never lies before the start of the zone.                                *)
(***************************************************************************)

DeviceInZone == \A z \in Zones : dwp[z] >= Start(z)
IInv == TypeOK /\ DeviceInZone /\ TablesInv

\* Zone starts are block numbers.
LEMMA StartNat ==
  ASSUME NEW z \in Zones
  PROVE  Start(z) \in Nat
  BY SizesAssumption DEF Start, Zones

\* The first two blocks of a zone, zone 0 among them, are addresses.
LEMMA AddrFacts ==
  /\ NullAddr \in Addrs /\ 0 \in Zones
  /\ \A z \in Zones, off \in {0, 1} : <<z, off>> \in Addrs
  /\ \A a \in Addrs : blk2zone(a) \in Zones /\ a[2] \in Nat
  BY SizesAssumption DEF NullAddr, Addrs, Zones, blk2zone

\* The mounted states satisfy the invariant.
LEMMA InitIInv == Init => IInv
  <1> SUFFICES ASSUME Init PROVE IInv
    OBVIOUS
  <1>1. PICK b \in Boots :
          /\ cond = b.cond /\ wp = b.wp /\ dwp = b.wp
          /\ zone_type = b.zone_type /\ nr_type = b.nr_type
          /\ vblocks = b.vblocks /\ valid_map = b.valid_map
          /\ zone_opened = b.opened /\ zone_active = b.active
          /\ zone_opened_count = Cardinality(Used(b.opened))
          /\ zone_active_count = Cardinality(Used(b.active))
          /\ addr = b.addr
          /\ emptyAtMount = {z \in Zones : b.cond[z] = "EMPTY"}
    BY DEF Init
  <1>2. Mounted(b) /\ b.cond[0] # "IMP_OPEN"
    BY BootsAssumption DEF SuperNotImplicit
  <1>3. TablesInv
    <2>1. DOMAIN zone_opened = 0 .. MaxOpen - 1 /\ DOMAIN zone_active = 0 .. MaxActive - 1
      BY <1>1, <1>2 DEF Mounted, OpenSlots, ActiveSlots
    <2>2. zone_opened_count \in Nat /\ zone_active_count \in Nat
      BY <1>1, <2>1, UsedFinite, SizesAssumption
    <2>3. TablesTyped
      BY <1>1, <1>2, <2>2 DEF TablesTyped, Mounted
    <2>4. TablesExact
      BY <1>1, <1>2 DEF TablesExact, OpenTableExact, ActiveTableExact, Mounted, FilledInOrder
    <2> QED
      BY <1>1, <1>2, <2>3, <2>4 DEF TablesInv
  <1>4. nr_type \in [ZoneTypes -> Nat]
    <2>1. IsFiniteSet(Zones)
      BY FS_Interval, SizesAssumption DEF Zones
    <2>2. \A t \in ZoneTypes :
            Cardinality({z \in Zones : b.cond[z] # "EMPTY" /\ b.zone_type[z] = t}) \in Nat
      BY <2>1, FS_Subset, FS_CardinalityType
    <2> QED
      BY <1>1, <1>2, <2>2 DEF Mounted
  <1>5. DeviceInZone
    <2> SUFFICES ASSUME NEW z \in Zones PROVE dwp[z] >= Start(z)
      BY DEF DeviceInZone
    <2>1. b.cond[z] # "FULL" => b.wp[z] \in Start(z) .. Start(z) + CapBlocks - 1
      BY <1>2 DEF Mounted
    <2>2. b.cond[z] = "FULL" => b.wp[z] = Start(z) + ZoneBlocks
      BY <1>2 DEF Mounted
    <2> QED
      BY <1>1, <2>1, <2>2, StartNat, SizesAssumption
  <1>6. TypeOK
    <2>1. /\ zm_info_lock = None /\ pc = [p \in Page |-> "idle"]
          /\ old_blkaddr = [p \in Page |-> NullAddr]
          /\ new_zone = [p \in Page |-> 0]
          /\ bi_sector = [p \in Page |-> NullAddr]
          /\ nio = 0 /\ ioerr = FALSE
      BY DEF Init
    <2>2. /\ dwp \in [Zones -> Nat] /\ wp \in [Zones -> Nat]
          /\ zone_type \in [Zones -> ZoneTypes]
          /\ vblocks \in [Zones -> Int] /\ valid_map \subseteq Addrs
          /\ addr \in [Page -> Addrs] /\ emptyAtMount \subseteq Zones
      BY <1>1, <1>2 DEF Mounted
    <2>3. pc \in [Page -> Labels]
      BY <2>1 DEF Labels
    <2>5. /\ old_blkaddr \in [Page -> Addrs] /\ bi_sector \in [Page -> Addrs]
          /\ new_zone \in [Page -> Zones]
      BY <2>1, AddrFacts
    <2>4. zm_info_lock \in Page \cup {None} /\ nio \in 0 .. MaxIO
      BY <2>1, SizesAssumption
    <2>6. ioerr \in BOOLEAN
      BY <2>1
    <2> QED
      BY <1>3, <1>4, <2>2, <2>3, <2>4, <2>5, <2>6 DEF TypeOK, TablesInv, TablesTyped
  <1> QED
    BY <1>3, <1>5, <1>6 DEF IInv

\* Every step keeps the types and the device's pointers.
LEMMA TypeStep ==
  ASSUME IInv, TablesTyped', [Next]_vars
  PROVE  TypeOK' /\ DeviceInZone'
  <1> USE DEF IInv
  <1> DEFINE Typed == TypeOK' /\ DeviceInZone'
  <1>1. ASSUME NEW p \in Page, SubmitXio(p) PROVE Typed
    <2>1. nio' \in 0 .. MaxIO /\ old_blkaddr' \in [Page -> Addrs] /\ pc' \in [Page -> Labels]
      BY <1>1, SizesAssumption DEF SubmitXio, TypeOK, Goto, Labels
    <2> QED
      BY <1>1, <2>1 DEF SubmitXio, TypeOK, DeviceInZone, tableVars, mapVars
  <1>2. ASSUME NEW p \in Page, AllocZone(p) PROVE Typed
    <2>1. old_blkaddr[p] \in Addrs
      BY DEF TypeOK
    <2>2. blk2zone(old_blkaddr[p]) \in Zones
      BY <2>1, AddrFacts
    <2>3. new_zone' \in [Page -> Zones]
      BY <1>2, <2>2 DEF AllocZone, TypeOK
    <2>4. pc' \in [Page -> Labels]
      BY <1>2 DEF AllocZone, TypeOK, Goto, Labels
    <2>5. zm_info_lock' \in Page \cup {None}
      BY <1>2 DEF AllocZone, TypeOK
    <2> QED
      BY <1>2, <2>3, <2>4, <2>5
         DEF AllocZone, TypeOK, DeviceInZone, tableVars, mapVars, ioVars
  <1>3. ASSUME NEW p \in Page, ScanOpened(p) PROVE Typed
    <2>1. new_zone' \in [Page -> Zones]
      BY <1>3 DEF ScanOpened, TypeOK
    <2>2. pc' \in [Page -> Labels]
      BY <1>3 DEF ScanOpened, TypeOK, Goto, Labels
    <2>3. zm_info_lock' \in Page \cup {None}
      BY <1>3 DEF ScanOpened, TypeOK, Unlock
    <2> QED
      BY <1>3, <2>1, <2>2, <2>3
         DEF ScanOpened, TypeOK, DeviceInZone, tableVars, mapVars, ioVars
  <1>4. ASSUME NEW p \in Page, OpenZone(p) PROVE Typed
    <2>1. TypeOf[p] \in ZoneTypes
      BY SizesAssumption DEF ZoneTypes
    <2>2. zone_type' \in [Zones -> ZoneTypes]
      BY <1>4, <2>1 DEF OpenZone, TypeOK
    <2>3. nr_type' \in [ZoneTypes -> Nat]
      BY <1>4, <2>1 DEF OpenZone, TypeOK
    <2>4. pc' \in [Page -> Labels]
      BY <1>4 DEF OpenZone, TypeOK, Goto, Labels
    <2> QED
      BY <1>4, <2>2, <2>3, <2>4
         DEF OpenZone, TypeOK, DeviceInZone, TablesTyped, mapVars, ioVars
  <1>5. ASSUME NEW p \in Page, InvalidateOld(p) PROVE Typed
    <2> DEFINE z == blk2zone(old_blkaddr[p])
    <2>1. /\ vblocks \in [Zones -> Int] /\ valid_map \subseteq Addrs
          /\ old_blkaddr[p] \in Addrs
      BY DEF TypeOK
    <2>2. z \in Zones
      BY <2>1, AddrFacts
    <2>3. /\ valid_map' = valid_map \ {old_blkaddr[p]}
          /\ vblocks' = [vblocks EXCEPT ![z] = vblocks[z] - 1]
      BY <1>5 DEF InvalidateOld, invalidate_blkaddr
    <2> HIDE DEF z
    <2>4. valid_map' \subseteq Addrs /\ vblocks[z] - 1 \in Int
      BY <2>1, <2>2, <2>3
    <2>5. vblocks' \in [Zones -> Int]
      BY <2>1, <2>3, <2>4
    <2>6. pc' \in [Page -> Labels]
      BY <1>5 DEF InvalidateOld, TypeOK, Goto, Labels
    <2> QED
      BY <1>5, <2>4, <2>5, <2>6
         DEF InvalidateOld, TypeOK, DeviceInZone, tableVars, ioVars
  <1>6. ASSUME NEW p \in Page, DeviceAppend(p) PROVE Typed
    <2> DEFINE z == new_zone[p]
    <2>1. z \in Zones /\ dwp[z] \in Nat /\ dwp[z] >= Start(z)
      BY DEF TypeOK, DeviceInZone
    <2>2. dwp[z] < Start(z) + CapBlocks => <<z, dwp[z] - Start(z)>> \in Addrs
      BY <2>1, StartNat, SizesAssumption DEF Addrs
    <2>3. \A off \in {0, 1} : <<z, off>> \in Addrs
      BY <2>1, AddrFacts
    <2>4. bi_sector' \in [Page -> Addrs]
      BY <1>6, <2>2, <2>3 DEF DeviceAppend, TypeOK
    <2>5. dwp' \in [Zones -> Nat] /\ DeviceInZone'
      BY <1>6, <2>1, StartNat DEF DeviceAppend, TypeOK, DeviceInZone
    <2>6. pc' \in [Page -> Labels]
      BY <1>6 DEF DeviceAppend, TypeOK, Goto, Labels
    <2>7. ioerr' \in BOOLEAN
      BY <1>6 DEF DeviceAppend, TypeOK
    <2> QED
      BY <1>6, <2>4, <2>5, <2>6, <2>7 DEF DeviceAppend, TypeOK, tableVars, mapVars
  <1>7. ASSUME NEW p \in Page, EndIO(p) PROVE Typed
    <2>1. addr' \in [Page -> Addrs]
      BY <1>7 DEF EndIO, Appended, TypeOK
    <2>2. pc' \in [Page -> Labels]
      BY <1>7 DEF EndIO, TypeOK, Goto, Labels
    <2> QED
      BY <1>7, <2>1, <2>2 DEF EndIO, TypeOK, DeviceInZone, tableVars, mapVars, ioVars
  <1>8. ASSUME NEW p \in Page, ValidateBlkaddr(p) PROVE Typed
    <2> DEFINE a == bi_sector[p]
    <2>1. a \in Addrs /\ blk2zone(a) \in Zones /\ a[2] \in Nat
      BY AddrFacts DEF TypeOK
    <2>2. NewWp(blk2zone(a), a) \in Nat
      BY <2>1, StartNat DEF NewWp, Higher, TypeOK
    <2>3. wp' \in [Zones -> Nat]
      BY <1>8, <2>2 DEF ValidateBlkaddr, TypeOK
    <2>4. vblocks' \in [Zones -> Int] /\ valid_map' \subseteq Addrs
      BY <1>8, <2>1 DEF ValidateBlkaddr, TypeOK
    <2>5. pc' \in [Page -> Labels]
      BY <1>8 DEF ValidateBlkaddr, TypeOK, Goto, Labels
    <2> QED
      BY <1>8, <2>3, <2>4, <2>5
         DEF ValidateBlkaddr, TypeOK, DeviceInZone, TablesTyped, ioVars
  <1>9. ASSUME NEW p \in Page, TruncateBlock(p) \/ FreeNode(p) PROVE Typed
    <2>1. addr' \in [Page -> Addrs]
      BY <1>9, AddrFacts DEF TruncateBlock, FreeNode, TypeOK
    <2>2. vblocks' \in [Zones -> Int] /\ valid_map' \subseteq Addrs
      BY <1>9 DEF TruncateBlock, FreeNode, invalidate_blkaddr, TypeOK, mapVars
    <2> QED
      BY <1>9, <2>1, <2>2
         DEF TruncateBlock, FreeNode, TypeOK, DeviceInZone, tableVars, ioVars
  <1>10. CASE UNCHANGED vars
    BY <1>10 DEF vars, TypeOK, DeviceInZone, tableVars, mapVars, ioVars
  <1> QED
    BY <1>1, <1>2, <1>3, <1>4, <1>5, <1>6, <1>7, <1>8, <1>9, <1>10 DEF Next

\* The invariant is inductive.
LEMMA StepIInv == IInv /\ [Next]_vars => IInv'
  <1> SUFFICES ASSUME IInv, [Next]_vars PROVE IInv'
    OBVIOUS
  <1>1. TablesInv'
    BY TablesStep DEF IInv
  <1>2. TypeOK' /\ DeviceInZone'
    BY <1>1, TypeStep DEF TablesInv
  <1> QED
    BY <1>1, <1>2 DEF IInv

\* Whatever the sizes of the device and the state it is mounted in, every
\* variable of the allocator keeps its type.
THEOREM TypeCorrect == Spec => []TypeOK
  <1>1. IInv => TypeOK
    BY DEF IInv
  <1> QED
    BY InitIInv, StepIInv, <1>1, PTL DEF Spec

\* Whatever the sizes and the mounted state, the tables of open and active
\* zones list exactly the zones in these conditions and their counters are
\* right: zone_open and validate_blkaddr never lose or duplicate a slot.
THEOREM TablesAlwaysExact == Spec => []TablesExact
  <1>1. IInv => TablesExact
    BY DEF IInv, TablesInv
  <1> QED
    BY InitIInv, StepIInv, <1>1, PTL DEF Spec


(***************************************************************************)
(* get_zone's scan of the open table.                                      *)
(***************************************************************************)

\* A set of naturals has a least element: induction without a predicate.
LEMMA LeastElement ==
  ASSUME NEW T \in SUBSET Nat, T # {}
  PROVE  \E m \in T : \A k \in T : m <= k
  <1>1. PICK m \in T : \A k \in T : ~(<<k, m>> \in OpToRel(<, Nat))
    BY WFMin, NatLessThanWellFounded
  <1>2. \A k \in T : (k < m) => <<k, m>> \in OpToRel(<, Nat)
    BY Zenon DEF OpToRel
  <1>3. \A k \in T : ~(k < m)
    BY <1>1, <1>2, Zenon
  <1>4. T \subseteq Nat /\ m \in T
    OBVIOUS
  <1>5. \A k \in T : m <= k
    BY <1>3, <1>4, SMT
  <1> QED
    BY <1>5, Zenon

\* The loop's first value and its body.
ScanStart == [inflight |-> Unbounded, tar |-> None]
ScanStep(t, best, n) ==
  LET z == zone_opened[n - 1]
  IN  IF Candidate(z, t) /\ wp[z] - Start(z) < best.inflight
      THEN [inflight |-> wp[z], tar |-> z]
      ELSE best

\* g holds the values of the loop up to slot n.
IsScan(g, t, n) ==
  g = [i \in 0 .. n |-> IF i = 0 THEN ScanStart ELSE ScanStep(t, g[i - 1], i)]

\* The recursive function of get_zone's loop exists for every length of the
\* table: the values for one slot more are those before and one step.
LEMMA ScanExists ==
  ASSUME NEW t, NEW n \in Nat
  PROVE  \E g : IsScan(g, t, n)
  <1> DEFINE T == {m \in Nat : ~ \E g : IsScan(g, t, m)}
  <1>1. SUFFICES ASSUME T # {} PROVE FALSE
    OBVIOUS
  <1>2. PICK m \in T : \A k \in T : m <= k
    BY <1>1, LeastElement
  <1>3. CASE m = 0
    <2> DEFINE g == [i \in 0 .. 0 |-> ScanStart]
    <2>1. g = [i \in 0 .. 0 |-> IF i = 0 THEN ScanStart ELSE ScanStep(t, g[i - 1], i)]
      OBVIOUS
    <2>2. IsScan(g, t, 0)
      BY <2>1 DEF IsScan
    <2> QED
      BY <1>2, <1>3, <2>2
  <1>4. CASE m # 0
    <2>1. m \in Nat /\ m - 1 \in Nat /\ m - 1 \notin T
      BY <1>2, <1>4
    <2>2. PICK f : IsScan(f, t, m - 1)
      BY <2>1
    <2> DEFINE g == [i \in 0 .. m |-> IF i = m THEN ScanStep(t, f[m - 1], m) ELSE f[i]]
    <2>3. \A i \in 0 .. m - 1 : f[i] = IF i = 0 THEN ScanStart ELSE ScanStep(t, f[i - 1], i)
      BY <2>1, <2>2 DEF IsScan
    <2>4. \A i \in 0 .. m : g[i] = IF i = 0 THEN ScanStart ELSE ScanStep(t, g[i - 1], i)
      <3> SUFFICES ASSUME NEW i \in 0 .. m
                   PROVE  g[i] = IF i = 0 THEN ScanStart ELSE ScanStep(t, g[i - 1], i)
        OBVIOUS
      <3>1. CASE i = m
        <4>1. g[i - 1] = f[m - 1]
          BY <2>1, <3>1
        <4> QED
          BY <1>4, <3>1, <4>1
      <3>2. CASE i # m /\ i # 0
        <4>1. i \in 0 .. m - 1 /\ i - 1 \in 0 .. m /\ i - 1 # m
          BY <2>1, <3>2
        <4>2. g[i] = f[i] /\ g[i - 1] = f[i - 1]
          BY <3>2, <4>1
        <4> QED
          BY <2>3, <3>2, <4>1, <4>2
      <3>3. CASE i # m /\ i = 0
        <4>1. i \in 0 .. m - 1
          BY <2>1, <3>3
        <4> QED
          BY <2>3, <3>3, <4>1
      <3> QED
        BY <3>1, <3>2, <3>3
    <2>5. g = [i \in 0 .. m |-> g[i]]
      OBVIOUS
    <2> HIDE DEF g
    <2>6. g = [i \in 0 .. m |-> IF i = 0 THEN ScanStart ELSE ScanStep(t, g[i - 1], i)]
      BY <2>4, <2>5
    <2>7. IsScan(g, t, m)
      BY <2>6 DEF IsScan
    <2> QED
      BY <1>2, <2>7
  <1> QED
    BY <1>3, <1>4

\* ScanTarget is the result of such a function.
LEMMA ScanIsScan ==
  ASSUME NEW t
  PROVE  \E g : IsScan(g, t, MaxOpen) /\ ScanTarget(t) = g[MaxOpen].tar
  <1> DEFINE scan == CHOOSE g : IsScan(g, t, MaxOpen)
  <1>1. IsScan(scan, t, MaxOpen)
    BY ScanExists, SizesAssumption
  <1>2. ScanTarget(t) = scan[MaxOpen].tar
    BY DEF ScanTarget, IsScan, ScanStart, ScanStep
  <1> QED
    BY <1>1, <1>2

\* What get_zone's scan returns is a zone of the open table of the type asked
\* for, whatever the order of the slots and the write pointers.
LEMMA ScanFinds ==
  ASSUME NEW t, NEW z \in Zones, ScanTarget(t) = z
  PROVE  \E i \in OpenSlots : zone_opened[i] = z /\ Candidate(z, t)
  <1>1. PICK g : IsScan(g, t, MaxOpen) /\ ScanTarget(t) = g[MaxOpen].tar
    BY ScanIsScan
  <1> DEFINE Found(n) == g[n].tar = None \/ \E i \in OpenSlots : zone_opened[i] = g[n].tar /\ Candidate(g[n].tar, t)
             Bad == {n \in 0 .. MaxOpen : ~Found(n)}
  <1>2. Bad = {}
    <2> SUFFICES ASSUME Bad # {} PROVE FALSE
      OBVIOUS
    <2>0. Bad \in SUBSET Nat
      BY SizesAssumption
    <2>1. PICK m \in Bad : \A k \in Bad : m <= k
      BY <2>0, LeastElement
    <2>2. CASE m = 0
      <3>1. g[m] = ScanStart
        BY <1>1, <2>1, <2>2 DEF IsScan
      <3> QED
        BY <2>1, <3>1 DEF ScanStart
    <2>3. CASE m # 0
      <3>1. m \in 1 .. MaxOpen /\ m - 1 \in 0 .. MaxOpen /\ m - 1 \in OpenSlots
        BY <2>1, <2>3, SizesAssumption DEF OpenSlots
      <3>2. Found(m - 1)
        BY <2>1, <3>1
      <3>3. g[m] = ScanStep(t, g[m - 1], m)
        BY <1>1, <3>1 DEF IsScan
      <3>4. Found(m)
        BY <3>1, <3>2, <3>3 DEF ScanStep
      <3> QED
        BY <2>1, <3>4
    <2> QED
      BY <2>2, <2>3
  <1>3. MaxOpen \in 0 .. MaxOpen
    BY SizesAssumption
  <1>4. Found(MaxOpen)
    BY <1>2, <1>3
  <1>5. z # None
    BY SizesAssumption
  <1> QED
    BY <1>1, <1>4, <1>5


(***************************************************************************)
(* Write pointers.                                                         *)
(***************************************************************************)

InFlight(p) == pc[p] \in {"endio", "validate"}

\* The zone table is behind the device by completions in flight only: the
\* last block the device has written is counted in wp, or its page is still
\* on the way, and a zone counted to its capacity is FULL.
WpInv ==
  ~ioerr =>
    /\ \A z \in Zones :
         /\ wp[z] <= dwp[z]
         /\ cond[z] = "FULL" => dwp[z] >= Start(z) + CapBlocks
         /\ wp[z] = Start(z) + CapBlocks => cond[z] = "FULL"
         /\ wp[z] = dwp[z] \/ \E p \in Page : InFlight(p) /\ bi_sector[p] = <<z, dwp[z] - Start(z) - 1>>
    /\ \A p \in Page :
         InFlight(p) => Start(bi_sector[p][1]) + bi_sector[p][2] + 1 <= dwp[bi_sector[p][1]]

\* The device's conditions and write pointers are read at mount, when nothing
\* is in flight.
LEMMA InitWp == Init => WpInv
  <1> SUFFICES ASSUME Init PROVE WpInv
    OBVIOUS
  <1>1. PICK b \in Boots : cond = b.cond /\ wp = b.wp /\ dwp = b.wp
    BY DEF Init
  <1>2. \A z \in Zones : /\ b.wp[z] \in Nat
                         /\ b.cond[z] # "FULL" => b.wp[z] \in Start(z) .. Start(z) + CapBlocks - 1
                         /\ b.cond[z] = "FULL" => b.wp[z] = Start(z) + ZoneBlocks
    BY BootsAssumption DEF Mounted
  <1>3. \A p \in Page : ~InFlight(p)
    BY DEF Init, InFlight
  <1>4. ASSUME NEW z \in Zones
        PROVE  /\ wp[z] <= dwp[z] /\ wp[z] = dwp[z]
               /\ cond[z] = "FULL" => dwp[z] >= Start(z) + CapBlocks
               /\ wp[z] = Start(z) + CapBlocks => cond[z] = "FULL"
    <2>1. Start(z) \in Nat /\ CapBlocks \in Nat /\ ZoneBlocks \in Nat /\ CapBlocks <= ZoneBlocks
      BY StartNat, SizesAssumption
    <2> QED
      BY <1>1, <1>2, <2>1
  <1> QED
    BY <1>3, <1>4 DEF WpInv

\* A step that touches neither a write pointer nor a FULL zone nor a page
\* between the append and the zone table.
LEMMA WpKeeps ==
  ASSUME WpInv, UNCHANGED <<dwp, wp, bi_sector, ioerr>>,
         \A q \in Page : pc'[q] \in {"endio", "validate"} <=> pc[q] \in {"endio", "validate"},
         \A z \in Zones : cond'[z] = "FULL" <=> cond[z] = "FULL"
  PROVE  WpInv'
  BY DEF WpInv, InFlight

\* The device's write pointer and the page of the append go together.
LEMMA AppendKeepsWp ==
  ASSUME IInv, WpInv, NEW p \in Page, DeviceAppend(p)
  PROVE  WpInv'
  <1>1. CASE ioerr'
    BY <1>1 DEF WpInv
  <1>2. CASE ~ioerr'
    <2>1. PICK z \in Zones : new_zone[p] = z
      BY DEF IInv, TypeOK
    <2>2. /\ ~ioerr /\ UNCHANGED <<wp, cond>>
          /\ dwp[z] < Start(z) + CapBlocks
          /\ bi_sector' = [bi_sector EXCEPT ![p] = <<z, dwp[z] - Start(z)>>]
          /\ dwp' = [dwp EXCEPT ![z] = dwp[z] + 1]
          /\ pc[p] = "submit" /\ pc' = [pc EXCEPT ![p] = "endio"]
      BY <1>2, <2>1 DEF DeviceAppend, Goto, tableVars
    <2>3. /\ dwp \in [Zones -> Nat] /\ wp \in [Zones -> Nat] /\ Start(z) \in Nat
          /\ dwp[z] >= Start(z) /\ pc \in [Page -> Labels]
          /\ bi_sector \in [Page -> Addrs]
      BY StartNat DEF IInv, TypeOK, DeviceInZone
    <2>4. \A y \in Zones : /\ dwp'[y] >= dwp[y] /\ dwp'[y] \in Nat
                           /\ y # z => dwp'[y] = dwp[y]
      BY <2>2, <2>3
    <2>5. /\ InFlight(p)' /\ bi_sector'[p] = <<z, dwp'[z] - Start(z) - 1>>
          /\ dwp'[z] = dwp[z] + 1
      BY <2>2, <2>3 DEF InFlight
    <2>6. ASSUME NEW q \in Page, q # p
          PROVE  (InFlight(q)' <=> InFlight(q)) /\ bi_sector'[q] = bi_sector[q]
      BY <2>2, <2>3, <2>6 DEF InFlight
    <2>7. ~InFlight(p)
      BY <2>2 DEF InFlight
    <2>8. ASSUME NEW y \in Zones
          PROVE  /\ wp'[y] <= dwp'[y]
                 /\ cond'[y] = "FULL" => dwp'[y] >= Start(y) + CapBlocks
                 /\ wp'[y] = Start(y) + CapBlocks => cond'[y] = "FULL"
                 /\ \/ wp'[y] = dwp'[y]
                    \/ \E q \in Page : InFlight(q)' /\ bi_sector'[q] = <<y, dwp'[y] - Start(y) - 1>>
      <3>1. /\ wp[y] \in Nat /\ dwp[y] \in Nat /\ Start(y) + CapBlocks \in Nat
            /\ wp'[y] = wp[y] /\ cond'[y] = cond[y]
        BY <2>2, <2>3, StartNat, SizesAssumption
      <3>2. /\ wp[y] <= dwp[y]
            /\ cond[y] = "FULL" => dwp[y] >= Start(y) + CapBlocks
            /\ wp[y] = Start(y) + CapBlocks => cond[y] = "FULL"
            /\ \/ wp[y] = dwp[y]
               \/ \E q \in Page : InFlight(q) /\ bi_sector[q] = <<y, dwp[y] - Start(y) - 1>>
        BY <2>2 DEF WpInv
      <3>3. \/ wp'[y] = dwp'[y]
            \/ \E q \in Page : InFlight(q)' /\ bi_sector'[q] = <<y, dwp'[y] - Start(y) - 1>>
        <4>1. CASE y = z
          BY <2>5, <4>1
        <4>2. CASE y # z
          BY <2>4, <2>6, <2>7, <3>1, <3>2, <4>2
        <4> QED
          BY <4>1, <4>2
      <3>4. dwp'[y] >= dwp[y] /\ dwp'[y] \in Nat
        BY <2>4
      <3> QED
        BY <3>1, <3>2, <3>3, <3>4
    <2>9. ASSUME NEW q \in Page, InFlight(q)'
          PROVE  Start(bi_sector'[q][1]) + bi_sector'[q][2] + 1 <= dwp'[bi_sector'[q][1]]
      <3>1. CASE q = p
        BY <2>3, <2>5, <3>1
      <3>2. CASE q # p
        <4>1. /\ InFlight(q) /\ bi_sector'[q] = bi_sector[q]
              /\ Start(bi_sector[q][1]) + bi_sector[q][2] + 1 <= dwp[bi_sector[q][1]]
          BY <2>2, <2>6, <2>9, <3>2 DEF WpInv
        <4>2. bi_sector[q][1] \in Zones /\ bi_sector[q][2] \in Nat
          BY <2>3, AddrFacts DEF blk2zone
        <4>3. Start(bi_sector[q][1]) \in Nat
          BY <4>2, StartNat
        <4> QED
          BY <2>3, <2>4, <4>1, <4>2, <4>3
      <3> QED
        BY <3>1, <3>2
    <2> QED
      BY <2>8, <2>9 DEF WpInv
  <1> QED
    BY <1>1, <1>2

\* A completion takes the maximum: whichever order completions arrive in, the
\* last block's completion brings wp up to the device's pointer.
LEMMA ValidateKeepsWp ==
  ASSUME IInv, WpInv, NEW p \in Page, ValidateBlkaddr(p)
  PROVE  WpInv'
  <1>1. CASE ioerr
    BY <1>1 DEF ValidateBlkaddr, WpInv, ioVars
  <1>2. CASE ~ioerr
    <2>0. bi_sector[p] \in Zones \X (0 .. ZoneBlocks - 1)
      BY DEF IInv, TypeOK, Addrs
    <2>1. PICK z \in Zones, o \in Nat : bi_sector[p] = <<z, o>> /\ blk2zone(bi_sector[p]) = z
      <3>1. PICK z \in Zones, o \in 0 .. ZoneBlocks - 1 : bi_sector[p] = <<z, o>>
        BY <2>0
      <3> QED
        BY <3>1, SizesAssumption DEF blk2zone
    <2>2. PICK w : w = NewWp(z, <<z, o>>)
      OBVIOUS
    <2>3. /\ UNCHANGED <<dwp, bi_sector, ioerr>>
          /\ wp' = [wp EXCEPT ![z] = w]
          /\ pc[p] = "validate" /\ pc' = [pc EXCEPT ![p] = "idle"]
          /\ \/ w = Start(z) + CapBlocks /\ cond' = [cond EXCEPT ![z] = "FULL"]
             \/ w # Start(z) + CapBlocks /\ cond' = cond
      BY <2>1, <2>2 DEF ValidateBlkaddr, Goto, ZoneFull, tableVars, ioVars
    <2>4. /\ dwp \in [Zones -> Nat] /\ wp \in [Zones -> Nat] /\ Start(z) \in Nat
          /\ pc \in [Page -> Labels] /\ cond \in [Zones -> Conds]
      BY StartNat DEF IInv, TypeOK
    <2>5. InFlight(p) /\ Start(z) + o + 1 <= dwp[z]
      BY <1>2, <2>1, <2>3 DEF WpInv, InFlight
    <2>6. ASSUME NEW q \in Page
          PROVE  InFlight(q)' => InFlight(q)
      BY <2>3, <2>4 DEF InFlight
    <2>7. ASSUME NEW q \in Page, q # p
          PROVE  InFlight(q)' <=> InFlight(q)
      BY <2>3, <2>4, <2>7 DEF InFlight
    <2>8. /\ w \in Nat /\ w >= wp[z] /\ w >= Start(z) + o + 1
          /\ w = wp[z] \/ w = Start(z) + o + 1
      BY <2>1, <2>2, <2>4 DEF NewWp, Higher
    <2>9. ASSUME NEW y \in Zones
          PROVE  /\ wp'[y] <= dwp'[y]
                 /\ cond'[y] = "FULL" => dwp'[y] >= Start(y) + CapBlocks
                 /\ wp'[y] = Start(y) + CapBlocks => cond'[y] = "FULL"
                 /\ \/ wp'[y] = dwp'[y]
                    \/ \E q \in Page : InFlight(q)' /\ bi_sector'[q] = <<y, dwp'[y] - Start(y) - 1>>
      <3>1. /\ wp[y] <= dwp[y]
            /\ cond[y] = "FULL" => dwp[y] >= Start(y) + CapBlocks
            /\ wp[y] = Start(y) + CapBlocks => cond[y] = "FULL"
            /\ \/ wp[y] = dwp[y]
               \/ \E q \in Page : InFlight(q) /\ bi_sector[q] = <<y, dwp[y] - Start(y) - 1>>
        BY <1>2 DEF WpInv
      <3>2. CASE y # z
        <4>1. wp'[y] = wp[y] /\ cond'[y] = cond[y] /\ dwp'[y] = dwp[y]
          BY <2>3, <2>4, <3>2
        <4>2. \A q \in Page : bi_sector[q] = <<y, dwp[y] - Start(y) - 1>> => q # p
          BY <2>1, <3>2
        <4> QED
          BY <2>3, <2>7, <3>1, <4>1, <4>2
      <3>3. CASE y = z
        <4>1. wp'[z] = w /\ dwp'[z] = dwp[z] /\ w <= dwp[z] /\ dwp[z] \in Nat
          BY <2>3, <2>4, <2>5, <2>8, <3>1, <3>3
        <4>2. \/ w = Start(z) + CapBlocks /\ cond'[z] = "FULL"
              \/ w # Start(z) + CapBlocks /\ cond'[z] = cond[z]
          BY <2>3, <2>4
        <4>3. cond'[z] = "FULL" => dwp'[z] >= Start(z) + CapBlocks
          BY <3>1, <3>3, <4>1, <4>2
        <4>4. \/ w = dwp[z]
              \/ \E q \in Page : InFlight(q)' /\ bi_sector'[q] = <<z, dwp[z] - Start(z) - 1>>
          <5>1. CASE wp[z] = dwp[z]
            BY <2>4, <2>8, <4>1, <5>1
          <5>2. CASE wp[z] # dwp[z]
            <6>1. PICK q \in Page : InFlight(q) /\ bi_sector[q] = <<z, dwp[z] - Start(z) - 1>>
              BY <3>1, <3>3, <5>2
            <6>2. CASE q = p
              <7>1. o = dwp[z] - Start(z) - 1
                BY <2>1, <6>1, <6>2
              <7> QED
                BY <2>4, <2>8, <4>1, <7>1
            <6>3. CASE q # p
              BY <2>3, <2>7, <6>1, <6>3
            <6> QED
              BY <6>2, <6>3
          <5> QED
            BY <5>1, <5>2
        <4> QED
          BY <3>3, <4>1, <4>2, <4>3, <4>4
      <3> QED
        BY <3>2, <3>3
    <2>10. ASSUME NEW q \in Page, InFlight(q)'
           PROVE  Start(bi_sector'[q][1]) + bi_sector'[q][2] + 1 <= dwp'[bi_sector'[q][1]]
      BY <1>2, <2>3, <2>6, <2>10 DEF WpInv
    <2> QED
      BY <2>9, <2>10 DEF WpInv
  <1> QED
    BY <1>1, <1>2

\* The other steps do not come near.  OpenZone changes a condition, but never
\* that of a FULL zone.
LEMMA WpStep == IInv /\ WpInv /\ [Next]_vars => WpInv'
  <1> SUFFICES ASSUME IInv, WpInv, [Next]_vars PROVE WpInv'
    OBVIOUS
  <1>0. pc \in [Page -> Labels] /\ cond \in [Zones -> Conds] /\ 0 \in Zones
    BY AddrFacts DEF IInv, TypeOK
  <1>1. ASSUME NEW p \in Page,
               \/ SubmitXio(p) \/ AllocZone(p) \/ ScanOpened(p) \/ InvalidateOld(p)
               \/ EndIO(p) \/ TruncateBlock(p) \/ FreeNode(p)
        PROVE  WpInv'
    <2>1. UNCHANGED <<dwp, wp, bi_sector, ioerr, cond>>
      BY <1>1 DEF SubmitXio, AllocZone, ScanOpened, InvalidateOld, EndIO,
                  TruncateBlock, FreeNode, tableVars, ioVars
    <2>2. \A q \in Page : pc'[q] \in {"endio", "validate"} <=> pc[q] \in {"endio", "validate"}
      BY <1>0, <1>1 DEF SubmitXio, AllocZone, ScanOpened, InvalidateOld, EndIO,
                        TruncateBlock, FreeNode, Goto
    <2> QED
      BY <2>1, <2>2, WpKeeps
  <1>2. ASSUME NEW p \in Page, OpenZone(p) PROVE WpInv'
    <2>1. UNCHANGED <<dwp, wp, bi_sector, ioerr>>
      BY <1>2 DEF OpenZone, ioVars
    <2>2. \A q \in Page : pc'[q] \in {"endio", "validate"} <=> pc[q] \in {"endio", "validate"}
      BY <1>0, <1>2 DEF OpenZone, Goto
    <2>3. \A z \in Zones : cond'[z] = "FULL" <=> cond[z] = "FULL"
      <3>1. CASE cond' = cond
        BY <3>1
      <3>2. CASE \E z \in get_empty_zone : ~OpenRefused(z) /\ cond' = [cond EXCEPT ![z] = "EXP_OPEN"]
        BY <1>0, <3>2 DEF OpenRefused, DeviceOpens
      <3> QED
        BY <1>2, <3>1, <3>2 DEF OpenZone, xcpfs_zone_open, tableVars
    <2> QED
      BY <2>1, <2>2, <2>3, WpKeeps
  <1>3. CASE UNCHANGED vars
    BY <1>3, WpKeeps DEF vars, tableVars, ioVars
  <1> QED
    BY <1>1, <1>2, <1>3, AppendKeepsWp, ValidateKeepsWp DEF Next

\* Whatever the sizes, the mounted state and the order of completions, the
\* zone table is never ahead of the device and has caught up with it when
\* nothing is in flight (write_end_io and validate_blkaddr).
THEOREM TableBehindDevice == Spec => []WpBehindDevice
  <1>1. IInv /\ WpInv => WpBehindDevice
    <2> SUFFICES ASSUME IInv, WpInv, ~ioerr, NEW z \in Zones
                 PROVE  /\ wp[z] <= dwp[z]
                        /\ cond[z] = "FULL" => dwp[z] >= Start(z) + CapBlocks
                        /\ (z >= 2 /\ \A p \in Page : ~(InFlight(p) /\ blk2zone(bi_sector[p]) = z))
                             => /\ wp[z] = dwp[z]
                                /\ dwp[z] = Start(z) + CapBlocks => cond[z] = "FULL"
      BY DEF WpBehindDevice, InFlight
    <2>1. /\ wp[z] <= dwp[z]
          /\ cond[z] = "FULL" => dwp[z] >= Start(z) + CapBlocks
          /\ wp[z] = Start(z) + CapBlocks => cond[z] = "FULL"
          /\ \/ wp[z] = dwp[z]
             \/ \E p \in Page : InFlight(p) /\ bi_sector[p] = <<z, dwp[z] - Start(z) - 1>>
      BY DEF WpInv
    <2> QED
      BY <2>1 DEF blk2zone
  <1> QED
    BY InitIInv, StepIInv, InitWp, WpStep, <1>1, PTL DEF Spec

(***************************************************************************)
(* Placement.                                                              *)
(***************************************************************************)

\* Zone z suits page p.  Zone 0 stands for "no zone".
InPlace(p, z) == z # 0 => cond[z] # "EMPTY" /\ zone_type[z] = TypeOf[p]

\* Every zone that is on record for a page, as an old, chosen, written or
\* valid address.
HomeZones(p) == {blk2zone(addr[p]), blk2zone(old_blkaddr[p]), new_zone[p], blk2zone(bi_sector[p])}

SuperUntyped == EmptyZones # {} => \A z \in Zones : z < 2 => zone_type[z] = "FREE"

PlacedInv ==
  /\ \A p \in Page : \A z \in HomeZones(p) : InPlace(p, z)
  /\ SuperUntyped

\* What a step leaves of a zone: once used it is never EMPTY again, and only an
\* EMPTY zone or zone 0 gets another type.
ZonesKeep ==
  /\ \A z \in Zones : cond[z] # "EMPTY" => cond'[z] # "EMPTY"
  /\ \A z \in Zones : z # 0 /\ cond[z] # "EMPTY" => zone_type'[z] = zone_type[z]
  /\ EmptyZones # {} => \A z \in Zones : z < 2 => zone_type'[z] = zone_type[z]

LEMMA ZonesKeepStep == IInv /\ [Next]_vars => ZonesKeep
  <1> SUFFICES ASSUME IInv, [Next]_vars PROVE ZonesKeep
    OBVIOUS
  <1>0. /\ cond \in [Zones -> Conds] /\ zone_type \in [Zones -> ZoneTypes] /\ 0 \in Zones
        /\ bi_sector \in [Page -> Addrs]
    BY AddrFacts DEF IInv, TypeOK
  <1>1. ASSUME NEW p \in Page,
               \/ SubmitXio(p) \/ AllocZone(p) \/ ScanOpened(p) \/ InvalidateOld(p)
               \/ DeviceAppend(p) \/ EndIO(p) \/ TruncateBlock(p) \/ FreeNode(p)
        PROVE  ZonesKeep
    <2>1. UNCHANGED <<cond, zone_type>>
      BY <1>1 DEF SubmitXio, AllocZone, ScanOpened, InvalidateOld, DeviceAppend, EndIO,
                  TruncateBlock, FreeNode, tableVars
    <2> QED
      BY <2>1 DEF ZonesKeep
  <1>2. ASSUME NEW p \in Page, OpenZone(p) PROVE ZonesKeep
    <2>1. CASE UNCHANGED <<cond, zone_type>>
      BY <2>1 DEF ZonesKeep
    <2>2. CASE \E z \in get_empty_zone :
                 /\ xcpfs_zone_open(z)
                 /\ zone_type' = [zone_type EXCEPT ![z] = TypeOf[p]]
      <3>1. PICK z \in get_empty_zone :
              /\ xcpfs_zone_open(z)
              /\ zone_type' = [zone_type EXCEPT ![z] = TypeOf[p]]
        BY <2>2
      <3>2. cond' = cond \/ cond' = [cond EXCEPT ![z] = "EXP_OPEN"]
        BY <3>1 DEF xcpfs_zone_open, tableVars
      <3>3. /\ z \in Zones
            /\ z # 0 => cond[z] = "EMPTY"
            /\ EmptyZones # {} => z >= 2
        BY <1>0 DEF get_empty_zone, EmptyZones
      <3>4. \A y \in Zones : cond[y] # "EMPTY" => cond'[y] # "EMPTY"
        BY <1>0, <3>2, <3>3
      <3>5. \A y \in Zones : y # z => zone_type'[y] = zone_type[y]
        BY <1>0, <3>1
      <3>6. \A y \in Zones : y # 0 /\ cond[y] # "EMPTY" => zone_type'[y] = zone_type[y]
        BY <3>3, <3>5
      <3>7. EmptyZones # {} => \A y \in Zones : y < 2 => zone_type'[y] = zone_type[y]
        BY <3>3, <3>5 DEF Zones
      <3> QED
        BY <3>4, <3>6, <3>7 DEF ZonesKeep
    <2> QED
      BY <1>2, <2>1, <2>2 DEF OpenZone, tableVars
  <1>3. ASSUME NEW p \in Page, ValidateBlkaddr(p) PROVE ZonesKeep
    <2>1. zone_type' = zone_type /\ blk2zone(bi_sector[p]) \in Zones
      BY <1>0, <1>3, AddrFacts DEF ValidateBlkaddr
    <2>2. cond' = cond \/ cond' = [cond EXCEPT ![blk2zone(bi_sector[p])] = "FULL"]
      BY <1>3 DEF ValidateBlkaddr, ZoneFull, tableVars
    <2>3. \A y \in Zones : cond[y] # "EMPTY" => cond'[y] # "EMPTY"
      BY <1>0, <2>1, <2>2
    <2> QED
      BY <2>1, <2>3 DEF ZonesKeep
  <1>4. CASE UNCHANGED vars
    BY <1>4 DEF vars, tableVars, ZonesKeep
  <1> QED
    BY <1>1, <1>2, <1>3, <1>4 DEF Next

\* A zone that is new on a page's record is zone 0 or was found by the scan,
\* and then is open and of the page's type.
LEMMA HomesStep ==
  ASSUME IInv, [Next]_vars, NEW q \in Page, NEW z \in HomeZones(q)'
  PROVE  z \in HomeZones(q) \/ InPlace(q, z)
  <1>0. /\ addr \in [Page -> Addrs] /\ old_blkaddr \in [Page -> Addrs]
        /\ new_zone \in [Page -> Zones] /\ bi_sector \in [Page -> Addrs]
        /\ cond \in [Zones -> Conds]
    BY DEF IInv, TypeOK
  <1>1. z \in {blk2zone(addr'[q]), blk2zone(old_blkaddr'[q]), new_zone'[q], blk2zone(bi_sector'[q])}
    BY DEF HomeZones
  <1>2. InPlace(q, 0)
    BY DEF InPlace
  <1>3. blk2zone(NullAddr) = 0
    BY DEF blk2zone, NullAddr
  <1>4. ASSUME NEW p \in Page, SubmitXio(p) PROVE z \in HomeZones(q)
    BY <1>0, <1>1, <1>4 DEF SubmitXio, HomeZones
  <1>5. ASSUME NEW p \in Page, AllocZone(p) PROVE z \in HomeZones(q)
    BY <1>0, <1>1, <1>5 DEF AllocZone, HomeZones
  <1>6. ASSUME NEW p \in Page, ScanOpened(p) PROVE z \in HomeZones(q) \/ InPlace(q, z)
    <2>1. UNCHANGED <<addr, old_blkaddr, bi_sector>>
      BY <1>6 DEF ScanOpened
    <2>2. CASE UNCHANGED new_zone
      BY <1>1, <2>1, <2>2 DEF HomeZones
    <2>3. CASE \E y \in Zones : ScanTarget(TypeOf[p]) = y /\ new_zone' = [new_zone EXCEPT ![p] = y]
      <3>1. PICK y \in Zones : ScanTarget(TypeOf[p]) = y /\ new_zone' = [new_zone EXCEPT ![p] = y]
        BY <2>3
      <3>2. PICK i \in OpenSlots : zone_opened[i] = y /\ Candidate(y, TypeOf[p])
        BY <3>1, ScanFinds
      <3>3. y # None /\ zone_type[y] = TypeOf[p]
        BY <3>2 DEF Candidate
      <3>4. i \in Used(zone_opened)
        BY <3>2, <3>3 DEF Used, IInv, TypeOK
      <3>5. cond[y] \in OpenConds
        BY <3>2, <3>4 DEF IInv, TablesInv, TablesExact, OpenTableExact, Lists
      <3>6. InPlace(p, y)
        BY <3>3, <3>5 DEF InPlace, OpenConds
      <3>7. new_zone'[q] = new_zone[q] \/ (q = p /\ new_zone'[q] = y)
        BY <1>0, <3>1
      <3> QED
        BY <1>1, <2>1, <3>6, <3>7 DEF HomeZones
    <2> QED
      BY <1>6, <2>2, <2>3 DEF ScanOpened
  <1>7. ASSUME NEW p \in Page, OpenZone(p) \/ InvalidateOld(p) \/ ValidateBlkaddr(p)
        PROVE  z \in HomeZones(q)
    BY <1>0, <1>1, <1>7 DEF OpenZone, InvalidateOld, ValidateBlkaddr, HomeZones
  <1>8. ASSUME NEW p \in Page, DeviceAppend(p) PROVE z \in HomeZones(q)
    <2>1. \E o : bi_sector' = [bi_sector EXCEPT ![p] = <<new_zone[p], o>>]
      BY <1>8 DEF DeviceAppend
    <2>2. blk2zone(bi_sector'[q]) \in {blk2zone(bi_sector[q]), new_zone[q]}
      BY <1>0, <2>1 DEF blk2zone
    <2>3. UNCHANGED <<addr, old_blkaddr, new_zone>>
      BY <1>8 DEF DeviceAppend
    <2> QED
      BY <1>1, <2>2, <2>3 DEF HomeZones
  <1>9. ASSUME NEW p \in Page, EndIO(p) PROVE z \in HomeZones(q)
    BY <1>0, <1>1, <1>9 DEF EndIO, Appended, HomeZones
  <1>10. ASSUME NEW p \in Page, TruncateBlock(p) \/ FreeNode(p)
         PROVE  z \in HomeZones(q) \/ z = 0
    <2>1. /\ UNCHANGED <<old_blkaddr, new_zone, bi_sector>>
          /\ addr' = [addr EXCEPT ![p] = NullAddr]
      BY <1>10 DEF TruncateBlock, FreeNode
    <2>2. addr'[q] = addr[q] \/ addr'[q] = NullAddr
      BY <1>0, <2>1
    <2> QED
      BY <1>1, <1>3, <2>1, <2>2 DEF HomeZones
  <1>11. CASE UNCHANGED vars
    BY <1>1, <1>11 DEF vars, HomeZones
  <1> QED
    BY <1>2, <1>4, <1>5, <1>6, <1>7, <1>8, <1>9, <1>10, <1>11 DEF Next

\* The mount reads a placement that an unmount wrote.
LEMMA InitPlaced ==
  ASSUME \A b \in Boots : PlacedAtMount(b)
  PROVE  Init => PlacedInv
  <1> SUFFICES ASSUME Init PROVE PlacedInv
    OBVIOUS
  <1>1. PICK b \in Boots : cond = b.cond /\ zone_type = b.zone_type /\ addr = b.addr
    BY DEF Init
  <1>2. PlacedAtMount(b)
    OBVIOUS
  <1>3. ASSUME NEW p \in Page, NEW z \in HomeZones(p) PROVE InPlace(p, z)
    <2>1. z = blk2zone(addr[p]) \/ z = 0
      BY <1>3 DEF Init, HomeZones, blk2zone, NullAddr
    <2> QED
      BY <1>1, <1>2, <2>1 DEF PlacedAtMount, InPlace
  <1>4. SuperUntyped
    BY <1>1, <1>2 DEF PlacedAtMount, SuperUntyped, EmptyZones
  <1> QED
    BY <1>3, <1>4 DEF PlacedInv

LEMMA PlacedStep == IInv /\ PlacedInv /\ [Next]_vars => PlacedInv'
  <1> SUFFICES ASSUME IInv, PlacedInv, [Next]_vars PROVE PlacedInv'
    OBVIOUS
  <1>1. ZonesKeep /\ TypeOK'
    BY ZonesKeepStep, StepIInv DEF IInv
  <1>2. ASSUME NEW q \in Page, NEW z \in HomeZones(q)' PROVE InPlace(q, z)'
    <2>1. z \in Zones
      BY <1>1, <1>2, AddrFacts DEF TypeOK, HomeZones
    <2>2. InPlace(q, z)
      BY <1>2, HomesStep DEF PlacedInv
    <2> QED
      BY <1>1, <2>1, <2>2 DEF ZonesKeep, InPlace
  <1>3. SuperUntyped'
    <2>1. EmptyZones' \subseteq EmptyZones
      BY <1>1 DEF EmptyZones, ZonesKeep, IInv, TypeOK
    <2>2. ASSUME EmptyZones' # {}, NEW z \in Zones, z < 2
          PROVE  zone_type'[z] = "FREE"
      <3>1. EmptyZones # {}
        BY <2>1, <2>2
      <3>2. zone_type[z] = "FREE"
        BY <2>2, <3>1 DEF PlacedInv, SuperUntyped
      <3> QED
        BY <1>1, <2>2, <3>1, <3>2 DEF ZonesKeep
    <2> QED
      BY <2>2 DEF SuperUntyped
  <1> QED
    BY <1>2, <1>3 DEF PlacedInv

\* If it was so at mount, every block that is written lies in a zone of its
\* page's type for ever: the zone a page keeps (alloc_zone's short cut) is
\* never retyped, and get_zone types only EMPTY zones and zone 0.
THEOREM BlocksStayPlaced ==
  ASSUME \A b \in Boots : PlacedAtMount(b)
  PROVE  Spec => []PlacedByType
  <1>1. PlacedInv => PlacedByType
    BY DEF PlacedInv, PlacedByType, HomeZones, InPlace
  <1> QED
    BY InitIInv, StepIInv, InitPlaced, PlacedStep, <1>1, PTL DEF Spec

\* If it was so at mount, alloc_zone never chooses a zone it knows to be FULL,
\* and a superblock zone only after the last EMPTY zone is used.
THEOREM TargetHasRoom ==
  ASSUME \A b \in Boots : PlacedAtMount(b)
  PROVE  Spec => AllocTarget
  <1> DEFINE Chosen(p, z) == cond[z] # "FULL" /\ (z \in {0, 1} => EmptyZones = {})
             Step == \A p \in Page :
                       pc[p] \in {"alloc", "scan"} /\ pc'[p] = "invalidate" =>
                         /\ cond[new_zone'[p]] # "FULL"
                         /\ new_zone'[p] \in {0, 1} => EmptyZones = {}
  <1>1. IInv /\ PlacedInv /\ [Next]_vars => [Step]_vars
    <2> SUFFICES ASSUME IInv, PlacedInv, Next, NEW p \in Page,
                        pc[p] \in {"alloc", "scan"}, pc'[p] = "invalidate"
                 PROVE  Chosen(p, new_zone'[p])
      OBVIOUS
    <2>0. /\ pc \in [Page -> Labels] /\ new_zone \in [Page -> Zones]
          /\ old_blkaddr[p] \in Addrs /\ TypeOf[p] # "FREE"
      BY SizesAssumption DEF IInv, TypeOK, PageTypes
    <2>1. AllocZone(p) \/ ScanOpened(p)
      BY <2>0 DEF Next, SubmitXio, AllocZone, ScanOpened, OpenZone, InvalidateOld, DeviceAppend,
                  EndIO, ValidateBlkaddr, TruncateBlock, FreeNode, Goto
    <2>2. ASSUME NEW z \in Zones, z \in {0, 1}, zone_type[z] = TypeOf[p]
          PROVE  EmptyZones = {}
      BY <2>0, <2>2 DEF PlacedInv, SuperUntyped
    <2>3. CASE AllocZone(p)
      <3>1. /\ KeepsZone(blk2zone(old_blkaddr[p]))
            /\ new_zone'[p] = blk2zone(old_blkaddr[p])
        BY <2>0, <2>3 DEF AllocZone, Goto
      <3>2. PICK z : z = blk2zone(old_blkaddr[p])
        OBVIOUS
      <3>3. z \in Zones /\ z # 0 /\ cond[z] # "FULL"
        BY <2>0, <3>1, <3>2, AddrFacts DEF KeepsZone
      <3>4. zone_type[z] = TypeOf[p]
        BY <3>2, <3>3 DEF PlacedInv, HomeZones, InPlace
      <3> QED
        BY <2>2, <3>1, <3>2, <3>3, <3>4
    <2>4. CASE ScanOpened(p)
      <3>1. PICK z \in Zones : ScanTarget(TypeOf[p]) = z /\ new_zone'[p] = z
        BY <2>0, <2>4 DEF ScanOpened, Goto
      <3>2. PICK i \in OpenSlots : zone_opened[i] = z /\ Candidate(z, TypeOf[p])
        BY <3>1, ScanFinds
      <3>3. z # None /\ zone_type[z] = TypeOf[p]
        BY <3>2 DEF Candidate
      <3>4. i \in Used(zone_opened)
        BY <3>2, <3>3 DEF Used, IInv, TypeOK
      <3>5. cond[z] \in OpenConds
        BY <3>2, <3>4 DEF IInv, TablesInv, TablesExact, OpenTableExact, Lists
      <3>6. cond[z] # "FULL"
        BY <3>5 DEF OpenConds
      <3> QED
        BY <2>2, <3>1, <3>3, <3>6
    <2> QED
      BY <2>1, <2>3, <2>4
  <1>2. Spec => [](IInv /\ PlacedInv)
    BY InitIInv, StepIInv, InitPlaced, PlacedStep, PTL DEF Spec
  <1> QED
    BY <1>1, <1>2, PTL DEF Spec, AllocTarget

(***************************************************************************)
(* The valid map of the zones that were EMPTY at mount.                    *)
(***************************************************************************)

Pending(p) == pc[p] \in {"alloc", "scan", "open", "invalidate"}

\* The blocks on record for a page, dead ones included.
Records(p) == {addr[p], old_blkaddr[p], bi_sector[p]} \ {NullAddr}

\* No two pages ever meet on a block, since each block on record is behind
\* the device's write pointer and the device never writes a block twice.
RecordsInv ==
  ~ioerr =>
    /\ dwp[0] > 0
    /\ \A p, q \in Page : p # q => Records(p) \cap Records(q) = {}
    /\ \A p \in Page : \A a \in Records(p) : Start(a[1]) + a[2] < dwp[a[1]]

LEMMA InitRecords ==
  ASSUME \A b \in Boots : WrittenAtMount(b)
  PROVE  Init => RecordsInv
  <1> SUFFICES ASSUME Init PROVE RecordsInv
    OBVIOUS
  <1>1. PICK b \in Boots : dwp = b.wp /\ addr = b.addr
    BY DEF Init
  <1>2. WrittenAtMount(b)
    OBVIOUS
  <1>3. \A p \in Page : Records(p) = {b.addr[p]} \ {NullAddr}
    BY <1>1 DEF Init, Records
  <1>4. dwp[0] > 0
    BY <1>1, <1>2 DEF WrittenAtMount
  <1>5. \A p, q \in Page : p # q => Records(p) \cap Records(q) = {}
    BY <1>2, <1>3 DEF WrittenAtMount
  <1>6. \A p \in Page : \A a \in Records(p) : Start(a[1]) + a[2] < dwp[a[1]]
    BY <1>1, <1>2, <1>3 DEF WrittenAtMount, blk2zone
  <1> QED
    BY <1>4, <1>5, <1>6 DEF RecordsInv

\* Only an append puts a block on record.
LEMMA RecordsShrink ==
  ASSUME RecordsInv, UNCHANGED <<dwp, ioerr>>,
         \A q \in Page : Records(q)' \subseteq Records(q)
  PROVE  RecordsInv'
  <1>1. CASE ioerr'
    BY <1>1 DEF RecordsInv
  <1>2. CASE ~ioerr'
    <2>1. ~ioerr
      BY <1>2
    <2>2. \A p, q \in Page : p # q => Records(p)' \cap Records(q)' = {}
      BY <2>1 DEF RecordsInv
    <2>3. \A p \in Page : \A a \in Records(p)' : Start(a[1]) + a[2] < dwp'[a[1]]
      BY <2>1 DEF RecordsInv
    <2> QED
      BY <2>1, <2>2, <2>3 DEF RecordsInv
  <1> QED
    BY <1>1, <1>2

\* What an append does to the records: the block it adds is at the device's
\* write pointer, and is not <<0, 0>> because zone 0 holds the superblock.
LEMMA AppendRecords ==
  ASSUME IInv, RecordsInv, NEW p \in Page, DeviceAppend(p), ~ioerr'
  PROVE  \E a \in Addrs :
           /\ ~ioerr
           /\ a # NullAddr /\ a[1] = new_zone[p] /\ Start(a[1]) + a[2] = dwp[a[1]]
           /\ bi_sector' = [bi_sector EXCEPT ![p] = a]
           /\ dwp' = [dwp EXCEPT ![a[1]] = dwp[a[1]] + 1]
           /\ a[1] \in Zones /\ a[2] \in Nat
           /\ Records(p)' \subseteq Records(p) \cup {a}
           /\ \A q \in Page : q # p => Records(q)' = Records(q)
  <1>1. PICK z \in Zones : new_zone[p] = z
    BY DEF IInv, TypeOK
  <1>2. PICK a : a = <<z, dwp[z] - Start(z)>>
    OBVIOUS
  <1>3. /\ ~ioerr /\ dwp[z] < Start(z) + CapBlocks
        /\ bi_sector' = [bi_sector EXCEPT ![p] = a]
        /\ dwp' = [dwp EXCEPT ![z] = dwp[z] + 1]
        /\ UNCHANGED <<addr, old_blkaddr>>
    BY <1>1, <1>2 DEF DeviceAppend
  <1>4. /\ dwp[z] \in Nat /\ dwp[z] >= Start(z) /\ Start(z) \in Nat
        /\ bi_sector \in [Page -> Addrs]
    BY StartNat DEF IInv, TypeOK, DeviceInZone
  <1>5. a[1] = z /\ a[2] = dwp[z] - Start(z) /\ a[2] \in 0 .. ZoneBlocks - 1 /\ a[2] \in Nat
    BY <1>2, <1>3, <1>4, SizesAssumption
  <1>6. a \in Addrs
    BY <1>2, <1>5 DEF Addrs
  <1>7. a # NullAddr
    <2> SUFFICES ASSUME a = NullAddr PROVE FALSE
      OBVIOUS
    <2>1. z = 0 /\ dwp[z] = Start(z)
      BY <1>4, <1>5 DEF NullAddr
    <2>2. Start(0) = 0
      BY SizesAssumption DEF Start
    <2> QED
      BY <1>3, <1>4, <2>1, <2>2 DEF RecordsInv
  <1>8. bi_sector'[p] = a /\ \A q \in Page : q # p => bi_sector'[q] = bi_sector[q]
    BY <1>3, <1>4
  <1>9. Records(p)' \subseteq Records(p) \cup {a}
    BY <1>3, <1>8 DEF Records
  <1>10. \A q \in Page : q # p => Records(q)' = Records(q)
    BY <1>3, <1>8 DEF Records
  <1>11. Start(a[1]) + a[2] = dwp[a[1]]
    BY <1>4, <1>5
  <1> QED
    BY <1>1, <1>3, <1>5, <1>6, <1>7, <1>9, <1>10, <1>11

LEMMA AppendKeepsRecords ==
  ASSUME IInv, RecordsInv, NEW p \in Page, DeviceAppend(p)
  PROVE  RecordsInv'
  <1>1. CASE ioerr'
    BY <1>1 DEF RecordsInv
  <1>2. CASE ~ioerr'
    <2>1. PICK a \in Addrs :
            /\ ~ioerr
            /\ a # NullAddr /\ Start(a[1]) + a[2] = dwp[a[1]]
            /\ dwp' = [dwp EXCEPT ![a[1]] = dwp[a[1]] + 1]
            /\ a[1] \in Zones /\ a[2] \in Nat
            /\ Records(p)' \subseteq Records(p) \cup {a}
            /\ \A q \in Page : q # p => Records(q)' = Records(q)
      BY <1>2, AppendRecords
    <2>2. /\ dwp \in [Zones -> Nat] /\ 0 \in Zones
          /\ \A q \in Page : Records(q) \subseteq Addrs
      BY AddrFacts DEF IInv, TypeOK, Records
    <2>3. \A y \in Zones : dwp'[y] >= dwp[y] /\ dwp'[y] \in Nat
      BY <2>1, <2>2
    <2>4. /\ dwp[0] > 0
          /\ \A q, r \in Page : q # r => Records(q) \cap Records(r) = {}
          /\ \A q \in Page : \A x \in Records(q) : Start(x[1]) + x[2] < dwp[x[1]]
      BY <2>1 DEF RecordsInv
    <2>5. \A x \in Addrs : x[1] \in Zones /\ x[2] \in Nat /\ Start(x[1]) \in Nat
      BY AddrFacts, StartNat DEF blk2zone
    <2>6. \A q \in Page : a \notin Records(q)
      BY <2>1, <2>2, <2>4, <2>5
    <2>7. \A q, r \in Page : q # r => Records(q)' \cap Records(r)' = {}
      <3> SUFFICES ASSUME NEW q \in Page, NEW r \in Page, q # r
                   PROVE  Records(q)' \cap Records(r)' = {}
        OBVIOUS
      <3>1. CASE q # p /\ r # p
        BY <2>1, <2>4, <3>1
      <3>2. CASE q = p
        BY <2>1, <2>4, <2>6, <3>2
      <3>3. CASE r = p
        BY <2>1, <2>4, <2>6, <3>3
      <3> QED
        BY <3>1, <3>2, <3>3
    <2>8. ASSUME NEW q \in Page, NEW x \in Records(q)'
          PROVE  Start(x[1]) + x[2] < dwp'[x[1]]
      <3>1. CASE x = a
        BY <2>1, <2>2, <2>5, <3>1
      <3>2. CASE x # a
        <4>1. x \in Records(q)
          BY <2>1, <2>8, <3>2
        <4>2. x \in Addrs /\ Start(x[1]) + x[2] < dwp[x[1]]
          BY <2>2, <2>4, <4>1
        <4> QED
          BY <2>2, <2>3, <2>5, <4>2
      <3> QED
        BY <3>1, <3>2
    <2>9. dwp'[0] > 0
      BY <2>2, <2>3, <2>4
    <2> QED
      BY <2>7, <2>8, <2>9 DEF RecordsInv
  <1> QED
    BY <1>1, <1>2

LEMMA RecordsStep == IInv /\ RecordsInv /\ [Next]_vars => RecordsInv'
  <1> SUFFICES ASSUME IInv, RecordsInv, [Next]_vars PROVE RecordsInv'
    OBVIOUS
  <1>0. addr \in [Page -> Addrs] /\ old_blkaddr \in [Page -> Addrs]
    BY DEF IInv, TypeOK
  <1>1. ASSUME NEW p \in Page,
               \/ AllocZone(p) \/ ScanOpened(p) \/ OpenZone(p) \/ InvalidateOld(p) \/ ValidateBlkaddr(p)
        PROVE  UNCHANGED <<dwp, ioerr>> /\ \A q \in Page : Records(q)' = Records(q)
    BY <1>1 DEF AllocZone, ScanOpened, OpenZone, InvalidateOld, ValidateBlkaddr, Records, ioVars
  <1>2. ASSUME NEW p \in Page, SubmitXio(p)
        PROVE  UNCHANGED <<dwp, ioerr>> /\ \A q \in Page : Records(q)' \subseteq Records(q)
    BY <1>0, <1>2 DEF SubmitXio, Records
  <1>3. ASSUME NEW p \in Page, EndIO(p)
        PROVE  UNCHANGED <<dwp, ioerr>> /\ \A q \in Page : Records(q)' \subseteq Records(q)
    BY <1>0, <1>3 DEF EndIO, Appended, Records, ioVars
  <1>4. ASSUME NEW p \in Page, TruncateBlock(p) \/ FreeNode(p)
        PROVE  UNCHANGED <<dwp, ioerr>> /\ \A q \in Page : Records(q)' \subseteq Records(q)
    BY <1>0, <1>4 DEF TruncateBlock, FreeNode, Records, ioVars
  <1>5. CASE UNCHANGED vars
    BY <1>5, RecordsShrink DEF vars, Records, ioVars
  <1> QED
    BY <1>1, <1>2, <1>3, <1>4, <1>5, RecordsShrink, AppendKeepsRecords DEF Next

\* Where a writer is says which of its blocks is the valid one.  Truncation
\* may take the address away; from a data page only while it is not written.
WriterOK(p) ==
  /\ Pending(p) => addr[p] = old_blkaddr[p] \/ addr[p] = NullAddr
  /\ InFlight(p) => bi_sector[p] # NullAddr
  /\ pc[p] = "validate" =>
       addr[p] = bi_sector[p] \/ (addr[p] = NullAddr /\ TypeOf[p] = "REG_NODE")

WriterInv == ~ioerr => \A p \in Page : WriterOK(p)

LEMMA WriterStep ==
  IInv /\ RecordsInv /\ WriterInv /\ [Next]_vars => WriterInv'
  <1> SUFFICES ASSUME IInv, RecordsInv, WriterInv, [Next]_vars, ~ioerr', NEW q \in Page
               PROVE  WriterOK(q)'
    BY DEF WriterInv
  <1>0. /\ addr \in [Page -> Addrs] /\ old_blkaddr \in [Page -> Addrs]
        /\ bi_sector \in [Page -> Addrs] /\ pc \in [Page -> Labels]
    BY DEF IInv, TypeOK
  <1>1. ~ioerr /\ WriterOK(q)
    <2>1. ~ioerr
      BY DEF Next, SubmitXio, AllocZone, ScanOpened, OpenZone, InvalidateOld, DeviceAppend,
             EndIO, ValidateBlkaddr, TruncateBlock, FreeNode, ioVars, vars
    <2> QED
      BY <2>1 DEF WriterInv
  <1>2. ASSUME NEW p \in Page, SubmitXio(p) PROVE WriterOK(q)'
    BY <1>0, <1>1, <1>2 DEF SubmitXio, Goto, WriterOK, Pending, InFlight
  <1>3. ASSUME NEW p \in Page, AllocZone(p) \/ ScanOpened(p) \/ OpenZone(p) PROVE WriterOK(q)'
    <2>1. /\ UNCHANGED <<addr, old_blkaddr, bi_sector>> /\ Pending(p)
          /\ \E l \in {"alloc", "scan", "open", "invalidate"} : pc' = [pc EXCEPT ![p] = l]
      BY <1>3 DEF AllocZone, ScanOpened, OpenZone, Goto, Pending
    <2> QED
      BY <1>0, <1>1, <2>1 DEF WriterOK, Pending, InFlight
  <1>4. ASSUME NEW p \in Page, InvalidateOld(p) \/ ValidateBlkaddr(p) PROVE WriterOK(q)'
    <2>1. /\ UNCHANGED <<addr, old_blkaddr, bi_sector>>
          /\ \E l \in {"idle", "submit"} : pc' = [pc EXCEPT ![p] = l]
      BY <1>4 DEF InvalidateOld, ValidateBlkaddr, Goto
    <2> QED
      BY <1>0, <1>1, <2>1 DEF WriterOK, Pending, InFlight
  <1>5. ASSUME NEW p \in Page, DeviceAppend(p) PROVE WriterOK(q)'
    <2>1. /\ UNCHANGED <<addr, old_blkaddr>> /\ pc' = [pc EXCEPT ![p] = "endio"]
      BY <1>5 DEF DeviceAppend, Goto
    <2>2. PICK a \in Addrs : a # NullAddr /\ bi_sector' = [bi_sector EXCEPT ![p] = a]
      BY <1>5, AppendRecords
    <2> QED
      BY <1>0, <1>1, <2>1, <2>2 DEF WriterOK, Pending, InFlight
  <1>6. ASSUME NEW p \in Page, EndIO(p) PROVE WriterOK(q)'
    BY <1>0, <1>1, <1>6 DEF EndIO, Appended, Goto, WriterOK, Pending, InFlight
  <1>7. ASSUME NEW p \in Page, TruncateBlock(p) \/ FreeNode(p) PROVE WriterOK(q)'
    <2>1. /\ UNCHANGED <<old_blkaddr, bi_sector, pc>>
          /\ addr' = [addr EXCEPT ![p] = NullAddr]
          /\ pc[p] = "idle" \/ TypeOf[p] = "REG_NODE"
      BY <1>7 DEF TruncateBlock, FreeNode
    <2> QED
      BY <1>0, <1>1, <2>1 DEF WriterOK, Pending, InFlight
  <1>8. CASE UNCHANGED vars
    BY <1>1, <1>8 DEF vars, WriterOK, Pending, InFlight
  <1> QED
    BY <1>2, <1>3, <1>4, <1>5, <1>6, <1>7, <1>8 DEF Next

\* The block whose valid bit a page counts on.
Held(p) ==
  IF pc[p] = "idle" THEN {addr[p]} ELSE IF Pending(p) THEN {old_blkaddr[p]} ELSE {}

\* A bit that is set in a zone written since the mount.
BitOK(a) ==
  /\ Start(a[1]) + a[2] < dwp[a[1]] /\ cond[a[1]] # "EMPTY"
  /\ zone_type[a[1]] = "REG_NODE" \/ \E p \in Page : Live(p) /\ addr[p] = a

HeldOK(p) == \A a \in Held(p) : a[1] \in emptyAtMount => a \in valid_map
ArrivingOK(p) == InFlight(p) /\ bi_sector[p][1] \in emptyAtMount => bi_sector[p] \notin valid_map
CountsOK == \A z \in emptyAtMount : vblocks[z] = Cardinality(ValidIn(z))

MapInv ==
  ~ioerr =>
    /\ 0 \notin emptyAtMount
    /\ \A p \in Page : HeldOK(p) /\ ArrivingOK(p)
    /\ \A a \in valid_map : a[1] \in emptyAtMount => BitOK(a)
    /\ CountsOK

\* A zone has finitely many bits.
LEMMA BitsFinite ==
  ASSUME valid_map \subseteq Addrs, NEW z
  PROVE  IsFiniteSet(ValidIn(z)) /\ Cardinality(ValidIn(z)) \in Nat
  <1>1. IsFiniteSet(Zones) /\ IsFiniteSet(0 .. ZoneBlocks - 1)
    BY SizesAssumption, FS_Interval DEF Zones
  <1>2. IsFiniteSet(Addrs)
    BY <1>1, FS_Product DEF Addrs
  <1>3. ValidIn(z) \subseteq Addrs
    BY DEF ValidIn
  <1> QED
    BY <1>2, <1>3, FS_Subset, FS_CardinalityType

\* invalidate_blkaddr counts right if the bit was set.
LEMMA ClearBit ==
  ASSUME IInv, CountsOK, UNCHANGED emptyAtMount, NEW a \in Addrs,
         a[1] \in emptyAtMount => a \in valid_map,
         invalidate_blkaddr(a)
  PROVE  CountsOK'
  <1> SUFFICES ASSUME NEW z \in emptyAtMount
               PROVE  vblocks'[z] = Cardinality(ValidIn(z)')
    BY DEF CountsOK
  <1>1. /\ vblocks \in [Zones -> Int] /\ z \in Zones /\ valid_map \subseteq Addrs
        /\ vblocks[z] = Cardinality(ValidIn(z))
    BY DEF IInv, TypeOK, CountsOK
  <1>2. /\ valid_map' = valid_map \ {a}
        /\ vblocks' = [vblocks EXCEPT ![a[1]] = vblocks[a[1]] - 1]
    BY DEF invalidate_blkaddr, blk2zone
  <1>3. CASE a[1] # z
    <2>1. ValidIn(z)' = ValidIn(z)
      BY <1>2, <1>3 DEF ValidIn, blk2zone
    <2> QED
      BY <1>1, <1>2, <1>3, <2>1
  <1>4. CASE a[1] = z
    <2>1. ValidIn(z)' = ValidIn(z) \ {a} /\ a \in ValidIn(z)
      BY <1>2, <1>4 DEF ValidIn, blk2zone
    <2>2. Cardinality(ValidIn(z)') = Cardinality(ValidIn(z)) - 1
      BY <1>1, <2>1, BitsFinite, FS_RemoveElement
    <2> QED
      BY <1>1, <1>2, <1>4, <2>2
  <1> QED
    BY <1>3, <1>4

\* validate_blkaddr counts right if the bit was clear.
LEMMA SetBit ==
  ASSUME IInv, CountsOK, UNCHANGED emptyAtMount, NEW a \in Addrs,
         a[1] \in emptyAtMount => a \notin valid_map,
         valid_map' = valid_map \cup {a},
         vblocks' = [vblocks EXCEPT ![a[1]] = vblocks[a[1]] + 1]
  PROVE  CountsOK'
  <1> SUFFICES ASSUME NEW z \in emptyAtMount
               PROVE  vblocks'[z] = Cardinality(ValidIn(z)')
    BY DEF CountsOK
  <1>1. /\ vblocks \in [Zones -> Int] /\ z \in Zones /\ valid_map \subseteq Addrs
        /\ vblocks[z] = Cardinality(ValidIn(z))
    BY DEF IInv, TypeOK, CountsOK
  <1>3. CASE a[1] # z
    <2>1. ValidIn(z)' = ValidIn(z)
      BY <1>3 DEF ValidIn, blk2zone
    <2> QED
      BY <1>1, <1>3, <2>1
  <1>4. CASE a[1] = z
    <2>1. ValidIn(z)' = ValidIn(z) \cup {a} /\ a \notin ValidIn(z)
      BY <1>4 DEF ValidIn, blk2zone
    <2>2. Cardinality(ValidIn(z)') = Cardinality(ValidIn(z)) + 1
      BY <1>1, <2>1, BitsFinite, FS_AddElement
    <2> QED
      BY <1>1, <1>4, <2>2
  <1> QED
    BY <1>3, <1>4

\* The device's pointers only move on; the history of the mount is fixed.
LEMMA DeviceGrows ==
  ASSUME IInv, [Next]_vars
  PROVE  /\ \A z \in Zones : dwp'[z] >= dwp[z]
         /\ UNCHANGED emptyAtMount
         /\ ioerr => ioerr'
  <1>0. dwp \in [Zones -> Nat] /\ new_zone \in [Page -> Zones]
    BY DEF IInv, TypeOK
  <1>1. CASE UNCHANGED <<dwp, emptyAtMount, ioerr>>
    BY <1>0, <1>1
  <1>2. ASSUME NEW p \in Page, DeviceAppend(p)
        PROVE  /\ dwp' = dwp \/ dwp' = [dwp EXCEPT ![new_zone[p]] = @ + 1]
               /\ UNCHANGED emptyAtMount /\ (ioerr => ioerr')
    BY <1>2 DEF DeviceAppend
  <1>3. (\E p \in Page : DeviceAppend(p)) \/ UNCHANGED <<dwp, emptyAtMount, ioerr>>
    BY DEF Next, SubmitXio, AllocZone, ScanOpened, OpenZone, InvalidateOld,
           EndIO, ValidateBlkaddr, TruncateBlock, FreeNode, ioVars, vars
  <1>4. ASSUME NEW p \in Page, DeviceAppend(p)
        PROVE  \A z \in Zones : dwp'[z] >= dwp[z]
    BY <1>0, <1>2, <1>4
  <1> QED
    BY <1>1, <1>2, <1>3, <1>4

\* A bit stays accounted for as long as its page lives there; a node may leave
\* its bit behind.
LEMMA BitKept ==
  ASSUME IInv, PlacedInv, [Next]_vars, NEW a \in Addrs, a[1] # 0, BitOK(a),
         \A q \in Page : Live(q) /\ addr[q] = a =>
           (Live(q)' /\ addr'[q] = a) \/ TypeOf[q] = "REG_NODE"
  PROVE  BitOK(a)'
  <1>1. a[1] \in Zones /\ a[2] \in Nat /\ Start(a[1]) \in Nat
    BY AddrFacts, StartNat DEF blk2zone
  <1>2. ZonesKeep /\ \A z \in Zones : dwp'[z] >= dwp[z]
    BY ZonesKeepStep, DeviceGrows
  <1>3. /\ Start(a[1]) + a[2] < dwp[a[1]] /\ cond[a[1]] # "EMPTY"
        /\ dwp[a[1]] \in Nat /\ dwp'[a[1]] \in Nat
    <2>1. TypeOK'
      BY StepIInv DEF IInv
    <2> QED
      BY <1>1, <2>1 DEF BitOK, IInv, TypeOK
  <1>4. /\ Start(a[1]) + a[2] < dwp'[a[1]] /\ cond'[a[1]] # "EMPTY"
        /\ zone_type'[a[1]] = zone_type[a[1]]
    BY <1>1, <1>2, <1>3 DEF ZonesKeep
  <1>5. CASE zone_type[a[1]] = "REG_NODE"
    BY <1>4, <1>5 DEF BitOK
  <1>6. CASE \E p \in Page : Live(p) /\ addr[p] = a
    <2>1. PICK q \in Page : Live(q) /\ addr[q] = a
      BY <1>6
    <2>2. CASE Live(q)' /\ addr'[q] = a
      BY <1>4, <2>2 DEF BitOK
    <2>3. CASE TypeOf[q] = "REG_NODE"
      <3>1. zone_type[a[1]] = "REG_NODE"
        BY <2>1, <2>3 DEF PlacedInv, HomeZones, InPlace, blk2zone
      <3> QED
        BY <1>4, <3>1 DEF BitOK
    <2> QED
      BY <2>1, <2>2, <2>3
  <1> QED
    BY <1>5, <1>6 DEF BitOK

\* A step that sets and clears no bit.
LEMMA MapKeeps ==
  ASSUME IInv, PlacedInv, MapInv, ~ioerr, [Next]_vars, UNCHANGED mapVars,
         \A q \in Page : Held(q)' \subseteq Held(q) \cup {NullAddr},
         \A q \in Page : ArrivingOK(q)',
         \A q \in Page : Live(q) => (Live(q)' /\ addr'[q] = addr[q]) \/ TypeOf[q] = "REG_NODE"
  PROVE  MapInv'
  <1>1. UNCHANGED <<emptyAtMount, valid_map, vblocks>>
    BY DeviceGrows DEF mapVars
  <1>2. /\ 0 \notin emptyAtMount /\ CountsOK
        /\ \A q \in Page : HeldOK(q)
        /\ \A a \in valid_map : a[1] \in emptyAtMount => BitOK(a)
        /\ valid_map \subseteq Addrs
    BY DEF MapInv, IInv, TypeOK
  <1>3. \A q \in Page : HeldOK(q)'
    BY <1>1, <1>2 DEF HeldOK, NullAddr
  <1>4. ASSUME NEW a \in valid_map, a[1] \in emptyAtMount PROVE BitOK(a)'
    BY <1>2, <1>4, BitKept
  <1>5. CountsOK'
    BY <1>1, <1>2 DEF CountsOK, ValidIn
  <1> QED
    BY <1>1, <1>2, <1>3, <1>4, <1>5 DEF MapInv

\* The block a page's bit depends on is on record.
LEMMA HeldOnRecord ==
  ASSUME WriterInv, ~ioerr, NEW p \in Page
  PROVE  /\ \A a \in Held(p) : a # NullAddr => a \in Records(p)
         /\ Live(p) => addr[p] \in Records(p)
         /\ InFlight(p) => bi_sector[p] \in Records(p)
  BY DEF WriterInv, WriterOK, Held, Live, Records

LEMMA InvalidateKeepsMap ==
  ASSUME IInv, PlacedInv, RecordsInv, WriterInv, MapInv, NEW p \in Page, InvalidateOld(p), ~ioerr
  PROVE  MapInv'
  <1>1. PICK a : a = old_blkaddr[p]
    OBVIOUS
  <1>2. /\ a \in Addrs /\ pc \in [Page -> Labels]
    BY <1>1 DEF IInv, TypeOK
  <1>3. /\ invalidate_blkaddr(a) /\ valid_map' = valid_map \ {a}
        /\ pc[p] = "invalidate" /\ pc' = [pc EXCEPT ![p] = "submit"]
        /\ UNCHANGED <<addr, old_blkaddr, bi_sector, emptyAtMount>>
        /\ [Next]_vars
    BY <1>1 DEF InvalidateOld, invalidate_blkaddr, Goto, ioVars, Next
  <1>4. /\ 0 \notin emptyAtMount /\ CountsOK
        /\ \A q \in Page : HeldOK(q) /\ ArrivingOK(q)
        /\ \A x \in valid_map : x[1] \in emptyAtMount => BitOK(x)
        /\ valid_map \subseteq Addrs
    BY DEF MapInv, IInv, TypeOK
  <1>5. a \in Held(p) /\ ~InFlight(p)
    BY <1>1, <1>3 DEF Held, Pending, InFlight
  <1>6. ASSUME NEW q \in Page, q # p
        PROVE  /\ Held(q)' = Held(q) /\ (Live(q)' <=> Live(q))
               /\ InFlight(q)' <=> InFlight(q)
    BY <1>2, <1>3, <1>6 DEF Held, Pending, Live, InFlight
  <1>7. ASSUME NEW q \in Page PROVE HeldOK(q)'
    <2>1. CASE q = p
      <3>1. Held(p)' = {}
        BY <1>2, <1>3 DEF Held, Pending
      <3> QED
        BY <2>1, <3>1 DEF HeldOK
    <2>2. CASE q # p
      <3> SUFFICES ASSUME NEW x \in Held(q), x[1] \in emptyAtMount PROVE x \in valid_map'
        BY <1>3, <1>6, <2>2 DEF HeldOK
      <3>1. x \in valid_map /\ x # NullAddr
        BY <1>4 DEF HeldOK, NullAddr
      <3>2. x \in Records(q)
        BY <3>1, HeldOnRecord
      <3>3. a # NullAddr => a \in Records(p)
        BY <1>5, HeldOnRecord
      <3>4. x # a
        BY <2>2, <3>1, <3>2, <3>3 DEF RecordsInv
      <3> QED
        BY <1>3, <3>1, <3>4
    <2> QED
      BY <2>1, <2>2
  <1>8. ASSUME NEW q \in Page PROVE ArrivingOK(q)'
    <2>1. ~InFlight(p)'
      BY <1>2, <1>3 DEF InFlight
    <2> QED
      BY <1>3, <1>4, <1>6, <2>1 DEF ArrivingOK
  <1>9. ASSUME NEW x \in valid_map', x[1] \in emptyAtMount PROVE BitOK(x)'
    <2>1. x # a /\ x \in Addrs /\ x[1] # 0 /\ BitOK(x)
      BY <1>3, <1>4, <1>9
    <2>2. ASSUME NEW q \in Page, Live(q), addr[q] = x PROVE Live(q)' /\ addr'[q] = x
      <3>1. q # p
        <4>1. Pending(p)
          BY <1>3 DEF Pending
        <4>2. addr[p] = a \/ addr[p] = NullAddr
          BY <1>1, <4>1 DEF WriterInv, WriterOK
        <4> QED
          BY <2>1, <2>2, <4>2 DEF Live
      <3> QED
        BY <1>3, <1>6, <2>2, <3>1
    <2> QED
      BY <1>3, <2>1, <2>2, BitKept
  <1>10. CountsOK'
    BY <1>2, <1>3, <1>4, <1>5, ClearBit DEF HeldOK
  <1> QED
    BY <1>3, <1>4, <1>7, <1>8, <1>9, <1>10 DEF MapInv

LEMMA TruncateKeepsMap ==
  ASSUME IInv, PlacedInv, RecordsInv, WriterInv, MapInv, NEW p \in Page, TruncateBlock(p), ~ioerr
  PROVE  MapInv'
  <1>1. PICK a : a = addr[p]
    OBVIOUS
  <1>2. a \in Addrs /\ a # NullAddr /\ addr \in [Page -> Addrs]
    BY <1>1 DEF IInv, TypeOK, TruncateBlock
  <1>3. /\ invalidate_blkaddr(a) /\ valid_map' = valid_map \ {a}
        /\ pc[p] = "idle" /\ addr' = [addr EXCEPT ![p] = NullAddr]
        /\ UNCHANGED <<pc, old_blkaddr, bi_sector, emptyAtMount>>
        /\ [Next]_vars
    BY <1>1 DEF TruncateBlock, invalidate_blkaddr, ioVars, Next
  <1>4. /\ 0 \notin emptyAtMount /\ CountsOK
        /\ \A q \in Page : HeldOK(q) /\ ArrivingOK(q)
        /\ \A x \in valid_map : x[1] \in emptyAtMount => BitOK(x)
        /\ valid_map \subseteq Addrs
    BY DEF MapInv, IInv, TypeOK
  <1>5. a \in Held(p)
    BY <1>1, <1>3 DEF Held
  <1>6. ASSUME NEW q \in Page, q # p
        PROVE  Held(q)' = Held(q) /\ (Live(q)' <=> Live(q)) /\ addr'[q] = addr[q]
    BY <1>2, <1>3, <1>6 DEF Held, Pending, Live
  <1>7. ASSUME NEW q \in Page PROVE HeldOK(q)'
    <2>1. CASE q = p
      <3>1. Held(p)' = {NullAddr}
        BY <1>2, <1>3 DEF Held
      <3> QED
        BY <1>3, <1>4, <2>1, <3>1 DEF HeldOK, NullAddr
    <2>2. CASE q # p
      <3> SUFFICES ASSUME NEW x \in Held(q), x[1] \in emptyAtMount PROVE x \in valid_map'
        BY <1>3, <1>6, <2>2 DEF HeldOK
      <3>1. x \in valid_map /\ x # NullAddr
        BY <1>4 DEF HeldOK, NullAddr
      <3>2. x \in Records(q) /\ a \in Records(p)
        BY <1>2, <1>5, <3>1, HeldOnRecord
      <3>3. x # a
        BY <2>2, <3>2 DEF RecordsInv
      <3> QED
        BY <1>3, <3>1, <3>3
    <2> QED
      BY <2>1, <2>2
  <1>8. ASSUME NEW q \in Page PROVE ArrivingOK(q)'
    BY <1>3, <1>4 DEF ArrivingOK, InFlight
  <1>9. ASSUME NEW x \in valid_map', x[1] \in emptyAtMount PROVE BitOK(x)'
    <2>1. x # a /\ x \in Addrs /\ x[1] # 0 /\ BitOK(x)
      BY <1>3, <1>4, <1>9
    <2>2. ASSUME NEW q \in Page, Live(q), addr[q] = x PROVE Live(q)' /\ addr'[q] = x
      BY <1>1, <1>6, <2>1, <2>2
    <2> QED
      BY <1>3, <2>1, <2>2, BitKept
  <1>10. CountsOK'
    BY <1>2, <1>3, <1>4, <1>5, ClearBit DEF HeldOK
  <1> QED
    BY <1>3, <1>4, <1>7, <1>8, <1>9, <1>10 DEF MapInv

LEMMA ValidateKeepsMap ==
  ASSUME IInv, PlacedInv, RecordsInv, WriterInv, MapInv, NEW p \in Page, ValidateBlkaddr(p), ~ioerr
  PROVE  MapInv'
  <1>1. PICK a : a = bi_sector[p]
    OBVIOUS
  <1>2. a \in Addrs /\ pc \in [Page -> Labels] /\ vblocks \in [Zones -> Int]
    BY <1>1 DEF IInv, TypeOK
  <1>3. /\ valid_map' = valid_map \cup {a}
        /\ vblocks' = [vblocks EXCEPT ![a[1]] = vblocks[a[1]] + 1]
        /\ pc[p] = "validate" /\ pc' = [pc EXCEPT ![p] = "idle"]
        /\ UNCHANGED <<addr, old_blkaddr, bi_sector, emptyAtMount, dwp, zone_type>>
        /\ [Next]_vars
    BY <1>1 DEF ValidateBlkaddr, Goto, ioVars, Next, blk2zone
  <1>4. /\ 0 \notin emptyAtMount /\ CountsOK
        /\ \A q \in Page : HeldOK(q) /\ ArrivingOK(q)
        /\ \A x \in valid_map : x[1] \in emptyAtMount => BitOK(x)
        /\ valid_map \subseteq Addrs
    BY DEF MapInv, IInv, TypeOK
  <1>5. InFlight(p) /\ ~Live(p) /\ a # NullAddr /\ a \in Records(p)
    BY <1>1, <1>3, HeldOnRecord DEF InFlight, Live, WriterInv, WriterOK
  <1>6. ASSUME NEW q \in Page, q # p
        PROVE  /\ Held(q)' = Held(q) /\ (Live(q)' <=> Live(q))
               /\ InFlight(q)' <=> InFlight(q)
    BY <1>2, <1>3, <1>6 DEF Held, Pending, Live, InFlight
  <1>7. addr[p] = a \/ (addr[p] = NullAddr /\ TypeOf[p] = "REG_NODE")
    BY <1>1, <1>3 DEF WriterInv, WriterOK
  <1>8. ASSUME NEW q \in Page PROVE HeldOK(q)'
    <2>1. CASE q = p
      <3>1. Held(p)' = {addr[p]}
        BY <1>2, <1>3 DEF Held
      <3> QED
        BY <1>3, <1>4, <1>7, <2>1, <3>1 DEF HeldOK, NullAddr
    <2>2. CASE q # p
      BY <1>3, <1>4, <1>6, <2>2 DEF HeldOK
    <2> QED
      BY <2>1, <2>2
  <1>9. ASSUME NEW q \in Page PROVE ArrivingOK(q)'
    <2>1. CASE q = p
      <3>1. ~InFlight(p)'
        BY <1>2, <1>3 DEF InFlight
      <3> QED
        BY <2>1, <3>1 DEF ArrivingOK
    <2>2. CASE q # p
      <3> SUFFICES ASSUME InFlight(q), bi_sector[q][1] \in emptyAtMount
                   PROVE  bi_sector[q] \notin valid_map'
        BY <1>3, <1>6, <2>2 DEF ArrivingOK
      <3>1. bi_sector[q] \notin valid_map
        BY <1>4 DEF ArrivingOK
      <3>2. bi_sector[q] \in Records(q)
        BY HeldOnRecord
      <3>3. bi_sector[q] # a
        BY <1>5, <2>2, <3>2 DEF RecordsInv
      <3> QED
        BY <1>3, <3>1, <3>3
    <2> QED
      BY <2>1, <2>2
  <1>10. ASSUME NEW x \in valid_map', x[1] \in emptyAtMount PROVE BitOK(x)'
    <2>1. CASE x \in valid_map
      <3>1. x \in Addrs /\ x[1] # 0 /\ BitOK(x)
        BY <1>4, <1>10, <2>1
      <3>2. ASSUME NEW q \in Page, Live(q), addr[q] = x PROVE Live(q)' /\ addr'[q] = x
        BY <1>3, <1>5, <1>6, <3>2
      <3> QED
        BY <1>3, <3>1, <3>2, BitKept
    <2>2. CASE x = a
      <3>1. a[1] # 0 /\ a[1] \in Zones
        BY <1>2, <1>4, <1>10, <2>2, AddrFacts DEF blk2zone
      <3>2. cond[a[1]] # "EMPTY" /\ zone_type[a[1]] = TypeOf[p]
        BY <1>1, <3>1 DEF PlacedInv, HomeZones, InPlace, blk2zone
      <3>3. cond'[a[1]] # "EMPTY"
        BY <1>3, <3>1, <3>2, ZonesKeepStep DEF ZonesKeep
      <3>4. Start(a[1]) + a[2] < dwp'[a[1]]
        BY <1>3, <1>5 DEF RecordsInv
      <3>5. CASE addr[p] = a
        <4>1. Live(p)' /\ addr'[p] = a
          BY <1>2, <1>3, <1>5, <3>5 DEF Live
        <4> QED
          BY <2>2, <3>3, <3>4, <4>1 DEF BitOK
      <3>6. CASE TypeOf[p] = "REG_NODE"
        BY <1>3, <2>2, <3>2, <3>3, <3>4, <3>6 DEF BitOK
      <3> QED
        BY <1>7, <3>5, <3>6
    <2> QED
      BY <1>3, <2>1, <2>2
  <1>11. CountsOK'
    <2>1. a[1] \in emptyAtMount => a \notin valid_map
      BY <1>1, <1>4, <1>5 DEF ArrivingOK
    <2> QED
      BY <1>2, <1>3, <1>4, <2>1, SetBit
  <1> QED
    BY <1>3, <1>4, <1>8, <1>9, <1>10, <1>11 DEF MapInv

LEMMA MapStep ==
  IInv /\ PlacedInv /\ RecordsInv /\ WriterInv /\ MapInv /\ [Next]_vars => MapInv'
  <1> SUFFICES ASSUME IInv, PlacedInv, RecordsInv, WriterInv, MapInv, [Next]_vars
               PROVE  MapInv'
    OBVIOUS
  <1>1. CASE ioerr'
    BY <1>1 DEF MapInv
  <1>2. CASE ~ioerr'
    <2>0. /\ ~ioerr /\ pc \in [Page -> Labels] /\ addr \in [Page -> Addrs]
          /\ old_blkaddr \in [Page -> Addrs] /\ bi_sector \in [Page -> Addrs]
      BY <1>2, DeviceGrows DEF IInv, TypeOK
    <2>1. \A q \in Page : ArrivingOK(q)
      BY <2>0 DEF MapInv
    <2>2. ASSUME NEW p \in Page,
                 SubmitXio(p) \/ AllocZone(p) \/ ScanOpened(p) \/ OpenZone(p)
          PROVE  MapInv'
      <3>1. UNCHANGED <<addr, bi_sector, mapVars>>
        BY <2>2 DEF SubmitXio, AllocZone, ScanOpened, OpenZone
      <3>2. \A q \in Page : Held(q)' = Held(q)
        BY <2>0, <2>2 DEF SubmitXio, AllocZone, ScanOpened, OpenZone, Goto, Held, Pending
      <3>3. \A q \in Page : Live(q)' <=> Live(q)
        BY <2>0, <2>2 DEF SubmitXio, AllocZone, ScanOpened, OpenZone, Goto, Live
      <3>4. \A q \in Page : InFlight(q)' <=> InFlight(q)
        BY <2>0, <2>2 DEF SubmitXio, AllocZone, ScanOpened, OpenZone, Goto, InFlight
      <3>5. \A q \in Page : ArrivingOK(q)'
        BY <2>1, <3>1, <3>4, DeviceGrows DEF ArrivingOK, mapVars
      <3> QED
        BY <2>0, <3>1, <3>2, <3>3, <3>5, MapKeeps
    <2>3. ASSUME NEW p \in Page, DeviceAppend(p) PROVE MapInv'
      <3>1. PICK a \in Addrs :
              /\ bi_sector' = [bi_sector EXCEPT ![p] = a]
              /\ Start(a[1]) + a[2] = dwp[a[1]] /\ a[1] \in Zones
        BY <1>2, <2>3, AppendRecords
      <3>2. /\ UNCHANGED <<addr, old_blkaddr, mapVars, emptyAtMount>>
            /\ pc[p] = "submit" /\ pc' = [pc EXCEPT ![p] = "endio"]
        BY <2>3 DEF DeviceAppend, Goto
      <3>3. \A q \in Page : Held(q)' = Held(q) /\ (Live(q)' <=> Live(q))
        BY <2>0, <3>2 DEF Held, Pending, Live
      <3>4. a[1] \in emptyAtMount => a \notin valid_map
        BY <2>0, <3>1 DEF MapInv, BitOK, IInv, TypeOK
      <3>5. ASSUME NEW q \in Page PROVE ArrivingOK(q)'
        <4>1. CASE q = p
          BY <2>0, <3>1, <3>2, <3>4, <4>1 DEF ArrivingOK, mapVars
        <4>2. CASE q # p
          BY <2>0, <2>1, <3>1, <3>2, <4>2 DEF ArrivingOK, InFlight, mapVars
        <4> QED
          BY <4>1, <4>2
      <3> QED
        BY <2>0, <3>2, <3>3, <3>5, MapKeeps
    <2>4. ASSUME NEW p \in Page, EndIO(p) PROVE MapInv'
      <3>1. /\ UNCHANGED <<old_blkaddr, bi_sector, mapVars, emptyAtMount>>
            /\ pc[p] = "endio" /\ pc' = [pc EXCEPT ![p] = "validate"]
            /\ \A q \in Page : q # p => addr'[q] = addr[q]
        BY <2>0, <2>4 DEF EndIO, Goto, ioVars
      <3>2. \A q \in Page : Held(q)' = Held(q)
        BY <2>0, <3>1 DEF Held, Pending
      <3>3. \A q \in Page : Live(q) => Live(q)' /\ addr'[q] = addr[q]
        BY <2>0, <3>1 DEF Live
      <3>4. \A q \in Page : ArrivingOK(q)'
        BY <2>0, <2>1, <3>1 DEF ArrivingOK, InFlight, mapVars
      <3> QED
        BY <2>0, <3>1, <3>2, <3>3, <3>4, MapKeeps
    <2>5. ASSUME NEW p \in Page, FreeNode(p) PROVE MapInv'
      <3>1. /\ UNCHANGED <<old_blkaddr, bi_sector, pc, mapVars, emptyAtMount>>
            /\ addr' = [addr EXCEPT ![p] = NullAddr] /\ TypeOf[p] = "REG_NODE"
        BY <2>5 DEF FreeNode, ioVars
      <3>2. \A q \in Page : Held(q)' \subseteq Held(q) \cup {NullAddr}
        BY <2>0, <3>1 DEF Held, Pending
      <3>3. \A q \in Page : Live(q) => (Live(q)' /\ addr'[q] = addr[q]) \/ TypeOf[q] = "REG_NODE"
        BY <2>0, <3>1 DEF Live
      <3>4. \A q \in Page : ArrivingOK(q)'
        BY <2>1, <3>1 DEF ArrivingOK, InFlight, mapVars
      <3> QED
        BY <2>0, <3>1, <3>2, <3>3, <3>4, MapKeeps
    <2>6. CASE UNCHANGED vars
      <3>1. /\ UNCHANGED <<addr, mapVars>>
            /\ \A q \in Page : ArrivingOK(q)' /\ Held(q)' = Held(q) /\ (Live(q)' <=> Live(q))
        BY <2>1, <2>6 DEF vars, mapVars, ioVars, ArrivingOK, InFlight, Held, Pending, Live
      <3> QED
        BY <2>0, <3>1, MapKeeps
    <2> QED
      BY <2>0, <2>2, <2>3, <2>4, <2>5, <2>6,
         InvalidateKeepsMap, TruncateKeepsMap, ValidateKeepsMap DEF Next
  <1> QED
    BY <1>1, <1>2

\* At mount nothing has a block in an EMPTY zone.
LEMMA InitMap ==
  ASSUME \A b \in Boots : PlacedAtMount(b) /\ WrittenAtMount(b)
  PROVE  Init => WriterInv /\ MapInv
  <1> SUFFICES ASSUME Init PROVE WriterInv /\ MapInv
    OBVIOUS
  <1>1. PICK b \in Boots :
          /\ cond = b.cond /\ addr = b.addr /\ valid_map = b.valid_map /\ vblocks = b.vblocks
          /\ emptyAtMount = {z \in Zones : b.cond[z] = "EMPTY"}
    BY DEF Init
  <1>2. PlacedAtMount(b) /\ WrittenAtMount(b)
    OBVIOUS
  <1>3. \A p \in Page : pc[p] = "idle"
    BY DEF Init
  <1>4. WriterInv
    BY <1>3 DEF WriterInv, WriterOK, Pending, InFlight
  <1>5. 0 \notin emptyAtMount
    BY <1>1, <1>2 DEF WrittenAtMount
  <1>6. \A a \in valid_map : a[1] \notin emptyAtMount
    BY <1>1, BootsAssumption DEF Mounted
  <1>7. \A p \in Page : HeldOK(p)
    BY <1>1, <1>2, <1>3, <1>5 DEF HeldOK, Held, PlacedAtMount, blk2zone
  <1>8. \A p \in Page : ArrivingOK(p)
    BY <1>3 DEF ArrivingOK, InFlight
  <1>9. CountsOK
    <2> SUFFICES ASSUME NEW z \in emptyAtMount PROVE vblocks[z] = Cardinality(ValidIn(z))
      BY DEF CountsOK
    <2>1. ValidIn(z) = {}
      BY <1>6 DEF ValidIn, blk2zone
    <2>2. vblocks[z] = 0
      BY <1>1, <1>2 DEF WrittenAtMount
    <2> QED
      BY <2>1, <2>2, FS_EmptySet
  <1> QED
    BY <1>4, <1>5, <1>6, <1>7, <1>8, <1>9 DEF MapInv

\* If the mount reads what an unmount wrote: as long as no append was refused,
\* the valid map of every zone written since then has the bits of the live
\* blocks, no others in a data zone, vblocks counts them, and no two pages
\* share a block, whatever the writers' steps are interleaved to (alloc_zone
\* clears the old bit, end_io sets the new one).
THEOREM ValidMapAlwaysExact ==
  ASSUME \A b \in Boots : PlacedAtMount(b) /\ WrittenAtMount(b)
  PROVE  Spec => []ValidMapExact
  <1>1. IInv /\ RecordsInv /\ WriterInv /\ MapInv => ValidMapExact
    <2> SUFFICES ASSUME IInv, RecordsInv, WriterInv, MapInv, ~ioerr
                 PROVE  /\ \A z \in emptyAtMount :
                             /\ LiveIn(z) \subseteq ValidIn(z)
                             /\ zone_type[z] # "REG_NODE" => ValidIn(z) \subseteq LiveIn(z)
                             /\ vblocks[z] = Cardinality(ValidIn(z))
                        /\ \A p, q \in Page : addr[p] = addr[q] => p = q \/ addr[p] = NullAddr
      BY DEF ValidMapExact
    <2>1. ASSUME NEW z \in emptyAtMount, NEW p \in Page, Live(p), blk2zone(addr[p]) = z
          PROVE  addr[p] \in ValidIn(z)
      <3>1. addr[p] \in Held(p)
        BY <2>1 DEF Live, Held, Pending, WriterInv, WriterOK
      <3> QED
        BY <2>1, <3>1 DEF MapInv, HeldOK, ValidIn, blk2zone
    <2>2. ASSUME NEW z \in emptyAtMount, zone_type[z] # "REG_NODE", NEW a \in ValidIn(z)
          PROVE  a \in LiveIn(z)
      <3>1. a \in valid_map /\ a[1] = z
        BY DEF ValidIn, blk2zone
      <3>2. PICK p \in Page : Live(p) /\ addr[p] = a
        BY <2>2, <3>1 DEF MapInv, BitOK
      <3> QED
        BY <3>1, <3>2 DEF LiveIn, blk2zone
    <2>3. \A z \in emptyAtMount : LiveIn(z) \subseteq ValidIn(z)
      BY <2>1 DEF LiveIn
    <2>4. \A z \in emptyAtMount : vblocks[z] = Cardinality(ValidIn(z))
      BY DEF MapInv, CountsOK
    <2>5. \A p, q \in Page : addr[p] = addr[q] => p = q \/ addr[p] = NullAddr
      BY DEF RecordsInv, Records
    <2> QED
      BY <2>2, <2>3, <2>4, <2>5
  <1>2. (\A b \in Boots : PlacedAtMount(b)) /\ (\A b \in Boots : WrittenAtMount(b))
    OBVIOUS
  <1>3. Init => PlacedInv /\ RecordsInv
    BY <1>2, InitPlaced, InitRecords
  <1> QED
    BY InitIInv, StepIInv, PlacedStep, RecordsStep, WriterStep, MapStep, InitMap, <1>1, <1>3,
       PTL DEF Spec

(***************************************************************************)
(* Room in the tables: every type gets a zone.                             *)
(***************************************************************************)

Closed == {z \in Zones : cond[z] = "CLOSED"}

\* The shares hold, and a type under its limit has no more open zones than
\* nr_type says; a writer about to open a zone has the lock and is under the
\* limit or has found none.  Write pointers are relative to their zone.
SlotInv ==
  /\ \A z \in Zones : wp[z] <= Start(z) + ZoneBlocks
  /\ \A p \in Page : pc[p] \in {"scan", "open"} => zm_info_lock = p
  /\ \A p \in Page : pc[p] = "open" => UnderLimit(TypeOf[p]) \/ OpenOfType(TypeOf[p]) = {}
  /\ Cardinality(Closed) <= MaxActive - MaxOpen + 1
  /\ EmptyZones # {} => \A t \in ZoneTypes :
       /\ Cardinality(OpenOfType(t)) <= Share(t)
       /\ UnderLimit(t) => Cardinality(OpenOfType(t)) <= nr_type[t]

\* The slots that hold a zone of Q are as many as Q, if the table lists a set
\* that Q is part of.
LEMMA ListsCount ==
  ASSUME NEW n \in Nat, NEW table \in [0 .. n - 1 -> Zones \cup {None}],
         NEW S, Lists(table, S), NEW Q \in SUBSET S
  PROVE  Cardinality({i \in Used(table) : table[i] \in Q}) = Cardinality(Q)
  <1> DEFINE U == {i \in Used(table) : table[i] \in Q}
             f == [i \in U |-> table[i]]
  <1>1. IsFiniteSet(U)
    BY UsedFinite, FS_Subset
  <1>2. /\ \A i \in U : table[i] \in Q
        /\ \A z \in Q : \E i \in U : table[i] = z
        /\ \A i, j \in U : table[i] = table[j] => i = j
    BY DEF Lists
  <1> HIDE DEF U
  <1>3. f \in Bijection(U, Q)
    <2>1. f \in [U -> Q] /\ \A i \in U : f[i] = table[i]
      BY <1>2
    <2>2. \A i, j \in U : f[i] = f[j] => i = j
      BY <1>2, <2>1
    <2>3. \A z \in Q : \E i \in U : f[i] = z
      BY <1>2, <2>1
    <2> HIDE DEF f
    <2> QED
      BY <2>1, <2>2, <2>3 DEF Bijection, Injection, Surjection, IsInjective
  <1>4. ExistsBijection(U, Q)
    BY <1>3 DEF ExistsBijection
  <1> QED
    BY <1>1, <1>4, FS_Bijection DEF U

\* When get_zone's scan returns none, the open table has no zone of the type:
\* the first bound is above every relative write pointer.
LEMMA ScanNone ==
  ASSUME IInv, \A z \in Zones : wp[z] <= Start(z) + ZoneBlocks, NEW t, ScanTarget(t) = None
  PROVE  OpenOfType(t) = {}
  <1> SUFFICES ASSUME NEW s \in OpenOfType(t) PROVE FALSE
    OBVIOUS
  <1>1. PICK g : IsScan(g, t, MaxOpen) /\ g[MaxOpen].tar = None
    BY ScanIsScan
  <1>2. /\ zone_opened \in [OpenSlots -> Zones \cup {None}] /\ wp \in [Zones -> Nat]
        /\ s \in 0 .. MaxOpen - 1 /\ zone_opened[s] # None /\ zone_type[zone_opened[s]] = t
    BY DEF IInv, TypeOK, OpenOfType, Used, OpenSlots
  <1>3. zone_opened[s] \in Zones
    BY <1>2 DEF OpenSlots
  <1>4. wp[zone_opened[s]] - Start(zone_opened[s]) < Unbounded
    <2>1. NrZones * ZoneBlocks >= ZoneBlocks /\ NrZones * ZoneBlocks \in Int /\ ZoneBlocks \in Int
      BY SizesAssumption
    <2>2. wp[zone_opened[s]] \in Int /\ Start(zone_opened[s]) \in Int
      BY <1>2, <1>3, StartNat
    <2> QED
      BY <1>3, <2>1, <2>2 DEF Unbounded
  <1> DEFINE Fine(n) == /\ g[n].tar = None => g[n] = ScanStart
                        /\ n > s => g[n].tar # None
             Bad == {n \in 0 .. MaxOpen : ~Fine(n)}
  <1>5. Bad = {}
    <2> SUFFICES ASSUME Bad # {} PROVE FALSE
      OBVIOUS
    <2>0. Bad \in SUBSET Nat
      BY SizesAssumption
    <2>1. PICK m \in Bad : \A k \in Bad : m <= k
      BY <2>0, LeastElement
    <2>2. CASE m = 0
      <3>1. g[m] = ScanStart
        BY <1>1, <2>1, <2>2 DEF IsScan
      <3>2. ~(m > s)
        BY <1>2, <2>2
      <3> QED
        BY <2>1, <3>1, <3>2
    <2>3. CASE m # 0
      <3>1. m \in 1 .. MaxOpen /\ m - 1 \in 0 .. MaxOpen /\ m - 1 \in OpenSlots
        BY <2>1, <2>3, SizesAssumption DEF OpenSlots
      <3>2. Fine(m - 1)
        BY <2>1, <3>1
      <3>3. g[m] = ScanStep(t, g[m - 1], m)
        BY <1>1, <3>1 DEF IsScan
      <3>4. CASE g[m] # g[m - 1]
        <4>1. /\ g[m].tar = zone_opened[m - 1] /\ Candidate(zone_opened[m - 1], t)
          BY <3>3, <3>4 DEF ScanStep
        <4> QED
          BY <2>1, <4>1 DEF Candidate
      <3>5. CASE g[m] = g[m - 1]
        <4>1. m > s => g[m].tar # None
          <5> SUFFICES ASSUME m > s, g[m].tar = None PROVE FALSE
            OBVIOUS
          <5>1. ~(m - 1 > s)
            BY <3>2, <3>5
          <5>2. m - 1 = s
            BY <1>2, <3>1, <5>1
          <5>3. g[m - 1] = ScanStart
            BY <3>2, <3>5
          <5>4. Candidate(zone_opened[m - 1], t)
            BY <1>2, <5>2 DEF Candidate
          <5>5. g[m].tar = zone_opened[m - 1]
            BY <1>4, <3>3, <5>2, <5>3, <5>4 DEF ScanStep, ScanStart
          <5> QED
            BY <1>2, <5>2, <5>5
        <4> QED
          BY <2>1, <3>2, <3>5, <4>1
      <3> QED
        BY <3>4, <3>5
    <2> QED
      BY <2>2, <2>3
  <1>6. MaxOpen \in 0 .. MaxOpen /\ MaxOpen > s
    BY <1>2, SizesAssumption
  <1> QED
    BY <1>1, <1>5, <1>6

\* The slots of one type are finitely many.
LEMMA OpenFinite ==
  ASSUME IInv, NEW t
  PROVE  /\ OpenOfType(t) \subseteq Used(zone_opened)
         /\ IsFiniteSet(OpenOfType(t)) /\ Cardinality(OpenOfType(t)) \in Nat
  <1>1. zone_opened \in [0 .. MaxOpen - 1 -> Zones \cup {None}] /\ MaxOpen \in Nat
    BY SizesAssumption DEF IInv, TypeOK, OpenSlots
  <1>2. IsFiniteSet(Used(zone_opened))
    BY <1>1, UsedFinite
  <1>3. OpenOfType(t) \subseteq Used(zone_opened)
    BY DEF OpenOfType
  <1> QED
    BY <1>2, <1>3, FS_Subset, FS_CardinalityType

\* The limits are numbers, and no share is empty.
LEMMA ShareFacts ==
  ASSUME NEW t \in ZoneTypes
  PROVE  /\ limit_type[t] \in Int /\ Share(t) \in Int /\ Share(t) >= 1 /\ limit_type[t] <= Share(t)
  <1>1. limit_type[t] \in Int
    BY SizesAssumption DEF limit_type, ZoneTypes, PageTypes
  <1> QED
    BY <1>1 DEF Share

\* CLOSED zones are finitely many.
LEMMA ClosedFinite == IsFiniteSet(Closed)
  <1>1. IsFiniteSet(Zones)
    BY SizesAssumption, FS_Interval DEF Zones
  <1> QED
    BY <1>1, FS_Subset DEF Closed

\* A mount within the shares.
LEMMA InitSlot ==
  ASSUME \A b \in Boots : CountedAtMount(b)
  PROVE  Init => SlotInv
  <1> SUFFICES ASSUME Init PROVE SlotInv
    OBVIOUS
  <1>1. PICK b \in Boots : /\ cond = b.cond /\ wp = b.wp /\ zone_type = b.zone_type
                           /\ nr_type = b.nr_type /\ zone_opened = b.opened
    BY DEF Init
  <1>2. Mounted(b) /\ CountedAtMount(b)
    BY BootsAssumption
  <1>3. \A z \in Zones : wp[z] <= Start(z) + ZoneBlocks
    <2> SUFFICES ASSUME NEW z \in Zones PROVE wp[z] <= Start(z) + ZoneBlocks
      OBVIOUS
    <2>1. /\ wp[z] \in Nat /\ Start(z) \in Nat
          /\ cond[z] # "FULL" => wp[z] \in Start(z) .. Start(z) + CapBlocks - 1
          /\ cond[z] = "FULL" => wp[z] = Start(z) + ZoneBlocks
      BY <1>1, <1>2, StartNat DEF Mounted
    <2> QED
      BY <2>1, SizesAssumption
  <1>4. \A p \in Page : pc[p] = "idle"
    BY DEF Init
  <1>5. Cardinality(Closed) <= MaxActive - MaxOpen + 1
    BY <1>1, <1>2 DEF CountedAtMount, Closed
  <1>6. ASSUME NEW t \in ZoneTypes
        PROVE  Cardinality(OpenOfType(t)) <= Share(t) /\ Cardinality(OpenOfType(t)) <= nr_type[t]
    <2> DEFINE S == {z \in Zones : cond[z] \in OpenConds}
               Q == {z \in Zones : cond[z] \in OpenConds /\ zone_type[z] = t}
               R == {z \in Zones : cond[z] # "EMPTY" /\ zone_type[z] = t}
    <2>1. Lists(zone_opened, S) /\ zone_opened \in [0 .. MaxOpen - 1 -> Zones \cup {None}]
      BY <1>1, <1>2 DEF Mounted, FilledInOrder, OpenSlots
    <2>2. OpenOfType(t) = {i \in Used(zone_opened) : zone_opened[i] \in Q}
      BY <2>1 DEF OpenOfType, Lists
    <2>3. Q \in SUBSET S
      OBVIOUS
    <2> HIDE DEF S, Q
    <2>4. Cardinality(OpenOfType(t)) = Cardinality(Q)
      BY <2>1, <2>2, <2>3, ListsCount, SizesAssumption
    <2>5. Cardinality(Q) <= Share(t)
      BY <1>1, <1>2 DEF CountedAtMount, Q
    <2>6. nr_type[t] = Cardinality(R)
      BY <1>1, <1>2 DEF Mounted, CountedAtMount
    <2>7. Q \in SUBSET R /\ IsFiniteSet(R)
      <3>1. IsFiniteSet(Zones)
        BY SizesAssumption, FS_Interval DEF Zones
      <3> QED
        BY <3>1, FS_Subset DEF Q, OpenConds
    <2>8. Cardinality(Q) <= Cardinality(R)
      BY <2>7, FS_Subset
    <2> QED
      BY <2>4, <2>5, <2>6, <2>8
  <1> QED
    BY <1>3, <1>4, <1>5, <1>6 DEF SlotInv

\* What a step that opens no zone leaves of the invariant.
LEMMA TablesShrinkSlot ==
  ASSUME IInv, SlotInv, UNCHANGED <<zone_type, nr_type>>,
         \A t \in ZoneTypes : OpenOfType(t)' \subseteq OpenOfType(t),
         EmptyZones' \subseteq EmptyZones, Closed' \subseteq Closed
  PROVE  /\ Cardinality(Closed') <= MaxActive - MaxOpen + 1
         /\ EmptyZones' # {} => \A t \in ZoneTypes :
              /\ Cardinality(OpenOfType(t)') <= Share(t)
              /\ UnderLimit(t)' => Cardinality(OpenOfType(t)') <= nr_type'[t]
         /\ \A t \in ZoneTypes : (UnderLimit(t) <=> UnderLimit(t)')
  <1>1. Cardinality(Closed') <= Cardinality(Closed) /\ Cardinality(Closed) \in Nat /\ Cardinality(Closed') \in Nat
    BY ClosedFinite, FS_Subset, FS_CardinalityType
  <1>2. ASSUME NEW t \in ZoneTypes
        PROVE  /\ Cardinality(OpenOfType(t)') <= Cardinality(OpenOfType(t))
               /\ Cardinality(OpenOfType(t)') \in Nat /\ Cardinality(OpenOfType(t)) \in Nat
    BY OpenFinite, FS_Subset, FS_CardinalityType
  <1>3. \A t \in ZoneTypes : nr_type[t] \in Nat /\ Share(t) \in Int
    BY ShareFacts DEF IInv, TypeOK
  <1>4. MaxActive - MaxOpen + 1 \in Int
    BY SizesAssumption
  <1>5. \A t \in ZoneTypes : (UnderLimit(t) <=> UnderLimit(t)')
    BY DEF UnderLimit
  <1>6. Cardinality(Closed') <= MaxActive - MaxOpen + 1
    BY <1>1, <1>4 DEF SlotInv
  <1>7. ASSUME EmptyZones' # {}, NEW t \in ZoneTypes
        PROVE  /\ Cardinality(OpenOfType(t)') <= Share(t)
               /\ UnderLimit(t)' => Cardinality(OpenOfType(t)') <= nr_type'[t]
    <2>1. /\ Cardinality(OpenOfType(t)) <= Share(t)
          /\ UnderLimit(t) => Cardinality(OpenOfType(t)) <= nr_type[t]
      BY <1>7 DEF SlotInv
    <2> QED
      BY <1>2, <1>3, <1>5, <2>1
  <1> QED
    BY <1>5, <1>6, <1>7

\* A zone that get_zone opens is EMPTY and in no slot, so one type gets a slot more.
LEMMA OpenZoneGrows ==
  ASSUME IInv, NEW p \in Page, OpenZone(p), EmptyZones # {}
  PROVE  /\ \A u \in ZoneTypes : u # TypeOf[p] => OpenOfType(u)' \subseteq OpenOfType(u)
         /\ \E i : OpenOfType(TypeOf[p])' \subseteq OpenOfType(TypeOf[p]) \cup {i}
  <1>1. CASE UNCHANGED <<tableVars, zone_type>>
    BY <1>1 DEF tableVars, OpenOfType, Used
  <1>2. CASE \E z \in get_empty_zone :
               /\ xcpfs_zone_open(z)
               /\ zone_type' = [zone_type EXCEPT ![z] = TypeOf[p]]
    <2>1. PICK z \in get_empty_zone :
            /\ xcpfs_zone_open(z)
            /\ zone_type' = [zone_type EXCEPT ![z] = TypeOf[p]]
      BY <1>2
    <2>2. z \in Zones /\ cond[z] = "EMPTY"
      BY DEF get_empty_zone, EmptyZones
    <2>3. \A j \in Used(zone_opened) : zone_opened[j] # z /\ zone_opened[j] \in Zones
      BY <2>2 DEF IInv, TablesInv, TablesExact, OpenTableExact, Lists, OpenConds
    <2>4. zone_opened \in [OpenSlots -> Zones \cup {None}] /\ zone_type \in [Zones -> ZoneTypes]
      BY DEF IInv, TypeOK
    <2>5. PICK i : zone_opened' = zone_opened \/ (i \in OpenSlots /\ zone_opened' = [zone_opened EXCEPT ![i] = z])
      BY <2>1, <2>4 DEF xcpfs_zone_open, insert_zone_opened, FirstSlot, tableVars
    <2>6. ASSUME NEW u \in ZoneTypes, NEW j \in OpenOfType(u)'
          PROVE  j \in OpenOfType(u) \/ (u = TypeOf[p] /\ j = i)
      <3>1. j \in Used(zone_opened)' /\ zone_type'[zone_opened'[j]] = u
        BY <2>6 DEF OpenOfType
      <3>2. CASE zone_opened'[j] = zone_opened[j]
        <4>1. j \in Used(zone_opened)
          BY <2>4, <2>5, <3>1, <3>2 DEF Used
        <4>2. zone_type'[zone_opened[j]] = zone_type[zone_opened[j]]
          BY <2>1, <2>3, <2>4, <4>1
        <4> QED
          BY <3>1, <3>2, <4>1, <4>2 DEF OpenOfType
      <3>3. CASE zone_opened'[j] # zone_opened[j]
        <4>1. j = i /\ zone_opened'[j] = z
          BY <2>4, <2>5, <3>1, <3>3 DEF Used
        <4>2. zone_type'[z] = TypeOf[p]
          BY <2>1, <2>2, <2>4
        <4> QED
          BY <3>1, <4>1, <4>2
      <3> QED
        BY <3>2, <3>3
    <2>7. TypeOf[p] \in ZoneTypes
      BY SizesAssumption DEF ZoneTypes
    <2> QED
      BY <2>6, <2>7
  <1> QED
    BY <1>1, <1>2 DEF OpenZone

\* A completed append shortens the lists and moves wp within its zone.
LEMMA ValidateShrinks ==
  ASSUME IInv, SlotInv, NEW p \in Page, ValidateBlkaddr(p)
  PROVE  /\ \A t \in ZoneTypes : OpenOfType(t)' \subseteq OpenOfType(t)
         /\ EmptyZones' \subseteq EmptyZones /\ Closed' \subseteq Closed
         /\ \A z \in Zones : wp'[z] <= Start(z) + ZoneBlocks
  <1> DEFINE a == bi_sector[p]
             y == blk2zone(a)
  <1>1. a \in Addrs /\ y \in Zones /\ a[2] \in 0 .. ZoneBlocks - 1
    BY AddrFacts DEF IInv, TypeOK, Addrs
  <1>2. /\ cond \in [Zones -> Conds] /\ wp \in [Zones -> Nat]
        /\ zone_opened \in [OpenSlots -> Zones \cup {None}]
    BY DEF IInv, TypeOK
  <1>3. /\ zone_type' = zone_type /\ wp' = [wp EXCEPT ![y] = NewWp(y, a)]
        /\ cond' = cond \/ cond' = [cond EXCEPT ![y] = "FULL"]
    BY DEF ValidateBlkaddr, ZoneFull, tableVars
  <1>4. zone_opened' = zone_opened \/ \E i \in OpenSlots : zone_opened' = [zone_opened EXCEPT ![i] = None]
    BY <1>2 DEF ValidateBlkaddr, ZoneFull, tableVars, remove_zone_opened, FirstSlot
  <1> HIDE DEF a, y
  <1>5. ASSUME NEW t \in ZoneTypes, NEW j \in OpenOfType(t)'
        PROVE  j \in OpenOfType(t)
    <2>1. j \in DOMAIN zone_opened' /\ zone_opened'[j] # None /\ zone_type'[zone_opened'[j]] = t
      BY <1>5 DEF OpenOfType, Used
    <2>2. j \in DOMAIN zone_opened /\ zone_opened'[j] = zone_opened[j]
      BY <1>2, <1>4, <2>1
    <2> QED
      BY <1>3, <2>1, <2>2 DEF OpenOfType, Used
  <1>6. EmptyZones' \subseteq EmptyZones
    BY <1>1, <1>2, <1>3 DEF EmptyZones
  <1>7. Closed' \subseteq Closed
    BY <1>1, <1>2, <1>3 DEF Closed
  <1>8. ASSUME NEW z \in Zones PROVE wp'[z] <= Start(z) + ZoneBlocks
    <2>1. wp[z] <= Start(z) + ZoneBlocks
      BY DEF SlotInv
    <2>2. z = y => wp'[z] = NewWp(y, a)
      BY <1>1, <1>2, <1>3
    <2>3. z # y => wp'[z] = wp[z]
      BY <1>1, <1>2, <1>3
    <2>4. z = y => NewWp(y, a) <= Start(z) + ZoneBlocks
      <3>1. Start(z) + a[2] + 1 <= Start(z) + ZoneBlocks
        BY <1>1, StartNat, SizesAssumption
      <3> QED
        BY <2>1, <3>1 DEF NewWp, Higher
    <2> QED
      BY <2>1, <2>2, <2>3, <2>4
  <1> QED
    BY <1>5, <1>6, <1>7, <1>8

\* Opening a zone keeps the shares: its type is under the limit or had none.
LEMMA OpenKeepsShares ==
  ASSUME IInv, SlotInv, NEW p \in Page, OpenZone(p)
  PROVE  /\ Cardinality(Closed') <= MaxActive - MaxOpen + 1
         /\ EmptyZones' # {} => \A t \in ZoneTypes :
              /\ Cardinality(OpenOfType(t)') <= Share(t)
              /\ UnderLimit(t)' => Cardinality(OpenOfType(t)') <= nr_type'[t]
  <1>0. [Next]_vars
    BY DEF Next
  <1>1. Cardinality(Closed') <= MaxActive - MaxOpen + 1
    <2>1. Closed' \subseteq Closed
      <3>1. cond' = cond \/ \E z \in Zones : cond' = [cond EXCEPT ![z] = "EXP_OPEN"]
        BY EmptyZone DEF OpenZone, xcpfs_zone_open, tableVars
      <3>2. cond \in [Zones -> Conds]
        BY DEF IInv, TypeOK
      <3> QED
        BY <3>1, <3>2 DEF Closed
    <2>2. /\ Cardinality(Closed') <= Cardinality(Closed)
          /\ Cardinality(Closed) \in Nat /\ Cardinality(Closed') \in Nat
      BY <2>1, ClosedFinite, FS_Subset, FS_CardinalityType
    <2> QED
      BY <2>2, SizesAssumption DEF SlotInv
  <1>2. ASSUME EmptyZones' # {}, NEW t \in ZoneTypes
        PROVE  /\ Cardinality(OpenOfType(t)') <= Share(t)
               /\ UnderLimit(t)' => Cardinality(OpenOfType(t)') <= nr_type'[t]
    <2>1. EmptyZones # {}
      BY <1>0, <1>2, ZonesKeepStep DEF ZonesKeep, EmptyZones
    <2>2. /\ Cardinality(OpenOfType(t)) <= Share(t)
          /\ UnderLimit(t) => Cardinality(OpenOfType(t)) <= nr_type[t]
      BY <2>1 DEF SlotInv
    <2>3. /\ OpenOfType(t) \subseteq Used(zone_opened)
          /\ IsFiniteSet(OpenOfType(t)) /\ Cardinality(OpenOfType(t)) \in Nat
      BY OpenFinite
    <2>4. /\ nr_type \in [ZoneTypes -> Nat] /\ TypeOf[p] \in ZoneTypes
          /\ NrTypeCap \in Nat /\ limit_type[t] <= NrTypeCap
      BY SizesAssumption, NrTypeCapAssumption DEF IInv, TypeOK, ZoneTypes
    <2>5. /\ limit_type[t] \in Int /\ Share(t) \in Int /\ Share(t) >= 1 /\ limit_type[t] <= Share(t)
      BY ShareFacts
    <2>6. \/ nr_type' = nr_type
          \/ nr_type' = [nr_type EXCEPT ![TypeOf[p]] = IF @ < NrTypeCap THEN @ + 1 ELSE @]
      BY DEF OpenZone
    <2>7. CASE t # TypeOf[p]
      <3>1. OpenOfType(t)' \subseteq OpenOfType(t)
        BY <2>1, <2>7, OpenZoneGrows
      <3>2. Cardinality(OpenOfType(t)') <= Cardinality(OpenOfType(t)) /\ Cardinality(OpenOfType(t)') \in Nat
        BY <2>3, <3>1, FS_Subset, FS_CardinalityType
      <3>3. nr_type'[t] = nr_type[t] /\ nr_type[t] \in Nat
        BY <2>4, <2>6, <2>7
      <3> QED
        BY <2>2, <2>3, <2>5, <3>2, <3>3 DEF UnderLimit
    <2>8. CASE t = TypeOf[p]
      <3>1. UnderLimit(t) \/ OpenOfType(t) = {}
        BY <2>8 DEF SlotInv, OpenZone
      <3>2. PICK i : OpenOfType(t)' \subseteq OpenOfType(t) \cup {i}
        BY <2>1, <2>8, OpenZoneGrows
      <3>3. /\ IsFiniteSet(OpenOfType(t) \cup {i})
            /\ Cardinality(OpenOfType(t) \cup {i}) <= Cardinality(OpenOfType(t)) + 1
        <4> DEFINE S == OpenOfType(t)
        <4> HIDE DEF S
        <4>1. IsFiniteSet(S) /\ Cardinality(S) \in Nat
          BY <2>3 DEF S
        <4>2. /\ IsFiniteSet(S \cup {i})
              /\ Cardinality(S \cup {i}) = IF i \in S THEN Cardinality(S) ELSE Cardinality(S) + 1
          BY <4>1, FS_AddElement
        <4>3. Cardinality(S \cup {i}) <= Cardinality(S) + 1
          BY <4>1, <4>2
        <4> QED
          BY <4>2, <4>3 DEF S
      <3>4. /\ Cardinality(OpenOfType(t)') <= Cardinality(OpenOfType(t)) + 1
            /\ Cardinality(OpenOfType(t)') \in Nat
        <4>1. /\ Cardinality(OpenOfType(t)') <= Cardinality(OpenOfType(t) \cup {i})
              /\ Cardinality(OpenOfType(t)') \in Nat /\ Cardinality(OpenOfType(t) \cup {i}) \in Nat
          BY <3>2, <3>3, FS_Subset, FS_CardinalityType
        <4> QED
          BY <2>3, <3>3, <4>1
      <3>5. Cardinality({}) = 0
        BY FS_EmptySet
      <3>6. Cardinality(OpenOfType(t)') <= Share(t)
        BY <2>2, <2>3, <2>4, <2>5, <3>1, <3>4, <3>5 DEF UnderLimit
      <3>7. \/ UNCHANGED <<tableVars, zone_type, nr_type>>
            \/ nr_type' = [nr_type EXCEPT ![TypeOf[p]] = IF @ < NrTypeCap THEN @ + 1 ELSE @]
        BY DEF OpenZone
      <3>8. CASE UNCHANGED <<tableVars, zone_type, nr_type>>
        <4>1. OpenOfType(t)' = OpenOfType(t) /\ (UnderLimit(t)' <=> UnderLimit(t))
          BY <3>8 DEF OpenOfType, Used, tableVars, UnderLimit
        <4> QED
          BY <2>2, <3>8, <4>1
      <3>9. CASE nr_type' = [nr_type EXCEPT ![TypeOf[p]] = IF @ < NrTypeCap THEN @ + 1 ELSE @]
        <4>1. nr_type'[t] = (IF nr_type[t] < NrTypeCap THEN nr_type[t] + 1 ELSE nr_type[t]) /\ nr_type[t] \in Nat
          BY <2>4, <2>8, <3>9
        <4> SUFFICES ASSUME UnderLimit(t)' PROVE Cardinality(OpenOfType(t)') <= nr_type'[t]
          BY <3>6
        <4>2. nr_type'[t] < limit_type[t]
          BY DEF UnderLimit, limit_type
        <4>3. nr_type'[t] = nr_type[t] + 1 /\ nr_type[t] < limit_type[t]
          BY <2>4, <2>5, <4>1, <4>2
        <4> QED
          BY <2>2, <2>3, <3>4, <4>1, <4>3 DEF UnderLimit
      <3> QED
        BY <3>6, <3>7, <3>8, <3>9
    <2> QED
      BY <2>7, <2>8
  <1> QED
    BY <1>1, <1>2

\* The shares hold after every step: only a writer that has the lock opens a
\* zone, and what it read under the lock is still so.
LEMMA SlotStep == IInv /\ SlotInv /\ [Next]_vars => SlotInv'
  <1> SUFFICES ASSUME IInv, SlotInv, [Next]_vars PROVE SlotInv'
    OBVIOUS
  <1>0. /\ pc \in [Page -> Labels] /\ None \notin Page
        /\ \A p \in Page : TypeOf[p] \in ZoneTypes
    BY SizesAssumption DEF IInv, TypeOK, ZoneTypes
  <1> DEFINE Shares == /\ Cardinality(Closed) <= MaxActive - MaxOpen + 1
                       /\ EmptyZones # {} => \A t \in ZoneTypes :
                            /\ Cardinality(OpenOfType(t)) <= Share(t)
                            /\ UnderLimit(t) => Cardinality(OpenOfType(t)) <= nr_type[t]
  <1>1. ASSUME UNCHANGED <<tableVars, wp, zone_type, nr_type>>
        PROVE  /\ \A z \in Zones : wp'[z] <= Start(z) + ZoneBlocks
               /\ Shares'
               /\ \A t \in ZoneTypes : OpenOfType(t)' = OpenOfType(t) /\ (UnderLimit(t)' <=> UnderLimit(t))
    BY <1>1 DEF SlotInv, tableVars, OpenOfType, Used, EmptyZones, Closed, UnderLimit
  <1>2. ASSUME NEW p \in Page,
               \/ SubmitXio(p) \/ InvalidateOld(p) \/ DeviceAppend(p) \/ EndIO(p)
               \/ TruncateBlock(p) \/ FreeNode(p)
        PROVE  SlotInv'
    <2>1. UNCHANGED <<tableVars, wp, zone_type, nr_type, zm_info_lock>>
      BY <1>2 DEF SubmitXio, InvalidateOld, DeviceAppend, EndIO, TruncateBlock, FreeNode
    <2>2. pc' = pc \/ \E l \in {"alloc", "submit", "endio", "validate"} : pc' = [pc EXCEPT ![p] = l]
      BY <1>2 DEF SubmitXio, InvalidateOld, DeviceAppend, EndIO, TruncateBlock, FreeNode, Goto
    <2>3. \A q \in Page : pc'[q] \in {"scan", "open"} => pc'[q] = pc[q]
      BY <1>0, <2>2
    <2> HIDE DEF Shares
    <2>4. /\ \A q \in Page : pc'[q] \in {"scan", "open"} => zm_info_lock' = q
          /\ \A q \in Page : pc'[q] = "open" => UnderLimit(TypeOf[q])' \/ OpenOfType(TypeOf[q])' = {}
      BY <1>0, <1>1, <2>1, <2>3 DEF SlotInv
    <2> QED
      BY <1>1, <2>1, <2>4 DEF SlotInv, Shares
  <1>3. ASSUME NEW p \in Page, AllocZone(p) PROVE SlotInv'
    <2>1. UNCHANGED <<tableVars, wp, zone_type, nr_type>> /\ zm_info_lock = None
      BY <1>3 DEF AllocZone
    <2>2. \A q \in Page : pc[q] \notin {"scan", "open"}
      BY <1>0, <2>1 DEF SlotInv
    <2>3. \/ pc' = [pc EXCEPT ![p] = "invalidate"]
          \/ /\ pc' = [pc EXCEPT ![p] = IF UnderLimit(TypeOf[p]) THEN "open" ELSE "scan"]
             /\ zm_info_lock' = p
      BY <1>3 DEF AllocZone, Goto
    <2>4. \A q \in Page : pc'[q] \in {"scan", "open"} =>
             q = p /\ zm_info_lock' = p /\ (pc'[q] = "open" => UnderLimit(TypeOf[p]))
      BY <1>0, <2>2, <2>3
    <2> HIDE DEF Shares
    <2>5. /\ \A q \in Page : pc'[q] \in {"scan", "open"} => zm_info_lock' = q
          /\ \A q \in Page : pc'[q] = "open" => UnderLimit(TypeOf[q])' \/ OpenOfType(TypeOf[q])' = {}
      BY <1>0, <1>1, <2>1, <2>4
    <2> QED
      BY <1>1, <2>1, <2>5 DEF SlotInv, Shares
  <1>4. ASSUME NEW p \in Page, ScanOpened(p) PROVE SlotInv'
    <2>1. UNCHANGED <<tableVars, wp, zone_type, nr_type>> /\ zm_info_lock = p /\ pc[p] = "scan"
      BY <1>4 DEF ScanOpened
    <2>2. \A q \in Page : pc[q] \in {"scan", "open"} => q = p
      BY <2>1 DEF SlotInv
    <2>3. \/ pc' = [pc EXCEPT ![p] = "invalidate"]
          \/ /\ pc' = [pc EXCEPT ![p] = "open"] /\ zm_info_lock' = zm_info_lock
             /\ ScanTarget(TypeOf[p]) = None
      BY <1>4 DEF ScanOpened, Goto
    <2>4. ScanTarget(TypeOf[p]) = None => OpenOfType(TypeOf[p]) = {}
      BY ScanNone DEF SlotInv
    <2>5. \A q \in Page : pc'[q] \in {"scan", "open"} =>
             q = p /\ zm_info_lock' = p /\ OpenOfType(TypeOf[p]) = {}
      BY <1>0, <2>1, <2>2, <2>3, <2>4
    <2> HIDE DEF Shares
    <2>6. /\ \A q \in Page : pc'[q] \in {"scan", "open"} => zm_info_lock' = q
          /\ \A q \in Page : pc'[q] = "open" => UnderLimit(TypeOf[q])' \/ OpenOfType(TypeOf[q])' = {}
      BY <1>0, <1>1, <2>1, <2>5
    <2> QED
      BY <1>1, <2>1, <2>6 DEF SlotInv, Shares
  <1>5. ASSUME NEW p \in Page, OpenZone(p) PROVE SlotInv'
    <2>1. /\ wp' = wp /\ zm_info_lock' = p /\ zm_info_lock = p
          /\ pc' = [pc EXCEPT ![p] = "scan"]
      BY <1>5 DEF OpenZone, Goto
    <2>2. \A q \in Page : pc'[q] \in {"scan", "open"} => q = p /\ pc'[q] = "scan"
      BY <1>0, <2>1 DEF SlotInv
    <2>3. Shares'
      BY <1>5, OpenKeepsShares
    <2> HIDE DEF Shares
    <2>4. /\ \A q \in Page : pc'[q] \in {"scan", "open"} => zm_info_lock' = q
          /\ \A q \in Page : pc'[q] = "open" => UnderLimit(TypeOf[q])' \/ OpenOfType(TypeOf[q])' = {}
      BY <2>1, <2>2
    <2>5. \A z \in Zones : wp'[z] <= Start(z) + ZoneBlocks
      BY <2>1 DEF SlotInv
    <2> QED
      BY <2>3, <2>4, <2>5 DEF SlotInv, Shares
  <1>6. ASSUME NEW p \in Page, ValidateBlkaddr(p) PROVE SlotInv'
    <2>1. /\ UNCHANGED <<zone_type, nr_type, zm_info_lock>>
          /\ pc' = [pc EXCEPT ![p] = "idle"]
      BY <1>6 DEF ValidateBlkaddr, Goto
    <2>2. /\ \A t \in ZoneTypes : OpenOfType(t)' \subseteq OpenOfType(t)
          /\ EmptyZones' \subseteq EmptyZones /\ Closed' \subseteq Closed
          /\ \A z \in Zones : wp'[z] <= Start(z) + ZoneBlocks
      BY <1>6, ValidateShrinks
    <2>3. /\ Shares' /\ \A t \in ZoneTypes : (UnderLimit(t) <=> UnderLimit(t)')
      BY <2>1, <2>2, TablesShrinkSlot
    <2>4. \A q \in Page : pc'[q] \in {"scan", "open"} => pc'[q] = pc[q]
      BY <1>0, <2>1
    <2> HIDE DEF Shares
    <2>5. /\ \A q \in Page : pc'[q] \in {"scan", "open"} => zm_info_lock' = q
          /\ \A q \in Page : pc'[q] = "open" => UnderLimit(TypeOf[q])' \/ OpenOfType(TypeOf[q])' = {}
      BY <1>0, <2>1, <2>2, <2>3, <2>4 DEF SlotInv
    <2> QED
      BY <2>2, <2>3, <2>5 DEF SlotInv, Shares
  <1>7. CASE UNCHANGED vars
    <2>1. UNCHANGED <<tableVars, wp, zone_type, nr_type, zm_info_lock, pc>>
      BY <1>7 DEF vars
    <2> HIDE DEF Shares
    <2>2. /\ \A q \in Page : pc'[q] \in {"scan", "open"} => zm_info_lock' = q
          /\ \A q \in Page : pc'[q] = "open" => UnderLimit(TypeOf[q])' \/ OpenOfType(TypeOf[q])' = {}
      BY <1>0, <1>1, <2>1 DEF SlotInv
    <2> QED
      BY <1>1, <2>1, <2>2 DEF SlotInv, Shares
  <1> QED
    BY <1>2, <1>3, <1>4, <1>5, <1>6, <1>7 DEF Next

\* A union has at most as many elements as its parts.
LEMMA UnionCount ==
  ASSUME NEW A, NEW B, IsFiniteSet(A), IsFiniteSet(B)
  PROVE  /\ IsFiniteSet(A \cup B)
         /\ Cardinality(A \cup B) \in Nat /\ Cardinality(A \cup B) <= Cardinality(A) + Cardinality(B)
  <1>1. /\ IsFiniteSet(A \cup B)
        /\ Cardinality(A \cup B) = Cardinality(A) + Cardinality(B) - Cardinality(A \cap B)
    BY FS_Union
  <1>2. IsFiniteSet(A \cap B)
    BY FS_Subset
  <1>3. /\ Cardinality(A) \in Nat /\ Cardinality(B) \in Nat /\ Cardinality(A \cup B) \in Nat
        /\ Cardinality(A \cap B) \in Nat
    BY <1>1, <1>2, FS_CardinalityType
  <1> QED
    BY <1>1, <1>3

\* The five shares leave two open slots to a type that has none.
LEMMA SharesLeaveRoom ==
  ASSUME IInv, SlotInv, NodeLimit >= 1, MaxOpen >= NodeLimit + 5, EmptyZones # {},
         NEW t \in PageTypes, OpenOfType(t) = {}
  PROVE  Cardinality(Used(zone_opened)) <= MaxOpen - 2
  <1> DEFINE n(u) == Cardinality(OpenOfType(u))
             A == OpenOfType("META_NODE") \cup OpenOfType("META_DATA")
             B == OpenOfType("REG_NODE") \cup OpenOfType("REG_DATA")
             C == A \cup B
  <1>1. \A u \in ZoneTypes : IsFiniteSet(OpenOfType(u)) /\ n(u) \in Nat /\ n(u) <= Share(u)
    BY OpenFinite DEF SlotInv
  <1>2. Used(zone_opened) = C \cup OpenOfType("FREE")
    <2>1. \A i \in Used(zone_opened) : zone_type[zone_opened[i]] \in ZoneTypes
      BY DEF IInv, TypeOK, Used
    <2> QED
      BY <2>1 DEF OpenOfType, ZoneTypes, PageTypes
  <1>3. /\ "META_NODE" \in ZoneTypes /\ "META_DATA" \in ZoneTypes /\ "REG_NODE" \in ZoneTypes
        /\ "REG_DATA" \in ZoneTypes /\ "FREE" \in ZoneTypes
    BY DEF ZoneTypes, PageTypes
  <1>4. /\ Share("META_NODE") = 1 /\ Share("META_DATA") = 1 /\ Share("FREE") = 1
        /\ Share("REG_NODE") = NodeLimit /\ Share("REG_DATA") = MaxOpen - 4 - NodeLimit
    <2>1. /\ limit_type["META_NODE"] = 0 /\ limit_type["META_DATA"] = 1 /\ limit_type["FREE"] = 0
          /\ limit_type["REG_NODE"] = NodeLimit /\ limit_type["REG_DATA"] = MaxOpen - 4 - NodeLimit
      BY <1>3 DEF limit_type
    <2> QED
      BY <2>1, SizesAssumption DEF Share
  <1>5. n(t) = 0
    BY FS_EmptySet
  <1>6. t \in {"META_NODE", "META_DATA", "REG_NODE", "REG_DATA"}
    BY DEF PageTypes
  <1>7. NodeLimit \in Nat /\ MaxOpen \in Nat
    BY SizesAssumption
  <1>8. /\ IsFiniteSet(A) /\ Cardinality(A) \in Nat
        /\ Cardinality(A) <= n("META_NODE") + n("META_DATA")
    BY <1>1, <1>3, UnionCount
  <1>9. /\ IsFiniteSet(B) /\ Cardinality(B) \in Nat
        /\ Cardinality(B) <= n("REG_NODE") + n("REG_DATA")
    BY <1>1, <1>3, UnionCount
  <1> HIDE DEF A, B
  <1>10. IsFiniteSet(C) /\ Cardinality(C) \in Nat /\ Cardinality(C) <= Cardinality(A) + Cardinality(B)
    BY <1>8, <1>9, UnionCount
  <1> HIDE DEF C
  <1>11. Cardinality(Used(zone_opened)) \in Nat
         /\ Cardinality(Used(zone_opened)) <= Cardinality(C) + n("FREE")
    BY <1>1, <1>2, <1>3, <1>10, UnionCount
  <1>12. /\ n("META_NODE") \in Nat /\ n("META_NODE") <= 1
         /\ n("META_DATA") \in Nat /\ n("META_DATA") <= 1
         /\ n("FREE") \in Nat /\ n("FREE") <= 1
         /\ n("REG_NODE") \in Nat /\ n("REG_NODE") <= NodeLimit
         /\ n("REG_DATA") \in Nat /\ n("REG_DATA") <= MaxOpen - 4 - NodeLimit
    BY <1>1, <1>3, <1>4
  <1> HIDE DEF n
  <1>13. n("META_NODE") + n("META_DATA") + n("REG_NODE") + n("REG_DATA") <= MaxOpen - 3
    BY <1>5, <1>6, <1>7, <1>12
  <1> QED
    BY <1>7, <1>8, <1>9, <1>10, <1>11, <1>12, <1>13

\* A device that can keep enough zones open, and mounts with a zone table on
\* disk, within the shares, that find few enough CLOSED zones: whenever a page
\* type has no open zone while a zone is EMPTY, both tables have a free slot
\* for it, so zone_open is not refused and get_zone's loop under zm_info_lock
\* has a zone to find.  These are the limits init_zm_info sets up.
THEOREM EveryTypeHasRoom ==
  ASSUME NodeLimit >= 1, MaxOpen >= NodeLimit + 5, \A b \in Boots : CountedAtMount(b)
  PROVE  Spec => []SlotForEveryType
  <1>1. IInv /\ SlotInv => SlotForEveryType
    <2> SUFFICES ASSUME IInv, SlotInv, NEW t \in PageTypes, OpenOfType(t) = {}, EmptyZones # {}
                 PROVE  zone_opened_count < MaxOpen /\ zone_active_count < MaxActive
      BY DEF SlotForEveryType
    <2>1. Cardinality(Used(zone_opened)) <= MaxOpen - 2
      BY SharesLeaveRoom
    <2>2. /\ Lists(zone_opened, OpenNow) /\ zone_opened_count = Cardinality(Used(zone_opened))
          /\ Lists(zone_active, ActiveNow) /\ zone_active_count = Cardinality(Used(zone_active))
      BY DEF IInv, TablesInv, TablesExact, OpenTableExact, ActiveTableExact, OpenNow, ActiveNow
    <2>3. /\ zone_opened \in [0 .. MaxOpen - 1 -> Zones \cup {None}]
          /\ zone_active \in [0 .. MaxActive - 1 -> Zones \cup {None}]
          /\ MaxOpen \in Nat /\ MaxActive \in Nat
      BY SizesAssumption DEF IInv, TypeOK, OpenSlots, ActiveSlots
    <2>4. Cardinality(Used(zone_opened)) = Cardinality(OpenNow)
      <3>1. {i \in Used(zone_opened) : zone_opened[i] \in OpenNow} = Used(zone_opened)
        BY <2>2 DEF Lists
      <3> QED
        BY <2>2, <2>3, <3>1, ListsCount
    <2>5. Cardinality(Used(zone_active)) = Cardinality(ActiveNow)
      <3>1. {i \in Used(zone_active) : zone_active[i] \in ActiveNow} = Used(zone_active)
        BY <2>2 DEF Lists
      <3> QED
        BY <2>2, <2>3, <3>1, ListsCount
    <2>6. ActiveNow = OpenNow \cup Closed
      BY DEF ActiveNow, OpenNow, Closed, ActiveConds
    <2>7. IsFiniteSet(OpenNow) /\ IsFiniteSet(Closed)
      <3>1. IsFiniteSet(Zones)
        BY SizesAssumption, FS_Interval DEF Zones
      <3> QED
        BY <3>1, ClosedFinite, FS_Subset DEF OpenNow
    <2>8. /\ Cardinality(ActiveNow) \in Nat
          /\ Cardinality(ActiveNow) <= Cardinality(OpenNow) + Cardinality(Closed)
      BY <2>6, <2>7, UnionCount
    <2>9. /\ Cardinality(Closed) <= MaxActive - MaxOpen + 1
          /\ Cardinality(Closed) \in Nat /\ Cardinality(OpenNow) \in Nat
      BY <2>7, FS_CardinalityType DEF SlotInv
    <2> QED
      BY <2>1, <2>2, <2>3, <2>4, <2>5, <2>8, <2>9
  <1>2. \A b \in Boots : CountedAtMount(b)
    OBVIOUS
  <1>3. Init => SlotInv
    BY <1>2, InitSlot
  <1> QED
    BY InitIInv, StepIInv, SlotStep, <1>1, <1>3, PTL DEF Spec
=============================================================================

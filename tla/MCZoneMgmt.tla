----------------------------- MODULE MCZoneMgmt -----------------------------
(* Small devices and boot states for the model checker. *)
EXTENDS ZoneMgmt, TLC

CONSTANTS d1, d2, n1, m1, k1

TypesDDNM == (d1 :> "REG_DATA") @@ (d2 :> "REG_DATA") @@ (n1 :> "REG_NODE") @@ (m1 :> "META_DATA")
TypesDN == (d1 :> "REG_DATA") @@ (n1 :> "REG_NODE")
TypesDNM == TypesDN @@ (m1 :> "META_DATA")
TypesDNK == TypesDN @@ (k1 :> "META_NODE")

\* The table of the zones of S, filled from slot 0 on in zone order.
Table(n, S) ==
  [i \in 0 .. n - 1 |->
     IF i < Cardinality(S)
     THEN CHOOSE z \in S : Cardinality({y \in S : y < z}) = i
     ELSE None]

\* A boot state from the zones' conditions, types and used blocks.
Boot(conds, used, types, zit, blocks) ==
  [cond |-> conds, zone_type |-> types, zit |-> zit, addr |-> blocks,
   wp |-> [z \in Zones |-> IF conds[z] = "FULL" THEN Start(z) + ZoneBlocks ELSE Start(z) + used[z]],
   opened |-> Table(MaxOpen, {z \in Zones : conds[z] \in OpenConds}),
   active |-> Table(MaxActive, {z \in Zones : conds[z] \in ActiveConds}),
   nr_type |-> [t \in ZoneTypes |->
      IF zit THEN Cardinality({z \in Zones : conds[z] # "EMPTY" /\ types[z] = t}) ELSE 0],
   vblocks |-> [z \in Zones |-> IF zit THEN Cardinality({p \in Page : blocks[p] # NullAddr /\ blk2zone(blocks[p]) = z}) ELSE 0],
   valid_map |-> {}]

\* mkfs leaves zones 0, 3, 5 and 6 open with a block each; the modules' mount
\* types 3, 5 and 6, and there is no zone table on disk.
MkfsZones == {0, 3, 5, 6}
FixedTypes == [z \in Zones |-> CASE z = 3 -> "META_NODE" [] z = 5 -> "REG_NODE"
                                 [] z = 6 -> "REG_DATA" [] OTHER -> "FREE"]
NoBlocks == [p \in Page |-> NullAddr]

Fresh == Boot([z \in Zones |-> IF z \in MkfsZones THEN "EXP_OPEN" ELSE "EMPTY"],
              [z \in Zones |-> IF z \in MkfsZones THEN 1 ELSE 0],
              FixedTypes, FALSE, NoBlocks)

\* A second mount after a power cycle, which closes what was open: n1 and d1
\* have blocks, the data zone 4 was filled before.
UsedTypes == [FixedTypes EXCEPT ![4] = "REG_DATA"]
UsedBlocks == [NoBlocks EXCEPT ![n1] = <<5, 0>>, ![d1] = <<6, 0>>]
PowerCycled == Boot([z \in Zones |-> IF z \in MkfsZones THEN "CLOSED"
                                     ELSE IF z = 4 THEN "FULL" ELSE "EMPTY"],
                    [z \in Zones |-> IF z \in MkfsZones THEN 1 ELSE 0],
                    UsedTypes, TRUE, UsedBlocks)

\* The same without the power cycle: zones are still open.  Zone 6 was opened
\* implicitly, by an append while it was closed.
Remounted == Boot([z \in Zones |-> CASE z \in MkfsZones \ {6} -> "EXP_OPEN" [] z = 6 -> "IMP_OPEN"
                                     [] z = 4 -> "FULL" [] OTHER -> "EMPTY"],
                  [z \in Zones |-> IF z \in MkfsZones THEN 1 ELSE 0],
                  UsedTypes, TRUE, UsedBlocks)

AllBoots == {Fresh, PowerCycled, Remounted}
FreshBoot == {Fresh}
CountedBoots == {PowerCycled, Remounted}

ASSUME CleanMountAssumption == \A b \in Boots : PlacedAtMount(b) /\ WrittenAtMount(b)
ASSUME CountedMountAssumption == Boots = CountedBoots => \A b \in Boots : CountedAtMount(b)

=============================================================================

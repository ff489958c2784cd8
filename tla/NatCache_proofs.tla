--------------------------- MODULE NatCache_proofs --------------------------
(***************************************************************************)
(* What holds of the NAT cache for any number of tasks, nids and blocks:   *)
(* until a list is changed beside another reader, a nid has one owner and  *)
(* an entry is found by whoever needs it; and a checkpoint saves every     *)
(* marked entry although completions move entries about while it walks     *)
(* the list.                                                               *)
(***************************************************************************)
EXTENDS NatCache, SequenceTheorems, FiniteSetTheorems, TLAPS

Entries == [addr : Nat, dirty : BOOLEAN]
Slots == [nid : Nids \cup {None}, addr : Nat]
TaskState == [at : {"idle", "walk", "move", "read", "fill", "invalidate", "null"},
              op : {None, "write", "free", "alloc", "alloc meta"},
              nid : Nids \cup {None}, blk : Nat, todo : SUBSET Nids, retried : BOOLEAN]

Listed == ToSet(nat_list)

Typed ==
  /\ nat_list \in Seq(Nids) /\ free_nat \in SUBSET Nids
  /\ entry \in [Nids -> Entries] /\ raw \in [Nids -> Nat]
  /\ task \in [Tasks -> TaskState] /\ owners \in [Nids -> Nat]
  /\ page \in [Nids -> {"free", "locked", "io", "append", "count"}]
  /\ cp_phase \in 0 .. 3
  /\ walk \in [ne : Nids \cup {None}, it : Nids \cup {None}, copied : BOOLEAN]
  /\ meta_nat \in [1 .. MaxWrites + 2 -> Slots]
  /\ cnt \in Nat /\ written \in 0 .. MaxWrites /\ restarts \in Nat
  /\ raced \in BOOLEAN /\ appendRaced \in BOOLEAN /\ lost \subseteq Nids

-----------------------------------------------------------------------------
(* The lists and their users. *)

\* A nid has one entry on one of the lists.  A free one has no owner; one that
\* is not cached has an owner if its NAT block holds an address.  A second owner
\* comes from a move beside another reader.
ListsOK ==
  /\ ~raced => \A n \in Nids : owners[n] <= 1
  /\ IsInjective(nat_list) /\ Listed \cap free_nat = {}
  /\ \A n \in free_nat : owners[n] = 0
  /\ \A n \in Nids \ Cached : owners[n] = IF raw[n] = 0 THEN 0 ELSE 1
  /\ \A n \in Nids : entry[n].dirty => n \in Listed
  /\ \A n \in Nids : page[n] = "io" => n \in Listed

Writing(s) == s.at # "idle" /\ s.op = "write"

\* A lookup is of a nid in use, and finds it in the cache after it read its block.
Looking(s) ==
  /\ s.at # "idle" /\ s.op \in {"write", "free"} => s.nid \in Nids /\ owners[s.nid] # 0
  /\ Writing(s) => page[s.nid] = "locked"
  /\ s.at # "idle" => s.op \in {"write", "free", "alloc", "alloc meta"}
  /\ s.at = "invalidate" => s.op = "free" /\ s.nid \in Listed
  /\ s.at = "fill" => s.todo # {}
  /\ s.op \in {"write", "free"} =>
       /\ s.at = "walk" /\ s.retried => s.nid \in Cached
       /\ s.at = "read" => s.blk = NatBlock[s.nid]
       /\ s.at = "fill" => s.nid \in s.todo \cup Cached
       /\ s.at # "move"
  /\ s.op \notin {"write", "free"} => ~s.retried
  /\ s.at = "null" => raced

\* An allocation moves an entry that is still free, of the range it looks for.
Moving(s) ==
  s.at = "move" => /\ s.nid \in Nids /\ (s.nid \in MetaNids <=> s.op = "alloc meta")
                   /\ s.nid \in Cached /\ (~raced => s.nid \in free_nat)

TasksOK ==
  /\ \A t \in Tasks : Looking(task[t]) /\ Moving(task[t])
  /\ \A t, u \in Tasks : Writing(task[t]) /\ Writing(task[u]) /\ task[t].nid = task[u].nid => t = u
  /\ cp_phase # 0 => (\A t \in Tasks : task[t] = Idle)

-----------------------------------------------------------------------------
(* The checkpoint. *)

Busy == {n \in Nids : page[n] # "free"}

\* The superblock has room for an entry of each write.
CountOK == IsFiniteSet(Busy) /\ cnt + Cardinality(Busy) <= written

\* The walk stands on entries of nat_list.
WalkOK ==
  /\ walk.ne \in Listed \cup {End} /\ walk.it \in Listed \cup {End}
  /\ walk.ne = End => walk.it = End /\ ~walk.copied
  /\ cp_phase # 2 => walk.ne = End
  /\ cp_phase \in {0, 1} => cnt = 0 /\ \A n \in Nids : page[n] \notin {"append", "count"}
  /\ cp_phase = 3 => Quiet
  /\ ~appendRaced => \A m, n \in Nids : page[m] = "count" /\ page[n] = "count" => m = n

\* What the walk still comes to.
Rest == IF walk.it = End THEN {}
        ELSE {nat_list[i] : i \in {j \in DOMAIN nat_list : j >= Position(walk.it)}}
Ahead(n) == (n = walk.ne /\ ~walk.copied) \/ n \in Rest

\* A completion that has stored the entry appends it.
OnItsWay(n) == page[n] \in {"append", "count"}

Appended(n) == {k \in 1 .. cnt : meta_nat[k].nid = n}

\* A superblock has a last entry of a nid it has entries of.
HasLast(S) == S # {} => \E k \in S : \A j \in S : k >= j

\* An entry is saved, will be, or had no mark over an older NAT block when the
\* checkpoint began.  Once it is in the superblock, only the superblock counts.
Saved(n) ==
  \/ Recovered(n) = entry[n].addr
  \/ OnItsWay(n)
  \/ Appended(n) = {} /\ ((entry[n].dirty /\ Ahead(n)) \/ n \in lost)

\* Between copying and clearing, a newer address is on its way to the superblock.
SavedOK ==
  /\ cp_phase \in {0, 1} => \A n \in Nids \ lost : raw[n] = entry[n].addr \/ entry[n].dirty
  /\ ~appendRaced => \A n \in Nids : page[n] = "count" => meta_nat[cnt + 1] = [nid |-> n, addr |-> entry[n].addr]
  /\ cp_phase \in {2, 3} /\ ~appendRaced => (\A n \in Nids : Saved(n))
  /\ walk.copied /\ ~appendRaced =>
       raw[walk.ne] = entry[walk.ne].addr \/ OnItsWay(walk.ne) \/ Appended(walk.ne) # {}
  /\ \A n \in Nids : HasLast(Appended(n))

\* The inductive invariant.
IInv == Typed /\ ListsOK /\ TasksOK /\ CountOK /\ WalkOK /\ SavedOK

-----------------------------------------------------------------------------
(* Sequences without repetition. *)

\* Where an entry is on the list.
LEMMA PositionOf ==
  ASSUME Typed, IsInjective(nat_list), NEW n \in Listed
  PROVE  /\ Position(n) \in 1 .. Len(nat_list) /\ nat_list[Position(n)] = n
         /\ \A i \in 1 .. Len(nat_list) : nat_list[i] = n => i = Position(n)
<1>1. DOMAIN nat_list = 1 .. Len(nat_list)
  BY LenProperties DEF Typed
<1>2. \E i \in DOMAIN nat_list : nat_list[i] = n
  BY DEF Listed, ToSet
<1>3. Position(n) \in DOMAIN nat_list /\ nat_list[Position(n)] = n
  BY <1>2 DEF Position
<1> QED
  BY <1>1, <1>3 DEF IsInjective

LEMMA AtPosition ==
  ASSUME Typed
  PROVE  /\ DOMAIN nat_list = 1 .. Len(nat_list) /\ Len(nat_list) \in Nat
         /\ \A i \in 1 .. Len(nat_list) : nat_list[i] \in Listed /\ nat_list[i] \in Nids
         /\ Listed \subseteq Nids
<1>1. DOMAIN nat_list = 1 .. Len(nat_list) /\ nat_list \in [1 .. Len(nat_list) -> Nids] /\ Len(nat_list) \in Nat
  BY LenProperties DEF Typed
<1> QED
  BY <1>1 DEF Listed, ToSet

\* A new entry comes first.
LEMMA Prepended ==
  ASSUME NEW s \in Seq(Nids), NEW n \in Nids, NEW r, r = <<n>> \o s
  PROVE  /\ r \in Seq(Nids) /\ Len(r) = Len(s) + 1 /\ r[1] = n
         /\ \A i \in 1 .. Len(s) : r[i + 1] = s[i]
         /\ ToSet(r) = ToSet(s) \cup {n}
         /\ IsInjective(s) /\ n \notin ToSet(s) => IsInjective(r)
<1>1. <<n>> \in Seq(Nids) /\ Len(<<n>>) = 1 /\ <<n>>[1] = n /\ Len(s) \in Nat
  BY LenProperties
<1>2. /\ r \in Seq(Nids) /\ Len(r) = Len(s) + 1
      /\ \A i \in 1 .. 1 + Len(s) : r[i] = IF i <= 1 THEN <<n>>[i] ELSE s[i - 1]
  BY <1>1, ConcatProperties
<1>3. r[1] = n /\ \A i \in 1 .. Len(s) : r[i + 1] = s[i]
  BY <1>1, <1>2
<1>4. DOMAIN r = 1 .. Len(s) + 1 /\ DOMAIN s = 1 .. Len(s)
  BY <1>2, LenProperties
<1>5. \A x : x \in ToSet(r) <=> x \in ToSet(s) \cup {n}
  <2>1. ASSUME NEW x \in ToSet(r) PROVE x \in ToSet(s) \cup {n}
    <3>1. PICK i \in 1 .. Len(s) + 1 : x = r[i]
      BY <1>4 DEF ToSet
    <3>2. CASE i = 1
      BY <1>3, <3>1, <3>2
    <3>3. CASE i # 1
      <4>1. i - 1 \in 1 .. Len(s) /\ r[i] = s[i - 1]
        BY <1>1, <1>2, <3>3
      <4> QED
        BY <1>4, <3>1, <4>1 DEF ToSet
    <3> QED
      BY <3>2, <3>3
  <2>2. ASSUME NEW x \in ToSet(s) PROVE x \in ToSet(r)
    <3>1. PICK i \in 1 .. Len(s) : x = s[i]
      BY <1>4 DEF ToSet
    <3>2. i + 1 \in DOMAIN r /\ r[i + 1] = x
      BY <1>1, <1>3, <1>4, <3>1
    <3> QED
      BY <3>2 DEF ToSet
  <2>3. n \in ToSet(r)
    BY <1>1, <1>3, <1>4 DEF ToSet
  <2> QED
    BY <2>1, <2>2, <2>3
<1>6. ASSUME IsInjective(s), n \notin ToSet(s), NEW a \in DOMAIN r, NEW b \in DOMAIN r, r[a] = r[b]
      PROVE  a = b
  <2>1. \A i \in 1 .. Len(s) : s[i] # n
    BY <1>4, <1>6 DEF ToSet
  <2>2. CASE a = 1 \/ b = 1
    BY <1>1, <1>2, <1>3, <1>4, <1>6, <2>1, <2>2
  <2>3. CASE a # 1 /\ b # 1
    <3>1. a - 1 \in DOMAIN s /\ b - 1 \in DOMAIN s /\ s[a - 1] = s[b - 1]
      BY <1>1, <1>2, <1>4, <1>6, <2>3
    <3>2. a - 1 = b - 1
      BY <1>6, <3>1 DEF IsInjective
    <3> QED
      BY <1>1, <1>4, <3>2
  <2> QED
    BY <2>2, <2>3
<1> QED
  BY <1>2, <1>3, <1>5, <1>6 DEF IsInjective

\* The entry that is moved comes first, and the others keep their order.
LEMMA MovedProperties ==
  ASSUME Typed, IsInjective(nat_list), NEW n \in Listed, NEW r, r = Moved(n)
  PROVE  /\ r \in Seq(Nids) /\ Len(r) = Len(nat_list) /\ r[1] = n
         /\ \A i \in 1 .. Position(n) - 1 : r[i + 1] = nat_list[i]
         /\ \A i \in Position(n) + 1 .. Len(nat_list) : r[i] = nat_list[i]
         /\ ToSet(r) = Listed /\ IsInjective(r)
<1> DEFINE k == Position(n)
           L == Len(nat_list)
           before == SubSeq(nat_list, 1, k - 1)
           behind == SubSeq(nat_list, k + 1, L)
           s == before \o behind
<1>1. /\ k \in 1 .. L /\ nat_list[k] = n /\ L \in Nat
      /\ \A i \in 1 .. L : nat_list[i] = n => i = k
      /\ DOMAIN nat_list = 1 .. L
      /\ \A i \in 1 .. L : nat_list[i] \in Nids
      /\ \A i, j \in 1 .. L : nat_list[i] = nat_list[j] => i = j
      /\ n \in Nids
  BY PositionOf, AtPosition DEF IsInjective
<1>2. r = <<n>> \o s
  BY DEF Moved, RemoveAt
<1> HIDE DEF k, L
<1>3. /\ before \in Seq(Nids) /\ Len(before) = k - 1
      /\ \A i \in 1 .. k - 1 : before[i] = nat_list[i]
  <2>1. k - 1 \in Int /\ 1 \in Int /\ \A i \in 1 .. k - 1 : nat_list[i] \in Nids
    BY <1>1
  <2>2. /\ SubSeq(nat_list, 1, k - 1) \in Seq(Nids)
        /\ Len(SubSeq(nat_list, 1, k - 1)) = IF 1 <= k - 1 THEN (k - 1) - 1 + 1 ELSE 0
        /\ \A i \in 1 .. (k - 1) - 1 + 1 : SubSeq(nat_list, 1, k - 1)[i] = nat_list[1 + i - 1]
    BY <2>1, SubSeqProperties
  <2> QED
    BY <1>1, <2>2
<1>4. /\ behind \in Seq(Nids) /\ Len(behind) = L - k
      /\ \A i \in 1 .. L - k : behind[i] = nat_list[k + i]
  <2>1. k + 1 \in Int /\ L \in Int /\ \A i \in k + 1 .. L : nat_list[i] \in Nids
    BY <1>1
  <2>2. /\ SubSeq(nat_list, k + 1, L) \in Seq(Nids)
        /\ Len(SubSeq(nat_list, k + 1, L)) = IF k + 1 <= L THEN L - (k + 1) + 1 ELSE 0
        /\ \A i \in 1 .. L - (k + 1) + 1 : SubSeq(nat_list, k + 1, L)[i] = nat_list[k + 1 + i - 1]
    BY <2>1, SubSeqProperties
  <2> QED
    BY <1>1, <2>2
<1> HIDE DEF before, behind
<1>5. /\ s \in Seq(Nids) /\ Len(s) = L - 1
      /\ \A i \in 1 .. k - 1 : s[i] = nat_list[i]
      /\ \A i \in k .. L - 1 : s[i] = nat_list[i + 1]
  <2>1. /\ s \in Seq(Nids) /\ Len(s) = Len(before) + Len(behind)
        /\ \A i \in 1 .. Len(before) + Len(behind) :
              s[i] = IF i <= Len(before) THEN before[i] ELSE behind[i - Len(before)]
    BY <1>3, <1>4, ConcatProperties
  <2>2. Len(s) = L - 1 /\ \A i \in 1 .. k - 1 : s[i] = nat_list[i]
    BY <1>1, <1>3, <1>4, <2>1
  <2>3. ASSUME NEW i \in k .. L - 1 PROVE s[i] = nat_list[i + 1]
    <3>1. i - (k - 1) \in 1 .. L - k /\ s[i] = behind[i - (k - 1)]
      BY <1>1, <1>3, <1>4, <2>1
    <3>2. k + (i - (k - 1)) = i + 1
      BY <1>1
    <3> QED
      BY <1>4, <3>1, <3>2
  <2> QED
    BY <2>1, <2>2, <2>3
<1> HIDE DEF s
<1>6. DOMAIN s = 1 .. L - 1
  BY <1>5, LenProperties
<1>7. IsInjective(s) /\ n \notin ToSet(s)
  <2>1. \A i \in 1 .. L - 1 : s[i] = nat_list[IF i < k THEN i ELSE i + 1]
    BY <1>1, <1>5
  <2>2. ASSUME NEW i \in 1 .. L - 1, NEW j \in 1 .. L - 1, s[i] = s[j] PROVE i = j
    BY <1>1, <2>1, <2>2
  <2>3. ASSUME NEW i \in 1 .. L - 1 PROVE s[i] # n
    BY <1>1, <2>1
  <2> QED
    BY <1>6, <2>2, <2>3 DEF IsInjective, ToSet
<1>8. /\ r \in Seq(Nids) /\ Len(r) = L - 1 + 1 /\ r[1] = n
      /\ \A i \in 1 .. L - 1 : r[i + 1] = s[i]
      /\ ToSet(r) = ToSet(s) \cup {n} /\ IsInjective(r)
  <2>1. s \in Seq(Nids) /\ n \in Nids
    BY <1>1, <1>5
  <2>2. /\ r \in Seq(Nids) /\ Len(r) = Len(s) + 1 /\ r[1] = n
        /\ \A i \in 1 .. Len(s) : r[i + 1] = s[i]
        /\ ToSet(r) = ToSet(s) \cup {n}
        /\ IsInjective(s) /\ n \notin ToSet(s) => IsInjective(r)
    BY <1>2, <2>1, Prepended
  <2> QED
    BY <1>5, <1>7, <2>2
<1>9. ToSet(s) \cup {n} = Listed
  <2>1. ASSUME NEW x \in ToSet(s) PROVE x \in Listed
    <3>1. PICK i \in 1 .. L - 1 : x = s[i]
      BY <1>6 DEF ToSet
    <3>2. \E j \in 1 .. L : x = nat_list[j]
      BY <1>1, <1>5, <3>1
    <3> QED
      BY <1>1, <3>2 DEF Listed, ToSet
  <2>2. ASSUME NEW x \in Listed, x # n PROVE x \in ToSet(s)
    <3>1. PICK j \in 1 .. L : x = nat_list[j]
      BY <1>1 DEF Listed, ToSet
    <3>2. CASE j < k
      <4>1. j \in 1 .. k - 1 /\ j \in 1 .. L - 1
        BY <1>1, <3>2
      <4> QED
        BY <1>5, <1>6, <3>1, <4>1 DEF ToSet
    <3>3. CASE j > k
      <4>1. j - 1 \in k .. L - 1 /\ j - 1 \in 1 .. L - 1 /\ (j - 1) + 1 = j
        BY <1>1, <3>3
      <4> QED
        BY <1>5, <1>6, <3>1, <4>1 DEF ToSet
    <3> QED
      BY <1>1, <2>2, <3>1, <3>2, <3>3
  <2> QED
    BY <2>1, <2>2
<1>10. \A i \in 1 .. k - 1 : r[i + 1] = nat_list[i]
  BY <1>1, <1>5, <1>8
<1>11. ASSUME NEW i \in k + 1 .. L PROVE r[i] = nat_list[i]
  <2>1. i - 1 \in k .. L - 1 /\ i - 1 \in 1 .. L - 1 /\ (i - 1) + 1 = i
    BY <1>1
  <2> QED
    BY <1>5, <1>8, <2>1
<1> QED
  BY <1>1, <1>8, <1>9, <1>10, <1>11 DEF k, L

\* Where an entry of a list without repetition is.
LEMMA FoundAt ==
  ASSUME NEW s \in Seq(Nids), IsInjective(s), NEW j \in 1 .. Len(s)
  PROVE  (CHOOSE i \in DOMAIN s : s[i] = s[j]) = j
<1>1. DOMAIN s = 1 .. Len(s)
  BY LenProperties
<1> QED
  BY <1>1 DEF IsInjective

-----------------------------------------------------------------------------
(* While the file system is in use. *)

\* A task that does something is a sign that no checkpoint runs.
LEMMA InUse0 ==
  ASSUME IInv, NEW t \in Tasks, task[t].at # "idle"
  PROVE  cp_phase = 0
BY DEF IInv, TasksOK, Idle

\* What a step outside a checkpoint has to keep of the checkpoint's invariants.
LEMMA OutsideCheckpoint ==
  ASSUME Typed, WalkOK, cp_phase = 0, UNCHANGED <<checkpoint, super, appendRaced, lost>>,
         \A n \in Nids : page'[n] \notin {"append", "count"},
         \A n \in Nids \ lost : raw'[n] = entry'[n].addr \/ entry'[n].dirty
  PROVE  WalkOK' /\ SavedOK'
<1>1. walk' = walk /\ walk.ne = End /\ walk.it = End /\ ~walk.copied /\ cp_phase' = 0 /\ cnt' = 0
  BY DEF WalkOK, checkpoint, super
<1>2. restarts' = restarts /\ lost' = lost
  BY DEF checkpoint
<1>3. WalkOK'
  BY <1>1, <1>2 DEF WalkOK
<1>4. SavedOK'
  <2>1. \A n \in Nids : Appended(n)' = {}
    BY <1>1 DEF Appended
  <2> QED
    BY <1>1, <1>2, <2>1 DEF SavedOK, HasLast
<1> QED
  BY <1>3, <1>4

\* The tasks' invariant, when a task goes on and takes nothing from the others.
LEMMA TasksStay ==
  ASSUME IInv, cp_phase = 0, cp_phase' = 0, NEW t \in Tasks, NEW s \in TaskState,
         task' = [task EXCEPT ![t] = s], Looking(s)', Moving(s)',
         Writing(s) => \A u \in Tasks \ {t} : ~(Writing(task[u]) /\ task[u].nid = s.nid),
         \A n \in Nids : owners[n] # 0 => owners'[n] # 0, raced => raced',
         Listed \subseteq Listed', Cached \subseteq Cached',
         \A u \in Tasks \ {t} : Writing(task[u]) => page'[task[u].nid] = page[task[u].nid],
         \A u \in Tasks \ {t} : task[u].at = "move" /\ ~raced' =>
            ~raced /\ (task[u].nid \in free_nat => task[u].nid \in free_nat')
  PROVE  TasksOK'
<1>1. task \in [Tasks -> TaskState]
  BY DEF IInv, Typed
<1>2. task'[t] = s /\ (\A u \in Tasks : u # t => task'[u] = task[u])
  BY <1>1
<1>3. ASSUME NEW u \in Tasks PROVE Looking(task[u])' /\ Moving(task[u])'
  <2>1. CASE u = t
    BY <1>2, <2>1 DEF Looking, Moving, Writing
  <2>2. CASE u # t
    <3>1. PICK x \in TaskState : task[u] = x
      BY <1>1
    <3>2. Looking(x) /\ Moving(x)
      BY <3>1 DEF IInv, TasksOK
    <3>3. /\ Writing(x) => page'[x.nid] = page[x.nid]
          /\ x.at = "move" /\ ~raced' => ~raced /\ (x.nid \in free_nat => x.nid \in free_nat')
      BY <2>2, <3>1
    <3>4. Looking(x)'
      BY <3>2, <3>3 DEF Looking, Writing
    <3>5. Moving(x)'
      BY <3>2, <3>3 DEF Moving
    <3>6. task'[u] = x
      BY <1>2, <2>2, <3>1
    <3> QED
      BY <3>4, <3>5, <3>6 DEF Looking, Moving, Writing
  <2> QED
    BY <2>1, <2>2
<1>4. ASSUME NEW u \in Tasks, NEW v \in Tasks, Writing(task'[u]), Writing(task'[v]), task'[u].nid = task'[v].nid
      PROVE  u = v
  BY <1>2, <1>4 DEF IInv, TasksOK
<1> QED
  BY <1>3, <1>4 DEF TasksOK, Writing

\* A step of a task that changes nothing but where the task is.
LEMMA TaskStepKeeps ==
  ASSUME IInv, cp_phase = 0, NEW t \in Tasks, NEW s \in TaskState,
         task' = [task EXCEPT ![t] = s], Looking(s), Moving(s),
         Writing(s) => Writing(task[t]) /\ s.nid = task[t].nid,
         UNCHANGED <<lists, owners, entry, raw, page, checkpoint, super, written, races>>
  PROVE  IInv'
<1>1. task \in [Tasks -> TaskState]
  BY DEF IInv, Typed
<1>2. Typed'
  BY <1>1 DEF IInv, Typed, lists, checkpoint, super, races
<1>3. ListsOK'
  BY DEF IInv, ListsOK, Listed, Cached, lists, races
<1>4. /\ Listed' = Listed /\ Cached' = Cached /\ free_nat' = free_nat
      /\ owners' = owners /\ page' = page /\ raced' = raced /\ cp_phase' = 0
  BY DEF Listed, Cached, lists, races, checkpoint
<1>5. Looking(s)' /\ Moving(s)'
  BY <1>4 DEF Looking, Moving, Writing
<1>6. Writing(s) => \A u \in Tasks \ {t} : ~(Writing(task[u]) /\ task[u].nid = s.nid)
  BY DEF IInv, TasksOK
<1>7. TasksOK'
  BY <1>4, <1>5, <1>6, TasksStay
<1>8. CountOK'
  <2>1. Busy' = Busy
    BY DEF Busy
  <2> QED
    BY <2>1 DEF IInv, CountOK, super
<1>9. WalkOK' /\ SavedOK'
  BY OutsideCheckpoint DEF IInv, WalkOK, SavedOK, races
<1> QED
  BY <1>2, <1>3, <1>7, <1>8, <1>9 DEF IInv

\* An entry in use is on nat_list as soon as it is cached.
LEMMA InUseListed ==
  ASSUME IInv, NEW n \in Nids, owners[n] # 0, n \in Cached
  PROVE  n \in Listed
BY DEF IInv, ListsOK, Cached, Listed

LEMMA NotFoundKeeps ==
  ASSUME IInv, NEW t \in Tasks, NotFound(t)
  PROVE  IInv'
<1>1. PICK old \in TaskState : task[t] = old
  BY DEF IInv, Typed
<1>2. /\ old.at = "walk" /\ old.op \in {"write", "free"} /\ (old.retried => raced)
      /\ old.nid \in Nids /\ owners[old.nid] # 0
      /\ Looking(old) /\ Moving(old)
  BY <1>1 DEF NotFound, Allocates, IInv, TasksOK, Looking
<1> DEFINE s == IF old.retried THEN [old EXCEPT !.at = "null"]
                ELSE [old EXCEPT !.at = "read", !.blk = NatBlock[old.nid]]
<1>3. task' = [task EXCEPT ![t] = s]
  BY <1>1 DEF NotFound, At
<1>4. /\ s \in TaskState /\ s.op = old.op /\ s.nid = old.nid /\ (s.retried <=> old.retried)
      /\ \/ old.retried /\ s.at = "null"
         \/ ~old.retried /\ s.at = "read" /\ s.blk = NatBlock[old.nid]
  <2>1. NatBlock[old.nid] \in Nat
    BY <1>2, NatCacheAssumption
  <2>2. CASE old.retried
    <3>1. s = [old EXCEPT !.at = "null"]
      BY <2>2
    <3> HIDE DEF s
    <3> QED
      BY <2>2, <3>1 DEF TaskState
  <2>3. CASE ~old.retried
    <3>1. s = [old EXCEPT !.at = "read", !.blk = NatBlock[old.nid]]
      BY <2>3
    <3> HIDE DEF s
    <3> QED
      BY <2>1, <2>3, <3>1 DEF TaskState
  <2> QED
    BY <2>2, <2>3
<1> HIDE DEF s
<1>5. Looking(s) /\ Moving(s)
  BY <1>2, <1>4 DEF Looking, Moving, Writing
<1>6. Writing(s) => Writing(task[t]) /\ s.nid = task[t].nid
  BY <1>1, <1>2, <1>4 DEF Writing
<1>7. UNCHANGED <<lists, owners, entry, raw, page, checkpoint, super, written, races>> /\ cp_phase = 0
  BY <1>1, <1>2, InUse0 DEF NotFound
<1> QED
  BY <1>3, <1>4, <1>5, <1>6, <1>7, TaskStepKeeps

LEMMA PickKeeps ==
  ASSUME IInv, NEW t \in Tasks, Pick(t)
  PROVE  IInv'
<1>1. PICK old \in TaskState : task[t] = old
  BY DEF IInv, Typed
<1>2. /\ old.at = "walk" /\ old.op \in {"alloc", "alloc meta"}
      /\ Looking(old) /\ Moving(old) /\ cp_phase = 0
  BY <1>1, InUse0 DEF Pick, Allocates, IInv, TasksOK
<1>3. UNCHANGED <<lists, owners, entry, raw, page, checkpoint, super, written, races>>
  BY DEF Pick
<1>4. CASE Eligible(t) = {}
  <2> DEFINE s == [old EXCEPT !.at = "read"]
  <2>1. task' = [task EXCEPT ![t] = s]
    BY <1>1, <1>4 DEF Pick, At
  <2>2. s \in TaskState /\ ~Writing(s)
    BY <1>2 DEF TaskState, Writing
  <2>3. Looking(s) /\ Moving(s)
    BY <1>2, <2>2 DEF Looking, Moving, Writing, TaskState
  <2> HIDE DEF s
  <2> QED
    BY <1>2, <1>3, <2>1, <2>2, <2>3, TaskStepKeeps
<1>5. CASE Eligible(t) # {}
  <2>1. PICK n \in Eligible(t) : task' = [task EXCEPT ![t].at = "move", ![t].nid = n]
    BY <1>5 DEF Pick
  <2>2. n \in Nids /\ n \in free_nat /\ n \in Cached /\ (n \in MetaNids <=> old.op = "alloc meta")
    BY <1>1, <2>1 DEF Eligible, IInv, Typed, Cached
  <2> DEFINE s == [old EXCEPT !.at = "move", !.nid = n]
  <2>3. task' = [task EXCEPT ![t] = s]
    BY <1>1, <2>1
  <2>4. s \in TaskState /\ ~Writing(s)
    BY <1>2, <2>2 DEF TaskState, Writing
  <2>5. Looking(s) /\ Moving(s)
    BY <1>2, <2>2, <2>4 DEF Looking, Moving, Writing, TaskState
  <2> HIDE DEF s
  <2> QED
    BY <1>2, <1>3, <2>3, <2>4, <2>5, TaskStepKeeps
<1> QED
  BY <1>4, <1>5

LEMMA ReadBlockKeeps ==
  ASSUME IInv, NEW t \in Tasks, ReadBlock(t)
  PROVE  IInv'
<1>1. PICK old \in TaskState : task[t] = old
  BY DEF IInv, Typed
<1>2. old.at = "read" /\ Looking(old) /\ Moving(old) /\ cp_phase = 0 /\ BlockNids(old.blk) # {}
  BY <1>1, InUse0 DEF ReadBlock, IInv, TasksOK
<1> DEFINE s == [old EXCEPT !.at = "fill", !.todo = BlockNids(old.blk)]
<1>3. task' = [task EXCEPT ![t] = s]
  BY <1>1 DEF ReadBlock
<1>4. s \in TaskState
  BY <1>2 DEF TaskState, BlockNids
<1>5. Looking(s) /\ Moving(s)
  BY <1>2 DEF Looking, Moving, Writing, TaskState, BlockNids
<1>6. Writing(s) => Writing(task[t]) /\ s.nid = task[t].nid
  BY <1>1, <1>2 DEF Writing, TaskState
<1>7. UNCHANGED <<lists, owners, entry, raw, page, checkpoint, super, written, races>>
  BY DEF ReadBlock
<1> HIDE DEF s
<1> QED
  BY <1>2, <1>3, <1>4, <1>5, <1>6, <1>7, TaskStepKeeps

\* An idle task satisfies its invariant whatever the state.
LEMMA IdleIsFine == Idle \in TaskState /\ Looking(Idle) /\ Moving(Idle) /\ ~Writing(Idle)
BY DEF Idle, TaskState, Looking, Moving, Writing

LEMMA ExhaustedKeeps ==
  ASSUME IInv, NEW t \in Tasks, Exhausted(t)
  PROVE  IInv'
<1>1. cp_phase = 0
  BY InUse0 DEF Exhausted
<1>2. task' = [task EXCEPT ![t] = Idle]
  BY DEF Exhausted
<1>3. UNCHANGED <<lists, owners, entry, raw, page, checkpoint, super, written, races>>
  BY DEF Exhausted
<1> QED
  BY <1>1, <1>2, <1>3, IdleIsFine, TaskStepKeeps

\* The pages in use are counted.
LEMMA BusyMore ==
  ASSUME Typed, CountOK, NEW n \in Nids, page[n] = "free", NEW x, x # "free",
         page' = [page EXCEPT ![n] = x], cnt' = cnt, written' = written + 1
  PROVE  CountOK'
<1>1. Busy' = Busy \cup {n} /\ n \notin Busy
  BY DEF Busy, Typed
<1>2. /\ IsFiniteSet(Busy) /\ IsFiniteSet(Busy') /\ Cardinality(Busy') = Cardinality(Busy) + 1
      /\ Cardinality(Busy) \in Nat
  BY <1>1, FS_AddElement, FS_CardinalityType DEF CountOK
<1> QED
  BY <1>2 DEF CountOK, Typed

LEMMA BusySame ==
  ASSUME Typed, CountOK, NEW n \in Nids, page[n] # "free", NEW x, x # "free",
         page' = [page EXCEPT ![n] = x], cnt' = cnt, written' = written
  PROVE  CountOK'
<1>1. Busy' = Busy
  BY DEF Busy, Typed
<1> QED
  BY <1>1 DEF CountOK

LEMMA BusyLess ==
  ASSUME Typed, CountOK, NEW n \in Nids, page[n] # "free",
         page' = [page EXCEPT ![n] = "free"], cnt' \in {cnt, cnt + 1}, written' = written
  PROVE  CountOK'
<1>1. Busy' = Busy \ {n} /\ n \in Busy
  BY DEF Busy, Typed
<1>2. /\ IsFiniteSet(Busy) /\ IsFiniteSet(Busy') /\ Cardinality(Busy') = Cardinality(Busy) - 1
      /\ Cardinality(Busy) \in Nat
  BY <1>1, FS_RemoveElement, FS_CardinalityType DEF CountOK
<1> QED
  BY <1>2 DEF CountOK, Typed

LEMMA BeginKeeps ==
  ASSUME IInv, NEW t \in Tasks, Begin(t)
  PROVE  IInv'
<1>1. /\ cp_phase = 0 /\ task[t] = Idle
      /\ UNCHANGED <<lists, owners, entry, raw, checkpoint, super, races>>
  BY DEF Begin
<1>2. ASSUME NEW n \in Nids \ MetaNids, owners[n] > 0, page[n] = "free", written < MaxWrites,
             task' = [task EXCEPT ![t] = [Idle EXCEPT !.at = "walk", !.op = "write", !.nid = n]],
             page' = [page EXCEPT ![n] = "locked"], written' = written + 1
      PROVE  IInv'
  <2> DEFINE s == [Idle EXCEPT !.at = "walk", !.op = "write", !.nid = n]
  <2>1. s \in TaskState /\ s.at = "walk" /\ s.op = "write" /\ s.nid = n /\ ~s.retried
    BY DEF TaskState, Idle
  <2>2. owners[n] # 0
    BY <1>2 DEF IInv, Typed
  <2>3. task' = [task EXCEPT ![t] = s]
    BY <1>2
  <2> HIDE DEF s
  <2>4. /\ Listed' = Listed /\ Cached' = Cached /\ free_nat' = free_nat
        /\ owners' = owners /\ raced' = raced /\ cp_phase' = 0
    BY <1>1 DEF Listed, Cached, lists, races, checkpoint
  <2>5. page'[n] = "locked" /\ (\A m \in Nids : m # n => page'[m] = page[m])
    BY <1>2 DEF IInv, Typed
  <2>6. Looking(s)' /\ Moving(s)'
    BY <2>1, <2>2, <2>4, <2>5 DEF Looking, Moving, Writing
  <2>7. \A u \in Tasks : Writing(task[u]) => task[u].nid \in Nids /\ task[u].nid # n
    BY <1>2 DEF IInv, TasksOK, Looking, Writing
  <2>8. TasksOK'
    BY <1>1, <2>1, <2>3, <2>4, <2>5, <2>6, <2>7, TasksStay
  <2>9. Typed'
    <3>1. task' \in [Tasks -> TaskState]
      BY <2>1, <2>3 DEF IInv, Typed
    <3>2. page' \in [Nids -> {"free", "locked", "io", "append", "count"}] /\ written' \in 0 .. MaxWrites
      BY <1>2, NatCacheAssumption DEF IInv, Typed
    <3> QED
      BY <1>1, <3>1, <3>2 DEF IInv, Typed, lists, checkpoint, super, races
  <2>10. ListsOK'
    BY <1>1, <2>4, <2>5 DEF IInv, ListsOK, lists
  <2>11. CountOK'
    BY <1>1, <1>2, BusyMore DEF IInv, super
  <2>12. WalkOK' /\ SavedOK'
    BY <1>1, <2>5, OutsideCheckpoint DEF IInv, WalkOK, SavedOK, races
  <2> QED
    BY <2>8, <2>9, <2>10, <2>11, <2>12 DEF IInv
<1>3. ASSUME NEW n \in Nids \ (MetaNids \cup freed), owners[n] > 0,
             task' = [task EXCEPT ![t] = [Idle EXCEPT !.at = "walk", !.op = "free", !.nid = n]],
             UNCHANGED <<page, written>>
      PROVE  IInv'
  <2> DEFINE s == [Idle EXCEPT !.at = "walk", !.op = "free", !.nid = n]
  <2>1. s \in TaskState /\ s.at = "walk" /\ s.op = "free" /\ s.nid = n /\ ~s.retried
    BY DEF TaskState, Idle
  <2>2. owners[n] # 0
    BY <1>3 DEF IInv, Typed
  <2>3. task' = [task EXCEPT ![t] = s]
    BY <1>3
  <2> HIDE DEF s
  <2>4. Looking(s) /\ Moving(s) /\ ~Writing(s)
    BY <2>1, <2>2 DEF Looking, Moving, Writing
  <2> QED
    BY <1>1, <1>3, <2>1, <2>3, <2>4, TaskStepKeeps
<1>4. ASSUME NEW meta \in BOOLEAN, UNCHANGED <<page, written>>,
             task' = [task EXCEPT ![t] = [Idle EXCEPT !.at = "walk", !.blk = IF meta THEN 0 ELSE 1,
                                            !.op = IF meta THEN "alloc meta" ELSE "alloc"]]
      PROVE  IInv'
  <2> DEFINE s == [Idle EXCEPT !.at = "walk", !.blk = IF meta THEN 0 ELSE 1,
                               !.op = IF meta THEN "alloc meta" ELSE "alloc"]
  <2>1. s \in TaskState /\ s.at = "walk" /\ s.op \in {"alloc", "alloc meta"} /\ ~s.retried
    BY DEF TaskState, Idle
  <2>2. task' = [task EXCEPT ![t] = s]
    BY <1>4
  <2> HIDE DEF s
  <2>3. Looking(s) /\ Moving(s) /\ ~Writing(s)
    BY <2>1 DEF Looking, Moving, Writing
  <2> QED
    BY <1>1, <1>4, <2>1, <2>2, <2>3, TaskStepKeeps
<1> QED
  BY <1>2, <1>3, <1>4 DEF Begin

LEMMA FoundKeeps ==
  ASSUME IInv, NEW t \in Tasks, Found(t)
  PROVE  IInv'
<1>1. PICK old \in TaskState : task[t] = old
  BY DEF IInv, Typed
<1>2. /\ old.at = "walk" /\ old.op \in {"write", "free"} /\ old.nid \in Cached
      /\ old.nid \in Nids /\ owners[old.nid] # 0 /\ cp_phase = 0
      /\ Looking(old) /\ Moving(old)
  BY <1>1, InUse0 DEF Found, Allocates, IInv, TasksOK, Looking
<1>3. old.nid \in Listed
  BY <1>2, InUseListed
<1>4. UNCHANGED <<lists, owners, entry, raw, checkpoint, super, written, races>>
  BY DEF Found
<1>5. CASE old.op = "free"
  <2> DEFINE s == [old EXCEPT !.at = "invalidate"]
  <2>1. task' = [task EXCEPT ![t] = s] /\ page' = page
    BY <1>1, <1>5 DEF Found, At
  <2>2. s \in TaskState /\ ~Writing(s)
    BY <1>2, <1>5 DEF TaskState, Writing
  <2>3. Looking(s) /\ Moving(s)
    BY <1>2, <1>3, <1>5, <2>2 DEF Looking, Moving, TaskState
  <2> HIDE DEF s
  <2> QED
    BY <1>2, <1>4, <2>1, <2>2, <2>3, TaskStepKeeps
<1>6. CASE old.op = "write"
  <2> DEFINE n == old.nid
  <2>1. n \in Nids /\ n \in Listed /\ page[n] = "locked"
    BY <1>2, <1>3, <1>6 DEF Looking, Writing
  <2>2. task' = [task EXCEPT ![t] = Idle] /\ page' = [page EXCEPT ![n] = "io"]
    BY <1>1, <1>6 DEF Found
  <2>3. \A u \in Tasks \ {t} : Writing(task[u]) => task[u].nid # n
    BY <1>1, <1>2, <1>6 DEF IInv, TasksOK, Writing
  <2>4. \A u \in Tasks : Writing(task[u]) => task[u].nid \in Nids
    BY DEF IInv, TasksOK, Looking, Writing
  <2> HIDE DEF n
  <2>5. page'[n] = "io" /\ (\A m \in Nids : m # n => page'[m] = page[m])
    BY <2>1, <2>2 DEF IInv, Typed
  <2>6. /\ Listed' = Listed /\ Cached' = Cached /\ free_nat' = free_nat
        /\ owners' = owners /\ raced' = raced /\ cp_phase' = 0
    BY <1>2, <1>4 DEF Listed, Cached, lists, races, checkpoint
  <2>7. TasksOK'
    <3>1. Looking(Idle)' /\ Moving(Idle)'
      BY IdleIsFine DEF Looking, Moving, Writing, Idle
    <3> QED
      BY <1>2, <2>2, <2>3, <2>4, <2>5, <2>6, <3>1, IdleIsFine, TasksStay
  <2>8. Typed'
    <3>1. task' \in [Tasks -> TaskState]
      BY <2>2, IdleIsFine DEF IInv, Typed
    <3>2. page' \in [Nids -> {"free", "locked", "io", "append", "count"}]
      BY <2>2 DEF IInv, Typed
    <3> QED
      BY <1>4, <3>1, <3>2 DEF IInv, Typed, lists, checkpoint, super, races
  <2>9. ListsOK'
    BY <1>4, <2>1, <2>5, <2>6 DEF IInv, ListsOK, lists
  <2>10. CountOK'
    BY <1>4, <2>1, <2>2, BusySame DEF IInv, super
  <2>11. WalkOK' /\ SavedOK'
    BY <1>2, <1>4, <2>5, OutsideCheckpoint DEF IInv, WalkOK, SavedOK, races
  <2> QED
    BY <2>7, <2>8, <2>9, <2>10, <2>11 DEF IInv
<1> QED
  BY <1>2, <1>5, <1>6

LEMMA InvalidateKeeps ==
  ASSUME IInv, NEW t \in Tasks, Invalidate(t)
  PROVE  IInv'
<1> DEFINE n == task[t].nid
<1>1. cp_phase = 0 /\ n \in Listed /\ n \in Nids
  BY InUse0 DEF Invalidate, IInv, TasksOK, Looking
<1> HIDE DEF n
<1>2. /\ UNCHANGED <<lists, owners, raw, page, checkpoint, super, written, races>>
      /\ entry' = [entry EXCEPT ![n] = [addr |-> 0, dirty |-> TRUE]]
      /\ task' = [task EXCEPT ![t] = Idle]
  BY DEF Invalidate, n
<1>3. [addr |-> 0, dirty |-> TRUE] \in Entries
  BY DEF Entries
<1>4. entry' \in [Nids -> Entries] /\ entry'[n].dirty /\ (\A m \in Nids : m # n => entry'[m] = entry[m])
  BY <1>1, <1>2, <1>3 DEF IInv, Typed
<1>5. /\ Listed' = Listed /\ Cached' = Cached /\ free_nat' = free_nat /\ page' = page
      /\ owners' = owners /\ raced' = raced /\ cp_phase' = 0
  BY <1>1, <1>2 DEF Listed, Cached, lists, races, checkpoint
<1>6. TasksOK'
  <2>1. Looking(Idle)' /\ Moving(Idle)'
    BY IdleIsFine DEF Looking, Moving, Writing, Idle
  <2> QED
    BY <1>1, <1>2, <1>5, <2>1, IdleIsFine, TasksStay
<1>7. Typed'
  <2>1. task' \in [Tasks -> TaskState]
    BY <1>2, IdleIsFine DEF IInv, Typed
  <2> QED
    BY <1>2, <1>4, <2>1 DEF IInv, Typed, lists, checkpoint, super, races
<1>8. ListsOK'
  BY <1>1, <1>2, <1>4, <1>5 DEF IInv, ListsOK, lists
<1>9. CountOK'
  <2>1. Busy' = Busy
    BY <1>2 DEF Busy
  <2> QED
    BY <1>2, <2>1 DEF IInv, CountOK, super
<1>10. WalkOK' /\ SavedOK'
  BY <1>1, <1>2, <1>4, OutsideCheckpoint DEF IInv, WalkOK, SavedOK, races
<1> QED
  BY <1>6, <1>7, <1>8, <1>9, <1>10 DEF IInv

\* nat_list with an entry that was not on it.
LEMMA ListGrows ==
  ASSUME Typed, IsInjective(nat_list), NEW n \in Nids, n \notin Listed, nat_list' = <<n>> \o nat_list
  PROVE  nat_list' \in Seq(Nids) /\ Listed' = Listed \cup {n} /\ IsInjective(nat_list')
<1>1. PICK s : s = nat_list
  OBVIOUS
<1>2. PICK r : r = nat_list'
  OBVIOUS
<1>3. s \in Seq(Nids) /\ IsInjective(s) /\ n \notin ToSet(s) /\ r = <<n>> \o s
  BY <1>1, <1>2 DEF Typed, Listed
<1>4. r \in Seq(Nids) /\ ToSet(r) = ToSet(s) \cup {n} /\ IsInjective(r)
  BY <1>3, Prepended
<1> QED
  BY <1>1, <1>2, <1>4 DEF Listed

\* An entry that another allocation has moved already is moved once more.
LEMMA ListMoves ==
  ASSUME IInv, NEW n \in Cached, n \in Nids, free_nat' = free_nat \ {n},
         nat_list' = IF n \in free_nat THEN <<n>> \o nat_list ELSE Moved(n)
  PROVE  /\ nat_list' \in Seq(Nids) /\ Listed' = Listed \cup {n} /\ IsInjective(nat_list')
         /\ Cached' = Cached
<1>1. nat_list' \in Seq(Nids) /\ Listed' = Listed \cup {n} /\ IsInjective(nat_list')
  <2>1. CASE n \in free_nat
    BY <2>1, ListGrows DEF IInv, ListsOK
  <2>2. CASE n \notin free_nat
    <3>1. n \in Listed /\ nat_list' = Moved(n)
      BY <2>2 DEF Cached, Listed
    <3>2. nat_list' \in Seq(Nids) /\ ToSet(nat_list') = Listed /\ IsInjective(nat_list')
      BY <3>1, MovedProperties DEF IInv, ListsOK
    <3> QED
      BY <3>1, <3>2 DEF Listed
  <2> QED
    BY <2>1, <2>2
<1> QED
  BY <1>1 DEF Cached, Listed

LEMMA MoveKeeps ==
  ASSUME IInv, NEW t \in Tasks, Move(t)
  PROVE  IInv'
<1> DEFINE n == task[t].nid
<1>1. cp_phase = 0 /\ n \in Cached /\ n \in Nids /\ task[t].at = "move" /\ (~raced => n \in free_nat)
  BY InUse0 DEF Move, IInv, TasksOK, Moving
<1>2. ~raced => owners[n] = 0
  BY <1>1 DEF IInv, ListsOK
<1> HIDE DEF n
<1>3. /\ UNCHANGED <<raw, page, checkpoint, super, written, appendRaced, lost>>
      /\ free_nat' = free_nat \ {n}
      /\ nat_list' = IF n \in free_nat THEN <<n>> \o nat_list ELSE Moved(n)
      /\ owners' = [owners EXCEPT ![n] = @ + 1] /\ raced' = (raced \/ Readers # {t})
      /\ task' = [task EXCEPT ![t] = Idle]
  BY DEF Move, n
<1>4. PICK mark \in BOOLEAN :
        entry' = IF mark THEN [entry EXCEPT ![n] = [addr |-> 0, dirty |-> TRUE]] ELSE entry
  BY DEF Move, n
<1>5. [addr |-> 0, dirty |-> TRUE] \in Entries
  BY DEF Entries
<1>6. /\ entry' \in [Nids -> Entries]
      /\ \A m \in Nids : entry'[m].dirty => entry[m].dirty \/ m = n
      /\ \A m \in Nids : entry'[m] # entry[m] => entry'[m].dirty
  BY <1>1, <1>4, <1>5 DEF IInv, Typed
<1>7. nat_list' \in Seq(Nids) /\ Listed' = Listed \cup {n} /\ IsInjective(nat_list') /\ Cached' = Cached
  BY <1>1, <1>3, ListMoves
<1>8. raced' \in BOOLEAN /\ (raced => raced')
  BY <1>3 DEF IInv, Typed
<1>9. /\ owners' \in [Nids -> Nat] /\ owners'[n] = owners[n] + 1
      /\ \A m \in Nids : m # n => owners'[m] = owners[m]
      /\ \A m \in Nids : owners[m] # 0 => owners'[m] # 0
  BY <1>1, <1>3 DEF IInv, Typed
<1>10. TasksOK'
  <2>1. Looking(Idle)' /\ Moving(Idle)'
    BY IdleIsFine DEF Looking, Moving, Writing, Idle
  <2>2. ~raced' => \A u \in Tasks \ {t} : task[u].at # "move"
    BY <1>3 DEF Readers
  <2>3. cp_phase' = 0 /\ page' = page
    BY <1>1, <1>3 DEF checkpoint
  <2> QED
    BY <1>1, <1>3, <1>7, <1>8, <1>9, <2>1, <2>2, <2>3, IdleIsFine, TasksStay
<1>11. Typed'
  <2>1. task' \in [Tasks -> TaskState]
    BY <1>3, IdleIsFine DEF IInv, Typed
  <2> QED
    BY <1>3, <1>6, <1>7, <1>8, <1>9, <2>1 DEF IInv, Typed, checkpoint, super
<1>12. ListsOK'
  <2>1. Listed' \cap free_nat' = {} /\ (\A m \in free_nat' : owners'[m] = 0)
    BY <1>1, <1>3, <1>7, <1>9 DEF IInv, ListsOK, Typed
  <2>2. \A m \in Nids \ Cached' : owners'[m] = IF raw'[m] = 0 THEN 0 ELSE 1
    BY <1>1, <1>3, <1>7, <1>9 DEF IInv, ListsOK
  <2>3. /\ \A m \in Nids : entry'[m].dirty => m \in Listed'
        /\ \A m \in Nids : page'[m] = "io" => m \in Listed'
    BY <1>3, <1>6, <1>7 DEF IInv, ListsOK
  <2>4. ~raced' => \A m \in Nids : owners'[m] <= 1
    BY <1>2, <1>8, <1>9 DEF IInv, ListsOK
  <2> QED
    BY <1>7, <2>1, <2>2, <2>3, <2>4 DEF ListsOK
<1>13. CountOK'
  <2>1. Busy' = Busy
    BY <1>3 DEF Busy
  <2> QED
    BY <1>3, <2>1 DEF IInv, CountOK, super
<1>14. WalkOK' /\ SavedOK'
  <2>1. \A m \in Nids \ lost : raw'[m] = entry'[m].addr \/ entry'[m].dirty
    BY <1>1, <1>3, <1>6 DEF IInv, SavedOK
  <2> QED
    BY <1>1, <1>3, <2>1, OutsideCheckpoint DEF IInv, WalkOK
<1> QED
  BY <1>10, <1>11, <1>12, <1>13, <1>14 DEF IInv

\* What insert_nat does to the lists and the cache.
LEMMA Inserted ==
  ASSUME IInv, NEW n \in Nids, UNCHANGED <<owners, raw, page, raced>>,
         IF n \notin Cached
         THEN /\ entry' = [entry EXCEPT ![n] = [addr |-> raw[n], dirty |-> FALSE]]
              /\ IF raw[n] # 0 THEN nat_list' = <<n>> \o nat_list /\ UNCHANGED free_nat
                 ELSE free_nat' = free_nat \cup {n} /\ UNCHANGED nat_list
         ELSE UNCHANGED <<lists, entry>>
  PROVE  /\ nat_list' \in Seq(Nids) /\ free_nat' \in SUBSET Nids /\ entry' \in [Nids -> Entries]
         /\ Listed \subseteq Listed' /\ free_nat \subseteq free_nat' /\ Cached' = Cached \cup {n}
         /\ \A m \in Nids : entry'[m] = entry[m] \/ (~entry'[m].dirty /\ raw'[m] = entry'[m].addr)
         /\ ListsOK'
<1>1. CASE n \in Cached
  <2>1. lists' = lists /\ entry' = entry
    BY <1>1
  <2>2. Listed' = Listed /\ Cached' = Cached /\ nat_list' = nat_list /\ free_nat' = free_nat
    BY <2>1 DEF Listed, Cached, lists
  <2>3. ListsOK'
    BY <2>1, <2>2 DEF IInv, ListsOK
  <2> QED
    BY <1>1, <2>1, <2>2, <2>3 DEF IInv, Typed
<1>2. CASE n \notin Cached
  <2>1. entry' = [entry EXCEPT ![n] = [addr |-> raw[n], dirty |-> FALSE]]
    BY <1>2
  <2>2. raw[n] \in Nat /\ [addr |-> raw[n], dirty |-> FALSE] \in Entries
    BY DEF IInv, Typed, Entries
  <2>3. /\ entry' \in [Nids -> Entries] /\ entry'[n].addr = raw[n] /\ ~entry'[n].dirty
        /\ \A m \in Nids : m # n => entry'[m] = entry[m]
    BY <2>1, <2>2 DEF IInv, Typed
  <2>4. n \notin Listed /\ n \notin free_nat /\ page[n] # "io" /\ owners[n] = IF raw[n] = 0 THEN 0 ELSE 1
    BY <1>2 DEF IInv, ListsOK, Cached, Listed
  <2>5. CASE raw[n] # 0
    <3>1. nat_list' = <<n>> \o nat_list /\ free_nat' = free_nat
      BY <1>2, <2>5
    <3>2. nat_list' \in Seq(Nids) /\ Listed' = Listed \cup {n} /\ IsInjective(nat_list')
      BY <2>4, <3>1, ListGrows DEF IInv, ListsOK
    <3>3. Cached' = Cached \cup {n}
      BY <3>1, <3>2 DEF Cached, Listed
    <3>4. ListsOK'
      BY <2>3, <2>4, <3>1, <3>2, <3>3 DEF IInv, ListsOK
    <3> QED
      BY <2>3, <3>1, <3>2, <3>3, <3>4 DEF IInv, Typed
  <2>6. CASE raw[n] = 0
    <3>1. nat_list' = nat_list /\ free_nat' = free_nat \cup {n}
      BY <1>2, <2>6
    <3>2. Listed' = Listed /\ Cached' = Cached \cup {n}
      BY <3>1 DEF Cached, Listed
    <3>3. ListsOK'
      BY <2>3, <2>4, <2>6, <3>1, <3>2 DEF IInv, ListsOK
    <3> QED
      BY <2>3, <3>1, <3>2, <3>3 DEF IInv, Typed
  <2> QED
    BY <2>5, <2>6
<1> QED
  BY <1>1, <1>2

LEMMA InsertKeeps ==
  ASSUME IInv, NEW t \in Tasks, insert_nat(t)
  PROVE  IInv'
<1>1. PICK old \in TaskState : task[t] = old
  BY DEF IInv, Typed
<1>2. /\ old.at = "fill" /\ cp_phase = 0 /\ Looking(old) /\ Moving(old)
      /\ old.todo # {} /\ old.op \in {"write", "free", "alloc", "alloc meta"}
  BY <1>1, InUse0 DEF insert_nat, IInv, TasksOK, Looking
<1>3. PICK n : n = CHOOSE m \in task[t].todo : TRUE
  OBVIOUS
<1>4. n \in old.todo /\ n \in Nids
  BY <1>1, <1>2, <1>3 DEF TaskState
<1>5. UNCHANGED <<owners, freed, raw, page, checkpoint, super, written, races>>
  BY DEF insert_nat
<1>6. IF n \notin Cached
      THEN /\ entry' = [entry EXCEPT ![n] = [addr |-> raw[n], dirty |-> FALSE]]
           /\ IF raw[n] # 0 THEN nat_list' = <<n>> \o nat_list /\ UNCHANGED free_nat
              ELSE free_nat' = free_nat \cup {n} /\ UNCHANGED nat_list
      ELSE UNCHANGED <<lists, entry>>
  BY <1>3 DEF insert_nat, IsNew, InUse
<1>7. /\ nat_list' \in Seq(Nids) /\ free_nat' \in SUBSET Nids /\ entry' \in [Nids -> Entries]
      /\ Listed \subseteq Listed' /\ free_nat \subseteq free_nat' /\ Cached' = Cached \cup {n}
      /\ \A m \in Nids : entry'[m] = entry[m] \/ (~entry'[m].dirty /\ raw'[m] = entry'[m].addr)
      /\ ListsOK'
  BY <1>4, <1>5, <1>6, Inserted DEF races
<1> DEFINE onward == [old EXCEPT !.todo = @ \ {n}]
           alloc == old.op \in {"alloc", "alloc meta"}
           again == [old EXCEPT !.at = "walk", !.todo = {}, !.retried = ~alloc,
                                !.blk = IF alloc THEN @ + 1 ELSE 0]
           s == IF old.todo # {n} THEN onward ELSE again
<1>8. task' = [task EXCEPT ![t] = s]
  <2>1. CASE old.todo # {n}
    BY <1>1, <1>3, <2>1 DEF insert_nat, IInv, Typed
  <2>2. CASE old.todo = {n}
    BY <1>1, <1>3, <2>2 DEF insert_nat, Allocates, IInv, Typed
  <2> QED
    BY <2>1, <2>2
<1>9. /\ s \in TaskState /\ s.op = old.op /\ s.nid = old.nid
      /\ \/ s.at = "fill" /\ s.todo = old.todo \ {n} /\ s.todo # {} /\ (s.retried <=> old.retried)
         \/ s.at = "walk" /\ (s.retried <=> ~alloc) /\ old.todo = {n}
  <2>1. CASE old.todo # {n}
    <3>1. /\ onward \in TaskState /\ onward.op = old.op /\ onward.nid = old.nid /\ onward.at = "fill"
          /\ onward.todo = old.todo \ {n} /\ (onward.retried <=> old.retried)
      BY <1>2 DEF TaskState
    <3>2. old.todo \ {n} # {}
      BY <1>4, <2>1
    <3>3. s = onward
      BY <2>1
    <3> HIDE DEF s, onward, again
    <3> QED
      BY <3>1, <3>2, <3>3
  <2>2. CASE old.todo = {n}
    <3>1. /\ again \in TaskState /\ again.op = old.op /\ again.nid = old.nid /\ again.at = "walk"
          /\ (again.retried <=> ~alloc)
      <4>1. CASE alloc
        <5>1. again = [old EXCEPT !.at = "walk", !.todo = {}, !.retried = FALSE, !.blk = old.blk + 1]
          BY <4>1
        <5>2. old.blk \in Nat
          <6> HIDE DEF s, onward, again, alloc
          <6> QED
            BY DEF TaskState
        <5> HIDE DEF again
        <5>3. again \in TaskState /\ again.op = old.op /\ again.nid = old.nid /\ again.at = "walk"
          <6>1. old.blk + 1 \in Nat
            BY <5>2
          <6> QED
            BY <5>1, <6>1 DEF TaskState
        <5>4. again.retried = FALSE
          BY <5>1 DEF TaskState
        <5> QED
          BY <4>1, <5>3, <5>4
      <4>2. CASE ~alloc
        <5>1. again = [old EXCEPT !.at = "walk", !.todo = {}, !.retried = TRUE, !.blk = 0]
          BY <4>2
        <5> HIDE DEF again
        <5> QED
          BY <4>2, <5>1 DEF TaskState
      <4> QED
        BY <4>1, <4>2
    <3>2. s = again
      BY <2>2
    <3> HIDE DEF s, onward, again, alloc
    <3> QED
      BY <2>2, <3>1, <3>2
  <2> QED
    BY <2>1, <2>2
<1> HIDE DEF s, onward, again
<1>10. Looking(s)' /\ Moving(s)'
  <2>1. PICK x \in TaskState : x = s
    BY <1>9
  <2>2. /\ x.op = old.op /\ x.nid = old.nid
        /\ \/ x.at = "fill" /\ x.todo = old.todo \ {n} /\ x.todo # {} /\ (x.retried <=> old.retried)
           \/ x.at = "walk" /\ (x.retried <=> ~alloc) /\ old.todo = {n}
    BY <1>9, <2>1
  <2>3. Moving(x)'
    BY <2>2 DEF Moving
  <2>4. x.op \in {"write", "free"} => x.nid \in Nids /\ owners'[x.nid] # 0 /\ x.nid \in old.todo \cup Cached
    BY <1>2, <1>5, <2>2 DEF Looking
  <2>5. Writing(x) => page'[x.nid] = "locked"
    BY <1>2, <1>5, <2>2 DEF Looking, Writing
  <2>6. x.op \notin {"write", "free"} => ~x.retried
    BY <1>2, <2>2 DEF Looking
  <2>7. Looking(x)'
    BY <1>2, <1>7, <2>2, <2>4, <2>5, <2>6 DEF Looking, Writing
  <2> QED
    BY <2>1, <2>3, <2>7
<1>11. TasksOK'
  <2>1. Writing(s) => \A u \in Tasks \ {t} : ~(Writing(task[u]) /\ task[u].nid = s.nid)
    <3>1. Writing(s) => Writing(task[t])
      BY <1>1, <1>2, <1>9 DEF Writing
    <3> QED
      BY <1>1, <1>9, <3>1 DEF IInv, TasksOK
  <2>2. cp_phase' = 0 /\ page' = page /\ owners' = owners /\ raced' = raced
    BY <1>2, <1>5 DEF checkpoint, races
  <2> QED
    BY <1>2, <1>7, <1>8, <1>9, <1>10, <2>1, <2>2, TasksStay
<1>12. Typed'
  <2>1. task' \in [Tasks -> TaskState]
    BY <1>8, <1>9 DEF IInv, Typed
  <2> QED
    BY <1>5, <1>7, <2>1 DEF IInv, Typed, checkpoint, super, races
<1>13. CountOK'
  <2>1. Busy' = Busy
    BY <1>5 DEF Busy
  <2> QED
    BY <1>5, <2>1 DEF IInv, CountOK, super
<1>14. WalkOK' /\ SavedOK'
  <2>1. \A m \in Nids \ lost : raw'[m] = entry'[m].addr \/ entry'[m].dirty
    BY <1>2, <1>5, <1>7 DEF IInv, SavedOK
  <2> QED
    BY <1>2, <1>5, <2>1, OutsideCheckpoint DEF IInv, WalkOK, races
<1> QED
  BY <1>7, <1>11, <1>12, <1>13, <1>14 DEF IInv

-----------------------------------------------------------------------------
(* Completions. *)

\* The tasks' invariant in a step of nobody's.
LEMMA TasksUntouched ==
  ASSUME Typed, TasksOK, UNCHANGED <<task, owners, free_nat, raced>>, Listed' = Listed, Cached' = Cached,
         \A m \in Nids : page[m] = "locked" => page'[m] = "locked",
         cp_phase' # 0 => (\A t \in Tasks : task[t] = Idle)
  PROVE  TasksOK'
<1>1. ASSUME NEW t \in Tasks PROVE Looking(task[t])' /\ Moving(task[t])'
  <2>1. PICK x \in TaskState : task[t] = x /\ Looking(x) /\ Moving(x)
    BY DEF Typed, TasksOK
  <2>2. Looking(x)' /\ Moving(x)'
    <3>1. Writing(x) => x.nid \in Nids
      BY <2>1 DEF Looking, Writing
    <3> QED
      BY <2>1, <3>1 DEF Looking, Moving, Writing
  <2>3. task'[t] = x
    BY <2>1
  <2> QED
    BY <2>2, <2>3 DEF Looking, Moving, Writing
<1>2. \A t, u \in Tasks : Writing(task'[t]) /\ Writing(task'[u]) /\ task'[t].nid = task'[u].nid => t = u
  BY DEF TasksOK
<1> QED
  BY <1>1, <1>2 DEF TasksOK, Writing

\* What the walk still comes to, by position.
LEMMA RestFrom ==
  ASSUME Typed, IsInjective(nat_list), NEW j \in 1 .. Len(nat_list), walk.it = nat_list[j], walk.it # End
  PROVE  Rest = {nat_list[i] : i \in j .. Len(nat_list)}
<1>1. Position(walk.it) = j
  BY FoundAt DEF Position, Typed
<1>2. {i \in DOMAIN nat_list : i >= j} = j .. Len(nat_list)
  BY AtPosition
<1> QED
  BY <1>1, <1>2 DEF Rest

LEMMA RestFromNext ==
  ASSUME nat_list' \in Seq(Nids), IsInjective(nat_list'), NEW j \in 1 .. Len(nat_list'),
         walk'.it = nat_list'[j], walk'.it # End
  PROVE  Rest' = {nat_list'[i] : i \in j .. Len(nat_list')}
<1>1. Position(walk.it)' = j
  BY FoundAt DEF Position
<1>2. {i \in DOMAIN nat_list' : i >= j} = j .. Len(nat_list')
  BY LenProperties
<1> QED
  BY <1>1, <1>2 DEF Rest

\* An entry that is moved to the front leaves what is before the walk there.
LEMMA RestMoved ==
  ASSUME Typed, IsInjective(nat_list), NEW n \in Listed, nat_list' = Moved(n),
         walk' = walk, walk.it \in Listed \cup {End}, NEW m \in Rest, m # n
  PROVE  m \in Rest'
<1> DEFINE k == Position(n)
           L == Len(nat_list)
<1>1. walk.it # End /\ walk.it \in Listed
  BY DEF Rest
<1>2. PICK j \in 1 .. L : walk.it = nat_list[j]
  BY <1>1, AtPosition DEF Listed, ToSet
<1>3. PICK i \in j .. L : m = nat_list[i]
  BY <1>1, <1>2, RestFrom
<1>4. /\ nat_list' \in Seq(Nids) /\ Len(nat_list') = L /\ nat_list'[1] = n /\ IsInjective(nat_list')
      /\ \A x \in 1 .. k - 1 : nat_list'[x + 1] = nat_list[x]
      /\ \A x \in k + 1 .. L : nat_list'[x] = nat_list[x]
  BY MovedProperties
<1>5. k \in 1 .. L /\ nat_list[k] = n /\ L \in Nat
  BY PositionOf, AtPosition
<1> HIDE DEF k, L
<1>6. i \in 1 .. L /\ i # k
  BY <1>2, <1>3, <1>5
<1>7. PICK z \in 1 .. L : nat_list'[z] = m /\ (i < k => z = i + 1) /\ (i > k => z = i)
  <2>1. CASE i < k
    BY <1>3, <1>4, <1>5, <1>6, <2>1
  <2>2. CASE i > k
    BY <1>3, <1>4, <1>5, <1>6, <2>2
  <2> QED
    BY <1>5, <1>6, <2>1, <2>2
<1>8. PICK y \in 1 .. z : nat_list'[y] = walk.it
  <2>1. CASE j = k
    BY <1>2, <1>4, <1>5, <1>7, <2>1
  <2>2. CASE j < k
    <3>1. j + 1 \in 1 .. z /\ j \in 1 .. k - 1
      BY <1>2, <1>3, <1>5, <1>6, <1>7, <2>2
    <3> QED
      BY <1>2, <1>4, <3>1
  <2>3. CASE j > k
    <3>1. j \in 1 .. z /\ j \in k + 1 .. L
      BY <1>2, <1>3, <1>5, <1>6, <1>7, <2>3
    <3> QED
      BY <1>2, <1>4, <3>1
  <2> QED
    BY <1>2, <1>5, <2>1, <2>2, <2>3
<1>9. y \in 1 .. Len(nat_list') /\ z \in y .. Len(nat_list')
  BY <1>4, <1>5, <1>7, <1>8
<1>10. Rest' = {nat_list'[x] : x \in y .. Len(nat_list')}
  BY <1>1, <1>4, <1>8, <1>9, RestFromNext
<1> QED
  BY <1>7, <1>9, <1>10

LEMMA UpdateKeeps ==
  ASSUME IInv, NEW n \in Nids, update_nat(n)
  PROVE  IInv'
<1>1. page[n] = "io" /\ n \in Listed /\ cp_phase # 3
  BY DEF update_nat, IInv, ListsOK, WalkOK, Quiet
<1>2. /\ UNCHANGED <<free_nat, task, owners, freed, raw, checkpoint, super, written, raced, appendRaced>>
      /\ nat_list' = Moved(n) /\ entry' = [entry EXCEPT ![n] = [addr |-> SuperAddr + written, dirty |-> TRUE]]
      /\ lost' = lost \ {n}
      /\ page' = [page EXCEPT ![n] = IF cp_phase = 2 THEN "append" ELSE "free"]
  BY <1>1 DEF update_nat, Listed, InPhase2
<1>3. nat_list' \in Seq(Nids) /\ Listed' = Listed /\ IsInjective(nat_list')
  BY <1>1, <1>2, MovedProperties DEF IInv, ListsOK, Listed
<1>4. Cached' = Cached
  BY <1>2, <1>3 DEF Cached, Listed
<1>5. /\ entry' \in [Nids -> Entries] /\ entry'[n].dirty
      /\ \A m \in Nids : m # n => entry'[m] = entry[m]
  <2>1. [addr |-> SuperAddr + written, dirty |-> TRUE] \in Entries
    BY DEF IInv, Typed, Entries, SuperAddr
  <2> QED
    BY <1>2, <2>1 DEF IInv, Typed
<1>6. /\ page'[n] = (IF cp_phase = 2 THEN "append" ELSE "free")
      /\ \A m \in Nids : m # n => page'[m] = page[m]
      /\ page' \in [Nids -> {"free", "locked", "io", "append", "count"}]
  BY <1>2 DEF IInv, Typed
<1>7. /\ cp_phase' = cp_phase /\ walk' = walk /\ restarts' = restarts /\ meta_nat' = meta_nat /\ cnt' = cnt
      /\ raced' = raced /\ appendRaced' = appendRaced /\ raw' = raw /\ written' = written
  BY <1>2 DEF checkpoint, super
<1>8. Typed'
  BY <1>2, <1>3, <1>5, <1>6, <1>7 DEF IInv, Typed
<1>9. ListsOK'
  BY <1>1, <1>2, <1>3, <1>4, <1>5, <1>6, <1>7 DEF IInv, ListsOK
<1>10. TasksOK'
  BY <1>1, <1>2, <1>3, <1>4, <1>6, <1>7, TasksUntouched DEF IInv, TasksOK
<1>11. CountOK'
  BY <1>1, <1>2, <1>7, BusySame, BusyLess DEF IInv
<1>12. WalkOK'
  BY <1>1, <1>3, <1>6, <1>7 DEF IInv, WalkOK
<1>13. SavedOK'
  <2>1. cp_phase' \in {0, 1} => \A m \in Nids \ lost' : raw'[m] = entry'[m].addr \/ entry'[m].dirty
    BY <1>2, <1>5, <1>7 DEF IInv, SavedOK
  <2>2. ASSUME ~appendRaced', NEW m \in Nids, page'[m] = "count"
        PROVE  meta_nat'[cnt' + 1] = [nid |-> m, addr |-> entry'[m].addr]
    BY <1>5, <1>6, <1>7, <2>2 DEF IInv, SavedOK
  <2>3. ASSUME cp_phase' \in {2, 3}, ~appendRaced', NEW m \in Nids PROVE Saved(m)'
    <3>1. CASE m = n
      BY <1>1, <1>6, <1>7, <2>3, <3>1 DEF Saved, OnItsWay
    <3>2. CASE m # n
      <4>1. Saved(m)
        BY <1>7, <2>3 DEF IInv, SavedOK
      <4>2. Recovered(m)' = Recovered(m) /\ Appended(m)' = Appended(m) /\ OnItsWay(m)' = OnItsWay(m)
        BY <1>6, <1>7, <3>2 DEF Recovered, Appended, OnItsWay
      <4>3. Ahead(m) => Ahead(m)'
        BY <1>1, <1>2, <1>7, <3>2, RestMoved DEF IInv, ListsOK, WalkOK, Ahead
      <4> QED
        BY <1>2, <1>5, <1>7, <3>2, <4>1, <4>2, <4>3 DEF Saved
    <3> QED
      BY <3>1, <3>2
  <2>4. ASSUME walk'.copied, ~appendRaced'
        PROVE  raw'[walk'.ne] = entry'[walk'.ne].addr \/ OnItsWay(walk.ne)' \/ Appended(walk.ne)' # {}
    <3>1. cp_phase = 2 /\ walk.ne \in Nids
      BY <1>7, <2>4, AtPosition DEF IInv, WalkOK
    <3>2. CASE walk.ne = n
      BY <1>6, <1>7, <3>1, <3>2 DEF OnItsWay
    <3>3. CASE walk.ne # n
      BY <1>5, <1>6, <1>7, <2>4, <3>1, <3>3 DEF IInv, SavedOK, OnItsWay, Appended
    <3> QED
      BY <3>2, <3>3
  <2>5. \A m \in Nids : HasLast(Appended(m))'
    BY <1>7 DEF IInv, SavedOK, Appended, HasLast
  <2> QED
    BY <2>1, <2>2, <2>3, <2>4, <2>5 DEF SavedOK
<1> QED
  BY <1>8, <1>9, <1>10, <1>11, <1>12, <1>13 DEF IInv

\* A step of the page of one node, outside phase 3, beside the tasks.
LEMMA PageStepKeeps ==
  ASSUME IInv, NEW n \in Nids, UNCHANGED <<ops, entry, raw, checkpoint>>,
         UNCHANGED <<raced, lost>>,
         NEW x \in {"free", "io", "append", "count"}, page' = [page EXCEPT ![n] = x],
         x = "io" => n \in Listed, page[n] # "locked"
  PROVE  /\ page'[n] = x /\ (\A m \in Nids : m # n => page'[m] = page[m])
         /\ page' \in [Nids -> {"free", "locked", "io", "append", "count"}]
         /\ Listed' = Listed /\ Rest' = Rest /\ ListsOK' /\ TasksOK'
         /\ UNCHANGED <<nat_list, free_nat, task, owners, cp_phase, walk, restarts>>
<1>1. UNCHANGED <<nat_list, free_nat, task, owners, cp_phase, walk, restarts>>
  BY DEF ops, lists, checkpoint
<1>2. Listed' = Listed /\ Cached' = Cached /\ Rest' = Rest
  BY <1>1 DEF Listed, Cached, Rest, Position
<1>3. /\ page'[n] = x /\ (\A m \in Nids : m # n => page'[m] = page[m])
      /\ page' \in [Nids -> {"free", "locked", "io", "append", "count"}]
  BY DEF IInv, Typed
<1>4. ListsOK'
  BY <1>1, <1>2, <1>3 DEF IInv, ListsOK
<1>5. TasksOK'
  BY <1>1, <1>2, <1>3, TasksUntouched DEF IInv, TasksOK
<1> QED
  BY <1>1, <1>2, <1>3, <1>4, <1>5

LEMMA WriteKeeps ==
  ASSUME IInv, NEW n \in MetaNids, WriteMetaNode(n)
  PROVE  IInv'
<1>1. /\ n \in Nids /\ n \in Listed /\ page[n] = "free" /\ cp_phase \in {1, 2} /\ written < MaxWrites
      /\ page' = [page EXCEPT ![n] = "io"] /\ written' = written + 1
      /\ UNCHANGED <<ops, entry, raw, checkpoint, super, races>>
  BY NatCacheAssumption DEF WriteMetaNode, Listed
<1>2. /\ page'[n] = "io" /\ (\A m \in Nids : m # n => page'[m] = page[m])
      /\ page' \in [Nids -> {"free", "locked", "io", "append", "count"}]
      /\ Listed' = Listed /\ Rest' = Rest /\ ListsOK' /\ TasksOK'
      /\ UNCHANGED <<nat_list, free_nat, task, owners, cp_phase, walk, restarts>>
  BY <1>1, PageStepKeeps DEF races
<1>3. UNCHANGED <<meta_nat, cnt, raced, appendRaced, lost, entry, raw>>
  BY <1>1 DEF super, races
<1>4. Typed'
  <2>1. written' \in 0 .. MaxWrites
    BY <1>1, NatCacheAssumption DEF IInv, Typed
  <2> QED
    BY <1>2, <1>3, <2>1 DEF IInv, Typed
<1>5. CountOK'
  BY <1>1, <1>3, BusyMore DEF IInv
<1>6. WalkOK'
  BY <1>1, <1>2, <1>3 DEF IInv, WalkOK
<1>7. SavedOK'
  <2>1. \A m \in Nids : /\ Recovered(m)' = Recovered(m) /\ Appended(m)' = Appended(m)
                         /\ (OnItsWay(m)' <=> OnItsWay(m)) /\ (Ahead(m)' <=> Ahead(m))
    BY <1>1, <1>2, <1>3 DEF Recovered, Appended, OnItsWay, Ahead
  <2>2. \A m \in Nids : Saved(m) => Saved(m)'
    BY <1>2, <1>3, <2>1 DEF Saved
  <2>3. \A m \in Nids : page'[m] = "count" => page[m] = "count"
    BY <1>2
  <2>4. walk.copied => walk.ne \in Nids
    BY AtPosition DEF IInv, WalkOK
  <2> QED
    BY <1>2, <1>3, <2>1, <2>2, <2>3, <2>4 DEF IInv, SavedOK, HasLast
<1> QED
  BY <1>2, <1>4, <1>5, <1>6, <1>7 DEF IInv

LEMMA AppendSlotKeeps ==
  ASSUME IInv, NEW n \in Nids, AppendSlot(n)
  PROVE  IInv'
<1> DEFINE slot == [nid |-> n, addr |-> entry[n].addr]
<1>1. /\ page[n] = "append" /\ meta_nat' = [meta_nat EXCEPT ![cnt + 1] = slot]
      /\ page' = [page EXCEPT ![n] = "count"]
      /\ appendRaced' = (appendRaced \/ \E m \in Nids \ {n} : page[m] = "count")
      /\ UNCHANGED <<ops, entry, raw, checkpoint, cnt, written, raced, lost>>
  BY DEF AppendSlot
<1>2. /\ page'[n] = "count" /\ (\A m \in Nids : m # n => page'[m] = page[m])
      /\ page' \in [Nids -> {"free", "locked", "io", "append", "count"}]
      /\ Listed' = Listed /\ Rest' = Rest /\ ListsOK' /\ TasksOK'
      /\ UNCHANGED <<nat_list, free_nat, task, owners, cp_phase, walk, restarts>>
  BY <1>1, PageStepKeeps
<1>3. cp_phase = 2
  BY <1>1 DEF IInv, Typed, WalkOK, Quiet
<1>4. cnt + 1 \in 1 .. MaxWrites + 2
  <2>1. Cardinality(Busy) \in Nat
    BY FS_CardinalityType DEF IInv, CountOK
  <2> QED
    BY <2>1, NatCacheAssumption DEF IInv, CountOK, Typed
<1>5. slot \in Slots
  BY DEF IInv, Typed, Entries, Slots
<1> HIDE DEF slot
<1>6. /\ meta_nat' \in [1 .. MaxWrites + 2 -> Slots] /\ meta_nat'[cnt + 1] = slot
      /\ \A k \in 1 .. cnt : meta_nat'[k] = meta_nat[k]
  BY <1>1, <1>4, <1>5 DEF IInv, Typed
<1>7. /\ appendRaced' \in BOOLEAN
      /\ ~appendRaced' => ~appendRaced /\ \A m \in Nids \ {n} : page[m] # "count"
  BY <1>1 DEF IInv, Typed
<1>8. Typed'
  BY <1>1, <1>2, <1>6, <1>7 DEF IInv, Typed
<1>9. CountOK'
  BY <1>1, BusySame DEF IInv
<1>10. WalkOK'
  BY <1>1, <1>2, <1>3, <1>7 DEF IInv, WalkOK
<1>11. SavedOK'
  <2>1. \A m \in Nids : /\ Recovered(m)' = Recovered(m) /\ Appended(m)' = Appended(m)
                         /\ (OnItsWay(m)' <=> OnItsWay(m)) /\ (Ahead(m)' <=> Ahead(m))
    <3>1. ASSUME NEW m \in Nids PROVE Appended(m)' = Appended(m)
      BY <1>1, <1>6 DEF Appended
    <3>2. ASSUME NEW m \in Nids PROVE Recovered(m)' = Recovered(m)
      <4>1. /\ Recovered(m) = IF Appended(m) = {} THEN raw[m] ELSE meta_nat[Max(Appended(m))].addr
            /\ Recovered(m)' = IF Appended(m)' = {} THEN raw'[m] ELSE meta_nat'[Max(Appended(m)')].addr
        BY DEF Recovered, Appended
      <4>2. Appended(m) # {} => Max(Appended(m)) \in Appended(m)
        BY DEF Max, IInv, SavedOK, HasLast
      <4> QED
        <5>1. Appended(m) # {} => Max(Appended(m)) \in 1 .. cnt
          BY <4>2 DEF Appended
        <5> QED
          BY <1>1, <1>6, <3>1, <4>1, <5>1
    <3> QED
      BY <1>1, <1>2, <3>1, <3>2 DEF OnItsWay, Ahead
  <2>2. \A m \in Nids : Saved(m) => Saved(m)'
    BY <1>1, <1>2, <2>1 DEF Saved
  <2>3. ASSUME ~appendRaced', NEW m \in Nids, page'[m] = "count" PROVE m = n
    BY <1>2, <1>7, <2>3
  <2>4. walk.copied => walk.ne \in Nids
    BY AtPosition DEF IInv, WalkOK
  <2>5. meta_nat'[cnt' + 1] = [nid |-> n, addr |-> entry'[n].addr]
    BY <1>1, <1>6 DEF slot
  <2> QED
    BY <1>1, <1>2, <1>7, <2>1, <2>2, <2>3, <2>4, <2>5 DEF IInv, SavedOK, HasLast
<1> QED
  BY <1>2, <1>8, <1>9, <1>10, <1>11 DEF IInv

LEMMA AppendCountKeeps ==
  ASSUME IInv, NEW n \in Nids, AppendCount(n)
  PROVE  IInv'
<1>1. /\ page[n] = "count" /\ cnt' = cnt + 1 /\ page' = [page EXCEPT ![n] = "free"]
      /\ UNCHANGED <<ops, entry, raw, checkpoint, meta_nat, written, races>>
  BY DEF AppendCount
<1>2. /\ page'[n] = "free" /\ (\A m \in Nids : m # n => page'[m] = page[m])
      /\ page' \in [Nids -> {"free", "locked", "io", "append", "count"}]
      /\ Listed' = Listed /\ Rest' = Rest /\ ListsOK' /\ TasksOK'
      /\ UNCHANGED <<nat_list, free_nat, task, owners, cp_phase, walk, restarts>>
  BY <1>1, PageStepKeeps DEF races
<1>3. UNCHANGED <<entry, raw, meta_nat, written, raced, appendRaced, lost>> /\ cnt \in Nat
  BY <1>1 DEF races, IInv, Typed
<1>4. cp_phase = 2
  BY <1>1 DEF IInv, Typed, WalkOK, Quiet
<1>5. Typed'
  BY <1>1, <1>2, <1>3 DEF IInv, Typed
<1>6. CountOK'
  BY <1>1, <1>3, BusyLess DEF IInv
<1>7. WalkOK'
  BY <1>1, <1>2, <1>3, <1>4 DEF IInv, WalkOK
<1>8. SavedOK'
  <2>1. ASSUME NEW m \in Nids
        PROVE  Appended(m)' = IF meta_nat[cnt + 1].nid = m THEN Appended(m) \cup {cnt + 1} ELSE Appended(m)
    <3>1. 1 .. cnt' = (1 .. cnt) \cup {cnt + 1}
      BY <1>1, <1>3
    <3> QED
      BY <1>3, <3>1 DEF Appended
  <2>2. ASSUME NEW m \in Nids PROVE HasLast(Appended(m)')
    <3>1. CASE meta_nat[cnt + 1].nid = m
      <4>1. \A j \in Appended(m)' : cnt + 1 >= j
        BY <1>3, <2>1, <3>1 DEF Appended
      <4>2. cnt + 1 \in Appended(m)'
        BY <2>1, <3>1
      <4> QED
        BY <4>1, <4>2 DEF HasLast
    <3>2. CASE meta_nat[cnt + 1].nid # m
      BY <2>1, <3>2 DEF IInv, SavedOK
    <3> QED
      BY <3>1, <3>2
  <2>3. \A m \in Nids : HasLast(Appended(m))'
    BY <2>2 DEF HasLast
  <2>4. ASSUME ~appendRaced
        PROVE  /\ meta_nat[cnt + 1] = [nid |-> n, addr |-> entry[n].addr]
               /\ \A m \in Nids : m # n => page[m] # "count"
    BY <1>1, <2>4 DEF IInv, SavedOK, WalkOK
  <2>5. ASSUME ~appendRaced, NEW m \in Nids PROVE Saved(m)'
    <3>1. /\ Recovered(m) = IF Appended(m) = {} THEN raw[m] ELSE meta_nat[Max(Appended(m))].addr
          /\ Recovered(m)' = IF Appended(m)' = {} THEN raw'[m] ELSE meta_nat'[Max(Appended(m)')].addr
      BY DEF Recovered, Appended
    <3>2. CASE m = n
      <4>1. Appended(n)' = Appended(n) \cup {cnt + 1}
        BY <2>1, <2>4, <2>5
      <4>2. \A j \in Appended(n)' : j \in 1 .. cnt + 1
        BY <1>3, <4>1 DEF Appended
      <4>3. Max(Appended(n)') \in Appended(n)' /\ Max(Appended(n)') >= cnt + 1
        BY <2>3, <4>1 DEF HasLast, Max
      <4>4. Max(Appended(n)') = cnt + 1
        BY <1>3, <4>2, <4>3
      <4>5. Recovered(n)' = entry'[n].addr
        BY <1>3, <2>4, <2>5, <3>1, <3>2, <4>1, <4>4
      <4> QED
        BY <3>2, <4>5 DEF Saved
    <3>3. CASE m # n
      <4>1. Appended(m)' = Appended(m)
        BY <2>1, <2>4, <2>5, <3>3
      <4>2. Recovered(m)' = Recovered(m)
        BY <1>3, <3>1, <4>1
      <4>3. (OnItsWay(m)' <=> OnItsWay(m)) /\ (Ahead(m)' <=> Ahead(m))
        BY <1>2, <3>3 DEF OnItsWay, Ahead
      <4>4. Saved(m)
        BY <1>4, <2>5 DEF IInv, SavedOK
      <4> QED
        BY <1>2, <1>3, <4>1, <4>2, <4>3, <4>4 DEF Saved
    <3> QED
      BY <3>2, <3>3
  <2>6. ASSUME walk.copied, ~appendRaced
        PROVE  raw'[walk'.ne] = entry'[walk'.ne].addr \/ OnItsWay(walk.ne)' \/ Appended(walk.ne)' # {}
    <3>1. walk.ne \in Nids /\ walk' = walk
      BY <1>2, <2>6, AtPosition DEF IInv, WalkOK
    <3>2. CASE walk.ne = n
      <4>1. Appended(n)' # {}
        BY <2>1, <2>4, <2>6
      <4>2. Appended(walk.ne)' = Appended(n)'
        BY <3>1, <3>2 DEF Appended
      <4> QED
        BY <4>1, <4>2
    <3>3. CASE walk.ne # n
      <4>1. PICK w \in Nids : w = walk.ne
        BY <3>1
      <4>2. raw[w] = entry[w].addr \/ OnItsWay(w) \/ Appended(w) # {}
        <5>1. Appended(w) = Appended(walk.ne) /\ (OnItsWay(w) <=> OnItsWay(walk.ne))
          BY <4>1
        <5> QED
          BY <2>6, <4>1, <5>1 DEF IInv, SavedOK
      <4>3. Appended(w)' # {} \/ Appended(w) = {}
        BY <2>1
      <4>4. OnItsWay(w)' <=> OnItsWay(w)
        BY <1>2, <3>3, <4>1 DEF OnItsWay
      <4>5. Appended(walk.ne)' = Appended(w)' /\ (OnItsWay(walk.ne)' <=> OnItsWay(w)')
        BY <3>1, <4>1 DEF Appended, OnItsWay
      <4> QED
        BY <1>3, <3>1, <4>1, <4>2, <4>3, <4>4, <4>5
    <3> QED
      BY <3>2, <3>3
  <2>7. ~appendRaced => \A m \in Nids : page'[m] # "count"
    BY <1>2, <2>4
  <2> QED
    BY <1>2, <1>3, <1>4, <2>3, <2>5, <2>6, <2>7 DEF SavedOK
<1> QED
  BY <1>2, <1>5, <1>6, <1>7, <1>8 DEF IInv

-----------------------------------------------------------------------------
(* The checkpoint. *)

\* The walk comes to every entry that is not before the one it goes to.
LEMMA WalkGoesOn ==
  ASSUME Typed, IsInjective(nat_list), NEW n \in Listed \cup {End}, nat_list' = nat_list, walk' = WalkTo(n)
  PROVE  /\ walk' \in [ne : Nids \cup {None}, it : Nids \cup {None}, copied : BOOLEAN]
         /\ walk'.ne = n /\ ~walk'.copied /\ walk'.it \in Listed \cup {End} /\ (n = End => walk'.it = End)
         /\ n # End => \A j \in 1 .. Len(nat_list) : nat_list[j] = n =>
               \A i \in j .. Len(nat_list) : nat_list[i] = walk'.ne \/ nat_list[i] \in Rest'
<1>1. CASE n = End
  BY <1>1 DEF WalkTo, End
<1>2. CASE n # End
  <2>1. n \in Listed /\ Listed \subseteq Nids
    BY <1>2, AtPosition
  <2>2. walk' = [ne |-> n, it |-> Following(n), copied |-> FALSE]
    BY <1>2 DEF WalkTo
  <2>3. PICK k \in 1 .. Len(nat_list) : k = Position(n) /\ nat_list[k] = n
    BY <2>1, PositionOf
  <2>4. Len(nat_list) \in Nat /\ (\A i \in 1 .. Len(nat_list) : nat_list[i] \in Listed /\ nat_list[i] \in Nids)
    BY AtPosition
  <2>5. Following(n) = IF k = Len(nat_list) THEN End ELSE nat_list[k + 1]
    BY <2>3 DEF Following
  <2>6. Following(n) \in Listed \cup {End}
    BY <2>3, <2>4, <2>5
  <2>7. /\ walk' \in [ne : Nids \cup {None}, it : Nids \cup {None}, copied : BOOLEAN]
        /\ walk'.ne = n /\ ~walk'.copied /\ walk'.it = Following(n)
    BY <2>1, <2>2, <2>6 DEF End
  <2>8. ASSUME NEW j \in 1 .. Len(nat_list), nat_list[j] = n, NEW i \in j .. Len(nat_list), nat_list[i] # n
        PROVE  nat_list[i] \in Rest'
    <3>1. j = k
      BY <2>1, <2>3, <2>8, PositionOf
    <3>2. k + 1 \in 1 .. Len(nat_list) /\ i \in k + 1 .. Len(nat_list)
      BY <2>3, <2>4, <2>8, <3>1
    <3>3. walk'.it = nat_list[k + 1] /\ nat_list[k + 1] # End
      <4>1. nat_list[k + 1] \in Nids /\ k # Len(nat_list)
        BY <2>4, <3>2
      <4> QED
        BY <2>5, <2>7, <4>1, NatCacheAssumption DEF End
    <3>4. Rest' = {nat_list'[x] : x \in k + 1 .. Len(nat_list')}
      BY <3>2, <3>3, RestFromNext DEF Typed
    <3> QED
      BY <3>2, <3>4
  <2> QED
    BY <1>2, <2>6, <2>7, <2>8
<1> QED
  BY <1>1, <1>2

\* What is still to come remains so when the walk goes to the entry it fetched.
LEMMA RestIsAhead ==
  ASSUME Typed, IsInjective(nat_list), walk.it \in Listed \cup {End}, nat_list' = nat_list,
         walk' = WalkTo(walk.it), NEW m \in Rest
  PROVE  Ahead(m)'
<1>1. walk.it # End /\ walk.it \in Listed
  BY DEF Rest
<1>2. PICK j \in 1 .. Len(nat_list) : walk.it = nat_list[j]
  BY <1>1, AtPosition DEF Listed, ToSet
<1>3. PICK i \in j .. Len(nat_list) : m = nat_list[i]
  BY <1>1, <1>2, RestFrom
<1>4. PICK n \in Listed : n = walk.it
  BY <1>1
<1>5. ~walk'.copied /\ (m = walk'.ne \/ m \in Rest')
  BY <1>1, <1>2, <1>3, <1>4, WalkGoesOn
<1> QED
  BY <1>5 DEF Ahead

\* A step of the checkpoint leaves the lists, their users and the pages alone.
LEMMA CheckpointStep ==
  ASSUME IInv, UNCHANGED <<ops, page, written>>
  PROVE  /\ UNCHANGED <<nat_list, free_nat, task, owners>> /\ Listed' = Listed /\ Cached' = Cached
         /\ Busy' = Busy
         /\ raced' = raced /\ (cp_phase = 0 => cp_phase' = 0 \/ \A t \in Tasks : task[t] = Idle) => TasksOK'
<1>1. UNCHANGED <<nat_list, free_nat, task, owners>>
  BY DEF ops, lists
<1>2. Listed' = Listed /\ Cached' = Cached /\ Busy' = Busy
  BY <1>1 DEF Listed, Cached, Busy
<1> QED
  BY <1>1, <1>2, TasksUntouched DEF IInv, TasksOK

LEMMA FlushCopyKeeps ==
  ASSUME IInv, FlushCopy
  PROVE  IInv'
<1>1. PICK n : n = walk.ne
  OBVIOUS
<1>2. /\ cp_phase = 2 /\ n # End /\ entry[n].dirty /\ ~walk.copied
      /\ raw' = [raw EXCEPT ![n] = entry[n].addr] /\ walk' = [walk EXCEPT !.copied = TRUE]
      /\ UNCHANGED <<ops, entry, page, cp_phase, restarts, super, written, races>>
  BY <1>1 DEF FlushCopy
<1>3. n \in Listed /\ n \in Nids
  BY <1>1, <1>2, AtPosition DEF IInv, WalkOK
<1>4. entry[n].addr \in Nat
  BY <1>3 DEF IInv, Typed, Entries
<1>5. raw' \in [Nids -> Nat] /\ raw'[n] = entry[n].addr /\ (\A m \in Nids : m # n => raw'[m] = raw[m])
  BY <1>2, <1>3, <1>4 DEF IInv, Typed
<1>6. /\ walk' \in [ne : Nids \cup {None}, it : Nids \cup {None}, copied : BOOLEAN]
      /\ walk'.ne = n /\ walk'.it = walk.it /\ walk'.copied
  BY <1>1, <1>2 DEF IInv, Typed
<1>7. /\ UNCHANGED <<nat_list, free_nat, task, owners, entry, page, cp_phase, restarts, meta_nat, cnt, written>>
      /\ UNCHANGED <<raced, appendRaced, lost>>
      /\ Listed' = Listed /\ Cached' = Cached /\ Busy' = Busy /\ TasksOK'
  BY <1>2, CheckpointStep DEF super, races
<1>8. Typed'
  BY <1>5, <1>6, <1>7 DEF IInv, Typed
<1>9. ListsOK'
  BY <1>3, <1>5, <1>7 DEF IInv, ListsOK, Cached, Listed
<1>10. CountOK'
  BY <1>7 DEF IInv, CountOK
<1>11. WalkOK'
  BY <1>1, <1>2, <1>6, <1>7 DEF IInv, WalkOK, Quiet
<1>12. SavedOK'
  <2>1. \A m \in Nids : Appended(m)' = Appended(m) /\ (OnItsWay(m)' <=> OnItsWay(m))
    BY <1>7 DEF Appended, OnItsWay
  <2>2. \A m \in Nids : m # n => Recovered(m)' = Recovered(m) /\ (Ahead(m) => Ahead(m)')
    <3>1. Rest' = Rest
      BY <1>6, <1>7 DEF Rest, Position
    <3> QED
      BY <1>1, <1>5, <1>6, <1>7, <3>1 DEF Recovered, Ahead
  <2>3. Appended(n) # {} => Recovered(n)' = Recovered(n)
    BY <1>7 DEF Appended, Recovered
  <2>4. Appended(n) = {} => Recovered(n)' = entry'[n].addr
    BY <1>5, <1>7 DEF Appended, Recovered
  <2>5. ASSUME ~appendRaced, NEW m \in Nids PROVE Saved(m)'
    <3>1. Saved(m)
      BY <1>2, <2>5 DEF IInv, SavedOK
    <3> QED
      BY <1>7, <2>1, <2>2, <2>3, <2>4, <3>1 DEF Saved
  <2>6. raw'[walk'.ne] = entry'[walk'.ne].addr
    BY <1>5, <1>6, <1>7
  <2> QED
    BY <1>2, <1>7, <2>1, <2>5, <2>6 DEF IInv, SavedOK, HasLast
<1> QED
  BY <1>7, <1>8, <1>9, <1>10, <1>11, <1>12 DEF IInv

LEMMA FlushClearKeeps ==
  ASSUME IInv, FlushClear
  PROVE  IInv'
<1>1. PICK n : n = walk.ne
  OBVIOUS
<1>2. /\ walk.copied /\ n # End /\ cp_phase = 2 /\ walk.it \in Listed \cup {End}
      /\ entry' = [entry EXCEPT ![n].dirty = FALSE]
      /\ walk' = WalkTo(walk.it)
      /\ UNCHANGED <<ops, raw, page, cp_phase, restarts, super, written, races>>
  BY <1>1 DEF FlushClear, IInv, WalkOK
<1>3. n \in Listed /\ n \in Nids
  BY <1>1, <1>2, AtPosition DEF IInv, WalkOK
<1>4. /\ entry' \in [Nids -> Entries] /\ entry'[n].addr = entry[n].addr /\ ~entry'[n].dirty
      /\ \A m \in Nids : m # n => entry'[m] = entry[m]
  <2>1. entry[n] \in Entries /\ entry \in [Nids -> Entries]
    BY <1>3 DEF IInv, Typed
  <2>2. entry' = [entry EXCEPT ![n] = [entry[n] EXCEPT !.dirty = FALSE]]
    BY <1>2
  <2>3. PICK e : e = [entry[n] EXCEPT !.dirty = FALSE]
    OBVIOUS
  <2>4. e \in Entries /\ e.addr = entry[n].addr /\ ~e.dirty
    BY <2>1, <2>3 DEF Entries
  <2> QED
    BY <1>3, <2>1, <2>2, <2>3, <2>4
<1>5. /\ UNCHANGED <<nat_list, free_nat, task, owners, raw, page, cp_phase, restarts, meta_nat, cnt, written>>
      /\ UNCHANGED <<raced, appendRaced, lost>>
      /\ Listed' = Listed /\ Cached' = Cached /\ Busy' = Busy /\ TasksOK'
  BY <1>2, CheckpointStep DEF super, races
<1>6. /\ walk' \in [ne : Nids \cup {None}, it : Nids \cup {None}, copied : BOOLEAN]
      /\ ~walk'.copied /\ walk'.ne \in Listed \cup {End} /\ walk'.it \in Listed \cup {End}
      /\ (walk'.ne = End => walk'.it = End)
  <2>1. PICK x \in Listed \cup {End} : x = walk.it
    BY <1>2
  <2> QED
    BY <1>2, <1>5, <2>1, WalkGoesOn DEF IInv, ListsOK
<1>7. \A m \in Rest : Ahead(m)'
  BY <1>2, <1>5, RestIsAhead DEF IInv, ListsOK
<1>8. Typed'
  BY <1>4, <1>5, <1>6 DEF IInv, Typed
<1>9. ListsOK'
  BY <1>3, <1>4, <1>5 DEF IInv, ListsOK
<1>10. CountOK'
  BY <1>5 DEF IInv, CountOK
<1>11. WalkOK'
  BY <1>2, <1>5, <1>6 DEF IInv, WalkOK, Quiet
<1>12. SavedOK'
  <2>1. \A m \in Nids : /\ Appended(m)' = Appended(m) /\ (OnItsWay(m)' <=> OnItsWay(m))
                         /\ Recovered(m)' = Recovered(m) /\ entry'[m].addr = entry[m].addr
    BY <1>4, <1>5 DEF Appended, OnItsWay, Recovered
  <2>2. ASSUME ~appendRaced, NEW m \in Nids PROVE Saved(m)'
    <3>1. Saved(m)
      BY <1>2, <2>2 DEF IInv, SavedOK
    <3>2. CASE m = n
      <4>1. raw[n] = entry[n].addr \/ OnItsWay(n) \/ Appended(n) # {}
        <5>1. OnItsWay(walk.ne) = OnItsWay(n) /\ Appended(walk.ne) = Appended(n)
          BY <1>1
        <5> QED
          BY <1>1, <1>2, <2>2, <5>1 DEF IInv, SavedOK
      <4>2. Appended(n) = {} => Recovered(n) = raw[n]
        BY DEF Appended, Recovered
      <4> QED
        BY <2>1, <3>1, <3>2, <4>1, <4>2 DEF Saved
    <3>3. CASE m # n
      <4>1. Ahead(m) => Ahead(m)'
        BY <1>1, <1>7, <3>3 DEF Ahead
      <4>2. entry'[m] = entry[m] /\ lost' = lost
        BY <1>4, <1>5, <3>3
      <4> QED
        BY <2>1, <3>1, <4>1, <4>2 DEF Saved
    <3> QED
      BY <3>2, <3>3
  <2> QED
    BY <1>2, <1>5, <1>6, <2>1, <2>2 DEF IInv, SavedOK, HasLast
<1> QED
  BY <1>5, <1>8, <1>9, <1>10, <1>11, <1>12 DEF IInv

LEMMA FlushSkipKeeps ==
  ASSUME IInv, FlushSkip
  PROVE  IInv'
<1>1. /\ cp_phase = 2 /\ walk.ne # End /\ ~entry[walk.ne].dirty /\ walk.it \in Listed \cup {End}
      /\ walk' = WalkTo(walk.it)
      /\ UNCHANGED <<ops, entry, raw, page, cp_phase, restarts, super, written, races>>
  BY DEF FlushSkip, IInv, WalkOK
<1>2. /\ UNCHANGED <<nat_list, free_nat, task, owners, entry, raw, page, cp_phase, restarts, meta_nat, cnt, written>>
      /\ UNCHANGED <<raced, appendRaced, lost>>
      /\ Listed' = Listed /\ Cached' = Cached /\ Busy' = Busy /\ TasksOK'
  BY <1>1, CheckpointStep DEF super, races
<1>3. /\ walk' \in [ne : Nids \cup {None}, it : Nids \cup {None}, copied : BOOLEAN]
      /\ ~walk'.copied /\ walk'.ne \in Listed \cup {End} /\ walk'.it \in Listed \cup {End}
      /\ (walk'.ne = End => walk'.it = End)
  <2>1. PICK x \in Listed \cup {End} : x = walk.it
    BY <1>1
  <2> QED
    BY <1>1, <1>2, <2>1, WalkGoesOn DEF IInv, ListsOK
<1>4. \A m \in Rest : Ahead(m)'
  BY <1>1, <1>2, RestIsAhead DEF IInv, ListsOK
<1>5. Typed'
  BY <1>2, <1>3 DEF IInv, Typed
<1>6. ListsOK'
  BY <1>2 DEF IInv, ListsOK
<1>7. CountOK'
  BY <1>2 DEF IInv, CountOK
<1>8. WalkOK'
  BY <1>1, <1>2, <1>3 DEF IInv, WalkOK, Quiet
<1>9. SavedOK'
  <2>1. \A m \in Nids : /\ Appended(m)' = Appended(m) /\ (OnItsWay(m)' <=> OnItsWay(m))
                         /\ Recovered(m)' = Recovered(m)
    BY <1>2 DEF Appended, OnItsWay, Recovered
  <2>2. \A m \in Nids : entry[m].dirty /\ Ahead(m) => Ahead(m)'
    BY <1>1, <1>4 DEF Ahead
  <2>3. ASSUME ~appendRaced, NEW m \in Nids PROVE Saved(m)'
    <3>1. Saved(m)
      BY <1>1, <2>3 DEF IInv, SavedOK
    <3> QED
      BY <1>2, <2>1, <2>2, <3>1 DEF Saved
  <2> QED
    BY <1>2, <1>3, <2>1, <2>3 DEF IInv, SavedOK, HasLast
<1> QED
  BY <1>2, <1>5, <1>6, <1>7, <1>8, <1>9 DEF IInv

LEMMA Phase1Keeps ==
  ASSUME IInv, Phase1
  PROVE  IInv'
<1>1. /\ cp_phase = 0 /\ cp_phase' = 1 /\ (\A t \in Tasks : task[t] = Idle)
      /\ UNCHANGED <<ops, entry, raw, page, walk, restarts, super, written, races>>
  BY DEF Phase1
<1>2. /\ UNCHANGED <<nat_list, free_nat, task, owners, entry, raw, page, walk, restarts, meta_nat, cnt, written>>
      /\ UNCHANGED <<raced, appendRaced, lost>>
      /\ Listed' = Listed /\ Cached' = Cached /\ Busy' = Busy /\ TasksOK'
  BY <1>1, CheckpointStep DEF super, races
<1>3. Typed' /\ ListsOK' /\ CountOK' /\ WalkOK'
  <2>1. Typed'
    BY <1>1, <1>2 DEF IInv, Typed
  <2>2. ListsOK' /\ CountOK'
    BY <1>2 DEF IInv, ListsOK, CountOK
  <2>3. WalkOK'
    BY <1>1, <1>2 DEF IInv, WalkOK
  <2> QED
    BY <2>1, <2>2, <2>3
<1>4. SavedOK'
  <2>1. ~walk.copied
    BY <1>1 DEF IInv, WalkOK
  <2>2. \A m \in Nids : Appended(m)' = Appended(m)
    BY <1>2 DEF Appended
  <2> QED
    BY <1>1, <1>2, <2>1, <2>2 DEF IInv, SavedOK, HasLast
<1> QED
  BY <1>2, <1>3, <1>4 DEF IInv

LEMMA Phase2Keeps ==
  ASSUME IInv, Phase2
  PROVE  IInv'
<1>1. /\ cp_phase = 1 /\ cp_phase' = 2 /\ walk' = WalkTo(First) /\ Quiet /\ cnt = 0
      /\ UNCHANGED <<ops, entry, raw, page, restarts, super, written, races>>
  BY DEF Phase2, IInv, WalkOK
<1>2. /\ UNCHANGED <<nat_list, free_nat, task, owners, entry, raw, page, restarts, meta_nat, cnt, written>>
      /\ UNCHANGED <<raced, appendRaced, lost>>
      /\ Listed' = Listed /\ Cached' = Cached /\ Busy' = Busy /\ TasksOK'
  BY <1>1, CheckpointStep DEF super, races
<1>3. PICK n \in Listed \cup {End} :
        /\ n = First /\ (n = End => Len(nat_list) = 0) /\ (n # End => nat_list[1] = n /\ 1 \in 1 .. Len(nat_list))
  <2>1. CASE nat_list = <<>>
    BY <2>1 DEF First
  <2>2. CASE nat_list # <<>>
    <3>1. Head(nat_list) = nat_list[1] /\ 1 \in 1 .. Len(nat_list)
      BY <2>2 DEF IInv, Typed
    <3>2. nat_list[1] \in Listed /\ nat_list[1] # End
      BY <3>1, AtPosition, NatCacheAssumption DEF IInv, End
    <3> QED
      BY <2>2, <3>1, <3>2 DEF First
  <2> QED
    BY <2>1, <2>2
<1>4. /\ walk' \in [ne : Nids \cup {None}, it : Nids \cup {None}, copied : BOOLEAN]
      /\ walk'.ne = n /\ ~walk'.copied /\ walk'.it \in Listed \cup {End} /\ (n = End => walk'.it = End)
      /\ n # End => \A i \in 1 .. Len(nat_list) : nat_list[i] = walk'.ne \/ nat_list[i] \in Rest'
  BY <1>1, <1>2, <1>3, WalkGoesOn DEF IInv, ListsOK
<1>5. \A m \in Listed : Ahead(m)'
  <2>1. ASSUME NEW m \in Listed PROVE Ahead(m)'
    <3>1. PICK i \in 1 .. Len(nat_list) : m = nat_list[i]
      BY AtPosition DEF IInv, Listed, ToSet
    <3>2. n # End
      BY <1>3, <3>1
    <3> QED
      BY <1>4, <3>1, <3>2 DEF Ahead
  <2> QED
    BY <2>1
<1>6. Typed'
  BY <1>1, <1>2, <1>4 DEF IInv, Typed
<1>7. ListsOK' /\ CountOK'
  BY <1>2 DEF IInv, ListsOK, CountOK
<1>8. WalkOK'
  BY <1>1, <1>2, <1>3, <1>4 DEF IInv, WalkOK, Quiet
<1>9. SavedOK'
  <2>1. \A m \in Nids : Appended(m)' = {} /\ Appended(m) = {} /\ Recovered(m)' = raw[m]
    BY <1>1, <1>2 DEF Appended, Recovered
  <2>2. ASSUME NEW m \in Nids PROVE Saved(m)'
    <3>1. CASE m \in lost
      BY <1>2, <2>1, <3>1 DEF Saved
    <3>2. CASE m \notin lost /\ entry[m].dirty
      <4>1. Ahead(m)'
        BY <1>5, <3>2 DEF IInv, ListsOK
      <4> QED
        BY <1>2, <2>1, <3>2, <4>1 DEF Saved
    <3>3. CASE m \notin lost /\ ~entry[m].dirty
      BY <1>1, <1>2, <2>1, <3>3 DEF IInv, SavedOK, Saved
    <3> QED
      BY <3>1, <3>2, <3>3
  <2> QED
    BY <1>1, <1>2, <1>4, <2>1, <2>2 DEF IInv, SavedOK, HasLast
<1> QED
  BY <1>2, <1>6, <1>7, <1>8, <1>9 DEF IInv

LEMMA Phase3Keeps ==
  ASSUME IInv, Phase3
  PROVE  IInv'
<1>1. /\ cp_phase = 2 /\ cp_phase' = 3 /\ walk.ne = End /\ Quiet
      /\ UNCHANGED <<ops, entry, raw, page, walk, restarts, super, written, races>>
  BY DEF Phase3
<1>2. /\ UNCHANGED <<nat_list, free_nat, task, owners, entry, raw, page, walk, restarts, meta_nat, cnt, written>>
      /\ UNCHANGED <<raced, appendRaced, lost>>
      /\ Listed' = Listed /\ Cached' = Cached /\ Busy' = Busy /\ TasksOK'
  BY <1>1, CheckpointStep DEF super, races
<1>3. Typed'
  BY <1>1, <1>2 DEF IInv, Typed
<1>4. ListsOK' /\ CountOK'
  BY <1>2 DEF IInv, ListsOK, CountOK
<1>5. WalkOK'
  BY <1>1, <1>2 DEF IInv, WalkOK, Quiet
<1>6. SavedOK'
  <2>1. \A m \in Nids : /\ Appended(m)' = Appended(m) /\ (OnItsWay(m)' <=> OnItsWay(m))
                         /\ Recovered(m)' = Recovered(m) /\ (Ahead(m)' <=> Ahead(m))
    <3>1. Rest' = Rest
      BY <1>2 DEF Rest, Position
    <3> QED
      BY <1>2, <3>1 DEF Appended, OnItsWay, Recovered, Ahead
  <2>2. \A m \in Nids : Saved(m) => Saved(m)'
    BY <1>2, <2>1 DEF Saved
  <2>3. ~walk.copied
    BY <1>1 DEF IInv, WalkOK
  <2> QED
    BY <1>1, <1>2, <2>1, <2>2, <2>3 DEF IInv, SavedOK, HasLast
<1> QED
  BY <1>2, <1>3, <1>4, <1>5, <1>6 DEF IInv

LEMMA RestartKeeps ==
  ASSUME IInv, Restart
  PROVE  IInv'
<1>1. /\ cp_phase = 3 /\ cp_phase' = 1 /\ restarts' = restarts + 1 /\ cnt' = 0
      /\ meta_nat' = [k \in DOMAIN meta_nat |-> NoSlot] /\ lost' = Unmarked
      /\ UNCHANGED <<ops, entry, raw, page, walk, written, raced, appendRaced>>
  BY DEF Restart
<1>2. /\ UNCHANGED <<nat_list, free_nat, task, owners, entry, raw, page, walk, written, raced, appendRaced>>
      /\ Listed' = Listed /\ Cached' = Cached /\ Busy' = Busy /\ TasksOK'
  BY <1>1, CheckpointStep
<1>3. Quiet /\ walk.ne = End /\ ~walk.copied
  BY <1>1 DEF IInv, WalkOK
<1>4. Typed'
  <2>1. NoSlot \in Slots
    BY DEF NoSlot, Slots
  <2>2. meta_nat' \in [1 .. MaxWrites + 2 -> Slots]
    BY <1>1, <2>1 DEF IInv, Typed
  <2>3. restarts' \in Nat /\ cnt' \in Nat /\ cp_phase' \in 0 .. 3 /\ lost' \subseteq Nids
    BY <1>1 DEF IInv, Typed, Unmarked
  <2> QED
    BY <1>2, <2>2, <2>3 DEF IInv, Typed
<1>5. ListsOK'
  BY <1>2 DEF IInv, ListsOK
<1>6. CountOK'
  <2>1. Cardinality(Busy) \in Nat
    BY FS_CardinalityType DEF IInv, CountOK
  <2> QED
    BY <1>1, <1>2, <2>1 DEF IInv, CountOK, Typed
<1>7. WalkOK'
  BY <1>1, <1>2, <1>3 DEF IInv, WalkOK, Quiet, Typed
<1>8. SavedOK'
  <2>1. \A m \in Nids : Appended(m)' = {}
    BY <1>1 DEF Appended
  <2>2. \A m \in Nids \ lost' : raw'[m] = entry'[m].addr \/ entry'[m].dirty
    BY <1>1, <1>2 DEF Unmarked
  <2>3. \A m \in Nids : page'[m] = "free"
    BY <1>2, <1>3 DEF Quiet
  <2> QED
    BY <1>1, <1>2, <1>3, <2>1, <2>2, <2>3 DEF SavedOK, HasLast
<1> QED
  BY <1>2, <1>4, <1>5, <1>6, <1>7, <1>8 DEF IInv

-----------------------------------------------------------------------------
(* The theorems. *)

LEMMA InitHolds == Init => IInv
<1> SUFFICES ASSUME Init PROVE IInv
  OBVIOUS
<1>1. Cardinality(InSuper) \in Nat
  BY NatCacheAssumption, FS_CardinalityType
<1>2. /\ nat_list \in [1 .. Cardinality(InSuper) -> InSuper]
      /\ \A i, j \in 1 .. Cardinality(InSuper) : i # j => nat_list[i] # nat_list[j]
  BY DEF Init, SetToSeqs
<1>3. nat_list \in Seq(Nids) /\ DOMAIN nat_list = 1 .. Cardinality(InSuper)
  <2>1. nat_list \in Seq(InSuper) /\ InSuper \subseteq Nids
    BY <1>1, <1>2, NatCacheAssumption, IsASeq
  <2> QED
    BY <1>2, <2>1
<1>4. IsInjective(nat_list)
  BY <1>2, <1>3 DEF IsInjective
<1>5. InSuper \subseteq Listed
  <2> SUFFICES ASSUME NEW m \in InSuper, m \notin Listed PROVE FALSE
    OBVIOUS
  <2> DEFINE D == 1 .. Cardinality(InSuper)
             T == InSuper \ {m}
  <2>1. IsFiniteSet(D) /\ Cardinality(D) = Cardinality(InSuper)
    BY <1>1, FS_Interval
  <2>2. IsFiniteSet(T) /\ Cardinality(T) < Cardinality(D)
    <3>1. IsFiniteSet(InSuper)
      BY NatCacheAssumption
    <3>2. IsFiniteSet(InSuper \ {m}) /\ Cardinality(InSuper \ {m}) = Cardinality(InSuper) - 1
      BY <3>1, FS_RemoveElement
    <3>3. Cardinality(InSuper) - 1 < Cardinality(D)
      BY <1>1, <2>1
    <3> HIDE DEF D
    <3> QED
      BY <3>2, <3>3
  <2>3. nat_list \in [D -> T]
    BY <1>2, <1>3 DEF Listed, ToSet
  <2> HIDE DEF D, T
  <2>4. \E x, y \in D : x # y /\ nat_list[x] = nat_list[y]
    BY <2>1, <2>2, <2>3, FS_PigeonHole
  <2> QED
    BY <1>2, <2>4 DEF D
<1>6. /\ raw \in [Nids -> Nat] /\ owners \in [Nids -> Nat] /\ (\A n \in Nids : owners[n] <= 1)
      /\ \A n \in Nids \ Cached : owners[n] = IF raw[n] = 0 THEN 0 ELSE 1
      /\ entry \in [Nids -> Entries] /\ (\A n \in Nids : entry[n].dirty => n \in InSuper)
      /\ lost \subseteq Nids /\ (\A n \in Nids \ lost : raw[n] = entry[n].addr \/ entry[n].dirty)
  <2>1. raw \in [Nids -> Nat]
    BY DEF Init, SuperAddr
  <2>2. owners \in [Nids -> Nat] /\ (\A n \in Nids : owners[n] <= 1)
    BY DEF Init
  <2>3. \A n \in Nids \ Cached : owners[n] = IF raw[n] = 0 THEN 0 ELSE 1
    BY <1>5 DEF Init, Cached, Listed
  <2>4. entry \in [Nids -> Entries] /\ (\A n \in Nids : entry[n].dirty => n \in InSuper)
    BY DEF Init, Entries, SuperAddr
  <2>5. lost \subseteq Nids /\ (\A n \in Nids \ lost : raw[n] = entry[n].addr \/ entry[n].dirty)
    BY DEF Init, Unmarked
  <2> QED
    BY <2>1, <2>2, <2>3, <2>4, <2>5
<1>7. task \in [Tasks -> TaskState] /\ (\A t \in Tasks : task[t] = Idle)
  BY IdleIsFine DEF Init
<1>8. /\ page \in [Nids -> {"free", "locked", "io", "append", "count"}] /\ (\A n \in Nids : page[n] = "free")
      /\ free_nat = {} /\ cp_phase = 0 /\ cnt = 0 /\ written = 0 /\ restarts = 0
      /\ raced = FALSE /\ appendRaced = FALSE
      /\ walk = [ne |-> End, it |-> End, copied |-> FALSE]
  BY DEF Init
<1>9. meta_nat \in [1 .. MaxWrites + 2 -> Slots]
  <2>1. NoSlot \in Slots
    BY DEF NoSlot, Slots
  <2> QED
    BY <2>1 DEF Init
<1>10. Typed
  <2>1. walk \in [ne : Nids \cup {None}, it : Nids \cup {None}, copied : BOOLEAN]
    BY <1>8 DEF End
  <2>2. 0 \in 0 .. 3 /\ 0 \in 0 .. MaxWrites /\ 0 \in Nat
    BY NatCacheAssumption
  <2> QED
    BY <1>3, <1>6, <1>7, <1>8, <1>9, <2>1, <2>2 DEF Typed
<1>11. ListsOK
  BY <1>4, <1>5, <1>6, <1>8 DEF ListsOK
<1>12. TasksOK
  BY <1>7, <1>8, IdleIsFine DEF TasksOK
<1>13. CountOK
  <2>1. Busy = {}
    BY <1>8 DEF Busy
  <2> QED
    BY <1>8, <2>1, FS_EmptySet DEF CountOK
<1>14. WalkOK
  BY <1>8 DEF WalkOK
<1>15. SavedOK
  <2>1. \A n \in Nids : Appended(n) = {}
    BY <1>8 DEF Appended
  <2> QED
    BY <1>6, <1>8, <2>1 DEF SavedOK, HasLast
<1> QED
  BY <1>10, <1>11, <1>12, <1>13, <1>14, <1>15 DEF IInv

LEMMA StutterKeeps ==
  ASSUME IInv, UNCHANGED vars
  PROVE  IInv'
<1>1. /\ UNCHANGED <<nat_list, free_nat, entry, raw, task, page, owners, cp_phase, walk, meta_nat, cnt>>
      /\ UNCHANGED <<written, restarts, raced, appendRaced, lost>>
      /\ UNCHANGED <<ops, page, written>>
  BY DEF vars, ops, lists, checkpoint, super, races
<1>2. Listed' = Listed /\ Cached' = Cached /\ Busy' = Busy /\ Rest' = Rest /\ TasksOK'
  <2>1. Rest' = Rest
    BY <1>1 DEF Rest, Position
  <2> QED
    BY <1>1, <2>1, CheckpointStep
<1>3. Typed' /\ ListsOK' /\ CountOK'
  <2>1. Typed'
    BY <1>1 DEF IInv, Typed
  <2> QED
    BY <1>1, <1>2, <2>1 DEF IInv, ListsOK, CountOK
<1>4. WalkOK'
  BY <1>1, <1>2 DEF IInv, WalkOK, Quiet
<1>5. SavedOK'
  <2>1. \A m \in Nids : /\ Appended(m)' = Appended(m) /\ (OnItsWay(m)' <=> OnItsWay(m))
                         /\ Recovered(m)' = Recovered(m) /\ (Ahead(m)' <=> Ahead(m))
    BY <1>1, <1>2 DEF Appended, OnItsWay, Recovered, Ahead
  <2>2. \A m \in Nids : Saved(m) => Saved(m)'
    BY <1>1, <2>1 DEF Saved
  <2>3. walk.copied => walk.ne \in Nids
    BY AtPosition DEF IInv, WalkOK
  <2> QED
    BY <1>1, <2>1, <2>2, <2>3 DEF IInv, SavedOK, HasLast
<1> QED
  BY <1>2, <1>3, <1>4, <1>5 DEF IInv

LEMMA StepKeeps == IInv /\ [Next]_vars => IInv'
<1> SUFFICES ASSUME IInv, [Next]_vars PROVE IInv'
  OBVIOUS
<1>1. CASE UNCHANGED vars
  BY <1>1, StutterKeeps
<1>2. ASSUME NEW t \in Tasks, TaskStep(t) \/ NotFound(t) \/ Move(t) PROVE IInv'
  BY <1>2, BeginKeeps, FoundKeeps, NotFoundKeeps, InvalidateKeeps, PickKeeps, MoveKeeps, ReadBlockKeeps,
     ExhaustedKeeps, InsertKeeps DEF TaskStep
<1>3. ASSUME NEW n \in Nids, update_nat(n) \/ AppendSlot(n) \/ AppendCount(n) PROVE IInv'
  BY <1>3, UpdateKeeps, AppendSlotKeeps, AppendCountKeeps
<1>4. ASSUME NEW n \in MetaNids, WriteMetaNode(n) PROVE IInv'
  BY <1>4, WriteKeeps
<1>5. CASE Phase1 \/ Phase2 \/ FlushCopy \/ FlushClear \/ FlushSkip \/ Phase3 \/ Restart
  BY <1>5, Phase1Keeps, Phase2Keeps, FlushCopyKeeps, FlushClearKeeps, FlushSkipKeeps, Phase3Keeps, RestartKeeps
<1> QED
  BY <1>1, <1>2, <1>3, <1>4, <1>5 DEF Next

LEMMA AlwaysIInv == Spec => []IInv
BY InitHolds, StepKeeps, PTL DEF Spec

\* Every variable of the cache has its type, and the superblock has room for the
\* slots that completions append (cp_append_nat): they are counted together with
\* the pages that are still to be appended.
THEOREM CacheTyped == Spec => []TypeOK
<1>1. IInv => TypeOK
  <2> SUFFICES ASSUME IInv PROVE TypeOK
    OBVIOUS
  <2>1. ToSet(nat_list) \subseteq Nids /\ free_nat \subseteq Nids
    BY AtPosition DEF IInv, Typed, Listed
  <2>2. cnt \in 0 .. MaxWrites
    <3>1. Cardinality(Busy) \in Nat
      BY FS_CardinalityType DEF IInv, CountOK
    <3> QED
      BY <3>1, NatCacheAssumption DEF IInv, CountOK, Typed
  <2>3. \A t \in Tasks : task[t].at \in {"idle", "walk", "move", "read", "fill", "invalidate", "null"}
    BY DEF IInv, Typed, TaskState
  <2>4. \A t \in Tasks : task[t].at = "move" => (task[t].nid \in MetaNids <=> task[t].op = "alloc meta")
    BY DEF IInv, TasksOK, Moving
  <2> QED
    BY <2>1, <2>2, <2>3, <2>4 DEF IInv, Typed, TypeOK, Entries
<1> QED
  BY <1>1, AlwaysIInv, PTL

\* Unless an allocation moves an entry beside another reader (nat_mgmt.c:208), a
\* nid has at most one owner and one entry, however lookups, fills from NAT
\* blocks, allocations and frees interleave otherwise.
THEOREM OneOwnerUnlessRaced == Spec => []OneOwner
<1>1. IInv => OneOwner
  BY DEF IInv, Typed, ListsOK, OneOwner, Listed
<1> QED
  BY <1>1, AlwaysIInv, PTL

\* Unless an allocation moves an entry beside another reader, lookup_nat never
\* returns NULL to a writer or to invalidate_nat, and update_nat finds the entry
\* of every node whose write completes.
THEOREM LookupsSucceedUnlessRaced == Spec => []EntryFound
<1>1. IInv => EntryFound
  BY DEF IInv, TasksOK, Looking, ListsOK, EntryFound, Listed
<1> QED
  BY <1>1, AlwaysIInv, PTL

\* At the end of a checkpoint every entry is in its NAT block or in the superblock,
\* although completions move entries about while flush_nat walks the list: unless
\* two appends met, or it had no mark over an older NAT block when the checkpoint
\* began (read_super inserts entries so) and was not written since.
THEOREM CheckpointSavesMarked == Spec => []AllSaved
<1>1. IInv => AllSaved
  <2> SUFFICES ASSUME IInv, cp_phase = 3, ~appendRaced, NEW n \in Nids
               PROVE  Recovered(n) = entry[n].addr \/ n \in lost
    BY DEF AllSaved
  <2>1. Saved(n)
    BY DEF IInv, SavedOK
  <2>2. ~OnItsWay(n)
    BY DEF IInv, WalkOK, Quiet, OnItsWay
  <2>3. ~Ahead(n)
    BY NatCacheAssumption DEF IInv, WalkOK, Ahead, Rest, End
  <2> QED
    BY <2>1, <2>2, <2>3 DEF Saved
<1> QED
  BY <1>1, AlwaysIInv, PTL
=============================================================================

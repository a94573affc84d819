--------------------------- MODULE LotFilesProofs ---------------------------
(***************************************************************************)
(* Proofs about LotFiles, for a cache of any number of slots and any set   *)
(* of files: no file is split over slots and no slot mixes identifiers; a  *)
(* file is reported when it is complete, and once; and the slot given up   *)
(* is the one unused for longest.                                          *)
(*                                                                         *)
(* A step puts an entry into one slot and then renumbers the timestamps.   *)
(* The renumbering keeps their order (Ranking), so that the invariant      *)
(* need only be shown of the entry (EntryIs) and of the order of use.      *)
(***************************************************************************)
EXTENDS LotFiles, FiniteSetTheorems, SequenceTheorems, TLAPS

(* Every non-empty set of natural numbers has a least element: inclusion   *)
(* is well-founded on the sets 0..k.  Proofs by induction use it on the    *)
(* places where a claim fails.                                             *)
LEMMA LeastNat ==
  ASSUME NEW D \in SUBSET Nat, D # {}
  PROVE  \E m \in D : \A k \in D : m <= k
<1> DEFINE R == StrictSubsetOrdering(Nat)
           F == FiniteSubsetsOf(Nat)
           T == {0..k : k \in D}
<1>1. \A k \in Nat : 0..k \in F
  BY FS_Interval, 0 \in Int, Nat \subseteq Int DEF FiniteSubsetsOf
<1>2. \A k, m \in Nat : k < m => <<0..k, 0..m>> \in R
  <2> TAKE k, m \in Nat
  <2>1. k < m => 0..k \subseteq 0..m /\ m \in 0..m /\ m \notin 0..k OBVIOUS
  <2> QED BY <2>1, 0..k \subseteq Nat, 0..m \subseteq Nat DEF StrictSubsetOrdering
<1>3. IsWellFoundedOn(R, F) BY FS_StrictSubsetOrderingWellFounded
<1>4. T \subseteq F /\ T # {} BY <1>1
<1> HIDE DEF R, F, T
<1>5. \E x \in T : \A y \in T : <<y, x>> \notin R
  BY <1>3, <1>4, WFMin
<1>6. PICK m \in D : \A k \in D : <<0..k, 0..m>> \notin R
  BY <1>5 DEF T
<1>7. \A k \in D : ~(k < m) BY <1>2, <1>6
<1> QED BY <1>7

-----------------------------------------------------------------------------
(* The inductive invariant.                                                *)

Stamp(k) == lot_files[k].timestamp

(* Timestamps tell which of two slots was used last, but for two that were *)
(* used one after the other; and only the slot used last may have the      *)
(* counter's value.                                                        *)
RecencyOf(files, counter, used) ==
  /\ \A k \in Slots : files[k].timestamp # 0 =>
       /\ k \notin used[k]
       /\ files[k].timestamp <= counter
       /\ files[k].timestamp = counter => used[k] = {}
  /\ \A j, k \in Slots : files[j].timestamp # 0 /\ files[k].timestamp # 0 /\ j # k =>
       /\ j \in used[k] <=> k \notin used[j]
       /\ j \in used[k] => files[k].timestamp <= files[j].timestamp
       /\ j \in used[k] => \A l \in used[j] : files[k].timestamp < files[l].timestamp

Recency == RecencyOf(lot_files, lot_lru_counter, since)

IInv == SlotsConsistent /\ ReportedRight /\ Recency

(* What a slot may hold before the timestamps are renumbered, and when its *)
(* contents agree with each other.                                         *)
Entry ==
  [timestamp : Nat, lot : {f.lot : f \in Files} \cup {0},
   file : Files \cup {NoFile}, bytes_so_far : Nat,
   fragments : [Indexes -> Files \cup {NoFile}]]

There(s) == {i \in Indexes : s.fragments[i] # NoFile}

Whole(s) ==
  /\ s.file # NoFile => s.file.lot = s.lot
  /\ \A i \in There(s) : s.fragments[i].lot = s.lot
  /\ s.bytes_so_far = Cardinality(There(s))

-----------------------------------------------------------------------------
(* Ranks.                                                                  *)

RankIn(S, t) == Cardinality({u \in S : u <= t})

(* The ranks that replace the timestamps in the model are in their order,  *)
(* and none is above the number of values (661-682).                       *)
LEMMA Ranking ==
  ASSUME NEW S \in SUBSET Nat, 0 \notin S, IsFiniteSet(S)
  PROVE  /\ RankIn(S, 0) = 0
         /\ \A t \in Nat : RankIn(S, t) \in 0..Cardinality(S)
         /\ \A t \in S \cup {0}, u \in S \cup {0} :
              t <= u <=> RankIn(S, t) <= RankIn(S, u)
<1> DEFINE Below(t) == {v \in S : v <= t}
<1>1. Cardinality(S) \in Nat BY FS_CardinalityType
<1>2. \A t : /\ IsFiniteSet(Below(t)) /\ RankIn(S, t) = Cardinality(Below(t))
             /\ RankIn(S, t) \in Nat /\ RankIn(S, t) <= Cardinality(S)
  <2> TAKE t
  <2>1. Below(t) \in SUBSET S OBVIOUS
  <2>2. IsFiniteSet(Below(t)) /\ Cardinality(Below(t)) <= Cardinality(S)
    BY <2>1, FS_Subset
  <2>3. Cardinality(Below(t)) \in Nat
    BY <2>2, FS_CardinalityType
  <2> QED BY <2>2, <2>3 DEF RankIn
<1>3. RankIn(S, 0) = 0
  <2>1. ASSUME NEW v \in S, v <= 0 PROVE FALSE
    <3>1. v \in Nat /\ v # 0 OBVIOUS
    <3> QED BY <2>1, <3>1
  <2>2. Below(0) = {} BY <2>1
  <2> QED BY <2>2, <1>2, FS_EmptySet
<1>4. ASSUME NEW t \in Nat, NEW u \in Nat, t <= u
      PROVE  RankIn(S, t) <= RankIn(S, u)
  <2>1. Below(t) \in SUBSET Below(u)
    <3>1. ASSUME NEW v \in S, v <= t PROVE v <= u
      <4>1. v \in Nat OBVIOUS
      <4> QED BY <4>1, <3>1, <1>4
    <3> QED BY <3>1
  <2>2. Cardinality(Below(t)) <= Cardinality(Below(u)) BY <2>1, <1>2, FS_Subset
  <2> QED BY <2>2, <1>2
<1>5. ASSUME NEW t \in S, NEW u \in Nat, u < t
      PROVE  RankIn(S, u) < RankIn(S, t)
  <2>1. t \in Nat OBVIOUS
  <2>2. t \in Below(t) /\ t \notin Below(u) BY <2>1, <1>5
  <2>3. Below(u) \in SUBSET Below(t)
    <3>1. ASSUME NEW v \in S, v <= u PROVE v <= t
      <4>1. v \in Nat OBVIOUS
      <4> QED BY <4>1, <3>1, <2>1, <1>5
    <3> QED BY <3>1
  <2>4. /\ Cardinality(Below(u)) <= Cardinality(Below(t))
        /\ Cardinality(Below(t)) # Cardinality(Below(u))
    BY <2>2, <2>3, <1>2, FS_Subset
  <2>5. RankIn(S, u) <= RankIn(S, t) /\ RankIn(S, t) # RankIn(S, u) BY <2>4, <1>2
  <2>6. RankIn(S, u) \in Nat /\ RankIn(S, t) \in Nat BY <1>2
  <2> QED BY <2>5, <2>6
<1>6. \A t : RankIn(S, t) \in 0..Cardinality(S)
  <2> TAKE t
  <2>1. RankIn(S, t) \in Nat /\ RankIn(S, t) <= Cardinality(S) BY <1>2
  <2> QED BY <2>1, <1>1
<1>7. ASSUME NEW t \in S \cup {0}, NEW u \in S \cup {0}
      PROVE  t <= u <=> RankIn(S, t) <= RankIn(S, u)
  <2>1. t \in Nat /\ u \in Nat OBVIOUS
  <2>2. CASE t <= u
    BY <2>1, <2>2, <1>4
  <2>3. CASE u < t
    <3>1. t \in S BY <2>1, <2>3
    <3>2. RankIn(S, u) < RankIn(S, t) BY <2>1, <2>3, <3>1, <1>5
    <3>3. RankIn(S, u) \in Nat /\ RankIn(S, t) \in Nat BY <1>2
    <3> QED BY <2>1, <2>3, <3>2, <3>3
  <2> QED BY <2>1, <2>2, <2>3
<1> QED BY <1>3, <1>6, <1>7

(* The timestamps of the slots are as many as the slots at most.           *)
LEMMA StampsFinite ==
  ASSUME NEW files, \A k \in Slots : files[k].timestamp \in Nat
  PROVE  LET used == {files[k].timestamp : k \in Slots} \ {0}
         IN  /\ used \in SUBSET Nat /\ 0 \notin used /\ IsFiniteSet(used)
             /\ Cardinality(used) \in 0..MAX_LOT_FILES
<1> DEFINE all == {files[k].timestamp : k \in Slots}
           stamp == [k \in Slots |-> files[k].timestamp]
<1>1. IsFiniteSet(Slots) /\ Cardinality(Slots) = MAX_LOT_FILES
  <2>1. MAX_LOT_FILES \in Int /\ 1 \in Int /\ MAX_LOT_FILES >= 1 BY CacheAssumption
  <2>2. IsFiniteSet(1..MAX_LOT_FILES) /\ Cardinality(1..MAX_LOT_FILES) = MAX_LOT_FILES
    BY <2>1, FS_Interval
  <2> QED BY <2>2 DEF Slots
<1>2. stamp \in Surjection(Slots, all)
  BY DEF Surjection
<1>3. IsFiniteSet(all) /\ Cardinality(all) <= MAX_LOT_FILES
  BY <1>1, <1>2, FS_Surjection
<1>4. all \ {0} \in SUBSET all OBVIOUS
<1>5. IsFiniteSet(all \ {0}) /\ Cardinality(all \ {0}) <= Cardinality(all)
  BY <1>3, <1>4, FS_Subset
<1>6. Cardinality(all \ {0}) \in Nat /\ Cardinality(all) \in Nat
  BY <1>3, <1>5, FS_CardinalityType
<1>7. all \ {0} \in SUBSET Nat /\ 0 \notin all \ {0} OBVIOUS
<1> QED BY <1>3, <1>5, <1>6, <1>7, CacheAssumption

(* What a step leaves in lot_files and the counter: the entries, with      *)
(* timestamps in the order they had.                                       *)
Renumbered(files, counter, r) ==
  /\ r \in [Slots -> 0..MAX_LOT_FILES]
  /\ lot_files' = [k \in Slots |-> [files[k] EXCEPT !.timestamp = r[k]]]
  /\ lot_lru_counter' \in 1..(MAX_LOT_FILES + 1)
  /\ \A j, k \in Slots : files[j].timestamp <= files[k].timestamp <=> r[j] <= r[k]
  /\ \A k \in Slots :
       /\ r[k] = 0 <=> files[k].timestamp = 0
       /\ r[k] <= lot_lru_counter'
       /\ r[k] = lot_lru_counter' <=> files[k].timestamp = counter

(* Renumbering is an order-preserving change of the timestamps.            *)
LEMMA RankedIs ==
  ASSUME NEW files, NEW counter \in Nat \ {0}, Ranked(files, counter),
         \A k \in Slots : files[k].timestamp \in 0..counter
  PROVE  \E r : Renumbered(files, counter, r)
<1> DEFINE used == {files[k].timestamp : k \in Slots} \ {0}
           r == [k \in Slots |-> RankIn(used, files[k].timestamp)]
<1>1. /\ used \in SUBSET Nat /\ 0 \notin used /\ IsFiniteSet(used)
      /\ Cardinality(used) \in 0..MAX_LOT_FILES
  <2>1. \A k \in Slots : files[k].timestamp \in Nat OBVIOUS
  <2> QED BY <2>1, StampsFinite
<1>2. /\ lot_files' = [k \in Slots |-> [files[k] EXCEPT !.timestamp = RankIn(used, @)]]
      /\ lot_lru_counter' = IF counter \in used THEN RankIn(used, counter)
                            ELSE Cardinality(used) + 1
  BY DEF Ranked, RankIn
<1>3. \A k \in Slots : files[k].timestamp \in used \cup {0} /\ files[k].timestamp \in Nat
  OBVIOUS
<1>4. lot_files' = [k \in Slots |-> [files[k] EXCEPT !.timestamp = r[k]]]
  BY <1>2
<1>5. \A t \in used : t \in 1..counter
  OBVIOUS
<1>6. \A k \in Slots : r[k] = RankIn(used, files[k].timestamp)
  OBVIOUS
<1>7. /\ RankIn(used, 0) = 0
      /\ \A t \in Nat : RankIn(used, t) \in 0..Cardinality(used)
      /\ \A t \in used \cup {0}, u \in used \cup {0} :
           t <= u <=> RankIn(used, t) <= RankIn(used, u)
  BY <1>1, Ranking
<1> PICK rr : rr = r OBVIOUS
<1> HIDE DEF used, r
<1>8. \A k \in Slots : r[k] \in 0..Cardinality(used)
  BY <1>3, <1>6, <1>7
<1>9. r \in [Slots -> 0..MAX_LOT_FILES]
  <2>1. \A k \in Slots : r[k] \in 0..MAX_LOT_FILES
    BY <1>8, <1>1, CacheAssumption
  <2> QED BY <2>1 DEF r
<1>10. \A j, k \in Slots : files[j].timestamp <= files[k].timestamp <=> r[j] <= r[k]
  BY <1>3, <1>6, <1>7
<1>11. \A k \in Slots : r[k] = 0 <=> files[k].timestamp = 0
  <2> TAKE k \in Slots
  <2>1. 0 \in used \cup {0} OBVIOUS
  <2>2. files[k].timestamp <= 0 <=> r[k] <= 0
    BY <2>1, <1>3, <1>6, <1>7
  <2> QED BY <2>2, <1>3, <1>8, <1>1
<1>12. CASE counter \in used
  <2>1. lot_lru_counter' = RankIn(used, counter) BY <1>12, <1>2
  <2>2. \A k \in Slots : files[k].timestamp <= counter /\ ~(counter < files[k].timestamp)
    OBVIOUS
  <2>3. \A k \in Slots : /\ r[k] <= lot_lru_counter'
                         /\ lot_lru_counter' <= r[k] <=> counter <= files[k].timestamp
    BY <2>1, <2>2, <1>3, <1>6, <1>7, <1>12
  <2>4. lot_lru_counter' \in 0..Cardinality(used) BY <2>1, <1>7
  <2>5. lot_lru_counter' # 0
    <3>1. ~(counter <= 0) /\ counter \in used \cup {0} /\ 0 \in used \cup {0} BY <1>12
    <3>2. ~(RankIn(used, counter) <= RankIn(used, 0)) BY <3>1, <1>7
    <3> QED BY <3>2, <2>1, <1>7
  <2>6. lot_lru_counter' \in 1..(MAX_LOT_FILES + 1)
    BY <2>4, <2>5, <1>1, CacheAssumption
  <2>7. \A k \in Slots : r[k] = lot_lru_counter' <=> files[k].timestamp = counter
    <3> TAKE k \in Slots
    <3>1. r[k] \in Nat /\ lot_lru_counter' \in Nat /\ files[k].timestamp \in Nat
      BY <1>8, <1>1, <2>6, <1>3, CacheAssumption
    <3> QED BY <3>1, <2>2, <2>3
  <2> QED BY <1>4, <1>9, <1>10, <1>11, <2>3, <2>6, <2>7 DEF Renumbered
<1>13. CASE counter \notin used
  <2>1. lot_lru_counter' = Cardinality(used) + 1 BY <1>13, <1>2
  <2>2. lot_lru_counter' \in 1..(MAX_LOT_FILES + 1) BY <2>1, <1>1, CacheAssumption
  <2>3. \A k \in Slots : r[k] <= lot_lru_counter' /\ r[k] # lot_lru_counter'
    BY <2>1, <1>8, <1>1
  <2>4. \A k \in Slots : files[k].timestamp # counter
    BY <1>13, <1>3
  <2> QED BY <1>4, <1>9, <1>10, <1>11, <2>2, <2>3, <2>4 DEF Renumbered
<1> QED BY <1>12, <1>13

-----------------------------------------------------------------------------
(* The files and an unused slot.                                           *)

(* Fragments are told apart by finitely many numbers.                      *)
LEMMA IndexesAre ==
  /\ IsFiniteSet(Indexes)
  /\ \A f \in Files : 0..(f.fragments - 1) \subseteq Indexes
<1> DEFINE ranges == {0..(f.fragments - 1) : f \in Files}
           range == [f \in Files |-> 0..(f.fragments - 1)]
<1>1. range \in Surjection(Files, ranges)
  BY DEF Surjection
<1>2. IsFiniteSet(ranges)
  BY <1>1, FilesAssumption, FS_Surjection
<1>3. \A f \in Files : IsFiniteSet(0..(f.fragments - 1))
  <2> TAKE f \in Files
  <2>1. 0 \in Int /\ f.fragments - 1 \in Int BY FilesAssumption
  <2> QED BY <2>1, FS_Interval
<1>4. IsFiniteSet(UNION ranges)
  BY <1>2, <1>3, FS_UNION
<1>5. UNION ranges = Indexes
  BY DEF Indexes
<1> QED BY <1>4, <1>5 DEF Indexes

(* What NoFile is, for proofs that need nothing else of it.                *)
LEMMA NoFileIs == NoFile \notin Files /\ NoFile.lot = 0
BY FilesAssumption DEF NoFile

(* An unused slot is an entry with nothing in it.                          *)
LEMMA UnusedIs ==
  /\ Unused \in Entry
  /\ Unused.timestamp = 0 /\ Unused.lot = 0 /\ Unused.file = NoFile
  /\ Unused.bytes_so_far = 0
  /\ \A i \in Indexes : Unused.fragments[i] = NoFile
  /\ There(Unused) = {} /\ Whole(Unused) /\ ~Complete(Unused)
<1>1. Unused \in Entry
  BY DEF Unused, Entry
<1>2. /\ Unused.timestamp = 0 /\ Unused.lot = 0 /\ Unused.file = NoFile
      /\ Unused.bytes_so_far = 0
      /\ \A i \in Indexes : Unused.fragments[i] = NoFile
  BY DEF Unused
<1>3. There(Unused) = {}
  BY <1>2 DEF There
<1>4. Whole(Unused)
  BY <1>2, <1>3, FS_EmptySet DEF Whole
<1> QED BY <1>1, <1>2, <1>3, <1>4 DEF Complete

-----------------------------------------------------------------------------
(* The entry a message leaves.                                             *)

(* The loops of find_lot and find_free_lot end at a slot of the set.       *)
LEMMA FirstIs ==
  ASSUME NEW S \in SUBSET Slots, S # {}
  PROVE  First(S) \in S
<1>1. S \in SUBSET Nat BY CacheAssumption DEF Slots
<1>2. \E k \in S : \A j \in S : k <= j
  BY <1>1, LeastNat
<1> QED BY <1>2 DEF First

(* The parts of SlotsConsistent, slot by slot.                             *)
LEMMA SlotIs ==
  ASSUME SlotsConsistent, NEW k \in Slots
  PROVE  /\ lot_files[k] \in Entry /\ Stamp(k) \in 0..MAX_LOT_FILES
         /\ lot_lru_counter \in 1..(MAX_LOT_FILES + 1)
         /\ Whole(lot_files[k])
         /\ ~InUse(k) => lot_files[k] = Unused
         /\ \A j \in Slots :
              InUse(k) /\ InUse(j) /\ lot_files[k].lot = lot_files[j].lot => j = k
<1>1. /\ lot_files[k] \in Slot /\ lot_lru_counter \in 1..(MAX_LOT_FILES + 1)
  BY DEF SlotsConsistent, TypeOK
<1>2. lot_files[k] \in Entry /\ Stamp(k) \in 0..MAX_LOT_FILES
  BY <1>1 DEF Slot, Entry, Stamp
<1>3. Whole(lot_files[k])
  BY DEF SlotsConsistent, Whole, There
<1>4. /\ ~InUse(k) => lot_files[k] = Unused
      /\ InUse(k) => Kept(lot_files[k].lot) = {k}
  BY DEF SlotsConsistent
<1>5. ASSUME NEW j \in Slots, InUse(k), InUse(j), lot_files[k].lot = lot_files[j].lot
      PROVE  j = k
  <2>1. j \in Kept(lot_files[k].lot) BY <1>5 DEF Kept
  <2> QED BY <2>1, <1>4, <1>5
<1> QED BY <1>1, <1>2, <1>3, <1>4, <1>5

(* find_lot and find_free_lot: the slot that has the file, or the one      *)
(* whose timestamp is the lowest.                                          *)
LEMMA PlaceIs ==
  ASSUME SlotsConsistent, NEW lot
  PROVE  /\ Place(lot) \in Slots
         /\ Kept(lot) # {} => /\ InUse(Place(lot)) /\ lot_files[Place(lot)].lot = lot
                              /\ Kept(lot) = {Place(lot)}
         /\ Kept(lot) = {} => \A j \in Slots : Stamp(Place(lot)) <= Stamp(j)
<1>1. CASE Kept(lot) # {}
  <2>1. Kept(lot) \in SUBSET Slots BY DEF Kept
  <2>2. Place(lot) \in Kept(lot) BY <1>1, <2>1, FirstIs DEF Place
  <2>3. InUse(Place(lot)) /\ lot_files[Place(lot)].lot = lot /\ Place(lot) \in Slots
    BY <2>2 DEF Kept
  <2>4. ASSUME NEW j \in Kept(lot) PROVE j = Place(lot)
    <3>1. j \in Slots /\ InUse(j) /\ lot_files[j].lot = lot BY DEF Kept
    <3> QED BY <3>1, <2>3, SlotIs
  <2> QED BY <1>1, <2>2, <2>3, <2>4
<1>2. CASE Kept(lot) = {}
  <2> DEFINE oldest == {k \in Slots :
               \A j \in Slots : lot_files[k].timestamp <= lot_files[j].timestamp}
             stamps == {Stamp(k) : k \in Slots}
  <2>1. \A k \in Slots : Stamp(k) \in Nat
    <3> TAKE k \in Slots
    <3>1. Stamp(k) \in 0..MAX_LOT_FILES BY SlotIs
    <3> QED BY <3>1
  <2>2. 1 \in Slots BY CacheAssumption DEF Slots
  <2>3. stamps \in SUBSET Nat /\ stamps # {} BY <2>1, <2>2
  <2>4. PICK m \in stamps : \A u \in stamps : m <= u BY <2>3, LeastNat
  <2>5. oldest \in SUBSET Slots /\ oldest # {} BY <2>4 DEF Stamp
  <2>6. First(oldest) \in oldest BY <2>5, FirstIs
  <2>7. Place(lot) = First(oldest) BY <1>2 DEF Place, FreeLot
  <2> QED BY <1>2, <2>6, <2>7 DEF Stamp
<1> QED BY <1>1, <1>2

(* The entry is of file f, and its contents agree.                         *)
EntryIs(f, s) ==
  /\ s \in Entry /\ s.lot = f.lot /\ Whole(s)
  /\ s.timestamp \in {lot_lru_counter, lot_lru_counter + 1}

(* s is what the slot had, but for its timestamp.                          *)
SameContents(s, t) == s.file = t.file /\ s.fragments = t.fragments

(* The slot as a message finds it: the file's own, or one that is empty.   *)
LEMMA FoundIs ==
  ASSUME SlotsConsistent, NEW f \in Files
  PROVE  /\ EntryIs(f, Found(f))
         /\ Kept(f.lot) # {} => SameContents(Found(f), lot_files[Place(f.lot)])
         /\ Kept(f.lot) = {} => SameContents(Found(f), Unused) /\ ~Complete(Found(f))
<1>1. /\ lot_lru_counter \in Nat
      /\ f.lot \in {g.lot : g \in Files} \cup {0}
  <2>1. lot_lru_counter \in 1..(MAX_LOT_FILES + 1) BY DEF SlotsConsistent, TypeOK
  <2> QED BY <2>1, CacheAssumption
<1>2. CASE Kept(f.lot) # {}
  <2> PICK k : k = Place(f.lot) OBVIOUS
  <2>1. k \in Slots /\ lot_files[k].lot = f.lot BY <1>2, PlaceIs
  <2>2. lot_files[k] \in Entry /\ Whole(lot_files[k]) BY <2>1, SlotIs
  <2>3. Found(f) = [lot_files[k] EXCEPT !.timestamp = lot_lru_counter]
    BY <1>2 DEF Found
  <2> PICK s : s = lot_files[k] OBVIOUS
  <2> PICK t : t = Found(f) OBVIOUS
  <2>4. t = [s EXCEPT !.timestamp = lot_lru_counter] /\ s \in Entry /\ s.lot = f.lot
    BY <2>1, <2>2, <2>3
  <2>5. /\ t \in Entry /\ t.lot = f.lot /\ t.timestamp = lot_lru_counter
        /\ t.file = s.file /\ t.fragments = s.fragments /\ t.bytes_so_far = s.bytes_so_far
    BY <2>4, <1>1 DEF Entry
  <2>6. There(t) = There(s) BY <2>5 DEF There
  <2>7. Whole(t) BY <2>2, <2>4, <2>5, <2>6 DEF Whole, There
  <2> QED BY <1>2, <2>5, <2>7 DEF EntryIs, SameContents
<1>3. CASE Kept(f.lot) = {}
  <2> PICK t : t = Found(f) OBVIOUS
  <2>1. t = [Unused EXCEPT !.lot = f.lot, !.timestamp = lot_lru_counter]
    BY <1>3 DEF Found
  <2>2. /\ t \in Entry /\ t.lot = f.lot /\ t.timestamp = lot_lru_counter
        /\ t.file = NoFile /\ t.fragments = Unused.fragments /\ t.bytes_so_far = 0
    BY <2>1, <1>1, UnusedIs DEF Entry
  <2>3. There(t) = {} BY <2>2, UnusedIs DEF There
  <2>4. Whole(t) BY <2>2, <2>3, FS_EmptySet DEF Whole
  <2>5. ~Complete(t) BY <2>2 DEF Complete
  <2> QED BY <1>3, <2>2, <2>4, <2>5, UnusedIs DEF EntryIs, SameContents
<1> QED BY <1>2, <1>3

(* ... and once its header has been used: the header's file is the slot's, *)
(* and what was there of another is gone (783-800).                        *)
LEMMA HeadedIs ==
  ASSUME SlotsConsistent, NEW f \in Files, NEW header \in BOOLEAN
  PROVE  LET s == AfterHeader(f, header)
         IN  /\ EntryIs(f, s)
             /\ header => s.file = f
             /\ ~NewHeader(f, header) => s = Found(f)
<1> PICK t : t = Found(f) OBVIOUS
<1> PICK s : s = AfterHeader(f, header) OBVIOUS
<1>1. lot_lru_counter \in Nat /\ f.lot \in {g.lot : g \in Files} \cup {0}
  <2>1. lot_lru_counter \in 1..(MAX_LOT_FILES + 1) BY DEF SlotsConsistent, TypeOK
  <2> QED BY <2>1, CacheAssumption
<1>2. EntryIs(f, t) /\ t \in Entry /\ t.lot = f.lot /\ f # NoFile
  BY FoundIs, NoFileIs DEF EntryIs
<1>3. CASE ~header
  <2>1. s = t BY <1>3 DEF AfterHeader
  <2> QED BY <1>2, <1>3, <2>1
<1>4. CASE header /\ t.file \in {f, NoFile}
  <2>1. s = [t EXCEPT !.file = f] BY <1>4 DEF AfterHeader, Headed
  <2>2. /\ s \in Entry /\ s.lot = f.lot /\ s.timestamp = t.timestamp /\ s.file = f
        /\ s.fragments = t.fragments /\ s.bytes_so_far = t.bytes_so_far
    BY <2>1, <1>2 DEF Entry
  <2>3. There(s) = There(t) BY <2>2 DEF There
  <2>4. EntryIs(f, s) BY <1>2, <2>2, <2>3 DEF EntryIs, Whole
  <2>5. ~NewHeader(f, header) => s = t
    <3> SUFFICES ASSUME t.file = f PROVE s = t BY <1>4 DEF NewHeader
    <3> QED BY <2>1, <1>2 DEF Entry
  <2> QED BY <2>2, <2>4, <2>5
<1>5. CASE header /\ t.file \notin {f, NoFile}
  <2>1. s = [Unused EXCEPT !.lot = f.lot, !.file = f, !.timestamp = lot_lru_counter + 1]
    BY <1>5 DEF AfterHeader, Headed
  <2>2. /\ s \in Entry /\ s.lot = f.lot /\ s.timestamp = lot_lru_counter + 1
        /\ s.file = f /\ s.fragments = Unused.fragments /\ s.bytes_so_far = 0
    <3> PICK u : u = Unused OBVIOUS
    <3> PICK c : c = lot_lru_counter + 1 OBVIOUS
    <3>1. u \in Entry /\ c \in Nat /\ u.bytes_so_far = 0 BY <1>1, UnusedIs
    <3>2. s = [u EXCEPT !.lot = f.lot, !.file = f, !.timestamp = c] BY <2>1
    <3>3. /\ s \in Entry /\ s.lot = f.lot /\ s.timestamp = c
          /\ s.file = f /\ s.fragments = u.fragments /\ s.bytes_so_far = 0
      BY <3>1, <3>2, <1>1 DEF Entry
    <3> QED BY <3>3
  <2>3. There(s) = {} BY <2>2, UnusedIs DEF There
  <2>4. Whole(s) BY <2>2, <2>3, FS_EmptySet DEF Whole
  <2>5. NewHeader(f, header) BY <1>5 DEF NewHeader
  <2> QED BY <2>2, <2>4, <2>5 DEF EntryIs
<1> QED BY <1>3, <1>4, <1>5

(* A fragment stored where there was none is counted (826-839).            *)
LEMMA StoredIs ==
  ASSUME NEW f \in Files, NEW s, EntryIs(f, s), NEW i \in Indexes,
         s.fragments[i] = NoFile
  PROVE  LET t == Stored(s, i, f)
         IN  /\ EntryIs(f, t) /\ t.file = s.file
             /\ t.fragments = [s.fragments EXCEPT ![i] = f]
<1> PICK t : t = Stored(s, i, f) OBVIOUS
<1>1. /\ s \in Entry /\ Whole(s) /\ s.lot = f.lot /\ f # NoFile
      /\ t = [s EXCEPT !.fragments[i] = f, !.bytes_so_far = @ + 1]
  BY NoFileIs DEF EntryIs, Stored
<1>2. s.fragments \in [Indexes -> Files \cup {NoFile}] /\ s.bytes_so_far \in Nat
  BY <1>1 DEF Entry
<1>2a. [s.fragments EXCEPT ![i] = f] \in [Indexes -> Files \cup {NoFile}]
  BY <1>2
<1>3. /\ t \in Entry /\ t.lot = s.lot /\ t.timestamp = s.timestamp /\ t.file = s.file
      /\ t.fragments = [s.fragments EXCEPT ![i] = f]
      /\ t.bytes_so_far = s.bytes_so_far + 1
  <2> PICK g : g = [s.fragments EXCEPT ![i] = f] OBVIOUS
  <2> PICK n : n = s.bytes_so_far + 1 OBVIOUS
  <2>1. g \in [Indexes -> Files \cup {NoFile}] /\ n \in Nat BY <1>2, <1>2a
  <2>2. t = [s EXCEPT !.fragments = g, !.bytes_so_far = n] BY <1>1
  <2>3. /\ t \in Entry /\ t.lot = s.lot /\ t.timestamp = s.timestamp /\ t.file = s.file
        /\ t.fragments = g /\ t.bytes_so_far = n
    BY <2>1, <2>2, <1>1 DEF Entry
  <2> QED BY <2>3
<1>4. There(t) = There(s) \cup {i} /\ i \notin There(s)
  BY <1>1, <1>3, <1>2 DEF There
<1>5. IsFiniteSet(There(s))
  <2>1. There(s) \in SUBSET Indexes BY DEF There
  <2> QED BY <2>1, IndexesAre, FS_Subset
<1>6. Cardinality(There(t)) = Cardinality(There(s)) + 1
  BY <1>4, <1>5, FS_AddElement
<1>7. \A j \in There(t) : t.fragments[j].lot = t.lot
  BY <1>1, <1>3, <1>2, <1>4 DEF Whole, There
<1>8. Whole(t)
  BY <1>1, <1>3, <1>6, <1>7 DEF Whole
<1> QED BY <1>3, <1>8 DEF EntryIs

-----------------------------------------------------------------------------
(* The report of a message.                                                *)

Fresh(f, header) == Kept(f.lot) = {} \/ NewHeader(f, header)

Mixed(s) == \E i \in Indexes : s.fragments[i] \notin {s.file, NoFile}

(* A message reports the file in its slot when it completes it, and a      *)
(* second time only when another file's fragments are in.                  *)
ReportIs(f, header, s, report) ==
  LET n == reports[Place(f.lot)]
  IN  /\ Fresh(f, header) => (report <=> Complete(s))
      /\ ~Fresh(f, header) =>
           /\ Complete(s) <=> report \/ n > 0
           /\ n > 1 \/ (report /\ n > 0) => Mixed(s)

(* Before the fragment: a file kept is complete if it has been reported,   *)
(* and an empty slot is not.                                               *)
LEMMA BeforeFragment ==
  ASSUME SlotsConsistent, ReportedRight, NEW f \in Files, NEW header \in BOOLEAN
  PROVE  LET s == AfterHeader(f, header)
             n == reports[Place(f.lot)]
         IN  /\ n \in Nat
             /\ ~Fresh(f, header) => /\ Complete(s) <=> n > 0
                                     /\ n > 1 => Mixed(s)
             /\ NewHeader(f, header) => s.file = f
             /\ Fresh(f, header) /\ ~NewHeader(f, header) => ~Complete(s)
<1> PICK k : k = Place(f.lot) OBVIOUS
<1>1. k \in Slots /\ reports[k] \in Nat
  <2>1. k \in Slots BY PlaceIs
  <2>2. reports[k] \in 0..2 BY <2>1 DEF SlotsConsistent, TypeOK
  <2> QED BY <2>1, <2>2
<1>2. ASSUME ~Fresh(f, header)
      PROVE  /\ Complete(AfterHeader(f, header)) <=> reports[k] > 0
             /\ reports[k] > 1 => Mixed(AfterHeader(f, header))
  <2>1. SameContents(AfterHeader(f, header), lot_files[k])
    BY <1>2, HeadedIs, FoundIs DEF Fresh
  <2>2. Complete(AfterHeader(f, header)) <=> Complete(lot_files[k])
    BY <2>1 DEF Complete, SameContents
  <2>3. Mixed(lot_files[k]) => Mixed(AfterHeader(f, header))
    BY <2>1 DEF Mixed, SameContents
  <2>4. Complete(lot_files[k]) <=> reports[k] > 0
    BY <1>1 DEF ReportedRight, ReportedWhenComplete
  <2>5. reports[k] > 1 => Mixed(lot_files[k])
    BY <1>1 DEF ReportedRight, ReportedOnce, Mixed
  <2> QED BY <2>2, <2>3, <2>4, <2>5
<1>3. NewHeader(f, header) => AfterHeader(f, header).file = f
  BY HeadedIs DEF NewHeader
<1>4. Fresh(f, header) /\ ~NewHeader(f, header) => ~Complete(AfterHeader(f, header))
  BY HeadedIs, FoundIs DEF Fresh
<1> QED BY <1>1, <1>2, <1>3, <1>4

(* A header too short leaves the slot as it was found, and reports nothing.*)
LEMMA ShortIs ==
  ASSUME SlotsConsistent, ReportedRight, NEW f \in Files
  PROVE  EntryIs(f, Found(f)) /\ ReportIs(f, FALSE, Found(f), FALSE)
<1>1. AfterHeader(f, FALSE) = Found(f) /\ ~NewHeader(f, FALSE)
  BY DEF AfterHeader, NewHeader
<1>2. EntryIs(f, Found(f)) BY FoundIs
<1>3. /\ reports[Place(f.lot)] \in Nat
      /\ ~Fresh(f, FALSE) => /\ Complete(Found(f)) <=> reports[Place(f.lot)] > 0
                             /\ reports[Place(f.lot)] > 1 => Mixed(Found(f))
      /\ Fresh(f, FALSE) => ~Complete(Found(f))
  BY <1>1, BeforeFragment
<1> QED BY <1>2, <1>3 DEF ReportIs

(* A fragment that is not stored leaves a new file incomplete.             *)
LEMMA LongIs ==
  ASSUME SlotsConsistent, ReportedRight, NEW f \in Files, NEW header \in BOOLEAN,
         NEW i \in 0..(f.fragments - 1), AfterHeader(f, header).fragments[i] = NoFile
  PROVE  LET s == AfterHeader(f, header)
         IN  EntryIs(f, s) /\ ReportIs(f, header, s, FALSE)
<1>1. EntryIs(f, AfterHeader(f, header)) BY HeadedIs
<1>2. NewHeader(f, header) => ~Complete(AfterHeader(f, header))
  BY BeforeFragment DEF Complete
<1> QED BY <1>1, <1>2, BeforeFragment DEF ReportIs

(* A fragment that is there already: the header may complete the file.     *)
LEMMA DuplicateIs ==
  ASSUME SlotsConsistent, ReportedRight, NEW f \in Files, NEW header \in BOOLEAN
  PROVE  LET s == AfterHeader(f, header)
         IN  EntryIs(f, s) /\ ReportIs(f, header, s, NewHeader(f, header) /\ Complete(s))
<1>1. EntryIs(f, AfterHeader(f, header)) BY HeadedIs
<1>2. Fresh(f, header) /\ ~NewHeader(f, header) => ~Complete(AfterHeader(f, header))
  BY BeforeFragment
<1>3. NewHeader(f, header) => Fresh(f, header) BY DEF Fresh
<1> QED BY <1>1, <1>2, <1>3, BeforeFragment DEF ReportIs

(* A fragment stored in a file that is complete already is of another file:*)
(* a file is not reported again.                                           *)
LEMMA NewFragmentIs ==
  ASSUME SlotsConsistent, ReportedRight, NEW f \in Files, NEW header \in BOOLEAN,
         NEW i \in 0..(f.fragments - 1), AfterHeader(f, header).fragments[i] = NoFile
  PROVE  LET s == Stored(AfterHeader(f, header), i, f)
         IN  EntryIs(f, s) /\ ReportIs(f, header, s, Complete(s))
<1> PICK a : a = AfterHeader(f, header) OBVIOUS
<1> PICK s : s = Stored(a, i, f) OBVIOUS
<1>1. i \in Indexes BY IndexesAre
<1>2. EntryIs(f, a) BY HeadedIs
<1>3. EntryIs(f, s) /\ s.file = a.file /\ s.fragments = [a.fragments EXCEPT ![i] = f]
  BY <1>1, <1>2, StoredIs
<1>4. /\ a.fragments \in [Indexes -> Files \cup {NoFile}] /\ f # NoFile
      /\ a.file \in Files \cup {NoFile}
  BY <1>2, NoFileIs DEF EntryIs, Entry
<1>5. /\ s.fragments[i] = f
      /\ \A j \in Indexes : j # i => s.fragments[j] = a.fragments[j]
  BY <1>1, <1>3, <1>4
<1>6. Complete(a) => Complete(s)
  <2> SUFFICES ASSUME Complete(a) PROVE Complete(s) OBVIOUS
  <2>1. s.file \in Files BY <1>3, <1>4 DEF Complete
  <2>2. ASSUME NEW j \in 0..(s.file.fragments - 1) PROVE s.fragments[j] # NoFile
    <3>1. j \in Indexes /\ a.fragments[j] # NoFile BY <2>1, <1>3, IndexesAre DEF Complete
    <3> QED BY <3>1, <1>4, <1>5
  <2> QED BY <2>1, <2>2, NoFileIs DEF Complete
<1>7. Mixed(a) => Mixed(s)
  BY <1>3, <1>5, <1>1 DEF Mixed
<1>8. Complete(a) => Mixed(s)
  <2> SUFFICES ASSUME Complete(a) PROVE Mixed(s) OBVIOUS
  <2>1. a.file # f BY DEF Complete
  <2> QED BY <2>1, <1>1, <1>3, <1>4, <1>5 DEF Mixed
<1>9. LET n == reports[Place(f.lot)]
      IN  n \in Nat /\ (~Fresh(f, header) => /\ Complete(a) <=> n > 0
                                             /\ n > 1 => Mixed(a))
  BY BeforeFragment
<1>10. ReportIs(f, header, s, Complete(s))
  BY <1>6, <1>7, <1>8, <1>9 DEF ReportIs
<1> QED BY <1>3, <1>10

-----------------------------------------------------------------------------
(* Every step preserves the invariant.                                     *)

(* What a step puts into the slots before the timestamps are renumbered.   *)
Consistent(files, counter) ==
  /\ counter \in Nat \ {0}
  /\ \A k \in Slots :
       /\ files[k] \in Entry /\ files[k].timestamp \in 0..counter
       /\ Whole(files[k])
       /\ files[k].timestamp = 0 => files[k] = Unused
  /\ \A j, k \in Slots :
       /\ files[j].timestamp # 0 /\ files[k].timestamp # 0
       /\ files[j].lot = files[k].lot
       => j = k

Reported(files) ==
  \A k \in Slots :
    /\ Complete(files[k]) <=> reports'[k] > 0
    /\ reports'[k] > 1 => Mixed(files[k])

(* The variables of the model but the cache.                               *)
RestTypes ==
  /\ onAir \subseteq Files /\ services \in BOOLEAN
  /\ event \in Slots \cup {0} /\ reports \in [Slots -> 0..2]
  /\ since \in [Slots -> SUBSET Slots] /\ changes \in 0..MaxChanges

(* Renumbering changes nothing but timestamps.                             *)
LEMMA RenumberedSlot ==
  ASSUME NEW files, NEW counter, NEW r, Consistent(files, counter),
         Renumbered(files, counter, r), NEW k \in Slots
  PROVE  /\ lot_files'[k] \in Slot /\ lot_files'[k].timestamp = r[k]
         /\ lot_files'[k].lot = files[k].lot
         /\ SameContents(lot_files'[k], files[k])
         /\ lot_files'[k].bytes_so_far = files[k].bytes_so_far
         /\ r[k] \in Nat /\ (r[k] = 0 <=> files[k].timestamp = 0)
         /\ r[k] = 0 => lot_files'[k] = Unused
<1> PICK s : s = files[k] OBVIOUS
<1> PICK t : t = lot_files'[k] OBVIOUS
<1>1. s \in Entry /\ t = [s EXCEPT !.timestamp = r[k]] /\ r[k] \in 0..MAX_LOT_FILES
  BY DEF Consistent, Renumbered
<1>2. /\ t \in Slot /\ t.timestamp = r[k] /\ t.lot = s.lot /\ t.bytes_so_far = s.bytes_so_far
      /\ t.file = s.file /\ t.fragments = s.fragments
  BY <1>1 DEF Entry, Slot
<1>3. r[k] = 0 <=> s.timestamp = 0
  BY DEF Renumbered
<1>4. r[k] \in Nat
  BY <1>1, CacheAssumption
<1>5. ASSUME r[k] = 0 PROVE t = Unused
  <2>1. s = Unused BY <1>3, <1>5 DEF Consistent
  <2>2. t = [Unused EXCEPT !.timestamp = 0] BY <1>1, <1>5, <2>1
  <2> QED BY <2>2 DEF Unused
<1> QED BY <1>2, <1>3, <1>4, <1>5 DEF SameContents

(* So it keeps what slots and reports say of each other ...                *)
LEMMA RenumberedSlots ==
  ASSUME NEW files, NEW counter, NEW r, Consistent(files, counter),
         Renumbered(files, counter, r), RestTypes', Reported(files)
  PROVE  SlotsConsistent' /\ ReportedRight'
<1>1. TypeOK'
  <2>1. lot_files' \in [Slots -> Slot]
    <3>1. \A k \in Slots : lot_files'[k] \in Slot BY RenumberedSlot
    <3>2. lot_files' = [k \in Slots |-> lot_files'[k]] BY DEF Renumbered
    <3> QED BY <3>1, <3>2
  <2> QED BY <2>1 DEF TypeOK, RestTypes, Renumbered
<1>2. ASSUME NEW k \in Slots
      PROVE  LET s == lot_files[k]
                 there == {i \in Indexes : s.fragments[i] # NoFile}
             IN  (/\ ~InUse(k) => s = Unused
                  /\ InUse(k) => Kept(s.lot) = {k}
                  /\ s.file # NoFile => s.file.lot = s.lot
                  /\ \A i \in there : s.fragments[i].lot = s.lot
                  /\ s.bytes_so_far = Cardinality(there))'
  <2> PICK s : s = lot_files'[k] OBVIOUS
  <2>1. /\ s.timestamp = r[k] /\ s.lot = files[k].lot /\ SameContents(s, files[k])
        /\ s.bytes_so_far = files[k].bytes_so_far
        /\ r[k] = 0 <=> files[k].timestamp = 0
        /\ r[k] = 0 => s = Unused
    BY RenumberedSlot
  <2>2. Whole(files[k]) BY DEF Consistent
  <2>3. ASSUME s.timestamp # 0, NEW j \in Slots,
               lot_files'[j].timestamp # 0, lot_files'[j].lot = s.lot
        PROVE  j = k
    <3>1. files[j].timestamp # 0 /\ files[j].lot = files[k].lot /\ files[k].timestamp # 0
      BY <2>3, <2>1, RenumberedSlot
    <3> QED BY <3>1 DEF Consistent
  <2>4. (InUse(k) => Kept(lot_files[k].lot) = {k})'
    BY <2>3 DEF Kept, InUse
  <2>5. /\ s.file # NoFile => s.file.lot = s.lot
        /\ \A i \in There(s) : s.fragments[i].lot = s.lot
        /\ s.bytes_so_far = Cardinality(There(s))
    BY <2>1, <2>2 DEF Whole, There, SameContents
  <2>6. (~InUse(k) => lot_files[k] = Unused)'
    BY <2>1 DEF InUse, Unused
  <2> QED BY <2>4, <2>5, <2>6 DEF There
<1>3. SlotsConsistent'
  BY <1>1, <1>2 DEF SlotsConsistent
<1>4. ASSUME NEW k \in Slots
      PROVE  /\ Complete(lot_files'[k]) <=> reports'[k] > 0
             /\ reports'[k] > 1 => Mixed(lot_files'[k])
  <2>1. SameContents(lot_files'[k], files[k]) BY RenumberedSlot
  <2>2. /\ Complete(lot_files'[k]) <=> Complete(files[k])
        /\ Mixed(files[k]) => Mixed(lot_files'[k])
    BY <2>1 DEF Complete, Mixed, SameContents
  <2> QED BY <2>2 DEF Reported
<1>5. ReportedRight'
  BY <1>4 DEF ReportedRight, ReportedWhenComplete, ReportedOnce, Mixed
<1> QED BY <1>3, <1>5

(* ... and the order of use.                                               *)
LEMMA RenumberedOrder ==
  ASSUME NEW files, NEW counter, NEW r, Consistent(files, counter),
         Renumbered(files, counter, r), NEW used \in [Slots -> SUBSET Slots],
         RecencyOf(files, counter, used)
  PROVE  RecencyOf(lot_files', lot_lru_counter', used)
<1> PICK c : c = lot_lru_counter' OBVIOUS
<1>1. \A k \in Slots :
        /\ lot_files'[k].timestamp = r[k] /\ r[k] \in Nat
        /\ (r[k] = 0 <=> files[k].timestamp = 0)
        /\ files[k].timestamp \in Nat
  <2> TAKE k \in Slots
  <2>1. files[k].timestamp \in 0..counter BY DEF Consistent
  <2> QED BY <2>1, RenumberedSlot
<1>2. /\ \A k \in Slots : r[k] <= c /\ (r[k] = c <=> files[k].timestamp = counter)
      /\ \A j, k \in Slots : files[j].timestamp <= files[k].timestamp <=> r[j] <= r[k]
  BY DEF Renumbered
<1>3. ASSUME NEW k \in Slots, lot_files'[k].timestamp # 0
      PROVE  /\ k \notin used[k] /\ lot_files'[k].timestamp <= c
             /\ lot_files'[k].timestamp = c => used[k] = {}
  <2>1. files[k].timestamp # 0 BY <1>1, <1>3
  <2>2. k \notin used[k] /\ (files[k].timestamp = counter => used[k] = {})
    BY <2>1 DEF RecencyOf
  <2> QED BY <2>2, <1>1, <1>2
<1>4. ASSUME NEW j \in Slots, NEW k \in Slots, j # k,
             lot_files'[j].timestamp # 0, lot_files'[k].timestamp # 0
      PROVE  /\ j \in used[k] <=> k \notin used[j]
             /\ j \in used[k] => lot_files'[k].timestamp <= lot_files'[j].timestamp
             /\ j \in used[k] =>
                  \A l \in used[j] : lot_files'[k].timestamp < lot_files'[l].timestamp
  <2>1. files[j].timestamp # 0 /\ files[k].timestamp # 0 BY <1>1, <1>4
  <2>2. /\ j \in used[k] <=> k \notin used[j]
        /\ j \in used[k] => files[k].timestamp <= files[j].timestamp
        /\ j \in used[k] => \A l \in used[j] : files[k].timestamp < files[l].timestamp
    BY <2>1, <1>4 DEF RecencyOf
  <2>3. j \in used[k] => r[k] <= r[j] BY <2>2, <1>2
  <2>4. ASSUME j \in used[k], NEW l \in used[j] PROVE r[k] < r[l]
    <3>1. l \in Slots OBVIOUS
    <3>2. files[k].timestamp < files[l].timestamp BY <2>2, <2>4
    <3>3. ~(files[l].timestamp <= files[k].timestamp) BY <3>1, <3>2, <1>1
    <3>4. ~(r[l] <= r[k]) BY <3>1, <3>3, <1>2
    <3> QED BY <3>1, <3>4, <1>1
  <2>5. \A l \in used[j] : l \in Slots OBVIOUS
  <2> QED BY <2>2, <2>3, <2>4, <2>5, <1>1
<1> QED BY <1>3, <1>4 DEF RecencyOf

(* A step that leaves consistent slots renumbered leaves the invariant.    *)
LEMMA RankedKeeps ==
  ASSUME NEW files, NEW counter, Consistent(files, counter),
         Ranked(files, counter), RestTypes', Reported(files),
         RecencyOf(files, counter, since')
  PROVE  IInv'
<1>1. PICK r : Renumbered(files, counter, r)
  BY RankedIs DEF Consistent
<1>2. since' \in [Slots -> SUBSET Slots]
  BY DEF RestTypes
<1>3. RecencyOf(lot_files', lot_lru_counter', since')
  BY <1>1, <1>2, RenumberedOrder
<1> QED BY <1>1, <1>3, RenumberedSlots DEF IInv, Recency

(* Before a step the slots are consistent with the counter's next value.   *)
LEMMA SlotsAreConsistent ==
  ASSUME IInv
  PROVE  Consistent(lot_files, lot_lru_counter)
<1>1. SlotsConsistent /\ Recency BY DEF IInv
<1>2. lot_lru_counter \in Nat \ {0}
  <2>1. lot_lru_counter \in 1..(MAX_LOT_FILES + 1) BY <1>1 DEF SlotsConsistent, TypeOK
  <2> QED BY <2>1, CacheAssumption
<1>3. ASSUME NEW k \in Slots PROVE lot_files[k].timestamp \in 0..lot_lru_counter
  <2>1. Stamp(k) \in 0..MAX_LOT_FILES BY <1>1, SlotIs
  <2>2. Stamp(k) \in Nat BY <2>1, CacheAssumption
  <2>3. Stamp(k) # 0 => Stamp(k) <= lot_lru_counter BY <1>1 DEF Recency, RecencyOf, Stamp
  <2> QED BY <2>2, <2>3, <1>2 DEF Stamp
<1> QED BY <1>1, <1>2, <1>3, SlotIs DEF Consistent, InUse

Takes(files, counter, used, k, s, new, later) ==
  /\ counter \in Nat \ {0} /\ k \in Slots /\ used \in [Slots -> SUBSET Slots]
  /\ \A j \in Slots : files[j].timestamp \in Nat
  /\ RecencyOf(files, counter, used)
  /\ s.timestamp \in {counter, counter + 1}
  /\ \A j \in Slots : new[j] = IF j = k THEN s ELSE files[j]
  /\ \A j \in Slots : later[j] = IF j = k THEN {} ELSE used[j] \cup {k}

(* The slot of a message is the one used last, with a timestamp no other   *)
(* slot is above; the order of the others is as it was.                    *)
LEMMA UsedLast ==
  ASSUME NEW files, NEW counter, NEW used, NEW k, NEW s, NEW new, NEW later,
         Takes(files, counter, used, k, s, new, later)
  PROVE  RecencyOf(new, counter + 1, later)
<1> USE DEF Takes
<1>1. new[k] = s /\ later[k] = {} /\ s.timestamp \in {counter, counter + 1}
  OBVIOUS
<1>2. \A j \in Slots : j # k => new[j] = files[j] /\ later[j] = used[j] \cup {k}
  OBVIOUS
<1>3. ASSUME NEW j \in Slots, j # k, files[j].timestamp # 0
      PROVE  /\ j \notin used[j] /\ files[j].timestamp <= counter
             /\ files[j].timestamp = counter => used[j] = {}
  BY <1>3 DEF RecencyOf
<1>4. ASSUME NEW j \in Slots, new[j].timestamp # 0
      PROVE  /\ j \notin later[j] /\ new[j].timestamp <= counter + 1
             /\ new[j].timestamp = counter + 1 => later[j] = {}
  <2>1. CASE j = k
    BY <2>1, <1>1
  <2>2. CASE j # k
    <3>1. new[j] = files[j] /\ j \notin used[j] /\ files[j].timestamp <= counter
      BY <2>2, <1>2, <1>3, <1>4
    <3>2. files[j].timestamp \in Nat OBVIOUS
    <3>3. new[j].timestamp <= counter + 1 /\ new[j].timestamp # counter + 1
      BY <3>1, <3>2
    <3> QED BY <2>2, <3>1, <3>3, <1>2
  <2> QED BY <2>1, <2>2
<1>5. ASSUME NEW i \in Slots, NEW j \in Slots, i # j,
             new[i].timestamp # 0, new[j].timestamp # 0
      PROVE  /\ i \in later[j] <=> j \notin later[i]
             /\ i \in later[j] => new[j].timestamp <= new[i].timestamp
             /\ i \in later[j] => \A l \in later[i] : new[j].timestamp < new[l].timestamp
  <2>1. CASE i = k
    <3>1. new[j] = files[j] /\ j # k /\ k \in later[j] BY <2>1, <1>5, <1>2
    <3>2. files[j].timestamp <= counter /\ files[j].timestamp \in Nat
      BY <3>1, <1>3, <1>5
    <3>3. new[j].timestamp <= new[i].timestamp BY <2>1, <3>1, <3>2, <1>1
    <3> QED BY <2>1, <3>1, <3>3, <1>1
  <2>2. CASE j = k
    <3>1. later[j] = {} /\ i # k /\ j \in later[i] BY <2>2, <1>1, <1>2, <1>5
    <3> QED BY <3>1
  <2>3. CASE i # k /\ j # k
    <3>1. /\ new[i] = files[i] /\ new[j] = files[j]
          /\ later[i] = used[i] \cup {k} /\ later[j] = used[j] \cup {k}
      BY <2>3, <1>2
    <3>2. /\ i \in used[j] <=> j \notin used[i]
          /\ i \in used[j] => files[j].timestamp <= files[i].timestamp
          /\ i \in used[j] => \A l \in used[i] : files[j].timestamp < files[l].timestamp
      BY <3>1, <1>5 DEF RecencyOf
    <3>3. ASSUME i \in later[j], NEW l \in later[i]
          PROVE  new[j].timestamp < new[l].timestamp
      <4>1. i \in used[j] BY <3>1, <3>3, <2>3
      <4>2. CASE l = k
        <5>1. files[j].timestamp <= counter /\ files[j].timestamp # counter
          BY <4>1, <1>3, <1>5, <2>3, <3>1
        <5>2. files[j].timestamp \in Nat OBVIOUS
        <5> QED BY <5>1, <5>2, <4>2, <3>1, <1>1
      <4>3. CASE l # k
        <5>1. l \in used[i] /\ l \in Slots BY <4>3, <3>1
        <5> QED BY <5>1, <4>1, <4>3, <3>1, <3>2, <1>2
      <4> QED BY <4>2, <4>3
    <3>4. i \in later[j] <=> i \in used[j] BY <3>1, <2>3
    <3>5. j \in later[i] <=> j \in used[i] BY <3>1, <2>3
    <3> QED BY <3>1, <3>2, <3>3, <3>4, <3>5
  <2> QED BY <2>1, <2>2, <2>3
<1> QED BY <1>4, <1>5 DEF RecencyOf

(* A message whose entry is right keeps the invariant (709-865).           *)
LEMMA LeavesKeeps ==
  ASSUME IInv, NEW f \in Files, NEW header \in BOOLEAN, NEW s, NEW report \in BOOLEAN,
         Leaves(f, header, s, report), EntryIs(f, s), ReportIs(f, header, s, report)
  PROVE  IInv'
<1> PICK k : k = Place(f.lot) OBVIOUS
<1> PICK before : before = IF Fresh(f, header) THEN 0 ELSE reports[k] OBVIOUS
<1> PICK files : files = [lot_files EXCEPT ![k] = s] OBVIOUS
<1> PICK c : c = lot_lru_counter OBVIOUS
<1>1. SlotsConsistent /\ ReportedRight /\ Recency /\ TypeOK
  BY DEF IInv, SlotsConsistent
<1>2. /\ k \in Slots
      /\ Kept(f.lot) # {} => InUse(k) /\ lot_files[k].lot = f.lot
  BY <1>1, PlaceIs
<1>3. Consistent(lot_files, c) /\ c \in Nat \ {0}
  BY SlotsAreConsistent DEF Consistent
<1>4. /\ Ranked(files, c + 1)
      /\ event' = IF report THEN k ELSE 0
      /\ reports' = [reports EXCEPT ![k] = IF report /\ before < 2 THEN before + 1 ELSE before]
      /\ since' = [j \in Slots |-> IF j = k THEN {} ELSE since[j] \cup {k}]
      /\ UNCHANGED <<onAir, services, changes>>
  BY DEF Leaves, Fresh
<1>5. \A j \in Slots : files[j] = IF j = k THEN s ELSE lot_files[j]
  BY <1>1 DEF TypeOK
<1>6. /\ s \in Entry /\ s.lot = f.lot /\ Whole(s)
      /\ s.timestamp \in {c, c + 1} /\ s.timestamp \in 1..(c + 1)
  BY <1>3 DEF EntryIs
<1>7. Consistent(files, c + 1)
  <2>1. ASSUME NEW j \in Slots
        PROVE  /\ files[j] \in Entry /\ files[j].timestamp \in 0..(c + 1)
               /\ Whole(files[j]) /\ (files[j].timestamp = 0 => files[j] = Unused)
    <3>1. CASE j = k
      BY <3>1, <1>2, <1>3, <1>5, <1>6
    <3>2. CASE j # k
      <4>1. files[j] = lot_files[j] BY <3>2, <1>5
      <4>2. lot_files[j].timestamp \in 0..c BY <1>3 DEF Consistent
      <4>3. lot_files[j].timestamp \in 0..(c + 1) BY <4>2, <1>3
      <4> QED BY <4>1, <4>3, <1>3 DEF Consistent
    <3> QED BY <3>1, <3>2
  <2>2. ASSUME NEW j \in Slots, j # k, lot_files[j].timestamp # 0, lot_files[j].lot = f.lot
        PROVE  FALSE
    <3>1. j \in Kept(f.lot) BY <2>2 DEF Kept, InUse
    <3>2. InUse(k) /\ lot_files[k].lot = f.lot BY <3>1, <1>2
    <3> QED BY <2>2, <3>2, <1>2, <1>3 DEF Consistent, InUse
  <2>3. ASSUME NEW i \in Slots, NEW j \in Slots, files[i].timestamp # 0,
               files[j].timestamp # 0, files[i].lot = files[j].lot
        PROVE  i = j
    <3>1. CASE i = k /\ j # k BY <3>1, <2>2, <2>3, <1>5, <1>6, <1>2
    <3>2. CASE j = k /\ i # k BY <3>2, <2>2, <2>3, <1>5, <1>6, <1>2
    <3>3. CASE i # k /\ j # k BY <3>3, <2>3, <1>5, <1>3 DEF Consistent
    <3> QED BY <3>1, <3>2, <3>3
  <2>4. c + 1 \in Nat \ {0} BY <1>3
  <2> QED BY <2>1, <2>3, <2>4 DEF Consistent
<1>8. RecencyOf(files, c + 1, since')
  <2>1. \A j \in Slots : lot_files[j].timestamp \in Nat
    <3> TAKE j \in Slots
    <3>1. lot_files[j].timestamp \in 0..c BY <1>3 DEF Consistent
    <3> QED BY <3>1
  <2>2. since \in [Slots -> SUBSET Slots] /\ RecencyOf(lot_files, c, since)
    BY <1>1 DEF TypeOK, Recency
  <2> PICK later : later = since' OBVIOUS
  <2>3. \A j \in Slots : later[j] = IF j = k THEN {} ELSE since[j] \cup {k}
    BY <1>4
  <2>4. Takes(lot_files, c, since, k, s, files, later)
    BY <2>1, <2>2, <2>3, <1>2, <1>3, <1>5, <1>6 DEF Takes
  <2> QED BY <2>4, UsedLast
<1>9. before \in 0..2 /\ reports \in [Slots -> 0..2]
  BY <1>1, <1>2 DEF TypeOK
<1>10. RestTypes'
  <2>1. (IF report /\ before < 2 THEN before + 1 ELSE before) \in 0..2 BY <1>9
  <2>2. reports' \in [Slots -> 0..2] BY <2>1, <1>4, <1>9
  <2>3. since' \in [Slots -> SUBSET Slots]
    BY <1>1, <1>2, <1>4 DEF TypeOK
  <2> QED BY <2>2, <2>3, <1>1, <1>2, <1>4 DEF RestTypes, TypeOK
<1>11. Reported(files)
  <2>1. ASSUME NEW j \in Slots, j # k
        PROVE  /\ Complete(files[j]) <=> reports'[j] > 0
               /\ reports'[j] > 1 => Mixed(files[j])
    <3>1. files[j] = lot_files[j] /\ reports'[j] = reports[j]
      BY <2>1, <1>4, <1>5, <1>9
    <3> QED BY <3>1, <1>1
      DEF ReportedRight, ReportedWhenComplete, ReportedOnce, Mixed
  <2>2. reports'[k] = IF report /\ before < 2 THEN before + 1 ELSE before
    BY <1>2, <1>4, <1>9
  <2>3. files[k] = s BY <1>2, <1>5
  <2>4. CASE Fresh(f, header)
    <3>1. before = 0 /\ (report <=> Complete(s)) BY <2>4 DEF ReportIs
    <3>2. reports'[k] = IF report THEN 1 ELSE 0 BY <3>1, <2>2
    <3>3. (reports'[k] > 0 <=> report) /\ ~(reports'[k] > 1) BY <3>2
    <3> QED BY <3>1, <3>3, <2>1, <2>3 DEF Reported
  <2>5. CASE ~Fresh(f, header)
    <3>1. /\ Complete(s) <=> report \/ before > 0
          /\ before > 1 \/ (report /\ before > 0) => Mixed(s)
      BY <2>5 DEF ReportIs
    <3>2. reports'[k] > 0 <=> report \/ before > 0 BY <2>2, <1>9
    <3>3. reports'[k] > 1 => before > 1 \/ (report /\ before > 0) BY <2>2, <1>9
    <3> QED BY <3>1, <3>2, <3>3, <2>1, <2>3 DEF Reported
  <2> QED BY <2>4, <2>5
<1> QED BY <1>4, <1>7, <1>8, <1>10, <1>11, RankedKeeps

(* What a message of the port is: an entry and a report that are right.    *)
LEMMA MessageIs ==
  ASSUME IInv, NEW f \in Files,
         \/ ShortHeader(f)
         \/ \E i \in 0..(f.fragments - 1) :
              Fragment(f, i) \/ \E header \in BOOLEAN : LongFragment(f, i, header)
  PROVE  \E header, report \in BOOLEAN : \E s :
           /\ Leaves(f, header, s, report)
           /\ EntryIs(f, s) /\ ReportIs(f, header, s, report)
<1>1. SlotsConsistent /\ ReportedRight BY DEF IInv
<1> DEFINE Right(header, s, report) ==
             /\ Leaves(f, header, s, report)
             /\ EntryIs(f, s) /\ ReportIs(f, header, s, report)
<1>2. CASE ShortHeader(f)
  <2>1. Right(FALSE, Found(f), FALSE)
    BY <1>1, <1>2, ShortIs DEF ShortHeader
  <2> QED BY <2>1
<1>3. ASSUME NEW i \in 0..(f.fragments - 1), NEW header \in BOOLEAN,
             LongFragment(f, i, header)
      PROVE  \E report \in BOOLEAN : \E s : Right(header, s, report)
  <2>1. Right(header, AfterHeader(f, header), FALSE)
    BY <1>1, <1>3, LongIs DEF LongFragment
  <2> QED BY <2>1
<1>4. ASSUME NEW i \in 0..(f.fragments - 1), NEW header \in BOOLEAN,
             Duplicate(f, i, header)
      PROVE  \E report \in BOOLEAN : \E s : Right(header, s, report)
  <2> PICK report \in BOOLEAN :
        report = (NewHeader(f, header) /\ Complete(AfterHeader(f, header)))
    BY DEF NewHeader, Complete
  <2>1. Right(header, AfterHeader(f, header), report)
    BY <1>1, <1>4, DuplicateIs DEF Duplicate
  <2> QED BY <2>1
<1>5. ASSUME NEW i \in 0..(f.fragments - 1), NEW header \in BOOLEAN,
             NewFragment(f, i, header)
      PROVE  \E report \in BOOLEAN : \E s : Right(header, s, report)
  <2> PICK s : s = Stored(AfterHeader(f, header), i, f) OBVIOUS
  <2> PICK report \in BOOLEAN : report = Complete(s)
    BY DEF Complete
  <2>1. Right(header, s, report)
    BY <1>1, <1>5, NewFragmentIs DEF NewFragment
  <2> QED BY <2>1
<1> QED BY <1>2, <1>3, <1>4, <1>5 DEF Fragment

(* A cache in which no slot is used, as output_reset leaves it.            *)
Cleared ==
  /\ lot_files = [k \in Slots |-> Unused] /\ lot_lru_counter = 1
  /\ event = 0 /\ reports = [k \in Slots |-> 0] /\ since = [k \in Slots |-> {}]
  /\ onAir \subseteq Files /\ services \in BOOLEAN /\ changes \in 0..MaxChanges

(* It satisfies the invariant.                                             *)
LEMMA ClearedIs == Cleared => IInv
<1> SUFFICES ASSUME Cleared PROVE IInv OBVIOUS
<1> USE DEF Cleared
<1>1. \A k \in Slots : lot_files[k] = Unused /\ reports[k] = 0 /\ ~InUse(k)
  BY UnusedIs DEF InUse
<1>2. Unused \in Slot /\ 1 \in 1..(MAX_LOT_FILES + 1)
  BY UnusedIs, CacheAssumption DEF Entry, Slot
<1>3. TypeOK
  BY <1>2 DEF TypeOK
<1>4. SlotsConsistent
  BY <1>1, <1>3, UnusedIs DEF SlotsConsistent, Whole, There
<1>5. ReportedRight
  BY <1>1, UnusedIs DEF ReportedRight, ReportedWhenComplete, ReportedOnce
<1>6. Recency
  BY <1>1 DEF Recency, RecencyOf, InUse
<1> QED BY <1>4, <1>5, <1>6 DEF IInv

(* Every step is a message of the port or leaves its slots as they are.    *)
LEMMA NextKeeps == IInv /\ [Next]_vars => IInv'
<1> SUFFICES ASSUME IInv, [Next]_vars PROVE IInv'
  OBVIOUS
<1>1. SlotsConsistent /\ ReportedRight /\ Recency /\ TypeOK /\ RestTypes
  BY DEF IInv, SlotsConsistent, TypeOK, RestTypes
<1>2. ASSUME NEW f \in Files,
             \/ ShortHeader(f)
             \/ \E i \in 0..(f.fragments - 1) :
                  Fragment(f, i) \/ \E header \in BOOLEAN : LongFragment(f, i, header)
      PROVE  IInv'
  BY <1>2, MessageIs, LeavesKeeps
<1>3. ASSUME UNCHANGED <<onAir, services, reports, since, changes>>, event' = 0,
             Ranked(lot_files, lot_lru_counter + 1)
      PROVE  IInv'
  <2> PICK c : c = lot_lru_counter OBVIOUS
  <2>1. Consistent(lot_files, c) /\ c \in Nat \ {0}
    BY SlotsAreConsistent DEF Consistent
  <2>2. Consistent(lot_files, c + 1)
    <3>1. ASSUME NEW k \in Slots PROVE lot_files[k].timestamp \in 0..(c + 1)
      <4>1. lot_files[k].timestamp \in 0..c BY <2>1 DEF Consistent
      <4> QED BY <4>1, <2>1
    <3>2. c + 1 \in Nat \ {0} BY <2>1
    <3> QED BY <2>1, <3>1, <3>2 DEF Consistent
  <2>3. RecencyOf(lot_files, c + 1, since)
    <3>1. RecencyOf(lot_files, c, since) BY <1>1 DEF Recency
    <3>2. ASSUME NEW k \in Slots, lot_files[k].timestamp # 0
          PROVE  lot_files[k].timestamp <= c + 1 /\ lot_files[k].timestamp # c + 1
      <4>1. lot_files[k].timestamp \in 0..c BY <2>1 DEF Consistent
      <4> QED BY <4>1, <2>1
    <3> QED BY <3>1, <3>2 DEF RecencyOf
  <2>4. Reported(lot_files)
    BY <1>1, <1>3 DEF Reported, ReportedRight, ReportedWhenComplete, ReportedOnce, Mixed
  <2>5. RestTypes' BY <1>1, <1>3 DEF RestTypes
  <2> QED BY <2>2, <2>3, <2>4, <2>5, <1>3, RankedKeeps
<1>4. CASE OtherPort
  BY <1>3, <1>4 DEF OtherPort
<1>5. ASSUME UNCHANGED <<lot_files, lot_lru_counter, reports, since>>, RestTypes'
      PROVE  IInv'
  <2>1. TypeOK' BY <1>1, <1>5 DEF TypeOK, RestTypes
  <2>2. SlotsConsistent' BY <2>1, <1>1, <1>5 DEF SlotsConsistent, InUse, Kept
  <2>3. ReportedRight'
    BY <1>1, <1>5 DEF ReportedRight, ReportedWhenComplete, ReportedOnce, Complete
  <2>4. Recency' BY <1>1, <1>5 DEF Recency, RecencyOf
  <2> QED BY <2>2, <2>3, <2>4 DEF IInv
<1>6. CASE parse_sig
  BY <1>1, <1>5, <1>6 DEF parse_sig, cache, RestTypes
<1>7. ASSUME NEW S \in Lineups, Air(S) PROVE IInv'
  <2>1. S \subseteq Files BY LineupsAssumption
  <2>2. changes' \in 0..MaxChanges BY <1>1, <1>7, CacheAssumption DEF Air, TypeOK
  <2> QED BY <2>1, <2>2, <1>1, <1>5, <1>7 DEF Air, cache, RestTypes
<1>8. CASE output_reset
  <2>1. changes' \in 0..MaxChanges
    BY <1>1, <1>8, CacheAssumption DEF output_reset, TypeOK
  <2>2. Cleared'
    BY <2>1, <1>1, <1>8 DEF output_reset, TypeOK, Cleared
  <2> QED BY <2>2, ClearedIs, PTL
<1>9. CASE UNCHANGED vars
  BY <1>1, <1>5, <1>9 DEF vars, cache, history, RestTypes
<1> QED BY <1>2, <1>4, <1>6, <1>7, <1>8, <1>9 DEF Next

-----------------------------------------------------------------------------
(* The theorems.                                                           *)

(* The inductive invariant, for any cache and any files.                   *)
THEOREM Invariance == Spec => []IInv
<1>1. Init => IInv
  <2>1. 0 \in 0..MaxChanges BY CacheAssumption
  <2>2. FALSE \in BOOLEAN /\ {} \subseteq Files OBVIOUS
  <2>3. Init => Cleared BY <2>1, <2>2, Zenon DEF Init, Cleared
  <2> QED BY <2>3, ClearedIs
<1> QED BY <1>1, NextKeeps, PTL DEF Spec

(* No file is split over slots, no slot mixes identifiers, and             *)
(* bytes_so_far counts what is there (649-682, 741-748, 789-794, 826-839). *)
THEOREM SlotsCorrect == Spec => []SlotsConsistent
<1>1. IInv => SlotsConsistent BY DEF IInv
<1> QED BY <1>1, Invariance, PTL

(* A file is reported when it is complete, whichever of its fragments or   *)
(* its header comes last, and once however often it is repeated (798-865). *)
THEOREM ReportsCorrect == Spec => []ReportedRight
<1>1. IInv => ReportedRight BY DEF IInv
<1> QED BY <1>1, Invariance, PTL

(* Renumbering leaves identifiers as they are.                             *)
LEMMA RankedLot ==
  ASSUME NEW files, NEW counter, Ranked(files, counter), NEW k \in Slots,
         files[k] \in Entry
  PROVE  lot_files'[k].lot = files[k].lot
<1> DEFINE used == {files[j].timestamp : j \in Slots} \ {0}
<1>1. lot_files' = [j \in Slots |-> [files[j] EXCEPT !.timestamp = RankIn(used, @)]]
  BY DEF Ranked, RankIn
<1>2. PICK n : lot_files'[k] = [files[k] EXCEPT !.timestamp = n]
  BY <1>1
<1> QED BY <1>2 DEF Entry

(* The slot given up is the one unused for longest, or shares its          *)
(* timestamp with the only one that is not used since (661-682, 748, 793). *)
THEOREM OldestCorrect == Spec => OldestGoes
<1> DEFINE GivenUp(k) ==
             InUse(k) /\ lot_files'[k].lot # lot_files[k].lot /\ lot_files'[k] # Unused
           Oldest(k) ==
             \E j \in Slots : /\ Slots \ {j, k} \subseteq since[k]
                              /\ lot_files[j].timestamp = lot_files[k].timestamp
<1>1. ASSUME IInv, [Next]_vars, NEW k \in Slots, GivenUp(k) PROVE Oldest(k)
  <2>1. SlotsConsistent /\ Recency /\ TypeOK BY <1>1 DEF IInv, SlotsConsistent
  <2>2. PICK f \in Files, header, report \in BOOLEAN :
          \E s : Leaves(f, header, s, report) /\ EntryIs(f, s)
    <3>1. CASE OtherPort
      <4>1. lot_files'[k].lot = lot_files[k].lot
        BY <3>1, <2>1, SlotIs, RankedLot DEF OtherPort
      <4> QED BY <4>1, <1>1
    <3>2. CASE parse_sig \/ UNCHANGED vars \/ \E S \in Lineups : Air(S)
      BY <3>2, <1>1 DEF parse_sig, vars, cache, Air
    <3>3. CASE output_reset
      BY <3>3, <1>1 DEF output_reset
    <3> QED BY <1>1, <3>1, <3>2, <3>3, MessageIs DEF Next
  <2>3. PICK s : Leaves(f, header, s, report) /\ EntryIs(f, s)
    BY <2>2
  <2> PICK p : p = Place(f.lot) OBVIOUS
  <2>4. lot_files'[k].lot = [lot_files EXCEPT ![p] = s][k].lot
    <3> PICK files : files = [lot_files EXCEPT ![p] = s] OBVIOUS
    <3>1. Ranked(files, lot_lru_counter + 1) BY <2>3 DEF Leaves
    <3>2. files[k] = s \/ files[k] = lot_files[k] BY <2>1 DEF TypeOK
    <3>3. files[k] \in Entry BY <3>2, <2>1, <2>3, SlotIs DEF EntryIs
    <3> QED BY <3>1, <3>3, RankedLot
  <2>5. k = p /\ lot_files[p].lot # f.lot
    BY <2>1, <2>3, <2>4, <1>1 DEF EntryIs, TypeOK
  <2>6. \A j \in Slots : Stamp(k) <= Stamp(j)
    BY <2>1, <2>5, PlaceIs
  <2>7. \A j \in Slots : Stamp(j) \in Nat
    <3> TAKE j \in Slots
    <3>1. Stamp(j) \in 0..MAX_LOT_FILES BY <2>1, SlotIs
    <3> QED BY <3>1
  <2>8. \A j \in Slots : InUse(j)
    <3>1. Stamp(k) # 0 BY <1>1 DEF InUse, Stamp
    <3> QED BY <3>1, <2>6, <2>7 DEF InUse, Stamp
  <2>9. \A i, j \in Slots : i # j =>
          /\ i \in since[j] <=> j \notin since[i]
          /\ i \in since[j] => Stamp(j) <= Stamp(i)
          /\ i \in since[j] => \A l \in since[i] : Stamp(j) < Stamp(l)
    BY <2>1, <2>8 DEF Recency, RecencyOf, InUse, Stamp
  <2>10. ASSUME NEW j \in Slots, j # k, j \notin since[k]
         PROVE  k \in since[j] /\ Stamp(j) = Stamp(k)
    <3>1. k \in since[j] BY <2>9, <2>10
    <3>2. Stamp(j) <= Stamp(k) BY <3>1, <2>9, <2>10
    <3> QED BY <3>1, <3>2, <2>6, <2>7
  <2>11. ASSUME NEW i \in Slots, NEW j \in Slots, i # j, i # k, j # k,
                i \notin since[k], i \in since[j]
         PROVE  FALSE
    <3>1. k \in since[i] BY <2>10, <2>11
    <3>2. Stamp(j) < Stamp(k) BY <3>1, <2>9, <2>11
    <3> QED BY <3>2, <2>6, <2>7
  <2>12. CASE \A j \in Slots : j # k => j \in since[k]
    BY <2>12
  <2>13. CASE \E j \in Slots : j # k /\ j \notin since[k]
    <3> PICK j \in Slots : j # k /\ j \notin since[k] BY <2>13
    <3>1. \A i \in Slots : i # j /\ i # k => i \in since[k] BY <2>9, <2>11
    <3>2. lot_files[j].timestamp = lot_files[k].timestamp BY <2>10 DEF Stamp
    <3> QED BY <3>1, <3>2
  <2> QED BY <2>12, <2>13
<1>2. IInv /\ [Next]_vars => [\A k \in Slots : GivenUp(k) => Oldest(k)]_vars
  BY <1>1
<1> QED BY <1>2, Invariance, PTL DEF Spec, OldestGoes

=============================================================================

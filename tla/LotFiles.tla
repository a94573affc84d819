------------------------------ MODULE LotFiles ------------------------------
(***************************************************************************)
(* The files a station sends on one data port (LOT): process_port of       *)
(* src/output.c, which collects fragments in a small cache and reports a   *)
(* file when it has all of them.  A station repeats the files it carries   *)
(* in any order and may use an identifier again for another file.          *)
(*                                                                         *)
(* A file stands for its contents and for the metadata of its header,      *)
(* which tell it from every other file (name, size, type, expiry).         *)
(* Timestamps are only compared: they are kept as ranks.                   *)
(***************************************************************************)
EXTENDS Naturals, FiniteSets

CONSTANTS
  MAX_LOT_FILES,  (* slots of the cache, 12                                *)
  Files,          (* records [lot, fragments, name]                        *)
  Lineups,        (* what the station may carry at a time                  *)
  Kinds,          (* "legal", "long" (fragments), "short" (headers)        *)
  MaxChanges      (* bound: changes of what is on the air, and resets      *)

NoFile == [lot |-> 0, fragments |-> 0, name |-> "none"]
Indexes == UNION {0..(f.fragments - 1) : f \in Files}
Slots == 1..MAX_LOT_FILES

ASSUME CacheAssumption == MAX_LOT_FILES \in Nat \ {0} /\ MaxChanges \in Nat
ASSUME FilesAssumption ==
  /\ IsFiniteSet(Files) /\ NoFile \notin Files
  /\ \A f \in Files : f.lot \in Nat /\ f.fragments \in Nat \ {0}
ASSUME LineupsAssumption ==
  \A S \in Lineups :
    /\ S \subseteq Files /\ Cardinality(S) <= MAX_LOT_FILES
    /\ \A f, g \in S : f.lot = g.lot => f = g
ASSUME KindsAssumption == Kinds \subseteq {"legal", "long", "short"}

VARIABLES
  onAir,            (* the files the station carries                       *)
  services,         (* a SIG table that names the port has been parsed     *)
  lot_files,        (* the cache                                           *)
  lot_lru_counter,
  event,            (* the slot whose file this message reported, or 0     *)
  reports,          (* reports of each slot's file since its header came   *)
  since,            (* the slots used since each of them was               *)
  changes

cache == <<lot_files, lot_lru_counter>>
history == <<event, reports, since>>
vars == <<onAir, services, cache, history, changes>>

(* A slot that memset has cleared.                                         *)
Unused ==
  [timestamp |-> 0, lot |-> 0, file |-> NoFile, bytes_so_far |-> 0,
   fragments |-> [i \in Indexes |-> NoFile]]

InUse(k) == lot_files[k].timestamp # 0

First(S) == CHOOSE k \in S : \A j \in S : k <= j

-----------------------------------------------------------------------------
(* The cache.                                                              *)

(* find_lot: the slot a file is kept in, or none.                          *)
Kept(lot) == {k \in Slots : InUse(k) /\ lot_files[k].lot = lot}

(* Mutant: with all slots in use, the last one is given up.                *)
LastLot ==
  IF \E k \in Slots : ~InUse(k) THEN First({k \in Slots : ~InUse(k)})
  ELSE MAX_LOT_FILES

(* find_free_lot: the first slot that is not in use, or else the first of  *)
(* those whose timestamp is the lowest.                                    *)
FreeLot ==
  First({k \in Slots :
           \A j \in Slots : lot_files[k].timestamp <= lot_files[j].timestamp})

Place(lot) == IF Kept(lot) # {} THEN First(Kept(lot)) ELSE FreeLot

(* Mutant: the slot of an old file is not cleared (680 missing).           *)
FoundUncleared(f) ==
  [lot_files[Place(f.lot)] EXCEPT !.lot = f.lot, !.timestamp = lot_lru_counter]

(* The slot of f as a message finds it, marked as used.                    *)
Found(f) ==
  IF Kept(f.lot) # {}
  THEN [lot_files[Place(f.lot)] EXCEPT !.timestamp = lot_lru_counter]
  ELSE [Unused EXCEPT !.lot = f.lot, !.timestamp = lot_lru_counter]

(* A header: a file whose metadata have changed starts from nothing, with  *)
(* a timestamp that the next message will have too.                        *)
Headed(s, f) ==
  IF s.file \in {f, NoFile} THEN [s EXCEPT !.file = f]
  ELSE [Unused EXCEPT !.lot = f.lot, !.file = f, !.timestamp = lot_lru_counter + 1]

AfterHeader(f, header) == IF header THEN Headed(Found(f), f) ELSE Found(f)

Stored(s, i, f) == [s EXCEPT !.fragments[i] = f, !.bytes_so_far = @ + 1]

Complete(s) ==
  s.file # NoFile /\ \A i \in 0..(s.file.fragments - 1) : s.fragments[i] # NoFile

(* Mutant: a header that comes last is nothing new (800 missing).          *)
HeaderIsOld(f, header) == header /\ Found(f).file \notin {f, NoFile}

(* The metadata are new.                                                   *)
NewHeader(f, header) == header /\ Found(f).file # f

(* The cache with s in its slot, timestamps replaced by ranks.             *)
Ranked(files, counter) ==
  LET used == {files[k].timestamp : k \in Slots} \ {0}
      Rank(t) == Cardinality({u \in used : u <= t})
  IN  /\ lot_files' = [k \in Slots |-> [files[k] EXCEPT !.timestamp = Rank(@)]]
      /\ lot_lru_counter' = IF counter \in used THEN Rank(counter)
                            ELSE Cardinality(used) + 1

-----------------------------------------------------------------------------
Init ==
  /\ onAir = {} /\ services = FALSE
  /\ lot_files = [k \in Slots |-> Unused] /\ lot_lru_counter = 1
  /\ event = 0 /\ reports = [k \in Slots |-> 0] /\ since = [k \in Slots |-> {}]
  /\ changes = 0

(* A message of f leaves s in its slot, and reports the file or not.       *)
Leaves(f, header, s, report) ==
  LET k == Place(f.lot)
      before == IF Kept(f.lot) = {} \/ NewHeader(f, header) THEN 0 ELSE reports[k]
  IN  /\ f \in onAir /\ services
      /\ Ranked([lot_files EXCEPT ![k] = s], lot_lru_counter + 1)
      /\ event' = IF report THEN k ELSE 0
      /\ reports' = [reports EXCEPT ![k] = IF report /\ before < 2 THEN before + 1
                                           ELSE before]
      /\ since' = [j \in Slots |-> IF j = k THEN {} ELSE since[j] \cup {k}]
      /\ UNCHANGED <<onAir, services, changes>>

(* process_port, on a message of a file of the port: a header too short    *)
(* ends it once the slot has been found ...                                *)
ShortHeader(f) ==
  /\ "short" \in Kinds
  /\ Leaves(f, FALSE, Found(f), FALSE)

(* ... and a fragment too long once the header has been used.              *)
LongFragment(f, i, header) ==
  /\ "long" \in Kinds
  /\ AfterHeader(f, header).fragments[i] = NoFile
  /\ Leaves(f, header, AfterHeader(f, header), FALSE)

(* A fragment that is there already; its header may be new.                *)
Duplicate(f, i, header) ==
  LET s == AfterHeader(f, header)
  IN  /\ s.fragments[i] # NoFile
      /\ Leaves(f, header, s, NewHeader(f, header) /\ Complete(s))

NewFragment(f, i, header) ==
  LET s == Stored(AfterHeader(f, header), i, f)
  IN  /\ AfterHeader(f, header).fragments[i] = NoFile
      /\ Leaves(f, header, s, Complete(s))

(* A message of another LOT port takes the counter's value.                *)
OtherPort ==
  /\ services
  /\ Ranked(lot_files, lot_lru_counter + 1)
  /\ event' = 0
  /\ UNCHANGED <<onAir, services, reports, since, changes>>

parse_sig ==
  /\ ~services /\ services' = TRUE
  /\ event' = 0
  /\ UNCHANGED <<onAir, cache, reports, since, changes>>

(* output_reset, by aas_reset.                                             *)
output_reset ==
  /\ changes < MaxChanges /\ changes' = changes + 1
  /\ services' = FALSE
  /\ lot_files' = [k \in Slots |-> Unused] /\ lot_lru_counter' = 1
  /\ event' = 0 /\ reports' = [k \in Slots |-> 0] /\ since' = [k \in Slots |-> {}]
  /\ UNCHANGED onAir

(* The station carries other files, no two with the same identifier and no *)
(* more than the cache has slots.                                          *)
Air(S) ==
  /\ changes < MaxChanges /\ changes' = changes + 1
  /\ onAir' = S
  /\ event' = 0
  /\ UNCHANGED <<services, cache, reports, since>>

Fragment(f, i) ==
  \E header \in BOOLEAN : Duplicate(f, i, header) \/ NewFragment(f, i, header)

Next ==
  \/ \E f \in Files :
       \/ ShortHeader(f)
       \/ \E i \in 0..(f.fragments - 1) :
            Fragment(f, i) \/ \E header \in BOOLEAN : LongFragment(f, i, header)
  \/ OtherPort \/ parse_sig \/ output_reset
  \/ \E S \in Lineups : Air(S)

Spec == Init /\ [][Next]_vars

(* A station that carries a file sends each of its fragments again and     *)
(* again, with and without its header.                                     *)
Carousel ==
  /\ WF_vars(parse_sig)
  /\ \A f \in Files : \A i \in 0..(f.fragments - 1) :
       WF_vars(Duplicate(f, i, TRUE) \/ NewFragment(f, i, TRUE))

FairSpec == Spec /\ Carousel

-----------------------------------------------------------------------------
(* Properties.                                                             *)

Slot ==
  [timestamp : 0..MAX_LOT_FILES, lot : {f.lot : f \in Files} \cup {0},
   file : Files \cup {NoFile}, bytes_so_far : Nat,
   fragments : [Indexes -> Files \cup {NoFile}]]

(* The types of aas_file_t and of the history.                             *)
TypeOK ==
  /\ onAir \subseteq Files /\ services \in BOOLEAN
  /\ lot_files \in [Slots -> Slot]
  /\ lot_lru_counter \in 1..(MAX_LOT_FILES + 1)
  /\ event \in Slots \cup {0} /\ reports \in [Slots -> 0..2]
  /\ since \in [Slots -> SUBSET Slots] /\ changes \in 0..MaxChanges

(* No file is kept in two slots, so that find_lot never splits it; a slot  *)
(* given up is given up whole: nothing of an identifier it was used for    *)
(* before is in it, and bytes_so_far counts what is (649-682, 741-748,     *)
(* 789-794, 826-839).                                                      *)
SlotsConsistent ==
  /\ TypeOK
  /\ \A k \in Slots :
       LET s == lot_files[k]
           there == {i \in Indexes : s.fragments[i] # NoFile}
       IN  /\ ~InUse(k) => s = Unused
           /\ InUse(k) => Kept(s.lot) = {k}
           /\ s.file # NoFile => s.file.lot = s.lot
           /\ \A i \in there : s.fragments[i].lot = s.lot
           /\ s.bytes_so_far = Cardinality(there)

(* Reported as soon as it is complete, whichever of its fragments or its   *)
(* header comes last, and not before (798-800, 828, 843-865).              *)
ReportedWhenComplete ==
  \A k \in Slots : Complete(lot_files[k]) <=> reports[k] > 0

(* A file in the cache is reported once however often the station repeats  *)
(* it, unless fragments of another file with its identifier have got in.   *)
ReportedOnce ==
  \A k \in Slots :
    reports[k] > 1 =>
      \E i \in Indexes :
        lot_files[k].fragments[i] \notin {lot_files[k].file, NoFile}

(* Every file is reported at the right moment and no more.                 *)
ReportedRight == ReportedWhenComplete /\ ReportedOnce

(* The slot given up is the one unused for longest: every other slot has   *)
(* been used since.  But for one, j, when the metadata of its file changed *)
(* and it shares a timestamp with k (661-682, 748, 793).                   *)
OldestGoes ==
  [][\A k \in Slots :
       (InUse(k) /\ lot_files'[k].lot # lot_files[k].lot /\ lot_files'[k] # Unused) =>
         \E j \in Slots :
           /\ Slots \ {j, k} \subseteq since[k]
           /\ lot_files[j].timestamp = lot_files[k].timestamp]_vars

(* Every file that stays on the air is complete in the end, whatever the   *)
(* cache was full of before, as long as the station carries no more files  *)
(* than the cache has slots.                                               *)
CarouselCompletes ==
  \A f \in Files :
    <>[](f \in onAir) =>
      <>[](\E k \in Slots : lot_files[k].file = f /\ Complete(lot_files[k]))

(* "Contents of the file" (nrsc5.h 481): what is reported with a file's    *)
(* metadata are its own fragments.                                         *)
ReportedWhole ==
  event # 0 =>
    LET s == lot_files[event]
    IN  \A i \in 0..(s.file.fragments - 1) : s.fragments[i] = s.file
=============================================================================

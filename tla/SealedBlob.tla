----------------------------- MODULE SealedBlob -----------------------------
(***************************************************************************)
(* SealedBlob of aegis-applets/src/sealed.rs: an applet's whole state      *)
(* (OATH: two shards, OpenPGP: four) split over data cells plus a commit   *)
(* cell.  A save draws one fresh generation, stores every data shard in    *)
(* order and the commit cell last; a load takes the newest committed       *)
(* generation that is present in every shard.                              *)
(*                                                                         *)
(* Each cell is a SecretStorage, that is a SlotStore.  Here a cell is the  *)
(* pair <<newest readable record, other readable record>>: the pair is     *)
(* ordered by slot sequence number, a store overwrites the slot that is    *)
(* not the newest, and a torn store leaves that slot unreadable, which is  *)
(* what SlotStore proves of the two slots.                                 *)
(***************************************************************************)
EXTENDS Integers, FiniteSetsExt

CONSTANTS
    Shards,     \* SHARDS: number of data shards, at least one
    Blob,       \* states an applet saves
    NoRecord,   \* no record, no blob, no save in progress
    MaxSaves    \* bound: saves begun in a behaviour

ASSUME RegionAssumption ==
    /\ Shards \in Nat \ {0}
    /\ MaxSaves \in Nat
    /\ NoRecord \notin Blob

VARIABLES
    cells,      \* the data cells 0 .. Shards - 1 and the commit cell Shards
    step,       \* the cell the save in progress stores next
    generation, \* the generation of the save in progress
    request,    \* what it saves, or NoRecord
    committed,  \* history: what the last save to reach its commit saved
    begun,      \* history: saves begun since then
    written,    \* history: <<generation, cell, plaintext>> of the records
                \* that reached the flash whole
    saves       \* history: saves begun, capped by MaxSaves

regionVars == <<cells, step, generation, request, committed, begun, written, saves>>

Commit == Shards
Cell == 0 .. Commit
DataShard == 0 .. (Shards - 1)

(* A sealed record: its generation and the blob its body is a chunk of (in *)
(* the commit cell, the blob whose length it records).                     *)
SealedRecord == [gen : Nat, blob : Blob]
ASSUME SealedRecordAssumption == NoRecord \notin SealedRecord

Slots == (SealedRecord \cup {NoRecord}) \X (SealedRecord \cup {NoRecord})

EmptyCell == <<NoRecord, NoRecord>>

Readable(c) == {c[k] : k \in 1 .. 2} \ {NoRecord}

(***************************************************************************)
(* Generations.                                                            *)
(***************************************************************************)
Generations(cs) == UNION {{r.gen : r \in Readable(cs[i])} : i \in Cell}

(* fresh_gen: above every generation readable in any slot of any cell. *)
FreshGen(cs) == Max({0} \cup Generations(cs)) + 1

(***************************************************************************)
(* Saving.                                                                 *)
(***************************************************************************)
RegionInit ==
    /\ cells = [i \in Cell |-> EmptyCell]
    /\ step = 0
    /\ generation = 0
    /\ request = NoRecord
    /\ committed = NoRecord
    /\ begun = 0
    /\ written = {}
    /\ saves = 0

(* save: draw the generation; the first shard is stored next. *)
BeginSave(b) ==
    /\ request = NoRecord
    /\ saves < MaxSaves
    /\ generation' = FreshGen(cells)
    /\ request' = b
    /\ step' = 0
    /\ begun' = begun + 1
    /\ saves' = saves + 1
    /\ UNCHANGED <<cells, committed, written>>

Sealed == [gen |-> generation, blob |-> request]

(* Faulty: the new record replaces the newest one. *)
StoredOverNewest(c, r) == <<r, c[2]>>

(* The slot that is not the newest takes the new record ... *)
Stored(c, r) == <<r, c[1]>>
(* ... or is left unreadable by a store that is cut short. *)
TornStore(c) == <<c[1], NoRecord>>

Landing(c) ==
    IF step = Commit /\ c[1] = Sealed
    THEN committed' = request /\ begun' = 0
    ELSE UNCHANGED <<committed, begun>>

(* save: seal one cell's record and store it; after the commit cell the    *)
(* save returns Ok.                                                        *)
StoreCell ==
    /\ request # NoRecord
    /\ written' = written \cup {<<generation, step, request>>}
    /\ cells' = [cells EXCEPT ![step] = Stored(@, Sealed)]
    /\ Landing(Stored(cells[step], Sealed))
    /\ IF step = Commit
       THEN request' = NoRecord /\ step' = 0
       ELSE step' = step + 1 /\ UNCHANGED request
    /\ UNCHANGED <<generation, saves>>

(* The save ends in the middle of a cell: a flash error returned by `?`,   *)
(* or a power loss.  Nothing of a save but the flash outlives it.          *)
Interrupt ==
    /\ request # NoRecord
    /\ \/ UNCHANGED <<cells, written, committed, begun>>
       \/ /\ cells' = [cells EXCEPT ![step] = TornStore(@)]
          /\ UNCHANGED <<written, committed, begun>>
       \/ /\ cells' = [cells EXCEPT ![step] = Stored(@, Sealed)]
          /\ written' = written \cup {<<generation, step, request>>}
          /\ Landing(Stored(cells[step], Sealed))
    /\ request' = NoRecord
    /\ step' = 0
    /\ UNCHANGED <<generation, saves>>

(***************************************************************************)
(* Loading.                                                                *)
(***************************************************************************)

Candidates(cs) == {r.gen : r \in Readable(cs[Commit])}

(* Faulty: each shard contributes its newest record. *)
NewestOfEachShard(cs, i, g) == Readable(<<cs[i][1], NoRecord>>)

(* assemble: the record of generation g in shard i. *)
OfGeneration(cs, i, g) == {r \in Readable(cs[i]) : r.gen = g}

Assembles(cs, g) == \A i \in DataShard : OfGeneration(cs, i, g) # {}

(* The blobs the chunks of generation g come from, the length in the       *)
(* commit cell included.                                                   *)
ChunksOf(cs, g) == {r.blob : r \in UNION {OfGeneration(cs, i, g) : i \in Cell}}

LoadError == [outcome |-> "error"]
LoadBlank == [outcome |-> "blank"]
Loaded(chunks) == [outcome |-> "blob", chunks |-> chunks]

(* load: newest candidate first; candidates that exist but do not assemble *)
(* are a StorageError, no candidate at all a blank region.                 *)
LoadResult(cs) ==
    LET complete == {g \in Candidates(cs) : Assembles(cs, g)}
    IN  IF Candidates(cs) = {} THEN LoadBlank
        ELSE IF complete = {} THEN LoadError
        ELSE Loaded(ChunksOf(cs, Max(complete)))

(* A load between saves, at power-up or on SELECT: it changes nothing.     *)
Load ==
    /\ request = NoRecord
    /\ UNCHANGED regionVars

RegionNext ==
    \/ \E b \in Blob : BeginSave(b)
    \/ StoreCell
    \/ Interrupt
    \/ Load

RegionSpec == RegionInit /\ [][RegionNext]_regionVars

-----------------------------------------------------------------------------
(***************************************************************************)
(* Properties.                                                             *)
(***************************************************************************)

(* Cells hold sealed records of real generations, and the save in progress *)
(* is between two of its cells.                                            *)
RegionTypeOK ==
    /\ cells \in [Cell -> Slots]
    /\ step \in Cell
    /\ generation \in Nat
    /\ request \in Blob \cup {NoRecord}
    /\ committed \in Blob \cup {NoRecord}
    /\ begun \in Nat
    /\ saves \in 0 .. MaxSaves
    /\ written \subseteq (Nat \X Cell \X Blob)

(* "Instead of mixing halves": whatever was interrupted, and however       *)
(* often, what a load assembles comes from one save (sealed.rs, header).   *)
NeverMixes ==
    LoadResult(cells).outcome = "blob" =>
        \E b \in Blob : LoadResult(cells).chunks = {b}

(* A committed blob survives one unfinished save: as long as at most one   *)
(* save was begun since a commit landed (it may be running, torn in any    *)
(* cell or failed), a load returns exactly what that commit saved.  The    *)
(* header has it without the limit; a second unfinished save may overwrite *)
(* the last record of the committed generation in a shard.                 *)
OneUnfinishedSaveIsHarmless ==
    (begun <= 1 /\ committed # NoRecord) => LoadResult(cells) = Loaded({committed})

(* No two saves put different plaintexts into whole records of one cell    *)
(* under one generation, which is the nonce (fresh_gen scans every slot of *)
(* every cell): an interrupted save uses up its generation as soon as one  *)
(* of its records is whole.                                                *)
OneTextPerNonce ==
    \A s, t \in written : (s[1] = t[1] /\ s[2] = t[2]) => s[3] = t[3]

(* What an applet's region promises (sealed.rs): a load never assembles    *)
(* halves of two saves, and no generation seals two plaintexts in a cell.  *)
RegionInv == RegionTypeOK /\ NeverMixes /\ OneTextPerNonce
=============================================================================

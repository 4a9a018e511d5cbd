---------------------------- MODULE FlashProofs -----------------------------
(***************************************************************************)
(* Proofs about the two ways the firmware seals state into flash.  Of      *)
(* SealedBlob, for every number of shards and every set of blobs, however  *)
(* many saves are interrupted and wherever; of CredentialFlash, for every  *)
(* set of contents and every bound on the counter.                         *)
(***************************************************************************)
EXTENDS CredentialFlash, SealedBlob, WellFoundedInduction, TLAPS

(***************************************************************************)
(* The largest element of a bounded set of naturals.                       *)
(***************************************************************************)
LEMMA MaxIsLargest ==
    ASSUME NEW S, S \subseteq Nat, S # {}, NEW n \in Nat, \A x \in S : x <= n
    PROVE  Max(S) \in S /\ \A y \in S : y <= Max(S)
<1> DEFINE T == {n - x : x \in S}
<1>1. T \subseteq Nat /\ T # {}
  <2>1. \A x \in S : n - x \in Nat
    OBVIOUS
  <2>2. PICK x \in S : TRUE
    BY Zenon
  <2>3. n - x \in T
    BY Zenon
  <2> QED BY <2>1, <2>3, Zenon
<1>2. PICK t \in T : \A u \in T : ~(<<u, t>> \in OpToRel(<, Nat))
  <2> HIDE DEF T
  <2> QED BY <1>1, NatLessThanWellFounded, WFMin, Zenon
<1>3. \A u \in T : t <= u
  <2> SUFFICES ASSUME NEW u \in T PROVE t <= u
    BY Zenon
  <2>1. u \in Nat /\ t \in Nat
    BY <1>1, Zenon
  <2>2. ~(u < t)
    BY <1>2, <2>1, Zenon DEF OpToRel
  <2> QED BY <2>1, <2>2
<1>4. PICK x \in S : t = n - x
  BY Zenon
<1>5. \A y \in S : x >= y
  <2> SUFFICES ASSUME NEW y \in S PROVE x >= y
    BY Zenon
  <2>1. n - x <= n - y
    BY <1>3, <1>4, Zenon
  <2> QED BY <1>4, <2>1
<1>6. Max(S) \in S /\ \A y \in S : Max(S) >= y
  BY <1>5, Zenon DEF Max
<1> QED BY <1>6, Zenon

(* A record of a cell. *)
Holds(i, r) == r \in Readable(cells[i])

(***************************************************************************)
(* The inductive invariant.  Of one generation, every cell holds a piece   *)
(* of one blob; the generation of a save in progress is above all others,  *)
(* and not yet in the cells it still has to store; and the newest record   *)
(* of a cell carries the highest generation ever sealed in it.             *)
(***************************************************************************)
OneBlobPerGeneration ==
    \A i, j \in Cell : \A r, s : Holds(i, r) /\ Holds(j, s) /\ r.gen = s.gen => r.blob = s.blob

SaveIsNewest ==
    request # NoRecord =>
        /\ generation <= saves
        /\ \A i \in Cell : \A r : Holds(i, r) =>
              /\ r.gen <= generation
              /\ r.gen = generation => r.blob = request /\ i < step

NewestIsHighest ==
    \A s \in written :
        /\ cells[s[2]][1] # NoRecord
        /\ s[1] <= cells[s[2]][1].gen

BlobInv ==
    /\ cells \in [Cell -> Slots]
    /\ step \in Cell
    /\ generation \in Nat
    /\ saves \in Nat
    /\ request \in Blob \cup {NoRecord}
    /\ written \subseteq (Nat \X Cell \X Blob)
    /\ \A i \in Cell : \A r : Holds(i, r) => r.gen <= saves
    /\ OneBlobPerGeneration
    /\ SaveIsNewest
    /\ NewestIsHighest
    /\ OneTextPerNonce

(***************************************************************************)
(* What makes one unfinished save harmless.  The committed generation g is *)
(* the newest record of the commit cell and in every shard one of the two: *)
(* the save that follows has one store per cell, and spares the newest.    *)
(***************************************************************************)
Piece(g) == [gen |-> g, blob |-> committed]

NewestFirst ==
    \A i \in Cell : cells[i][2] # NoRecord =>
        cells[i][1] # NoRecord /\ cells[i][2].gen < cells[i][1].gen

StoredSoFar ==
    request # NoRecord => begun # 0 /\ \A i \in Cell : i < step => cells[i][1] = Sealed

(* One save begun since: the shards it has stored keep g as the other one. *)
SparesCommitted(g) ==
    /\ cells[Commit][1] = Piece(g)
    /\ \A i \in Cell :
          \/ cells[i][1] = Piece(g)
          \/ cells[i][2] = Piece(g) /\ (request # NoRecord => i < step)

CommittedReadable ==
    committed # NoRecord =>
        /\ begun = 0 => \E g \in Nat : \A i \in Cell : cells[i][1] = Piece(g)
        /\ begun = 1 => \E g \in Nat : SparesCommitted(g)

CommitInv ==
    /\ committed \in Blob \cup {NoRecord} /\ begun \in Nat /\ saves <= MaxSaves
    /\ NewestFirst /\ StoredSoFar /\ CommittedReadable

(* What a cell holds is a record. *)
LEMMA HeldIsRecord ==
    ASSUME BlobInv, NEW i \in Cell, NEW r, Holds(i, r)
    PROVE  r \in SealedRecord /\ r.gen \in Nat /\ r.blob \in Blob
<1>1. cells[i] \in Slots
  BY Zenon DEF BlobInv
<1>2. r \in SealedRecord
  BY <1>1 DEF Holds, Readable, Slots
<1> QED BY <1>2, Zenon DEF SealedRecord

(* fresh_gen: above every readable generation, and no more than one save   *)
(* further.                                                                *)
LEMMA FreshIsAbove ==
    ASSUME BlobInv
    PROVE  /\ FreshGen(cells) \in Nat /\ FreshGen(cells) <= saves + 1
           /\ \A i \in Cell : \A r : Holds(i, r) => r.gen < FreshGen(cells)
<1> DEFINE S == {0} \cup Generations(cells)
<1>1. \A g \in Generations(cells) : \E i \in Cell : \E r : Holds(i, r) /\ g = r.gen
  BY Zenon DEF Generations, Holds
<1>2. \A i \in Cell : \A r : Holds(i, r) => r.gen \in Generations(cells)
  BY DEF Generations, Holds
<1>3. S \subseteq Nat /\ S # {} /\ \A x \in S : x <= saves
  BY <1>1, HeldIsRecord DEF BlobInv
<1>4. saves \in Nat
  BY Zenon DEF BlobInv
<1> HIDE DEF S
<1>5. Max(S) \in S /\ \A y \in S : y <= Max(S)
  BY <1>3, <1>4, MaxIsLargest, Zenon
<1>6. FreshGen(cells) = Max(S) + 1
  BY Zenon DEF FreshGen, S
<1>7. \A i \in Cell : \A r : Holds(i, r) => r.gen \in S
  BY <1>2, Zenon DEF S
<1>8. Max(S) \in Nat /\ Max(S) <= saves
  BY <1>3, <1>5, Zenon
<1>9. ASSUME NEW i \in Cell, NEW r, Holds(i, r)
      PROVE  r.gen < Max(S) + 1
  <2>1. r.gen \in Nat /\ r.gen <= Max(S)
    BY <1>3, <1>5, <1>7, <1>9, Zenon
  <2> QED BY <1>8, <2>1
<1>10. FreshGen(cells) \in Nat /\ FreshGen(cells) <= saves + 1
  BY <1>4, <1>6, <1>8
<1> QED BY <1>6, <1>9, <1>10, Zenon

(* A store adds only the sealed record, in the cell of the step. *)
LEMMA StoredHolds ==
    ASSUME BlobInv, request # NoRecord,
           cells' = [cells EXCEPT ![step] = Stored(@, Sealed)]
    PROVE  /\ Sealed \in SealedRecord /\ Sealed # NoRecord
           /\ cells' \in [Cell -> Slots]
           /\ cells'[step][1] = Sealed
           /\ \A i \in Cell : i # step => cells'[i] = cells[i]
           /\ \A i \in Cell : \A r : Holds(i, r)' =>
                 Holds(i, r) \/ (i = step /\ r = Sealed)
<1>1. step \in Cell /\ cells \in [Cell -> Slots] /\ cells[step] \in Slots
  BY Zenon DEF BlobInv
<1>2. Sealed \in SealedRecord /\ Sealed # NoRecord
  BY SealedRecordAssumption DEF Sealed, SealedRecord, BlobInv
<1>3. cells'[step] = <<Sealed, cells[step][1]>>
  BY <1>1, Zenon DEF Stored
<1>4. \A i \in Cell : i # step => cells'[i] = cells[i]
  BY <1>1, Zenon
<1>5. <<Sealed, cells[step][1]>> \in Slots
  BY <1>1, <1>2, Zenon DEF Slots
<1>6. cells' \in [Cell -> Slots]
  BY <1>1, <1>5, Zenon DEF Stored
<1>7. ASSUME NEW i \in Cell, NEW r, Holds(i, r)'
      PROVE  Holds(i, r) \/ (i = step /\ r = Sealed)
  <2>1. CASE i # step
    BY <1>4, <1>7, <2>1, Zenon DEF Holds
  <2>2. CASE i = step
    <3>1. r \in {Sealed, cells[step][1]} \ {NoRecord}
      BY <1>3, <1>7, <2>2 DEF Holds, Readable
    <3>2. r = cells[step][1] => Holds(i, r)
      BY <2>2, <3>1 DEF Holds, Readable
    <3> QED BY <2>2, <3>1, <3>2, Zenon
  <2> QED BY <2>1, <2>2, Zenon
<1> QED BY <1>2, <1>3, <1>4, <1>6, <1>7

(* Storing a cell keeps the invariant, whether the save goes on to the     *)
(* next cell or is over.                                                   *)
LEMMA StoreKeeps ==
    ASSUME BlobInv, request # NoRecord,
           cells' = [cells EXCEPT ![step] = Stored(@, Sealed)],
           written' = written \cup {<<generation, step, request>>},
           generation' = generation, saves' = saves, step' \in Cell,
           request' = NoRecord \/ (request' = request /\ step' = step + 1)
    PROVE  BlobInv'
<1> USE DEF BlobInv
<1>1. /\ Sealed \in SealedRecord /\ Sealed # NoRecord
      /\ cells' \in [Cell -> Slots]
      /\ cells'[step][1] = Sealed
      /\ \A i \in Cell : i # step => cells'[i] = cells[i]
      /\ \A i \in Cell : \A r : Holds(i, r)' => Holds(i, r) \/ (i = step /\ r = Sealed)
  BY StoredHolds, Zenon
<1>2. Sealed.gen = generation /\ Sealed.blob = request
  BY Zenon DEF Sealed
<1>3. /\ generation <= saves
      /\ \A i \in Cell : \A r : Holds(i, r) =>
            /\ r.gen <= generation
            /\ r.gen = generation => r.blob = request /\ i < step
  BY Zenon DEF SaveIsNewest
<1>4. request \in Blob /\ step \in Nat /\ step \in Cell
  BY DEF Cell
<1>5. written' \subseteq (Nat \X Cell \X Blob)
  BY <1>4
<1>6. \A i \in Cell : \A r : Holds(i, r)' => r.gen <= saves
  BY <1>1, <1>2, <1>3, Zenon
<1>7. OneBlobPerGeneration'
  <2> SUFFICES ASSUME NEW i \in Cell, NEW j \in Cell, NEW r, NEW s,
                      Holds(i, r)', Holds(j, s)', r.gen = s.gen
               PROVE  r.blob = s.blob
    BY DEF OneBlobPerGeneration, Cell
  <2>1. CASE Holds(i, r) /\ Holds(j, s)
    BY <2>1 DEF OneBlobPerGeneration
  <2>2. CASE r = Sealed
    BY <1>1, <1>2, <1>3, <2>2, Zenon
  <2>3. CASE s = Sealed
    BY <1>1, <1>2, <1>3, <2>3, Zenon
  <2> QED BY <1>1, <2>1, <2>2, <2>3, Zenon
<1>8. SaveIsNewest'
  <2> SUFFICES ASSUME request' = request, step' = step + 1,
                      NEW i \in Cell, NEW r, Holds(i, r)'
               PROVE  /\ r.gen <= generation
                      /\ r.gen = generation => r.blob = request /\ i < step + 1
    BY <1>3, Zenon DEF SaveIsNewest, Cell
  <2>1. i \in Int
    BY DEF Cell
  <2>2. CASE Holds(i, r)
    BY <1>3, <1>4, <2>1, <2>2
  <2>3. CASE i = step /\ r = Sealed
    BY <1>2, <1>4, <2>3
  <2> QED BY <1>1, <2>2, <2>3, Zenon
<1>9. NewestIsHighest'
  <2> SUFFICES ASSUME NEW s \in written'
               PROVE  cells'[s[2]][1] # NoRecord /\ s[1] <= cells'[s[2]][1].gen
    BY Zenon DEF NewestIsHighest
  <2>1. CASE s = <<generation, step, request>>
    BY <1>1, <1>2, <2>1
  <2>2. CASE s \in written /\ s[2] # step
    <3>1. s[2] \in Cell
      BY <2>2, Zenon
    <3> QED BY <1>1, <2>2, <3>1, Zenon DEF NewestIsHighest
  <2>3. CASE s \in written /\ s[2] = step
    <3>1. cells[step][1] # NoRecord /\ s[1] <= cells[step][1].gen /\ s[1] \in Nat
      BY <2>3, Zenon DEF NewestIsHighest
    <3>2. Holds(step, cells[step][1])
      BY <3>1 DEF Holds, Readable
    <3>3. cells[step][1].gen \in Nat /\ cells[step][1].gen <= generation
      BY <1>3, <1>4, <3>2, HeldIsRecord, Zenon
    <3>4. s[1] <= generation
      BY <3>1, <3>3
    <3> QED BY <1>1, <1>2, <2>3, <3>4, Zenon
  <2> QED BY <2>1, <2>2, <2>3, Zenon
<1>10. \A s \in written : s[2] = step => s[1] # generation
  <2> SUFFICES ASSUME NEW s \in written, s[2] = step PROVE s[1] # generation
    BY Zenon
  <2>1. cells[step][1] # NoRecord /\ s[1] <= cells[step][1].gen /\ s[1] \in Nat
    BY Zenon DEF NewestIsHighest
  <2>2. Holds(step, cells[step][1])
    BY <2>1 DEF Holds, Readable
  <2>3. cells[step][1].gen \in Nat /\ cells[step][1].gen <= generation
    BY <1>3, <1>4, <2>2, HeldIsRecord, Zenon
  <2>4. cells[step][1].gen # generation
    BY <1>3, <1>4, <2>2
  <2> QED BY <2>1, <2>3, <2>4
<1>11. OneTextPerNonce'
  BY <1>10 DEF OneTextPerNonce
<1>12. request' \in Blob \cup {NoRecord}
  BY <1>4, Zenon
<1> HIDE DEF BlobInv
<1>13. generation' \in Nat /\ saves' \in Nat
  BY Zenon DEF BlobInv
<1> QED BY <1>1, <1>5, <1>6, <1>7, <1>8, <1>9, <1>11, <1>12, <1>13, Zenon DEF BlobInv

(* A save that ends without a whole record keeps the invariant: no record  *)
(* is added, and the newest one of every cell stays.                       *)
LEMMA EndKeeps ==
    ASSUME BlobInv,
           cells' = cells \/ cells' = [cells EXCEPT ![step] = TornStore(@)],
           written' = written, generation' = generation, saves' = saves,
           step' \in Cell, request' = NoRecord
    PROVE  BlobInv'
<1>1. step \in Cell /\ cells \in [Cell -> Slots] /\ cells[step] \in Slots
  BY Zenon DEF BlobInv
<1>2. TornStore(cells[step]) \in Slots
  BY <1>1, Zenon DEF TornStore, Slots
<1>3. cells' \in [Cell -> Slots]
  BY <1>1, <1>2, Zenon
<1>4. \A i \in Cell : cells'[i][1] = cells[i][1]
  BY <1>1 DEF TornStore
<1>5. \A i \in Cell : \A r : Holds(i, r)' => Holds(i, r)
  BY <1>1 DEF TornStore, Holds, Readable
<1>6. OneBlobPerGeneration'
  BY <1>5 DEF OneBlobPerGeneration, BlobInv
<1>7. NewestIsHighest'
  <2> SUFFICES ASSUME NEW s \in written
               PROVE  cells'[s[2]][1] # NoRecord /\ s[1] <= cells'[s[2]][1].gen
    BY Zenon DEF NewestIsHighest
  <2>1. s[2] \in Cell
    BY Zenon DEF BlobInv
  <2> QED BY <1>4, <2>1, Zenon DEF NewestIsHighest, BlobInv
<1>8. SaveIsNewest' /\ OneTextPerNonce'
  BY Zenon DEF SaveIsNewest, OneTextPerNonce, BlobInv
<1>9. \A i \in Cell : \A r : Holds(i, r)' => r.gen <= saves
  BY <1>5, Zenon DEF BlobInv
<1> QED BY <1>3, <1>6, <1>7, <1>8, <1>9, Zenon DEF BlobInv

(* Beginning a save: its generation is new to every cell. *)
LEMMA BeginKeeps ==
    ASSUME BlobInv, NEW b \in Blob, BeginSave(b)
    PROVE  BlobInv'
<1>1. /\ cells' = cells /\ written' = written /\ saves' = saves + 1
      /\ generation' = FreshGen(cells) /\ request' = b /\ step' = 0
  BY Zenon DEF BeginSave
<1>2. /\ FreshGen(cells) \in Nat /\ FreshGen(cells) <= saves + 1
      /\ \A i \in Cell : \A r : Holds(i, r) => r.gen < FreshGen(cells)
  BY FreshIsAbove, Zenon
<1>3. \A i \in Cell : \A r : Holds(i, r)' <=> Holds(i, r)
  BY <1>1, Zenon DEF Holds
<1>4. ASSUME NEW i \in Cell, NEW r, Holds(i, r)
      PROVE  /\ r.gen \in Nat /\ r.gen <= saves + 1
             /\ r.gen <= FreshGen(cells) /\ r.gen # FreshGen(cells)
  <2>1. r.gen \in Nat /\ r.gen <= saves /\ saves \in Nat
    BY <1>4, HeldIsRecord, Zenon DEF BlobInv
  <2> QED BY <1>2, <1>4, <2>1
<1>5. SaveIsNewest'
  BY <1>1, <1>2, <1>3, <1>4, Zenon DEF SaveIsNewest
<1>6. OneBlobPerGeneration' /\ NewestIsHighest' /\ OneTextPerNonce'
  BY <1>1, <1>3 DEF OneBlobPerGeneration, NewestIsHighest, OneTextPerNonce, BlobInv
<1>7. step' \in Cell
  BY <1>1, RegionAssumption DEF Cell, Commit
<1>8. \A i \in Cell : \A r : Holds(i, r)' => r.gen <= saves'
  BY <1>1, <1>3, <1>4, Zenon
<1> QED BY <1>1, <1>2, <1>5, <1>6, <1>7, <1>8 DEF BlobInv

(* The inductive invariant holds of the region. *)
LEMMA BlobInvariant ==
    RegionSpec => []BlobInv
<1>1. RegionInit => BlobInv
  <2> SUFFICES ASSUME RegionInit PROVE BlobInv
    BY Zenon
  <2>1. EmptyCell \in Slots /\ Readable(EmptyCell) = {}
    BY DEF EmptyCell, Slots, Readable
  <2>2. \A i \in Cell : \A r : ~Holds(i, r)
    BY <2>1, Zenon DEF RegionInit, Holds
  <2>3. 0 \in Cell
    BY RegionAssumption DEF Cell, Commit
  <2>4. OneBlobPerGeneration /\ SaveIsNewest /\ NewestIsHighest /\ OneTextPerNonce
    BY <2>2, Zenon DEF RegionInit, OneBlobPerGeneration, SaveIsNewest, NewestIsHighest, OneTextPerNonce
  <2> QED BY <2>1, <2>2, <2>3, <2>4, Zenon DEF RegionInit, BlobInv
<1>2. BlobInv /\ [RegionNext]_regionVars => BlobInv'
  <2> SUFFICES ASSUME BlobInv, [RegionNext]_regionVars PROVE BlobInv'
    BY Zenon
  <2>1. ASSUME NEW b \in Blob, BeginSave(b) PROVE BlobInv'
    BY <2>1, BeginKeeps, Zenon
  <2>2. CASE StoreCell
    <3>1. step' \in Cell
      BY <2>2, RegionAssumption DEF StoreCell, Cell, Commit, BlobInv
    <3> QED BY <2>2, <3>1, StoreKeeps, Zenon DEF StoreCell
  <2>3. CASE Interrupt
    <3>1. step' \in Cell /\ request # NoRecord /\ request' = NoRecord
          /\ generation' = generation /\ saves' = saves
      BY <2>3, RegionAssumption DEF Interrupt, Cell, Commit
    <3>2. CASE /\ cells' = [cells EXCEPT ![step] = Stored(@, Sealed)]
               /\ written' = written \cup {<<generation, step, request>>}
      BY <3>1, <3>2, StoreKeeps, Zenon
    <3>3. CASE /\ cells' = cells \/ cells' = [cells EXCEPT ![step] = TornStore(@)]
               /\ written' = written
      BY <3>1, <3>3, EndKeeps, Zenon
    <3> QED BY <2>3, <3>2, <3>3, Zenon DEF Interrupt
  <2>4. CASE UNCHANGED regionVars
    <3>1. \A i \in Cell : \A r : Holds(i, r)' <=> Holds(i, r)
      BY <2>4, Zenon DEF regionVars, Holds
    <3> QED BY <2>4, <3>1 DEF regionVars, BlobInv, OneBlobPerGeneration, SaveIsNewest,
               NewestIsHighest, OneTextPerNonce
  <2> QED BY <2>1, <2>2, <2>3, <2>4, Zenon DEF RegionNext, Load
<1> QED BY <1>1, <1>2, PTL DEF RegionSpec

(***************************************************************************)
(* The theorems.                                                           *)
(***************************************************************************)

(* For every number of shards, whatever saves are interrupted and wherever,*)
(* a load that returns a blob returns the chunks of one save: load of      *)
(* sealed.rs picks one committed generation, and fresh_gen never gives two *)
(* saves whose records can meet the same one.                              *)
THEOREM LoadNeverMixes ==
    RegionSpec => []NeverMixes
<1>1. BlobInv => NeverMixes
  <2> SUFFICES ASSUME BlobInv, LoadResult(cells).outcome = "blob"
               PROVE  \E b \in Blob : LoadResult(cells).chunks = {b}
    BY Zenon DEF NeverMixes
  <2> DEFINE complete == {g \in Candidates(cells) : Assembles(cells, g)}
             g == Max(complete)
  <2>1. LoadResult(cells) = Loaded(ChunksOf(cells, g)) /\ complete # {}
    BY Zenon DEF LoadResult, LoadBlank, LoadError
  <2>2. Commit \in Cell
    BY RegionAssumption DEF Cell, Commit
  <2>3. \A c \in complete : \E r : Holds(Commit, r) /\ c = r.gen
    BY Zenon DEF Candidates, Holds
  <2>4. complete \subseteq Nat /\ \A c \in complete : c <= saves
    BY <2>2, <2>3, HeldIsRecord, Zenon DEF BlobInv
  <2>5. g \in complete
    <3> HIDE DEF complete
    <3> QED BY <2>1, <2>4, MaxIsLargest, Zenon DEF BlobInv
  <2>6. PICK r : Holds(Commit, r) /\ g = r.gen
    BY <2>3, <2>5, Zenon
  <2> HIDE DEF g, complete
  <2>7. r.blob \in Blob
    BY <2>2, <2>6, HeldIsRecord, Zenon
  <2>8. \A c : c \in ChunksOf(cells, g) <=>
               \E i \in Cell : \E s : Holds(i, s) /\ s.gen = g /\ c = s.blob
    BY DEF ChunksOf, OfGeneration, Holds
  <2>9. \A c : c \in ChunksOf(cells, g) <=> c = r.blob
    BY <2>2, <2>6, <2>8 DEF BlobInv, OneBlobPerGeneration
  <2>10. LoadResult(cells).chunks = ChunksOf(cells, g)
    BY <2>1 DEF Loaded
  <2> QED BY <2>7, <2>9, <2>10
<1> QED BY <1>1, BlobInvariant, PTL

(* For every number of shards, no generation, which is the AEAD nonce,     *)
(* seals two plaintexts in whole records of one cell: fresh_gen of         *)
(* sealed.rs stays above every readable generation, and the newest record  *)
(* of a cell is never the one a store overwrites.                          *)
THEOREM SealedNonceUnique ==
    RegionSpec => []OneTextPerNonce
<1>1. BlobInv => OneTextPerNonce
  BY Zenon DEF BlobInv
<1> QED BY <1>1, BlobInvariant, PTL

-----------------------------------------------------------------------------
(* Storing a cell keeps the order of its two records, and what the save    *)
(* has stored so far.                                                      *)
LEMMA StoreOrders ==
    ASSUME BlobInv, CommitInv, request # NoRecord,
           cells' = [cells EXCEPT ![step] = Stored(@, Sealed)]
    PROVE  /\ NewestFirst'
           /\ \A i \in Cell : i <= step => cells'[i][1] = Sealed
           /\ cells'[step][2] = cells[step][1]
<1>1. /\ step \in Cell /\ cells \in [Cell -> Slots] /\ cells[step] \in Slots
      /\ Cell \subseteq Int
  BY RegionAssumption DEF BlobInv, Cell, Commit
<1>2. cells'[step] = <<Sealed, cells[step][1]>> /\ \A i \in Cell : i # step => cells'[i] = cells[i]
  BY <1>1, Zenon DEF Stored
<1>3. Sealed # NoRecord /\ Sealed.gen = generation
  BY StoredHolds, Zenon DEF Sealed
<1>4. cells[step][1] # NoRecord => cells[step][1].gen < generation
  <2> SUFFICES ASSUME cells[step][1] # NoRecord PROVE cells[step][1].gen < generation
    BY Zenon
  <2>1. Holds(step, cells[step][1])
    BY DEF Holds, Readable
  <2>2. cells[step][1].gen \in Nat /\ generation \in Nat
    BY <1>1, <2>1, HeldIsRecord, Zenon DEF BlobInv
  <2>3. cells[step][1].gen <= generation /\ cells[step][1].gen # generation
    BY <1>1, <2>1 DEF BlobInv, SaveIsNewest
  <2> QED BY <2>2, <2>3
<1>5. NewestFirst'
  BY <1>2, <1>3, <1>4 DEF NewestFirst, CommitInv
<1>6. ASSUME NEW i \in Cell, i <= step PROVE cells'[i][1] = Sealed
  <2>1. CASE i = step
    BY <1>2, <2>1
  <2>2. CASE i < step
    BY <1>1, <1>2, <2>2 DEF CommitInv, StoredSoFar
  <2> QED BY <1>1, <1>6, <2>1, <2>2
<1> QED BY <1>2, <1>5, <1>6

(* Storing a cell, whether the save goes on, is over or is cut short: the  *)
(* commit cell makes the save the committed one, any other cell spares it. *)
LEMMA StoreCommits ==
    ASSUME BlobInv, CommitInv, request # NoRecord,
           cells' = [cells EXCEPT ![step] = Stored(@, Sealed)],
           Landing(Stored(cells[step], Sealed)), generation' = generation, saves' = saves,
           \/ request' = NoRecord
           \/ request' = request /\ step' = step + 1 /\ step # Commit
    PROVE  CommitInv'
<1>1. /\ step \in Cell /\ generation \in Nat /\ request \in Blob /\ begun \in Nat
      /\ Commit \in Cell /\ begun # 0 /\ Cell \subseteq Int
      /\ \A i \in Cell : i <= Commit
  BY RegionAssumption DEF BlobInv, CommitInv, StoredSoFar, Cell, Commit
<1>2. /\ NewestFirst' /\ cells'[step][2] = cells[step][1]
      /\ \A i \in Cell : i <= step => cells'[i][1] = Sealed
      /\ \A i \in Cell : i # step => cells'[i] = cells[i]
  BY StoreOrders, StoredHolds, Zenon
<1>3. CASE step = Commit
  <2>1. committed' = request /\ begun' = 0 /\ request' = NoRecord
    BY <1>3, Zenon DEF Landing, Stored
  <2>2. \A i \in Cell : cells'[i][1] = Sealed
    BY <1>1, <1>2, <1>3, Zenon
  <2>3. Sealed = [gen |-> generation, blob |-> request]
    BY Zenon DEF Sealed
  <2>4. CommittedReadable'
    BY <1>1, <2>1, <2>2, <2>3 DEF CommittedReadable, Piece
  <2> QED BY <1>1, <1>2, <2>1, <2>4, Zenon DEF CommitInv, StoredSoFar
<1>4. CASE step # Commit
  <2>1. committed' = committed /\ begun' = begun
    BY <1>4, Zenon DEF Landing
  <2>2. \A g : Piece(g)' = Piece(g)
    BY <2>1, Zenon DEF Piece
  <2>3. StoredSoFar'
    <3> SUFFICES ASSUME request' # NoRecord
                 PROVE  begun' # 0 /\ \A i \in Cell : i < step' => cells'[i][1] = Sealed'
      BY Zenon DEF StoredSoFar, Cell
    <3>1. Sealed' = Sealed /\ step' = step + 1
      BY Zenon DEF Sealed
    <3>2. \A i \in Cell : i < step + 1 => i <= step
      BY <1>1
    <3> QED BY <1>1, <1>2, <2>1, <3>1, <3>2, Zenon
  <2>4. CommittedReadable'
    <3> SUFFICES ASSUME committed # NoRecord, begun = 1 PROVE \E g \in Nat : SparesCommitted(g)'
      BY <1>1, <2>1, Zenon DEF CommittedReadable
    <3>1. PICK g \in Nat : SparesCommitted(g)
      BY Zenon DEF CommitInv, CommittedReadable
    <3>2. cells'[Commit][1] = Piece(g)
      BY <1>1, <1>2, <1>4, <3>1, Zenon DEF SparesCommitted
    <3>3. ASSUME NEW i \in Cell
          PROVE  \/ cells'[i][1] = Piece(g)
                 \/ cells'[i][2] = Piece(g) /\ (request' # NoRecord => i < step')
      <4>1. CASE i = step
        <5>1. cells[step][1] = Piece(g)
          BY <1>1, <3>1 DEF SparesCommitted
        <5> QED BY <1>1, <1>2, <4>1, <5>1
      <4>2. CASE i # step
        BY <1>1, <1>2, <3>1, <4>2 DEF SparesCommitted
      <4> QED BY <4>1, <4>2, Zenon
    <3> QED BY <2>2, <3>2, <3>3, Zenon DEF SparesCommitted, Cell, Commit
  <2> QED BY <1>2, <2>1, <2>3, <2>4, Zenon DEF CommitInv
<1> QED BY <1>3, <1>4, Zenon

(* A save that ends without a whole record spares the committed one too. *)
LEMMA EndSpares ==
    ASSUME BlobInv, CommitInv, request' = NoRecord, saves' = saves,
           cells' = cells \/ cells' = [cells EXCEPT ![step] = TornStore(@)],
           committed' = committed, begun' = begun, request # NoRecord
    PROVE  CommitInv'
<1>1. /\ step \in Cell /\ cells \in [Cell -> Slots] /\ Commit \in Cell
      /\ begun # 0 /\ begun \in Nat
  BY RegionAssumption DEF BlobInv, CommitInv, StoredSoFar, Cell, Commit
<1>2. \A i \in Cell : /\ cells'[i][1] = cells[i][1]
                      /\ cells'[i][2] = cells[i][2] \/ (i = step /\ cells'[i][2] = NoRecord)
  BY <1>1 DEF TornStore
<1>3. NewestFirst'
  BY <1>2, Zenon DEF NewestFirst, CommitInv
<1>4. CommittedReadable'
  <2> SUFFICES ASSUME committed # NoRecord, begun = 1 PROVE \E g \in Nat : SparesCommitted(g)'
    BY <1>1, Zenon DEF CommittedReadable
  <2>1. PICK g \in Nat : SparesCommitted(g)
    BY Zenon DEF CommitInv, CommittedReadable
  <2>2. Piece(g)' = Piece(g)
    BY Zenon DEF Piece
  <2>3. cells[step][1] = Piece(g)
    BY <1>1, <2>1 DEF SparesCommitted, Cell
  <2> QED BY <1>1, <1>2, <2>1, <2>2, <2>3 DEF SparesCommitted
<1> QED BY <1>3, <1>4, Zenon DEF CommitInv, StoredSoFar

(* The committed blob stays readable in every step. *)
LEMMA CommitStep ==
    ASSUME BlobInv, CommitInv, [RegionNext]_regionVars
    PROVE  CommitInv'
<1>1. ASSUME NEW b \in Blob, BeginSave(b) PROVE CommitInv'
  <2>1. /\ cells' = cells /\ committed' = committed /\ begun' = begun + 1 /\ step' = 0
        /\ saves < MaxSaves /\ saves' = saves + 1 /\ request = NoRecord
    BY <1>1, Zenon DEF BeginSave
  <2>2. saves' <= MaxSaves /\ begun' \in Nat /\ begun' # 0
    BY <2>1, RegionAssumption DEF BlobInv, CommitInv
  <2>3. StoredSoFar'
    BY <2>1, <2>2 DEF StoredSoFar, Cell, Commit
  <2>4. CommittedReadable'
    <3> SUFFICES ASSUME committed # NoRecord, begun = 0 PROVE \E g \in Nat : SparesCommitted(g)'
      BY <2>1, <2>2 DEF CommittedReadable, CommitInv
    <3>1. PICK g \in Nat : \A i \in Cell : cells[i][1] = Piece(g)
      BY Zenon DEF CommitInv, CommittedReadable
    <3>2. Piece(g)' = Piece(g) /\ Commit \in Cell
      BY <2>1, RegionAssumption DEF Piece, Cell, Commit
    <3> QED BY <2>1, <3>1, <3>2, Zenon DEF SparesCommitted
  <2> QED BY <2>1, <2>2, <2>3, <2>4, Zenon DEF CommitInv, NewestFirst
<1>2. CASE StoreCell
  BY <1>2, StoreCommits, Zenon DEF StoreCell
<1>3. CASE Interrupt
  BY <1>3, StoreCommits, EndSpares, Zenon DEF Interrupt
<1>4. CASE UNCHANGED regionVars
  BY <1>4, Zenon DEF regionVars, CommitInv, NewestFirst, StoredSoFar, CommittedReadable, SparesCommitted,
     Piece, Sealed
<1> QED BY <1>1, <1>2, <1>3, <1>4, Zenon DEF RegionNext, Load

(* The inductive invariant holds of the region. *)
LEMMA CommitInvariant == RegionSpec => [](BlobInv /\ CommitInv)
<1>1. RegionInit => CommitInv
  BY RegionAssumption
  DEF RegionInit, CommitInv, NewestFirst, StoredSoFar, CommittedReadable, EmptyCell
<1> QED BY <1>1, BlobInvariant, CommitStep, PTL DEF RegionSpec

(* For every number of shards, one unfinished save, cut short or failed in *)
(* any cell, leaves what the last commit saved the blob a load returns     *)
(* (save and load of sealed.rs).                                           *)
THEOREM OneUnfinishedSave == RegionSpec => []OneUnfinishedSaveIsHarmless
<1>1. BlobInv /\ CommitInv => OneUnfinishedSaveIsHarmless
  <2> SUFFICES ASSUME BlobInv, CommitInv, begun <= 1, committed # NoRecord
               PROVE  LoadResult(cells) = Loaded({committed})
    BY Zenon DEF OneUnfinishedSaveIsHarmless
  <2>1. PICK g \in Nat :
             /\ cells[Commit][1] = Piece(g)
             /\ \A i \in Cell : cells[i][1] = Piece(g) \/ cells[i][2] = Piece(g)
    <3>1. begun = 0 \/ begun = 1
      BY DEF CommitInv
    <3>2. Commit \in Cell
      BY RegionAssumption DEF Cell, Commit
    <3> QED BY <3>1, <3>2, Zenon DEF CommitInv, CommittedReadable, SparesCommitted
  <2>2. committed \in Blob /\ Commit \in Cell /\ DataShard \subseteq Cell
    BY RegionAssumption DEF CommitInv, Cell, Commit, DataShard
  <2>3. Piece(g) # NoRecord /\ Piece(g).gen = g /\ Piece(g).blob = committed
    BY <2>2, SealedRecordAssumption DEF Piece, SealedRecord
  <2>4. \A i \in Cell : Piece(g) \in Readable(cells[i])
    BY <2>1, <2>3 DEF Readable
  <2> DEFINE complete == {h \in Candidates(cells) : Assembles(cells, h)}
  <2>5. g \in complete
    <3>1. g \in Candidates(cells)
      BY <2>2, <2>3, <2>4, Zenon DEF Candidates
    <3>2. Assembles(cells, g)
      BY <2>2, <2>3, <2>4, Zenon DEF Assembles, OfGeneration
    <3> QED BY <3>1, <3>2, Zenon
  <2>6. \A h \in complete : h \in Nat /\ h <= g
    <3> SUFFICES ASSUME NEW r \in Readable(cells[Commit]) PROVE r.gen \in Nat /\ r.gen <= g
      BY Zenon DEF Candidates
    <3>1. r.gen \in Nat
      BY <2>2, HeldIsRecord, Zenon DEF Holds
    <3>2. CASE r = cells[Commit][1]
      BY <2>1, <2>3, <3>2
    <3>3. CASE r = cells[Commit][2] /\ r # NoRecord
      <4>1. r.gen < g
        BY <2>1, <2>2, <2>3, <3>3, Zenon DEF CommitInv, NewestFirst
      <4> QED BY <3>1, <4>1
    <3> QED BY <3>1, <3>2, <3>3 DEF Readable
  <2> HIDE DEF complete
  <2>7. Max(complete) \in complete /\ g <= Max(complete)
    BY <2>5, <2>6, MaxIsLargest, Zenon
  <2>8. Max(complete) = g
    BY <2>6, <2>7
  <2>9. Candidates(cells) # {} /\ complete # {}
    BY <2>5, Zenon DEF complete
  <2>10. LoadResult(cells) = Loaded(ChunksOf(cells, g))
    BY <2>8, <2>9, Zenon DEF LoadResult, complete
  <2>11. \A x : x \in ChunksOf(cells, g) <=>
                \E i \in Cell : \E s : Holds(i, s) /\ s.gen = g /\ x = s.blob
    BY DEF ChunksOf, OfGeneration, Holds
  <2>12. \A x : x \in ChunksOf(cells, g) <=> x = committed
    <3>1. Holds(Commit, Piece(g))
      BY <2>2, <2>4, Zenon DEF Holds
    <3>2. \A i \in Cell : \A s : Holds(i, s) /\ s.gen = g => s.blob = committed
      BY <2>2, <2>3, <3>1 DEF BlobInv, OneBlobPerGeneration
    <3> QED BY <2>2, <2>3, <2>11, <3>1, <3>2, Zenon
  <2>13. ChunksOf(cells, g) = {committed}
    BY <2>12
  <2> QED BY <2>10, <2>13, Zenon
<1> QED BY <1>1, CommitInvariant, PTL

(* The region keeps its promise (RegionInv): it never mixes two saves, and *)
(* no generation seals two plaintexts in a cell.                           *)
THEOREM RegionKept == RegionSpec => []RegionInv
<1>1. BlobInv /\ CommitInv => RegionTypeOK
  BY DEF BlobInv, CommitInv, RegionTypeOK
<1> QED BY <1>1, CommitInvariant, LoadNeverMixes, SealedNonceUnique, PTL DEF RegionInv

-----------------------------------------------------------------------------
(***************************************************************************)
(* The credential database.                                                *)
(***************************************************************************)
USE ConstantsAssumption, RecordAssumption

Slot == Record \cup {Nothing}

(* The pair of slots seen as its two components. *)
LEMMA TwoSlots ==
    ASSUME TypeOK
    PROVE  /\ slots = <<slots[1], slots[2]>>
           /\ slots[1] \in Slot /\ slots[2] \in Slot
           /\ Present = {slots[1], slots[2]} \ {Nothing}
           /\ \A r \in Present : r \in Record /\ r.counter \in Nat
BY DEF TypeOK, Slot, Present, Record

(* A store that does not fail closed opens the newest slot, if there is    *)
(* one: choosing by counter is choosing by slot sequence.                  *)
LEMMA OpensNewest ==
    ASSUME IInv, ~FailsClosed, Present # {}
    PROVE  slots[1] # Nothing /\ Selected = slots[1]
<1>1. TypeOK /\ CountersFollowSlots
  BY Zenon DEF IInv
<1>2. slots[1] # Nothing
  BY <1>1, TwoSlots, Zenon DEF IInv
<1>3. CASE slots[1] \notin Authentic
  <2>1. Present # Authentic
    BY <1>1, <1>2, <1>3, TwoSlots, Zenon
  <2>2. Authentic # {} /\ slots[1] = Selected
    BY <2>1, Zenon DEF FailsClosed
  <2>3. PICK r \in Authentic : TRUE
    BY <2>2, Zenon
  <2>4. Authentic = {r}
    BY <1>1, <1>3, <2>3, TwoSlots, Zenon DEF Authentic
  <2>5. \A s \in Authentic : s.counter <= r.counter
    BY <1>1, <2>3, <2>4, TwoSlots DEF Authentic
  <2>6. Selected \in Authentic
    BY <2>3, <2>5, Zenon DEF Selected
  <2> QED BY <1>3, <2>2, <2>6, Zenon
<1>4. CASE slots[1] \in Authentic
  <2>1. \A s \in Authentic : s.counter <= slots[1].counter
    BY <1>1, <1>2, <1>4, TwoSlots DEF Authentic, CountersFollowSlots, Slot, Record
  <2>2. /\ Selected \in Authentic
        /\ \A s \in Authentic : s.counter <= Selected.counter
    BY <1>4, <2>1, Zenon DEF Selected
  <2>3. slots[1].counter <= Selected.counter
    BY <1>4, <2>2, Zenon
  <2>4. Selected = slots[1] \/ (Selected = slots[2] /\ slots[2] # Nothing)
    BY <1>1, <2>2, TwoSlots, Zenon DEF Authentic
  <2>5. CASE Selected = slots[2] /\ slots[2] # Nothing
    BY <1>1, <1>2, <2>3, <2>5, TwoSlots DEF CountersFollowSlots, Slot, Record
  <2> QED BY <1>2, <2>4, <2>5, Zenon
<1> QED BY <1>3, <1>4, Zenon

(* IInv after a flush that leaves the given outcome in flash, whatever     *)
(* becomes of RAM.                                                         *)
LEMMA FlashAfterFlush ==
    ASSUME IInv, NEW d \in Content, NEW outcome \in {"nothing", "torn", "record"},
           Flushed(outcome, d)
    PROVE  /\ slots' \in Slot \X Slot
           /\ landed' \in Content
           /\ sealed' \subseteq Nat \X Content
           /\ Nothing \notin {slots'[1], slots'[2]} => slots'[1].counter > slots'[2].counter
           /\ \A r \in {slots'[1], slots'[2]} \ {Nothing} : r.counter <= counter + 1
           /\ slots'[1] = Nothing => slots'[2] = Nothing /\ landed' = Empty /\ sealed' = {}
           /\ slots'[1] # Nothing =>
                 /\ slots'[1].db = landed'
                 /\ \A s \in sealed' : s[1] <= slots'[1].counter
<1>1. /\ TypeOK /\ CountersFollowSlots /\ mode = "sealed"
      /\ counter \in Nat /\ counter < MaxCounter
      /\ \A r \in {slots[1], slots[2]} \ {Nothing} : r.counter <= counter /\ r.counter \in Nat
  BY TwoSlots DEF IInv, Flushed, CountersFollowSlots, TypeOK
<1>2. CASE outcome = "nothing"
  BY <1>1, <1>2, TwoSlots DEF IInv, Flushed, Leaves, CountersFollowSlots, TypeOK, Slot
<1>3. CASE outcome = "torn"
  <2>1. slots' = <<slots[1], Nothing>> /\ landed' = landed /\ sealed' = sealed
    BY <1>3, Zenon DEF Flushed, Leaves
  <2> QED BY <1>1, <2>1, TwoSlots DEF IInv, TypeOK, Slot
<1>4. CASE outcome = "record"
  <2>1. /\ slots' = <<Sealing(d), slots[1]>> /\ landed' = d
        /\ sealed' = sealed \cup {<<counter + 1, d>>}
    BY <1>4, Zenon DEF Flushed, Leaves
  <2>a. /\ Sealing(d) \in Record
        /\ Sealing(d).counter = counter + 1 /\ Sealing(d).db = d
    BY <1>1 DEF Sealing, Record
  <2>2. /\ Sealing(d) \in Record /\ Sealing(d) # Nothing
        /\ Sealing(d).counter = counter + 1 /\ Sealing(d).db = d
    BY <2>a, Zenon
  <2>3. /\ slots'[1] = Sealing(d) /\ slots'[2] = slots[1]
        /\ slots' \in Slot \X Slot
    BY <1>1, <2>1, <2>2, TwoSlots, Zenon DEF Slot
  <2>4. \A s \in sealed : s[1] \in Nat /\ s[1] <= counter
    BY <1>1, TwoSlots DEF IInv, TypeOK
  <2>5. sealed' \subseteq Nat \X Content
    BY <1>1, <2>1 DEF TypeOK
  <2>6. \A s \in sealed' : s[1] <= counter + 1
    BY <1>1, <2>1, <2>4
  <2> QED BY <1>1, <2>1, <2>2, <2>3, <2>5, <2>6
<1> QED BY <1>2, <1>3, <1>4, Zenon

(* Every step preserves IInv. *)
LEMMA InductiveStep ==
    IInv /\ [Next]_vars => IInv'
<1> SUFFICES ASSUME IInv, [Next]_vars
             PROVE  IInv'
  BY Zenon
<1> USE DEF Slot
<1>1. ASSUME Open
      PROVE  IInv'
  <2>1. TypeOK /\ CountersFollowSlots
    BY Zenon DEF IInv
  <2>2. UNCHANGED <<slots, landed, sealed>> /\ Present' = Present
    BY <1>1, Zenon DEF Open, Present
  <2>3. CASE FailsClosed
    BY <1>1, <2>1, <2>2, <2>3 DEF IInv, TypeOK, CountersFollowSlots, Open
  <2>4. CASE ~FailsClosed /\ Present = {}
    BY <1>1, <2>1, <2>2, <2>4 DEF IInv, TypeOK, CountersFollowSlots, Open
  <2>5. CASE ~FailsClosed /\ Present # {}
    <3>1. db' = slots[1].db /\ counter' = slots[1].counter /\ slots[1] # Nothing
      BY <1>1, <2>5, OpensNewest, Zenon DEF Open
    <3>2. slots[1] \in Record /\ counter' \in Nat /\ db' \in Content
      BY <2>1, <3>1, TwoSlots, Zenon DEF Record
    <3>3. counter' <= MaxCounter
      BY <3>1, <3>2 DEF Record
    <3> QED BY <1>1, <2>1, <2>2, <3>1, <3>2, <3>3, TwoSlots
               DEF IInv, TypeOK, CountersFollowSlots, Open
  <2> QED BY <2>3, <2>4, <2>5, Zenon
<1>2. ASSUME NEW d \in Content, FlushStored(d) \/ FlushFailed(d)
      PROVE  IInv'
  <2>1. PICK outcome \in {"nothing", "torn", "record"} : Flushed(outcome, d)
    BY <1>2, Zenon DEF FlushStored, FlushFailed
  <2>2. mode' = mode /\ db' = d /\ counter' = counter + 1 /\ counter < MaxCounter
    BY <1>2, <2>1, Zenon DEF FlushStored, FlushFailed, Flushed
  <2>3. Present' = {slots'[1], slots'[2]} \ {Nothing}
    BY <2>1, FlashAfterFlush DEF Present
  <2> QED BY <2>1, <2>2, <2>3, FlashAfterFlush DEF IInv, TypeOK, CountersFollowSlots
<1>3. ASSUME NEW d \in Content, FlushCut(d)
      PROVE  IInv'
  <2>1. PICK outcome \in {"nothing", "torn", "record"} : Flushed(outcome, d)
    BY <1>3, Zenon DEF FlushCut
  <2> QED BY <1>3, <2>1, FlashAfterFlush DEF IInv, TypeOK, CountersFollowSlots, FlushCut
<1>4. ASSUME PowerLoss
      PROVE  IInv'
  BY <1>4 DEF IInv, TypeOK, CountersFollowSlots, PowerLoss, Present
<1>5. ASSUME NEW k \in 1 .. 2, Alter(k)
      PROVE  IInv'
  <2>1. TypeOK /\ k \in {1, 2}
    BY DEF IInv
  <2> DEFINE altered == [slots[k] EXCEPT !.authentic = FALSE]
  <2>a. slots[k] \in Record
    BY <1>5, <2>1, TwoSlots, Zenon DEF Alter
  <2>2. /\ altered \in Record
        /\ altered.counter = slots[k].counter /\ altered.db = slots[k].db
    BY <2>a, Zenon DEF Record
  <2>b. altered # Nothing
    BY <2>2, Zenon
  <2>c. slots' = [slots EXCEPT ![k] = altered]
    BY <1>5, Zenon DEF Alter
  <2> HIDE DEF altered
  <2>d. slots \in Slot \X Slot /\ altered \in Slot
    BY <2>1, <2>2, Zenon DEF TypeOK
  <2>e. slots' \in Slot \X Slot
    <3> HIDE DEF Slot
    <3> QED BY <2>c, <2>d
  <2>f. slots'[k] = altered /\ slots'[3 - k] = slots[3 - k]
    <3> HIDE DEF Slot
    <3> QED BY <2>1, <2>c, <2>d
  <2>3. /\ slots'[k].counter = slots[k].counter /\ slots'[k].db = slots[k].db
        /\ slots'[k] # Nothing
        /\ slots'[3 - k] = slots[3 - k]
        /\ slots' \in Slot \X Slot
    BY <2>2, <2>b, <2>e, <2>f, Zenon
  <2> QED BY <1>5, <2>1, <2>3, TwoSlots DEF IInv, TypeOK, CountersFollowSlots, Alter
<1>6. ASSUME UNCHANGED vars
      PROVE  IInv'
  BY <1>6, Zenon DEF IInv, TypeOK, CountersFollowSlots, Present, vars
<1> QED BY <1>1, <1>2, <1>3, <1>4, <1>5, <1>6, Zenon DEF Next

(* The inductive invariant of the sealed database (open, flush) holds in   *)
(* every behaviour, for every set of contents and every bound.             *)
THEOREM Invariance == Spec => []IInv
<1>1. Init => IInv
  BY DEF Init, IInv, TypeOK, CountersFollowSlots, Present
<1> QED BY <1>1, InductiveStep, PTL DEF Spec

(* A power-up that opens the database opens the last record that landed:   *)
(* open never falls back to an older record (NeverRollsBack).              *)
THEOREM NoRollback == Spec => NeverRollsBack
<1>1. IInv /\ [Next]_vars => [(mode = "off" /\ mode' = "sealed") => db' = landed]_vars
  <2> SUFFICES ASSUME IInv, Next, mode = "off", mode' = "sealed"
               PROVE  db' = landed
    BY Zenon DEF vars
  <2>1. Open
    BY Zenon DEF Next, FlushStored, FlushFailed, FlushCut, Flushed, PowerLoss, Alter
  <2>2. ~FailsClosed
    BY <2>1, Zenon DEF Open
  <2>3. CASE Present = {}
    <3>1. slots[1] = Nothing
      BY <2>3, TwoSlots, Zenon DEF IInv
    <3> QED BY <2>1, <2>3, <3>1, Zenon DEF Open, IInv
  <2>4. CASE Present # {}
    BY <2>1, <2>2, <2>4, OpensNewest, Zenon DEF Open, IInv
  <2> QED BY <2>3, <2>4, Zenon
<1> QED BY <1>1, Invariance, PTL DEF Spec, NeverRollsBack

(* No two flushes ever put different contents under one counter, that is   *)
(* under one AEAD nonce, into whole records (NonceOfRecordUnique).         *)
THEOREM NonceUnique == Spec => []NonceOfRecordUnique
<1>1. Init => NonceOfRecordUnique
  BY Zenon DEF Init, NonceOfRecordUnique
<1>2. IInv /\ NonceOfRecordUnique /\ [Next]_vars => NonceOfRecordUnique'
  <2> SUFFICES ASSUME IInv, NonceOfRecordUnique, [Next]_vars
               PROVE  NonceOfRecordUnique'
    BY Zenon
  <2>1. CASE sealed' = sealed
    BY <2>1, Zenon DEF NonceOfRecordUnique
  <2>2. ASSUME NEW d \in Content, NEW outcome \in {"nothing", "torn", "record"},
               Flushed(outcome, d)
        PROVE  NonceOfRecordUnique'
    <3>1. sealed' = sealed \/ sealed' = sealed \cup {<<counter + 1, d>>}
      BY <2>2, Zenon DEF Flushed
    <3>2. counter \in Nat /\ mode = "sealed"
      BY <2>2 DEF IInv, TypeOK, Flushed
    <3>3. \A s \in sealed : s[1] \in Nat /\ s[1] <= counter
      BY <3>2, TwoSlots DEF IInv, TypeOK, CountersFollowSlots
    <3>4. \A s \in sealed : s[1] # counter + 1
      BY <3>2, <3>3
    <3> QED BY <3>1, <3>2, <3>4 DEF NonceOfRecordUnique
  <2> QED BY <2>1, <2>2, Zenon DEF Next, vars, Open, FlushStored, FlushFailed, FlushCut,
                            PowerLoss, Alter
<1> QED BY <1>1, <1>2, Invariance, PTL DEF Spec
=============================================================================

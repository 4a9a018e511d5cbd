-------------------------- MODULE CredentialFlash ---------------------------
(***************************************************************************)
(* How the sealed credential database reaches flash and comes back: open   *)
(* and flush of aegis-core/src/credential_store.rs.  The whole database is *)
(* one sealed record, its AEAD nonce a counter kept inside it.             *)
(*                                                                         *)
(* The two flash slots are the pair <<newest, other>> ordered by slot      *)
(* sequence number, as in SealedBlob.  A readable slot may fail            *)
(* authentication (authentic = FALSE): its CRC matches and its AEAD tag or *)
(* its encoding does not.                                                  *)
(***************************************************************************)
EXTENDS Integers

CONSTANTS
    Content,    \* contents of the database: credentials and PIN state
    Empty,      \* the contents of a new database
    Nothing,    \* no readable record
    MaxCounter  \* bound on the nonce counter (u64)

ASSUME ConstantsAssumption ==
    /\ Empty \in Content
    /\ Nothing \notin Content
    /\ MaxCounter \in Nat

VARIABLES
    slots,      \* <<newest, other>>
    mode,       \* "off", "sealed" (opened) or "memory" (open failed)
    db,         \* the contents in RAM
    counter,    \* the nonce counter in RAM
    landed,     \* history: the contents of the last record that landed
    sealed      \* history: <<counter, contents>> of the records that
                \* reached the flash whole

vars == <<slots, mode, db, counter, landed, sealed>>

Record == [counter : 0 .. MaxCounter, db : Content, authentic : BOOLEAN]

ASSUME RecordAssumption == Nothing \notin Record

Present == {slots[k] : k \in 1 .. 2} \ {Nothing}
Authentic == {r \in Present : r.authentic}

Init ==
    /\ slots = <<Nothing, Nothing>>
    /\ mode = "off"
    /\ db = Empty
    /\ counter = 0
    /\ landed = Empty
    /\ sealed = {}

(* Faulty: the record of the first slot that authenticates. *)
SelectedOlder == CHOOSE r \in Authentic : \A s \in Authentic : r.counter <= s.counter

(* open: the authentic record with the highest counter. *)
Selected == CHOOSE r \in Authentic : \A s \in Authentic : s.counter <= r.counter

(* Faulty: any authentic record will do. *)
FallBack == Authentic = {} /\ Present # {}

(* A record failed authentication and none, or only an older one, did not. *)
FailsClosed ==
    /\ Present # Authentic
    /\ Authentic # {} => slots[1] # Selected

Open ==
    /\ mode = "off"
    /\ mode' = IF FailsClosed THEN "memory" ELSE "sealed"
    /\ IF FailsClosed \/ Present = {}
       THEN db' = Empty /\ counter' = 0
       ELSE db' = Selected.db /\ counter' = Selected.counter
    /\ UNCHANGED <<slots, landed, sealed>>

Sealing(d) == [counter |-> counter + 1, db |-> d, authentic |-> TRUE]

(* What a flush leaves in flash: nothing, a torn record in place of the    *)
(* older one, or the new record.                                           *)
Leaves(outcome, d) ==
    IF outcome = "nothing" THEN slots
    ELSE IF outcome = "torn" THEN <<slots[1], Nothing>>
    ELSE <<Sealing(d), slots[1]>>

Flushed(outcome, d) ==
    /\ mode = "sealed"
    /\ counter < MaxCounter
    /\ slots' = Leaves(outcome, d)
    /\ landed' = IF outcome = "record" THEN d ELSE landed
    /\ sealed' = IF outcome = "record" THEN sealed \cup {<<counter + 1, d>>} ELSE sealed

(* An operation changes the database to d and flushes it. *)
FlushStored(d) ==
    /\ Flushed("record", d)
    /\ db' = d
    /\ counter' = counter + 1
    /\ UNCHANGED mode

(* The flush fails: RAM keeps the new database and the new counter. *)
FlushFailed(d) ==
    /\ \E outcome \in {"nothing", "torn", "record"} : Flushed(outcome, d)
    /\ db' = d
    /\ counter' = counter + 1
    /\ UNCHANGED mode

(* Power is lost in the middle of a flush ... *)
FlushCut(d) ==
    /\ \E outcome \in {"nothing", "torn", "record"} : Flushed(outcome, d)
    /\ mode' = "off"
    /\ db' = Empty
    /\ counter' = 0

(* ... or between two of them. *)
PowerLoss ==
    /\ mode # "off"
    /\ mode' = "off"
    /\ db' = Empty
    /\ counter' = 0
    /\ UNCHANGED <<slots, landed, sealed>>

(* A record of the unpowered device is altered, its CRC made to match. *)
Alter(k) ==
    /\ mode = "off"
    /\ slots[k] # Nothing
    /\ slots' = [slots EXCEPT ![k].authentic = FALSE]
    /\ UNCHANGED <<mode, db, counter, landed, sealed>>

Next ==
    \/ Open
    \/ \E d \in Content : FlushStored(d) \/ FlushFailed(d) \/ FlushCut(d)
    \/ PowerLoss
    \/ \E k \in 1 .. 2 : Alter(k)

Spec == Init /\ [][Next]_vars

-----------------------------------------------------------------------------
(***************************************************************************)
(* Properties.                                                             *)
(***************************************************************************)

(* Slots hold sealed records, and the counter in RAM is one that a flush   *)
(* has used or read.                                                       *)
TypeOK ==
    /\ slots \in (Record \cup {Nothing}) \X (Record \cup {Nothing})
    /\ mode \in {"off", "sealed", "memory"}
    /\ db \in Content
    /\ counter \in 0 .. MaxCounter
    /\ landed \in Content
    /\ sealed \subseteq (Nat \X Content)

(* Choosing by counter and choosing by slot sequence agree: the newest     *)
(* slot always carries the higher counter, whatever flushes failed, and    *)
(* the counter in RAM is never behind the flash.                           *)
CountersFollowSlots ==
    /\ Nothing \notin {slots[1], slots[2]} => slots[1].counter > slots[2].counter
    /\ mode = "sealed" => \A r \in Present : r.counter <= counter

(* The inductive invariant: besides, what landed last is in the newest     *)
(* slot, its counter is the highest that was ever sealed, and a device     *)
(* that never stored anything opens empty.                                 *)
IInv ==
    /\ TypeOK
    /\ CountersFollowSlots
    /\ slots[1] = Nothing => slots[2] = Nothing /\ landed = Empty /\ sealed = {}
    /\ slots[1] # Nothing =>
          /\ slots[1].db = landed
          /\ \A s \in sealed : s[1] <= slots[1].counter

(* "Falling back ... would roll back to stale state": a power-up that      *)
(* opens the store opens the last record that landed, or refuses to.       *)
NeverRollsBack ==
    [][(mode = "off" /\ mode' = "sealed") => db' = landed]_vars

(* No two flushes put different contents into whole records under one      *)
(* counter, which is the nonce: not after a flush that failed although its *)
(* record landed, and not after a restart (open resumes at the highest     *)
(* counter, flush advances it first).                                      *)
NonceOfRecordUnique ==
    \A s, t \in sealed : s[1] = t[1] => s[2] = t[2]
=============================================================================

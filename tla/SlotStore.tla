----------------------------- MODULE SlotStore ------------------------------
(***************************************************************************)
(* The two-slot, sequence-numbered record store of                         *)
(* aegis-core/src/storage.rs, one step per flash operation.  A store       *)
(* erases the inactive slot, writes the header and writes the payload;     *)
(* each of the three can fail, and power can be lost before, inside or     *)
(* after each of them.                                                     *)
(*                                                                         *)
(* A slot is abstracted to what read_slot can tell apart: "blank" (erased, *)
(* or a magic or version that does not match), "header" (a good header     *)
(* over a payload whose CRC-32 does not match it) and "record".            *)
(***************************************************************************)
EXTENDS Integers

CONSTANTS
    Payload,        \* payloads clients store
    Oversized,      \* the payloads longer than MAX_PAYLOAD_BYTES
    Blank,          \* no record
    Fault,          \* a load that ended in a flash error
    SeqModulus,     \* sequence numbers are u32: 2^32 in the code
    MaxSequence     \* bound on the sequence numbers a device lives to write

ASSUME ConstantsAssumption ==
    /\ Oversized \subseteq Payload
    /\ Blank \notin Payload
    /\ Fault \notin Payload \cup {Blank}
    /\ SeqModulus \in Nat
    /\ MaxSequence \in Nat
    /\ 0 < MaxSequence
    /\ MaxSequence < SeqModulus

VARIABLES
    slots,      \* the two flash slots
    pc,         \* the flash operation the store in progress does next
    target,     \* the slot that store rewrites (`inactive`)
    nextSeq,    \* the sequence number of that store (`next_sequence`)
    request,    \* its payload, Blank when no store is in progress
    answer,     \* the outcome of the last store
    loaded      \* the result of the last load

vars == <<slots, pc, target, nextSeq, request, answer, loaded>>

SlotIndex == {0, 1}
Sequence == 0 .. (SeqModulus - 1)

SlotContents ==
    [area : {"blank", "header", "record"}, seq : Sequence, data : Payload \cup {Blank}]

ErasedSlot == [area |-> "blank", seq |-> 0, data |-> Blank]

(***************************************************************************)
(* Reading.                                                                *)
(***************************************************************************)

(* read_slot: magic, version, length and CRC must all match. *)
Readable(ss, i) == ss[i].area = "record"

(* scan and load keep the first slot and replace it only by a strictly     *)
(* greater sequence number.                                                *)
BestSlot(ss) ==
    IF Readable(ss, 1) /\ (Readable(ss, 0) => ss[1].seq > ss[0].seq) THEN 1 ELSE 0

AnyReadable(ss) == Readable(ss, 0) \/ Readable(ss, 1)

(* The record a load finds. *)
Newest(ss) == IF AnyReadable(ss) THEN ss[BestSlot(ss)].data ELSE Blank

(***************************************************************************)
(* Storing.                                                                *)
(***************************************************************************)

InactiveSlot(ss) == IF AnyReadable(ss) THEN 1 - BestSlot(ss) ELSE 0

NextSequence(ss) ==
    IF AnyReadable(ss) THEN (ss[BestSlot(ss)].seq + 1) % SeqModulus ELSE 1

Init ==
    /\ slots = [i \in SlotIndex |-> ErasedSlot]
    /\ pc = "idle"
    /\ target = 0
    /\ nextSeq = 0
    /\ request = Blank
    /\ answer = "none"
    /\ loaded = Blank

(* store: scan for the newest record and aim at the other slot. *)
BeginStore(p) ==
    /\ pc = "idle"
    /\ p \notin Oversized
    /\ AnyReadable(slots) => slots[BestSlot(slots)].seq < MaxSequence
    /\ target' = InactiveSlot(slots)
    /\ nextSeq' = NextSequence(slots)
    /\ request' = p
    /\ answer' = "busy"
    /\ pc' = "erase"
    /\ UNCHANGED <<slots, loaded>>

(* store: an oversized payload, or a scan that cannot read a slot, returns *)
(* before anything is erased.                                              *)
RefuseStore ==
    /\ pc = "idle"
    /\ answer' = "error"
    /\ UNCHANGED <<slots, pc, target, nextSeq, request, loaded>>

HeaderOnly == [area |-> "header", seq |-> nextSeq, data |-> Blank]
FullRecord == [area |-> "record", seq |-> nextSeq, data |-> request]

(* What the slot being rewritten can hold once the operation in progress   *)
(* has begun, whether it completes, fails or is cut short by a power loss. *)
Torn ==
    {slots[target],
     IF pc = "erase" THEN ErasedSlot ELSE IF pc = "header" THEN HeaderOnly ELSE FullRecord}

EraseSlot ==
    /\ pc = "erase"
    /\ slots' = [slots EXCEPT ![target] = ErasedSlot]
    /\ pc' = "header"
    /\ UNCHANGED <<target, nextSeq, request, answer, loaded>>

WriteHeader ==
    /\ pc = "header"
    /\ slots' = [slots EXCEPT ![target] = HeaderOnly]
    /\ pc' = "payload"
    /\ UNCHANGED <<target, nextSeq, request, answer, loaded>>

(* The record becomes readable here, and the store returns Ok. *)
WritePayload ==
    /\ pc = "payload"
    /\ slots' = [slots EXCEPT ![target] = FullRecord]
    /\ pc' = "idle"
    /\ request' = Blank
    /\ answer' = "ok"
    /\ UNCHANGED <<target, nextSeq, loaded>>

(* A flash operation returns an error, which `?` passes to the caller.     *)
FlashError ==
    /\ pc # "idle"
    /\ \E torn \in Torn : slots' = [slots EXCEPT ![target] = torn]
    /\ pc' = "idle"
    /\ request' = Blank
    /\ answer' = "error"
    /\ UNCHANGED <<target, nextSeq, loaded>>

(* Power is lost: every variable but the flash starts over. *)
PowerLoss ==
    /\ IF pc = "idle"
       THEN UNCHANGED slots
       ELSE \E torn \in Torn : slots' = [slots EXCEPT ![target] = torn]
    /\ pc' = "idle"
    /\ target' = 0
    /\ nextSeq' = 0
    /\ request' = Blank
    /\ answer' = "none"
    /\ loaded' = Blank

(* Faulty: a slot that cannot be read is skipped instead of reported. *)
SkipUnreadable ==
    /\ pc = "idle"
    /\ loaded' \in {Newest(slots), Fault, slots[0].data}
    /\ UNCHANGED <<slots, pc, target, nextSeq, request, answer>>

(* load: the newest record, or the error of the first read that fails. *)
Load ==
    /\ pc = "idle"
    /\ loaded' \in {Newest(slots), Fault}
    /\ UNCHANGED <<slots, pc, target, nextSeq, request, answer>>

Next ==
    \/ \E p \in Payload : BeginStore(p)
    \/ RefuseStore
    \/ EraseSlot
    \/ WriteHeader
    \/ WritePayload
    \/ FlashError
    \/ PowerLoss
    \/ Load

Spec == Init /\ [][Next]_vars

-----------------------------------------------------------------------------
(***************************************************************************)
(* Properties.                                                             *)
(***************************************************************************)

(* Every variable holds a value of its kind; a slot's area, sequence and   *)
(* data are ones read_slot can meet.                                       *)
TypeOK ==
    /\ slots \in [SlotIndex -> SlotContents]
    /\ pc \in {"idle", "erase", "header", "payload"}
    /\ target \in SlotIndex
    /\ nextSeq \in Sequence
    /\ request \in Payload \cup {Blank}
    /\ answer \in {"none", "busy", "ok", "error"}
    /\ loaded \in Payload \cup {Blank, Fault}

(* Two readable slots never carry the same sequence number, so "the newest *)
(* valid record wins" names one record: scan never has to break a tie.     *)
DistinctSequences ==
    (Readable(slots, 0) /\ Readable(slots, 1)) => slots[0].seq # slots[1].seq

(* While a store is in progress the slot it rewrites is not the one a load *)
(* would return: "the active slot is never touched" (storage.rs, store).   *)
ActiveSlotUntouched ==
    (pc # "idle" /\ AnyReadable(slots)) => target # BestSlot(slots)

(* The inductive invariant: a store in progress aims past the other slot,  *)
(* which holds the newest record unless nothing at all is readable.        *)
StoreInProgress ==
    pc # "idle" =>
        /\ request \in Payload
        /\ answer = "busy"
        /\ \/ /\ Readable(slots, 1 - target)
              /\ slots[1 - target].seq < nextSeq
              /\ Readable(slots, target) => slots[target].seq < slots[1 - target].seq
           \/ ~AnyReadable(slots)
        /\ pc \in {"header", "payload"} => ~Readable(slots, target)

IInv ==
    /\ TypeOK
    /\ DistinctSequences
    /\ StoreInProgress
    /\ pc = "idle" => request = Blank

(* The store is an atomic record: at every point the record a load would   *)
(* return is the last one that landed, a store replaces it in one step or  *)
(* not at all, and a read that fails is reported, never answered with the  *)
(* older slot.                                                             *)
Atomic == INSTANCE AtomicRecord WITH
    value <- Newest(slots), pending <- request, answer <- answer, loaded <- loaded

ImplementsAtomicRecord == Atomic!Spec
=============================================================================

------------------------------- MODULE PivPin -------------------------------
(***************************************************************************)
(* The PIN and the PUK of the PIV applet (aegis-applets/src/piv.rs over    *)
(* the PinSlot of aegis-applets/src/pin.rs).                               *)
(*                                                                         *)
(* Each reference has a slot in RAM, a record in the sealed metadata cell  *)
(* (stored), and a sticky floor: the lowest retry counter this power       *)
(* session knows to be persisted or consumed.  A save that fails leaves    *)
(* the RAM slot as the command made it and lowers the floor; SELECT, which *)
(* a CCID stack sends before every operation, reloads the record and       *)
(* clamps it to the floor.                                                 *)
(*                                                                         *)
(* Commands with wrong parameters, lengths or padding change nothing and   *)
(* are stuttering steps.  A code stands for its hash.                      *)
(***************************************************************************)
EXTENDS Integers

CONSTANTS
    Code,         \* PIN and PUK values
    Unset,        \* a slot without a hash
    Absent,       \* a record the store does not hold
    DefaultCode,  \* DEFAULT_PIN and DEFAULT_PUK
    MaxAttempts   \* PIV_PIN_POLICY.max_attempts

ASSUME CodeAssumption ==
    /\ Unset \notin Code
    /\ DefaultCode \in Code
    /\ MaxAttempts \in Nat \ {0}

Ref == {"pin", "puk"}

Slot == [hash : Code \cup {Unset}, retries : 0 .. MaxAttempts]

ASSUME AbsentAssumption == Absent \notin Slot

VARIABLES
    slots,        \* the PIN and PUK slots in RAM
    stored,       \* the records a SELECT reads
    floor,        \* pin_floor and puk_floor
    provisioned,  \* provision already ran in this power session
    selected,     \* the router routes commands to this applet
    verified,     \* pin_verified
    guessed,      \* history: wrong presentations answered or persisted
                  \* against each value since it was last installed
    recorded,     \* history: guessed as of the save of the record
    replaced,     \* history: provision wrote a default over a record it
                  \* could not read
    shown         \* history: the value the holder last proved as the PIN

pivPinVars ==
    <<slots, stored, floor, provisioned, selected, verified, guessed, recorded, replaced, shown>>

(* How a store write ends.  landed: the record is what a later read finds. *)
(* A power loss before it lands is PowerCycle: only RAM has changed.       *)
Write ==
    {w \in [landed : BOOLEAN, end : {"ok", "error", "crash"}] :
        w.end # "error" => w.landed}

Full(h) == [hash |-> h, retries |-> MaxAttempts]

Lower(a, b) == IF a <= b THEN a ELSE b

PivPinInit ==
    /\ slots = [ref \in Ref |-> Full(Unset)]
    /\ stored = [ref \in Ref |-> Absent]
    /\ floor = [ref \in Ref |-> MaxAttempts]
    /\ provisioned = FALSE
    /\ selected = FALSE
    /\ verified = FALSE
    /\ guessed = [ref \in Ref |-> [c \in Code |-> 0]]
    /\ recorded = guessed
    /\ replaced = FALSE
    /\ shown = Unset

(***************************************************************************)
(* Persistence.                                                            *)
(***************************************************************************)

(* A power cycle that finds the records st, saved when the wrong           *)
(* presentations were g.  The ones that were in RAM only are forgotten:    *)
(* docs/security-model.md accepts this for a failing flash.                *)
Restart(st, g) ==
    /\ stored' = st
    /\ slots' = [ref \in Ref |-> Full(Unset)]
    /\ floor' = [ref \in Ref |-> MaxAttempts]
    /\ provisioned' = FALSE
    /\ selected' = FALSE
    /\ verified' = FALSE
    /\ shown' = Unset
    /\ guessed' = g
    /\ recorded' = g
    /\ replaced' = replaced

NewFloor(w, ref, s) ==
    IF w.end = "ok" THEN s.retries ELSE Lower(floor[ref], s.retries)

(* persist_pin and finish_mutation: the command left slot s in RAM, v in   *)
(* pin_verified, and g and sh in the histories.                            *)
Persist(w, ref, s, v, g, sh) ==
    LET st == IF w.landed THEN [stored EXCEPT ![ref] = s] ELSE stored
        rec == IF w.landed THEN [recorded EXCEPT ![ref] = g[ref]] ELSE recorded
    IN  IF w.end = "crash"
        THEN Restart(st, rec)
        ELSE /\ stored' = st
             /\ slots' = [slots EXCEPT ![ref] = s]
             /\ floor' = [floor EXCEPT ![ref] = NewFloor(w, ref, s)]
             /\ verified' = v
             /\ guessed' = g
             /\ recorded' = rec
             /\ shown' = sh
             /\ UNCHANGED <<provisioned, selected, replaced>>

PowerCycle == Restart(stored, recorded)

(***************************************************************************)
(* SELECT: provision once per power session, then load both records.       *)
(***************************************************************************)

(* Faulty: the reload trusts the record. *)
ReloadUnclamped(ref, st) == st[ref]

Clamped(ref, st) ==
    [st[ref] EXCEPT !.retries = Lower(@, floor[ref])]

(* The records after provision when the reads of missing found nothing and *)
(* the writes of written landed: every reference read as missing is        *)
(* written with its default; the results of the writes are not looked at.  *)
Provisioned(written) ==
    [ref \in Ref |-> IF ref \in written THEN Full(DefaultCode) ELSE stored[ref]]

Unreadable(st) == {ref \in Ref : st[ref] = Absent}

(* A default written where no record was is a value newly installed. *)
AfterProvision(written, g) ==
    [ref \in Ref |->
        IF ref \in written /\ stored[ref] = Absent
        THEN [g[ref] EXCEPT ![DefaultCode] = 0]
        ELSE g[ref]]

(* missing: what provision found no record for.  unread: what load_state   *)
(* could not read.  A read that fails is taken for a missing record by     *)
(* both.  load_state stops at the first record it cannot read, and leaves  *)
(* the slots from there on as they were.                                   *)
Select(missing, written, unread) ==
    LET st == Provisioned(written)
        loads == IF "pin" \in unread THEN {} ELSE Ref \ unread
    IN  /\ IF provisioned THEN missing = {} ELSE Unreadable(stored) \subseteq missing
        /\ written \subseteq missing
        /\ Unreadable(st) \subseteq unread
        /\ stored' = st
        /\ slots' = [ref \in Ref |-> IF ref \in loads THEN Clamped(ref, st) ELSE slots[ref]]
        /\ provisioned' = TRUE
        /\ selected' = TRUE
        /\ verified' = FALSE
        /\ shown' = Unset
        /\ guessed' = AfterProvision(written, guessed)
        /\ recorded' = AfterProvision(written, recorded)
        /\ replaced' = (replaced \/ ~(written \subseteq Unreadable(stored)))
        /\ UNCHANGED floor

(* Another applet is selected, or the card is powered off or aborted.      *)
Deselect ==
    /\ selected
    /\ selected' = FALSE
    /\ UNCHANGED <<slots, stored, floor, provisioned, verified, guessed, recorded, replaced, shown>>

(***************************************************************************)
(* Commands.                                                               *)
(***************************************************************************)

Right(ref, c) == slots[ref].retries > 0 /\ slots[ref].hash = c

(* Faulty: the wrong presentation is not subtracted. *)
NotCharged(ref) == slots[ref]

Charged(ref) == [slots[ref] EXCEPT !.retries = @ - 1]

OneMore(ref) ==
    [guessed EXCEPT ![ref][slots[ref].hash] = IF @ < MaxAttempts THEN @ + 1 ELSE @]

(* PinSlot::verify of a wrong value, by any of the three commands. *)
WrongCode(w, ref, c, v) ==
    /\ slots[ref].hash # Unset
    /\ slots[ref].retries > 0
    /\ slots[ref].hash # c
    /\ Persist(w, ref, Charged(ref), v, OneMore(ref), shown)

VerifyWrong(w, ref, c) ==
    /\ selected
    /\ WrongCode(w, ref, c, verified /\ ref # "pin")

(* Success and a refusal of an unset or blocked slot save nothing. *)
VerifyUnsaved(ref, c) ==
    /\ selected
    /\ Right(ref, c) \/ slots[ref].hash = Unset \/ slots[ref].retries = 0
    /\ verified' = IF ref = "pin" THEN Right(ref, c) ELSE verified
    /\ shown' = IF ref = "pin" /\ Right(ref, c) THEN c ELSE shown
    /\ UNCHANGED <<slots, stored, floor, provisioned, selected, guessed, recorded, replaced>>

Installed(ref, c) == [guessed EXCEPT ![ref][c] = 0]

ChangeReferenceData(w, ref, c, d) ==
    /\ selected
    /\ \/ WrongCode(w, ref, c, verified)
       \/ /\ Right(ref, c)
          /\ Persist(w, ref, Full(d), verified \/ ref = "pin", Installed(ref, d),
                     IF ref = "pin" THEN d ELSE shown)

(* Faulty: the unblock leaves the session verified. *)
UnblockKeepsSession(w, c, d) ==
    /\ selected
    /\ \/ WrongCode(w, "puk", c, verified)
       \/ /\ Right("puk", c)
          /\ Persist(w, "pin", Full(d), verified, Installed("pin", d), shown)

ResetRetryCounter(w, c, d) ==
    /\ selected
    /\ \/ WrongCode(w, "puk", c, verified)
       \/ /\ Right("puk", c)
          /\ Persist(w, "pin", Full(d), FALSE, Installed("pin", d), shown)

PivPinCommand(w) ==
    \/ \E ref \in Ref, c \in Code : VerifyWrong(w, ref, c)
    \/ \E ref \in Ref, c, d \in Code : ChangeReferenceData(w, ref, c, d)
    \/ \E c, d \in Code : ResetRetryCounter(w, c, d)

PivPinNext ==
    \/ \E w \in Write : PivPinCommand(w)
    \/ \E ref \in Ref, c \in Code : VerifyUnsaved(ref, c)
    \/ \E missing, written, unread \in SUBSET Ref : Select(missing, written, unread)
    \/ Deselect
    \/ PowerCycle

PivPinSpec == PivPinInit /\ [][PivPinNext]_pivPinVars

-----------------------------------------------------------------------------
(* Every variable has its type.  A retry counter below zero would be the   *)
(* u8 underflow of PinSlot::verify, and is excluded by its guard.          *)
PivPinTypeOK ==
    /\ slots \in [Ref -> Slot]
    /\ stored \in [Ref -> Slot \cup {Absent}]
    /\ floor \in [Ref -> 0 .. MaxAttempts]
    /\ provisioned \in BOOLEAN /\ selected \in BOOLEAN /\ verified \in BOOLEAN
    /\ guessed \in [Ref -> [Code -> 0 .. MaxAttempts]]
    /\ recorded \in [Ref -> [Code -> 0 .. MaxAttempts]]
    /\ replaced \in BOOLEAN
    /\ shown \in Code \cup {Unset}

WithinBudget(slot, guesses) ==
    slot.hash # Unset => slot.retries + guesses[slot.hash] <= MaxAttempts

(* piv.rs, pin_floor: "a reload can never restore a more permissive        *)
(* counter than the one already lost".  However saves and reads fail, and  *)
(* however often the applet is reselected, the wrong presentations made    *)
(* against a value and the tries it has left never exceed the budget, in   *)
(* RAM and in the record, over power cycles (docs/security-model.md, "PIN  *)
(* state is persistent"); unless provision wrote a default over a record   *)
(* that was there and could not be read.                                   *)
GuessesAreBounded ==
    ~replaced =>
        \A ref \in Ref :
            /\ WithinBudget(slots[ref], guessed[ref])
            /\ stored[ref] # Absent => WithinBudget(stored[ref], recorded[ref])

(* What makes GuessesAreBounded inductive: even where a failed save left   *)
(* the record behind, the record clamped to the floor, which is what the   *)
(* next SELECT loads, is within the budget of all the guesses made.        *)
FloorCovers ==
    ~replaced =>
        \A ref \in Ref :
            stored[ref] # Absent /\ stored[ref].hash # Unset =>
                Lower(stored[ref].retries, floor[ref])
                    + guessed[ref][stored[ref].hash] <= MaxAttempts

IInv == PivPinTypeOK /\ GuessesAreBounded /\ FloorCovers

(* While the session counts as PIN-verified, the holder has shown the very *)
(* PIN that is in the slot, also after a change or an unblock replaced it. *)
VerifiedShowsCurrentPin ==
    verified => shown = slots["pin"].hash /\ shown # Unset
=============================================================================

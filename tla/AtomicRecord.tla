---------------------------- MODULE AtomicRecord ----------------------------
(***************************************************************************)
(* What the two-slot store of aegis-core/src/storage.rs promises its       *)
(* clients (ConfigStorage, SecretStorage, the sealed stores): one durable  *)
(* record that a store replaces in a single step, whatever is interrupted. *)
(* SlotStore implements this specification.                                *)
(***************************************************************************)
CONSTANTS
    Payload,    \* what a record can hold
    Blank,      \* what a region holds before its first record
    Fault       \* what a load returns when the flash cannot be read

VARIABLES
    value,      \* the durable record, or Blank
    pending,    \* the record being stored, or Blank when none is
    answer,     \* the outcome of the last store
    loaded      \* the result of the last load

vars == <<value, pending, answer, loaded>>

Init ==
    /\ value \in Payload \cup {Blank}
    /\ pending = Blank
    /\ answer = "none"
    /\ loaded = Blank

(* A store is accepted ... *)
Begin(p) ==
    /\ pending = Blank
    /\ pending' = p
    /\ answer' = "busy"
    /\ UNCHANGED <<value, loaded>>

(* ... and either lands, *)
Land ==
    /\ pending # Blank
    /\ value' = pending
    /\ pending' = Blank
    /\ answer' = "ok"
    /\ UNCHANGED loaded

(* is refused before it begins, *)
Refuse ==
    /\ pending = Blank
    /\ answer' = "error"
    /\ UNCHANGED <<value, pending, loaded>>

(* or fails: the caller then holds either record, and nothing else. *)
Fail ==
    /\ pending # Blank
    /\ value' \in {value, pending}
    /\ pending' = Blank
    /\ answer' = "error"
    /\ UNCHANGED loaded

(* A load returns the durable record or reports that it could not. *)
Load ==
    /\ pending = Blank
    /\ loaded' \in {value, Fault}
    /\ UNCHANGED <<value, pending, answer>>

(* Power is lost, in the middle of a store or not. *)
PowerLoss ==
    /\ value' \in {value} \cup ({pending} \ {Blank})
    /\ pending' = Blank
    /\ answer' = "none"
    /\ loaded' = Blank

Next ==
    \/ \E p \in Payload : Begin(p)
    \/ Land
    \/ Refuse
    \/ Fail
    \/ Load
    \/ PowerLoss

Spec == Init /\ [][Next]_vars
=============================================================================

----------------------------- MODULE MCOpenPgp ------------------------------
(***************************************************************************)
(* OpenPgp with two code values, a signature and a decryption slot.  As in *)
(* MCPiv, behaviours either use the PIN commands, one of the PINs keeping  *)
(* its default value and a try, or manage and use keys, with both PINs     *)
(* untouched and one of the two keys left at its first algorithm.          *)
(***************************************************************************)
EXTENDS OpenPgp

CONSTANTS a, b

MCCode == {a, b}
MCKeySlot == {"sig", "dec"}

KeepsDefaultValue(ref) ==
    /\ ram.pw[ref].hash \in {Unset, DefaultCode}
    /\ stored # Absent => stored.pw[ref].hash = DefaultCode
    /\ \A c \in Code \ {DefaultCode} : guessed[ref][c] = 0 /\ recorded[ref][c] = 0
    /\ ram.pw[ref].retries > 0

KeepsDefaultSlot(ref) ==
    /\ ram.pw[ref] \in {Full(Unset), Full(DefaultCode)}
    /\ stored # Absent => stored.pw[ref] = Full(DefaultCode)
    /\ floor[ref] = MaxAttempts
    /\ guessed[ref] = NoGuesses

OnlyPinCommands ==
    /\ ram.keys = Blank.keys
    /\ made = 0
    /\ sessions \subseteq {"admin"}
    /\ \E ref \in Ref : KeepsDefaultValue(ref)

(* Of the algorithm of the signature key, only decode_state takes notice. *)
OneAlgorithmVaries ==
    ram.keys["dec"] = NoKey \/ ram.keys["sig"].algo \in {"unset", "p256"}

OnlyKeyCommands ==
    /\ OneAlgorithmVaries
    /\ sessions \subseteq {"admin", "sign"} \/ sessions = {"other"}
    /\ \A ref \in Ref : KeepsDefaultSlot(ref)

Families == ~replaced /\ (OnlyPinCommands \/ OnlyKeyCommands)
=============================================================================

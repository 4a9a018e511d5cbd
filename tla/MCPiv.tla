------------------------------- MODULE MCPiv --------------------------------
(***************************************************************************)
(* The PIV applet with two code values, two key slots and the policies     *)
(* that interact.  PIN and PUK records evolve independently of the key     *)
(* records, so the run explores two families of behaviours: those in which *)
(* the host only uses the PIN commands, the PIN or the PUK keeping its     *)
(* default value, and those in which it manages and uses keys with PIN and *)
(* PUK untouched.                                                          *)
(***************************************************************************)
EXTENDS PivSign, TLC

CONSTANTS a, b, k1, k2

MCCode == {a, b}
MCKeySlot == {k1, k2}
Symmetry == Permutations(MCKeySlot)
MCPolicies ==
    {[pin |-> "always", touch |-> "cached"], [pin |-> "never", touch |-> "always"],
     [pin |-> "always", touch |-> "never"]}
MCMgmtKey == {"m0", "m1"}

KeepsDefaultValue(ref) ==
    /\ slots[ref].hash \in {Unset, DefaultCode}
    /\ stored[ref] # Absent => stored[ref].hash = DefaultCode
    /\ \A c \in Code \ {DefaultCode} : guessed[ref][c] = 0 /\ recorded[ref][c] = 0

OnlyPinCommands ==
    /\ \E ref \in Ref : KeepsDefaultValue(ref)
    /\ \A k \in KeySlot : keys[k] = NoKey
    /\ mgmtStored = Absent
    /\ ~mgmtAuth
    /\ witness = NoWitness

OnlyDefaultCodes ==
    \A ref \in Ref :
        /\ slots[ref] \in {Full(Unset), Full(DefaultCode)}
        /\ stored[ref] \in {Absent, Full(DefaultCode)}
        /\ floor[ref] = MaxAttempts
        /\ \A c \in Code : guessed[ref][c] = 0

Families == ~replaced /\ (OnlyPinCommands \/ OnlyDefaultCodes)
=============================================================================

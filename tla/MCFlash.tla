------------------------------ MODULE MCFlash -------------------------------
(***************************************************************************)
(* The two ways the firmware seals state into flash, side by side: the     *)
(* credential database (CredentialFlash) and an applet's sharded region    *)
(* (SealedBlob, with the two shards of the OATH store).  They share no     *)
(* state, so a behaviour exercises the one or the other.                   *)
(***************************************************************************)
EXTENDS CredentialFlash, SealedBlob, TLC

CONSTANTS a, b, c

MCContent == {a, b, c}
Symmetry == Permutations(MCContent \ {Empty})

FlashInit == Init /\ RegionInit
FlashNext ==
    \/ Next /\ UNCHANGED regionVars
    \/ RegionNext /\ UNCHANGED vars
FlashSpec == FlashInit /\ [][FlashNext]_<<vars, regionVars>>

OneOfThem == Init \/ RegionInit
=============================================================================

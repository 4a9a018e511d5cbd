--------------------------- MODULE MCFidoSession ----------------------------
(***************************************************************************)
(* The FIDO session with two PINs, two relying parties and two             *)
(* credentials, in two families of behaviours: before there is a           *)
(* credential both PINs and the whole retry budget are used; with          *)
(* credentials there is one PIN and no wrong guess.  A device with one     *)
(* credential signs with it MaxCount times; once there is a second one,    *)
(* each of them signs once.  U2F signs without a stored counter on a       *)
(* device with one credential.                                             *)
(***************************************************************************)
EXTENDS FidoManagement, TLC

CONSTANTS p, q, r, s, ch1, ch2

MCPin == {p, q}
MCRp == {r, s}
MCChannel == {ch1, ch2}
Symmetry == Permutations(MCRp) \cup Permutations(MCChannel)
MCGrants == {{"mc", "ga", "cm"}}
PinFamily == created = 0
CredentialFamily ==
    /\ {pinState, pinFlash} \subseteq {Fresh(NoPin), Fresh(p)}
    /\ \A x \in Pin : guesses[x] = 0
    /\ token # NoToken => token.pin = p
    /\ created = MaxCreated => \A c \in {cache, cacheFlash} :
                                  \A i \in DOMAIN c : c[i].count <= 1
EnumerationFamily ==
    enumeration # NoEnumeration =>
        /\ assertion = Nothing /\ ~faulted
        /\ \A i \in DOMAIN cache : cache[i].count = 0
UncountedFamily == repeated # {} => created = 1
Families == (PinFamily \/ CredentialFamily) /\ EnumerationFamily /\ UncountedFamily
=============================================================================

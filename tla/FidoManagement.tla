--------------------------- MODULE FidoManagement ---------------------------
(***************************************************************************)
(* The enumeration subcommands of authenticatorCredentialManagement        *)
(* (handle_credential_management in the firmware), composed with the FIDO  *)
(* session: a Begin subcommand takes a snapshot, the GetNext subcommands   *)
(* walk it, and any other request may come in between.                     *)
(***************************************************************************)
EXTENDS FidoSession

VARIABLE enumeration    \* EnumerationState

managementVars == <<vars, enumeration>>

NoEnumeration == [rps |-> <<>>, rpNext |-> 1, creds |-> <<>>, credNext |-> 1]

ManagementInit == Init /\ enumeration = NoEnumeration

ListedRps == [i \in DOMAIN cache |-> cache[i].rp]

(* Faulty: a relying party is listed once for each of its credentials. *)
RpOfEach == Pushed(ListedRps, {i \in DOMAIN cache : cache[i].rk})

(* list_rps: each relying party once, in the order of the credentials. *)
RpLists ==
    Pushed(ListedRps, {i \in DOMAIN cache :
                          /\ cache[i].rk
                          /\ \A j \in 1 .. (i - 1) : cache[j].rk => cache[j].rp # cache[i].rp})

(* list_credentials: the discoverable credentials of a relying party. *)
CredentialLists(rp) == Candidates(rp, <<>>)

(* One response of an enumeration. *)
Enumerate(en) == enumeration' = en /\ UNCHANGED vars

EnumerateRps ==
    /\ Manages
    /\ token.rp = NoRp
    /\ \E rps \in RpLists \ {<<>>} :
          Enumerate([enumeration EXCEPT !.rps = rps, !.rpNext = 2])

EnumerateRpsNext ==
    /\ enumeration.rpNext <= Len(enumeration.rps)
    /\ Enumerate([enumeration EXCEPT !.rpNext = @ + 1])

EnumerateCredentials(rp) ==
    /\ Manages
    /\ token.rp \in {NoRp, rp}
    /\ \E creds \in CredentialLists(rp) \ {<<>>} :
          Enumerate([enumeration EXCEPT !.creds = creds, !.credNext = 2])

(* A credential deleted in the meantime is answered with NoCredentials;    *)
(* the position advances all the same.                                     *)
EnumerateCredentialsNext ==
    /\ enumeration.credNext <= Len(enumeration.creds)
    /\ Enumerate([enumeration EXCEPT !.credNext = @ + 1])

ManagementNext ==
    \/ EnumerateRps
    \/ EnumerateRpsNext
    \/ \E rp \in Rp : EnumerateCredentials(rp)
    \/ EnumerateCredentialsNext
    \/ /\ Reading \/ \E f \in Flush : f.end # "crash" /\ Writing(f)
       /\ UNCHANGED enumeration
    \/ /\ PowerLoss \/ \E f \in Flush : f.end = "crash" /\ Writing(f)
       /\ enumeration' = NoEnumeration

ManagementSpec == ManagementInit /\ [][ManagementNext]_managementVars

-----------------------------------------------------------------------------
(***************************************************************************)
(* Properties.                                                             *)
(***************************************************************************)

(* An enumeration tells each relying party and each credential once, and   *)
(* the credentials it still has are of one relying party, although those   *)
(* it listed may be deleted, and others take their place in the store,     *)
(* between two of its requests (list_rps, list_credentials, swap_remove).  *)
EnumeratesOnce ==
    /\ IsInjective(enumeration.rps) /\ IsInjective(enumeration.creds)
    /\ \A id, other \in Range(enumeration.creds) \cap Ids(cache) :
          Get(cache, id).rp = Get(cache, other).rp
=============================================================================

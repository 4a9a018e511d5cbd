---------------------------- MODULE FidoSession -----------------------------
(***************************************************************************)
(* The FIDO authenticator: the CTAP2 handlers of aegis-core/src/           *)
(* authenticator.rs and the firmware's handle_ctap2, U2F_AUTHENTICATE,     *)
(* and the credential database of credential_store.rs, composed with       *)
(* ClientPin.  One flush writes credentials and PIN state together, so     *)
(* every action that flushes is a ClientPin action with the same flush     *)
(* outcome.                                                                *)
(*                                                                         *)
(* The FIDO task serves one request at a time and only it uses the store,  *)
(* so a handler is one step, except that power can be lost at each flush   *)
(* in it.  User presence is an input; an operation that ends before it     *)
(* touches the store, without a token, is a stuttering step.               *)
(***************************************************************************)
EXTENDS ClientPin, Sequences, Functions

CONSTANTS
    Channel,        \* CTAPHID channels
    Grants,         \* the permission sets platforms ask for
    Nothing,        \* no pending assertion
    MaxCredentials, \* MAX_CREDENTIALS
    MaxAllow,       \* capacity of an allow list
    MaxCreated,     \* bound: credentials created in a behaviour
    MaxCount        \* bound: signature counter of a credential (u32)

ASSUME SessionAssumption ==
    /\ Grants \subseteq SUBSET Permission
    /\ MaxCredentials \in Nat \ {0}
    /\ MaxAllow \in Nat
    /\ MaxCreated \in Nat
    /\ MaxCount \in Nat

VARIABLES
    cache,          \* the credentials in RAM, in list() order
    cacheFlash,     \* the credentials a power-up would read
    assertion,      \* PendingAssertion, or Nothing
    created,        \* credential ids drawn so far (random in the code)
    high,           \* history: the highest signature counter released
    repeated,       \* history: the ones released that were not above it
    sinceUp,        \* history: credentials signed for the pending assertion
    acked,          \* history: credentials whose creation was answered Ok
    gone            \* history: credentials whose removal was answered Ok

sessionVars == <<assertion, sinceUp, created, high, repeated, acked, gone>>
vars == <<pinVars, cache, cacheFlash, sessionVars>>

Id == 1 .. MaxCreated
Credential == [id : Id, rp : Rp, rk : BOOLEAN, count : 0 .. MaxCount]

Ids(c) == {c[i].id : i \in DOMAIN c}
Position(c, id) == CHOOSE i \in DOMAIN c : c[i].id = id
Get(c, id) == c[Position(c, id)]

Init ==
    /\ PinInit
    /\ cache = <<>>
    /\ cacheFlash = <<>>
    /\ assertion = Nothing
    /\ created = 0
    /\ high = [id \in Id |-> 0]
    /\ repeated = {}
    /\ sinceUp = {}
    /\ acked = {}
    /\ gone = {}

(***************************************************************************)
(* The database.                                                           *)
(***************************************************************************)

(* flush, for the credentials c: as AfterFlush does for the PIN state. *)
CacheFlush(f, c) ==
    /\ cacheFlash' = IF f.landed THEN c ELSE cacheFlash
    /\ cache' = IF f.end = "crash" THEN cacheFlash' ELSE c

(* next_sign_count, before the flush. *)
Counted(c, id) == [c EXCEPT ![Position(c, id)].count = @ + 1]

(* swap_remove: the last credential takes the place of the removed one. *)
Removed(c, id) ==
    SubSeq([c EXCEPT ![Position(c, id)] = c[Len(c)]], 1, Len(c) - 1)

(* The pending assertion a handler leaves, with the credentials that       *)
(* signed for it: lost with the power.                                     *)
Session(f, asn, signers) ==
    /\ assertion' = IF f.end = "crash" THEN Nothing ELSE asn
    /\ sinceUp' = IF f.end = "crash" THEN {} ELSE signers

(***************************************************************************)
(* clientPIN requests.                                                     *)
(***************************************************************************)
PinRequest(f) ==
    /\ \/ \E p \in Pin : SetPin(p, f) \/ ChangePin(p, f)
       \/ WrongPin(f)
       \/ WrongCurrentPin(f)
       \/ \E perms \in Grants, rp \in Rp \cup {NoRp} : GetPinToken(perms, rp, f)
    /\ CacheFlush(f, cache)
    /\ Session(f, assertion, sinceUp)
    /\ UNCHANGED <<created, high, repeated, acked, gone>>

KeyAgreement ==
    /\ GetKeyAgreement
    /\ UNCHANGED <<cache, cacheFlash, sessionVars>>

(***************************************************************************)
(* makeCredential and getAssertion.                                        *)
(***************************************************************************)

(* authorize: without a pinUvAuthParam only when no PIN is set. *)
Authorized(perm, rp, withToken) ==
    IF withToken THEN TokenAuthorizes(perm, rp) ELSE pinState.hash = NoPin

FlushAuthorized(perm, rp, withToken, f) ==
    IF withToken THEN TokenOperation(perm, rp, f) ELSE OtherFlush(f)

(* No user presence, an excluded credential, a full store or no match. *)
Refused ==
    /\ \E perm \in {"mc", "ga"}, rp \in Rp : TokenOperationRefused(perm, rp)
    /\ UNCHANGED <<cache, cacheFlash, sessionVars>>

(* Faulty: a credential that could not be stored is answered with Ok. *)
MakeUnstored(rp, rk, withToken, f) ==
    LET id == created + 1
    IN  /\ Authorized("mc", rp, withToken)
        /\ Len(cache) < MaxCredentials
        /\ created < MaxCreated
        /\ CacheFlush(f, Append(cache, [id |-> id, rp |-> rp, rk |-> rk, count |-> 0]))
        /\ FlushAuthorized("mc", rp, withToken, f)
        /\ Session(f, assertion, sinceUp)
        /\ created' = id
        /\ acked' = IF f.end # "crash" THEN acked \cup {id} ELSE acked
        /\ UNCHANGED <<high, repeated, gone>>

(* make_credential: LimitExceeded when the store is full or the flush     *)
(* fails, with the new credential left in RAM in the second case.          *)
MakeCredential(rp, rk, withToken, f) ==
    LET id == created + 1
    IN  /\ Authorized("mc", rp, withToken)
        /\ Len(cache) < MaxCredentials
        /\ created < MaxCreated
        /\ CacheFlush(f, Append(cache, [id |-> id, rp |-> rp, rk |-> rk, count |-> 0]))
        /\ FlushAuthorized("mc", rp, withToken, f)
        /\ Session(f, assertion, sinceUp)
        /\ created' = id
        /\ acked' = IF f.end = "ok" THEN acked \cup {id} ELSE acked
        /\ UNCHANGED <<high, repeated, gone>>

Owned(rp, id) == id \in Ids(cache) /\ Get(cache, id).rp = rp

Discoverable(rp) == {i \in DOMAIN cache : cache[i].rk /\ cache[i].rp = rp}

ListedIds == [i \in DOMAIN cache |-> cache[i].id]

(* A list built by pushing the entries of s at the positions P in their    *)
(* order, as the set of this one list.                                     *)
Pushed(s, P) ==
    LET orders == {o \in UNION {[1 .. n -> P] : n \in 0 .. Len(s)} :
                      /\ Range(o) = P
                      /\ \A i, j \in DOMAIN o : i < j => o[i] < o[j]}
    IN  {[k \in DOMAIN o |-> s[o[k]]] : o \in orders}

(* Faulty: a credential listed twice is a candidate twice. *)
CandidatesWithRepeats(rp, allow) ==
    IF allow = <<>>
    THEN Pushed(ListedIds, Discoverable(rp))
    ELSE Pushed(allow, {k \in DOMAIN allow : Owned(rp, allow[k])})

(* assertion_candidates: the discoverable credentials of the relying       *)
(* party, or the allow list without repetitions.                           *)
Candidates(rp, allow) ==
    IF allow = <<>>
    THEN Pushed(ListedIds, Discoverable(rp))
    ELSE Pushed(allow, {k \in DOMAIN allow : /\ Owned(rp, allow[k])
                                             /\ \A j \in 1 .. (k - 1) : allow[j] # allow[k]})

AllowLists == UNION {[1 .. n -> 1 .. created] : n \in 0 .. MaxAllow}

CandidateLists(rp) == (UNION {Candidates(rp, allow) : allow \in AllowLists}) \ {<<>>}

(* A counter is released with a signature. *)
Release(id, counter) ==
    /\ high' = [high EXCEPT ![id] = IF counter > @ THEN counter ELSE @]
    /\ repeated' = IF counter > high[id] THEN repeated ELSE repeated \cup {counter}

(* next_sign_count: the counter is stored before it is signed. *)
StoreCount(id, f) ==
    /\ Get(cache, id).count < MaxCount
    /\ CacheFlush(f, Counted(cache, id))

(* Faulty: the counter is released although it could not be stored. *)
SignUnstored(id, f) ==
    /\ StoreCount(id, f)
    /\ IF f.end = "crash"
       THEN UNCHANGED <<high, repeated>>
       ELSE Release(id, Get(cache, id).count + 1)

(* sign_assertion answers InvalidCredential if it cannot be stored. *)
SignCounted(id, f) ==
    /\ StoreCount(id, f)
    /\ IF f.end = "ok"
       THEN Release(id, Get(cache, id).count + 1)
       ELSE UNCHANGED <<high, repeated>>

(* PendingAssertion::begin *)
Pending(ch, candidates) == [channel |-> ch, creds |-> candidates, next |-> 2]

GetAssertion(rp, ch, candidates, withToken, f) ==
    /\ Authorized("ga", rp, withToken)
    /\ SignCounted(candidates[1], f)
    /\ FlushAuthorized("ga", rp, withToken, f)
    /\ IF f.end = "ok"
       THEN Session(f, Pending(ch, candidates), {candidates[1]})
       ELSE Session(f, assertion, sinceUp)
    /\ UNCHANGED <<created, acked, gone>>

Advanced == [assertion EXCEPT !.next = @ + 1]

MayContinue(ch) ==
    /\ assertion # Nothing
    /\ assertion.channel = ch
    /\ assertion.next <= Len(assertion.creds)

(* The position advances before the credential is looked up. *)
GetNextAssertion(ch, f) ==
    LET id == assertion.creds[assertion.next]
    IN  /\ MayContinue(ch)
        /\ id \in Ids(cache)
        /\ SignCounted(id, f)
        /\ OtherFlush(f)
        /\ Session(f, Advanced, IF f.end = "ok" THEN sinceUp \cup {id} ELSE sinceUp)
        /\ UNCHANGED <<created, acked, gone>>

(* The credential was deleted in the meantime: InvalidCredential. *)
GetNextDeleted(ch) ==
    /\ MayContinue(ch)
    /\ assertion.creds[assertion.next] \notin Ids(cache)
    /\ assertion' = Advanced
    /\ UNCHANGED <<pinVars, cache, cacheFlash, sinceUp, created, high, repeated, acked, gone>>

(***************************************************************************)
(* U2F_AUTHENTICATE with user presence shares the counter.  When it cannot *)
(* be stored the signature is answered all the same, with 0 for a counter. *)
(***************************************************************************)
U2fAuthenticate(id, f) ==
    /\ id \in Ids(cache)
    /\ StoreCount(id, f)
    /\ CASE f.end = "ok" -> Release(id, Get(cache, id).count + 1)
         [] f.end = "error" -> Release(id, 0)
         [] f.end = "crash" -> UNCHANGED <<high, repeated>>
    /\ OtherFlush(f)
    /\ Session(f, assertion, sinceUp)
    /\ UNCHANGED <<created, acked, gone>>

(***************************************************************************)
(* Credential management.                                                  *)
(***************************************************************************)
Manages == token # NoToken /\ "cm" \in token.perms

(* delete_credential_scoped *)
DeleteCredential(id, f) ==
    /\ Manages
    /\ id \in Ids(cache)
    /\ token.rp \in {NoRp, Get(cache, id).rp}
    /\ CacheFlush(f, Removed(cache, id))
    /\ OtherFlush(f)
    /\ Session(f, assertion, sinceUp)
    /\ gone' = IF f.end = "ok" THEN gone \cup {id} ELSE gone
    /\ acked' = acked \ {id}
    /\ UNCHANGED <<created, high, repeated>>

(***************************************************************************)
(* authenticatorReset with user presence, and power loss.                  *)
(***************************************************************************)

(* Faulty: clear() keeps the credentials it could not erase. *)
ResetKeepsUnerased(f, g) ==
    /\ PinReset(f, g)
    /\ cacheFlash' = IF f.landed THEN <<>> ELSE cacheFlash
    /\ cache' = IF "crash" \in {f.end, g.end} THEN cacheFlash' ELSE <<>>
    /\ Session(g, assertion, sinceUp)
    /\ gone' = IF g.end = "ok" THEN 1 .. created ELSE gone
    /\ acked' = {}
    /\ UNCHANGED <<created, high, repeated>>

Reset(f, g) ==
    /\ PinReset(f, g)
    /\ cacheFlash' = IF f.landed \/ (f.end # "crash" /\ g.landed) THEN <<>> ELSE cacheFlash
    /\ cache' = IF "crash" \in {f.end, g.end} THEN cacheFlash' ELSE <<>>
    /\ Session(g, assertion, sinceUp)
    /\ gone' = IF g.end = "ok" THEN 1 .. created ELSE gone
    /\ acked' = {}
    /\ UNCHANGED <<created, high, repeated>>

PowerLoss ==
    /\ PinPowerLoss
    /\ cache' = cacheFlash
    /\ assertion' = Nothing
    /\ sinceUp' = {}
    /\ UNCHANGED <<cacheFlash, created, high, repeated, acked, gone>>

(* The requests that write the database, their last flush ending as f ... *)
Writing(f) ==
    \/ PinRequest(f)
    \/ \E rp \in Rp, rk, withToken \in BOOLEAN : MakeCredential(rp, rk, withToken, f)
    \/ \E rp \in Rp : \E candidates \in CandidateLists(rp) :
          \E ch \in Channel, withToken \in BOOLEAN :
             GetAssertion(rp, ch, candidates, withToken, f)
    \/ \E ch \in Channel : GetNextAssertion(ch, f)
    \/ \E id \in 1 .. created : U2fAuthenticate(id, f) \/ DeleteCredential(id, f)
    \/ \E e \in Flush : Reset(e, f)

(* ... and those that only change the session. *)
Reading ==
    \/ KeyAgreement
    \/ Refused
    \/ \E ch \in Channel : GetNextDeleted(ch)

Next ==
    \/ \E f \in Flush : Writing(f)
    \/ Reading
    \/ PowerLoss

Spec == Init /\ [][Next]_vars

-----------------------------------------------------------------------------
(***************************************************************************)
(* Properties.                                                             *)
(***************************************************************************)

Distinct(c) == \A i, j \in DOMAIN c : c[i].id = c[j].id => i = j

(* Credential lists hold credentials with distinct ids and fit the store;  *)
(* a pending assertion continues inside or just past its list.             *)
TypeOK ==
    /\ \A c \in {cache, cacheFlash} :
          /\ c \in Seq(Credential)
          /\ Len(c) <= MaxCredentials
          /\ Distinct(c)
    /\ assertion # Nothing => assertion.next \in 2 .. (Len(assertion.creds) + 1)

(* A credential whose creation was answered is in RAM and in flash until   *)
(* its removal or a reset is attempted, whatever other operations fail.    *)
CreatedIsDurable == acked \subseteq (Ids(cache) \cap Ids(cacheFlash))

(* A credential whose removal (deleteCredential or reset) was answered Ok  *)
(* never comes back, not even from flash after a power loss and not even   *)
(* though reset ignores a failure of its first flush.                      *)
RemovedStaysRemoved == gone \cap (Ids(cache) \cup Ids(cacheFlash)) = {}

(* The counters a credential signs with increase, over CTAP2 and U2F and   *)
(* across failed flushes and power losses, except for the 0 of a U2F       *)
(* signature whose counter could not be stored, which may come after any   *)
(* other and again: every other counter is stored before the signature     *)
(* that carries it is answered (sign_assertion, authenticate).             *)
CountersIncrease == repeated \subseteq {0}

(* What a session does to the PIN state is a behaviour of ClientPin: what  *)
(* is proved of that protocol for every set of PINs holds of the composed  *)
(* authenticator.                                                          *)
ImplementsClientPin == PinSpec

(* One confirmation of user presence yields at most one signature by each  *)
(* credential: those a getNextAssertion can still reach have not signed.   *)
OneSignaturePerPresence ==
    assertion # Nothing =>
        \A i \in assertion.next .. Len(assertion.creds) : assertion.creds[i] \notin sinceUp
(* What is left of an assertion is of a sound database and has not signed  *)
(* for this presence (assertion.rs, credential_store.rs).                  *)
AssertionInv == TypeOK /\ OneSignaturePerPresence
=============================================================================

-------------------------------- MODULE Oath --------------------------------
(***************************************************************************)
(* The OATH applet (aegis-applets/src/oath.rs): named HOTP and TOTP        *)
(* credentials, an access code, and touch-protected calculations.          *)
(*                                                                         *)
(* The whole state is one blob, saved by every mutating command and read   *)
(* again by every SELECT.  A save that fails is answered 6A84 and is not   *)
(* rolled back in RAM; a read that fails closes the applet until the next  *)
(* SELECT.  Empty RAM is the permissive side: without an access code every *)
(* command is free.                                                        *)
(*                                                                         *)
(* An access key is a model value; VALIDATE and SET CODE succeed for a     *)
(* host that can compute the HMAC under the key, which is an input.  The   *)
(* commands are not serialised against a parked touch: the applet keeps    *)
(* its invariants without the card front end.                              *)
(***************************************************************************)
EXTENDS Integers, Sequences, Functions

CONSTANTS
    Name,            \* credential names
    AccessKey,       \* access keys
    NoAccessKey,     \* no access code is set
    NoPending,       \* no touch request is armed
    MaxCredentials,  \* MAX_CREDENTIALS
    MaxPuts,         \* bound on the credentials ever put
    MaxCounter       \* bound on a HOTP counter

ASSUME OathAssumption ==
    /\ NoAccessKey \notin AccessKey
    /\ MaxCredentials \in Nat \ {0}
    /\ MaxPuts \in Nat
    /\ MaxCounter \in Nat

VARIABLES
    credentials,    \* the credentials in RAM, in vector order
    authKey,        \* auth_key in RAM
    blob,           \* what a read of the store finds
    mode,           \* "off" before SELECT, "open", or "closed" by a failed read
    authenticated,  \* the access code was proved
    pending,        \* index of the armed touch request
    puts,           \* history: credentials ever put, each gets its number
    asked,          \* history: number of the credential pending was armed for
    used,           \* history: one more than the last counter answered
    proved,         \* history: the access keys the host proved since SELECT
    kept            \* history: credentials confirmed by PUT and not since
                    \* named by a PUT, a DELETE or a RESET

session == <<mode, authenticated, pending, asked, proved>>
vars == <<credentials, authKey, blob, session, puts, used, kept>>

Kind == {"hotp", "totp"}

(* id is history: which PUT made the credential. *)
Credential ==
    [id : 1 .. MaxPuts, name : Name, kind : Kind, touch : BOOLEAN, counter : 0 .. MaxCounter]

State(cs, k) == [credentials |-> cs, authKey |-> k]

(* How a save ends.  landed: the new blob is what a later read finds.  A   *)
(* power loss before it lands is PowerLoss: only RAM has changed.          *)
Save ==
    {f \in [landed : BOOLEAN, end : {"ok", "error", "crash"}] : f.end # "error" => f.landed}

Init ==
    /\ credentials = <<>>
    /\ authKey = NoAccessKey
    /\ blob = State(<<>>, NoAccessKey)
    /\ mode = "off"
    /\ authenticated = FALSE
    /\ pending = NoPending
    /\ puts = 0
    /\ asked = 0
    /\ used = [i \in 1 .. MaxPuts |-> 0]
    /\ proved = {}
    /\ kept = {}

RequireAuth == mode = "open" /\ (authKey = NoAccessKey \/ authenticated)

Find(name) == {i \in DOMAIN credentials : credentials[i].name = name}

Named(name) == {credentials[i].id : i \in Find(name)}

(***************************************************************************)
(* The store.                                                              *)
(***************************************************************************)

(* reset_volatile_state, with the mode and authentication it leads to. *)
EmptyRam(m, auth) ==
    /\ credentials' = <<>>
    /\ authKey' = NoAccessKey
    /\ mode' = m
    /\ authenticated' = auth
    /\ pending' = NoPending
    /\ asked' = 0
    /\ proved' = {}

(* save_state of credentials cs and access key k, ending as f, in a        *)
(* command that leaves authentication auth, armed request p and proof pr.  *)
SaveState(f, cs, k, auth, p, pr) ==
    /\ blob' = IF f.landed THEN State(cs, k) ELSE blob
    /\ IF f.end = "crash"
       THEN EmptyRam("off", FALSE)
       ELSE /\ credentials' = cs
            /\ authKey' = k
            /\ authenticated' = auth
            /\ pending' = p
            /\ asked' = IF p = NoPending THEN 0 ELSE asked
            /\ proved' = pr
            /\ UNCHANGED mode

PowerLoss ==
    /\ EmptyRam("off", FALSE)
    /\ UNCHANGED <<blob, puts, used, kept>>

(* Faulty: a read that fails is taken for an empty store. *)
OpenUnread == EmptyRam("open", TRUE)

(* close, and the answer of SELECT to a closed applet. *)
Close == EmptyRam("closed", FALSE)

Unlocked == blob.authKey = NoAccessKey

(* SELECT: load_state, then select_response. *)
Select(readable) ==
    /\ IF readable
       THEN /\ credentials' = blob.credentials
            /\ authKey' = blob.authKey
            /\ mode' = "open"
            /\ authenticated' = Unlocked
            /\ pending' = NoPending
            /\ asked' = 0
            /\ proved' = {}
       ELSE Close
    /\ UNCHANGED <<blob, puts, used, kept>>

(***************************************************************************)
(* The credential set.                                                     *)
(***************************************************************************)

(* A PUT or DELETE that is refused still drops the armed request. *)
Disarm ==
    /\ mode = "open"
    /\ pending # NoPending
    /\ pending' = NoPending
    /\ asked' = 0
    /\ UNCHANGED <<credentials, authKey, blob, mode, authenticated, proved, puts, used, kept>>

With(c) ==
    IF Find(c.name) = {} THEN Append(credentials, c)
    ELSE [i \in DOMAIN credentials |-> IF i \in Find(c.name) THEN c ELSE credentials[i]]

(* Faulty: the armed request survives the replacement. *)
PutKeepsPending(f, name, kind, touch) ==
    LET c == [id |-> puts + 1, name |-> name, kind |-> kind, touch |-> touch, counter |-> 0]
        others == kept \ Named(name)
    IN  /\ RequireAuth
        /\ puts < MaxPuts
        /\ Find(name) # {} \/ Len(credentials) < MaxCredentials
        /\ SaveState(f, With(c), authKey, authenticated, pending, proved)
        /\ puts' = puts + 1
        /\ kept' = IF f.end = "ok" THEN others \cup {c.id} ELSE others
        /\ UNCHANGED used

Put(f, name, kind, touch) ==
    LET c == [id |-> puts + 1, name |-> name, kind |-> kind, touch |-> touch, counter |-> 0]
        others == kept \ Named(name)
    IN  /\ RequireAuth
        /\ puts < MaxPuts
        /\ Find(name) # {} \/ Len(credentials) < MaxCredentials
        /\ SaveState(f, With(c), authKey, authenticated, NoPending, proved)
        /\ puts' = puts + 1
        /\ kept' = IF f.end = "ok" THEN others \cup {c.id} ELSE others
        /\ UNCHANGED used

(* swap_remove *)
Without(i) ==
    LET n == Len(credentials)
    IN  SubSeq([credentials EXCEPT ![i] = credentials[n]], 1, n - 1)

Delete(f, i) ==
    /\ RequireAuth
    /\ SaveState(f, Without(i), authKey, authenticated, NoPending, proved)
    /\ kept' = kept \ {credentials[i].id}
    /\ UNCHANGED <<puts, used>>

(* RESET: the store is erased first; RAM only when that succeeded.  It     *)
(* needs no authentication and works on a closed applet.                   *)
Reset(f) ==
    /\ mode # "off"
    /\ blob' = IF f.landed THEN State(<<>>, NoAccessKey) ELSE blob
    /\ CASE f.end = "ok" -> EmptyRam("open", FALSE)
         [] f.end = "crash" -> EmptyRam("off", FALSE)
         [] f.end = "error" ->
              /\ pending' = NoPending
              /\ asked' = 0
              /\ UNCHANGED <<credentials, authKey, mode, authenticated, proved>>
    /\ kept' = {}
    /\ UNCHANGED <<puts, used>>

(***************************************************************************)
(* Codes.                                                                  *)
(***************************************************************************)

(* Faulty: the code is answered and the counter left to a later save. *)
AnswerBeforeSave(f, i, p) ==
    /\ credentials[i].kind = "hotp" /\ credentials[i].counter < MaxCounter
    /\ SaveState([f EXCEPT !.landed = FALSE], [credentials EXCEPT ![i].counter = @ + 1],
                 authKey, authenticated, p, proved)
    /\ used' = [used EXCEPT ![credentials[i].id] = credentials[i].counter + 1]
    /\ UNCHANGED <<puts, kept>>

(* calculate_index of a HOTP credential: the counter is saved before the   *)
(* code is answered.                                                       *)
CalculateHotp(f, i, p) ==
    /\ credentials[i].kind = "hotp" /\ credentials[i].counter < MaxCounter
    /\ SaveState(f, [credentials EXCEPT ![i].counter = @ + 1], authKey, authenticated, p,
                 proved)
    /\ used' = IF f.end = "ok"
               THEN [used EXCEPT ![credentials[i].id] = credentials[i].counter + 1]
               ELSE used
    /\ UNCHANGED <<puts, kept>>

(* CALCULATE of a touch credential parks the request; a TOTP code without  *)
(* touch, LIST and CALCULATE ALL change nothing.                           *)
Arm(i) ==
    /\ RequireAuth
    /\ credentials[i].touch
    /\ pending' = i
    /\ asked' = credentials[i].id
    /\ UNCHANGED <<credentials, authKey, blob, mode, authenticated, proved, puts, used, kept>>

Calculate(f, i) ==
    /\ RequireAuth
    /\ ~credentials[i].touch
    /\ CalculateHotp(f, i, pending)

(* confirm_presence; a TOTP code, or a stale index, only takes the request. *)
ConfirmHotp(f) ==
    /\ mode = "open"
    /\ pending \in DOMAIN credentials
    /\ CalculateHotp(f, pending, NoPending)

TakePending ==
    /\ mode # "off"
    /\ pending # NoPending
    /\ pending' = NoPending
    /\ asked' = 0
    /\ UNCHANGED <<credentials, authKey, blob, mode, authenticated, proved, puts, used, kept>>

(***************************************************************************)
(* The access code.                                                        *)
(***************************************************************************)

(* set_code of a key the host computed an HMAC under; an empty key is no   *)
(* access code.                                                            *)
SetCode(f, k) ==
    /\ RequireAuth
    /\ SaveState(f, credentials, k, TRUE, pending, proved \cup ({k} \ {NoAccessKey}))
    /\ UNCHANGED <<puts, used, kept>>

(* A key longer than auth_key is refused after the old one was cleared;    *)
(* nothing is saved, and the next save of another command stores that.     *)
SetCodeTooLong ==
    /\ RequireAuth
    /\ authKey' = NoAccessKey
    /\ UNCHANGED <<credentials, blob, session, puts, used, kept>>

ClearCode(f) ==
    /\ RequireAuth
    /\ SaveState(f, credentials, NoAccessKey, FALSE, pending, proved)
    /\ UNCHANGED <<puts, used, kept>>

(* The host computed the HMAC of the challenge under the access key; the   *)
(* save is of the next challenge.                                          *)
Validate(f) ==
    /\ mode = "open"
    /\ authKey # NoAccessKey
    /\ SaveState(f, credentials, authKey, TRUE, pending, proved \cup {authKey})
    /\ UNCHANGED <<puts, used, kept>>

Saving(f) ==
    \/ \E name \in Name, kind \in Kind, touch \in BOOLEAN : Put(f, name, kind, touch)
    \/ \E i \in DOMAIN credentials : Delete(f, i) \/ Calculate(f, i)
    \/ \E k \in AccessKey \cup {NoAccessKey} : SetCode(f, k)
    \/ Reset(f) \/ ConfirmHotp(f) \/ ClearCode(f) \/ Validate(f)

Next ==
    \/ \E f \in Save : Saving(f)
    \/ \E i \in DOMAIN credentials : Arm(i)
    \/ \E readable \in BOOLEAN : Select(readable)
    \/ SetCodeTooLong \/ Disarm \/ TakePending \/ PowerLoss

Spec == Init /\ [][Next]_vars

-----------------------------------------------------------------------------
(* Every variable has its type, and the credential vector its capacity.    *)
TypeOK ==
    /\ Range(credentials) \subseteq Credential /\ Len(credentials) <= MaxCredentials
    /\ Range(blob.credentials) \subseteq Credential
    /\ {authKey, blob.authKey} \subseteq AccessKey \cup {NoAccessKey}
    /\ proved \subseteq AccessKey
    /\ mode \in {"off", "open", "closed"}
    /\ authenticated \in BOOLEAN
    /\ pending = NoPending \/ pending \in DOMAIN credentials
    /\ puts \in 0 .. MaxPuts /\ asked \in 0 .. MaxPuts
    /\ kept \subseteq 1 .. MaxPuts

(* A HOTP code is answered at most once: neither RAM nor the store ever    *)
(* holds a counter whose code was already answered, so that no refused     *)
(* save, restart or reselect leads to a second answer (calculate_index     *)
(* saves before it answers).                                               *)
HotpCodeOnce ==
    \A c \in Range(credentials) \cup Range(blob.credentials) : c.counter >= used[c.id]

(* The armed touch belongs to the credential that asked for it             *)
(* (docs/security-model.md, "pending touch request"): no PUT, DELETE,      *)
(* failed save or reload makes the index point to another one.             *)
TouchIsForTheAsked ==
    pending # NoPending => credentials[pending].id = asked

(* Where an access code is set and the session counts as authenticated,    *)
(* the host proved that very code since SELECT.                            *)
AccessCodeProved ==
    authKey # NoAccessKey /\ authenticated => authKey \in proved

(* A credential confirmed by PUT stays in the store until the host names   *)
(* it or resets, whatever reads and saves fail in between: a failed read   *)
(* closes the applet instead of letting a save replace the unread blob.    *)
ConfirmedStaysStored == kept \subseteq {c.id : c \in Range(blob.credentials)}

(* The applet serves requests under another code than its store has, or    *)
(* under none, only to a host that proved the code of the store since      *)
(* SELECT: by a SET CODE whose save failed, or that was refused for the    *)
(* length of its key and cleared the code in RAM.  A refused RESET, a      *)
(* failed read and a restart never lift a code (reset erases the store     *)
(* before RAM, load_state closes).                                         *)
CodeIsNotLifted ==
    mode = "open" /\ authKey # blob.authKey /\ blob.authKey # NoAccessKey =>
        blob.authKey \in proved
(* What a session may use was granted to it: the touch by the credential   *)
(* that asked, the access by a proof of the code (oath.rs).                *)
OathInv == TypeOK /\ TouchIsForTheAsked /\ AccessCodeProved /\ CodeIsNotLifted
=============================================================================

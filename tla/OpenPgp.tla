------------------------------ MODULE OpenPgp -------------------------------
(***************************************************************************)
(* The OpenPGP card applet (aegis-applets/src/openpgp.rs over the PinSlot  *)
(* of aegis-applets/src/pin.rs).                                           *)
(*                                                                         *)
(* The whole card state (PW1, PW3, three key slots, the data objects and   *)
(* the signature counter) is one blob: every command that changes any of   *)
(* it saves all of it, with whatever an earlier failed save left in RAM.   *)
(* Only the commands that go through persist_state move the retry floors.  *)
(*                                                                         *)
(* A code stands for its hash, a key for a number, and the plain data      *)
(* objects are left out of the state: writing one is a save.  A command    *)
(* refused before it touches a slot changes nothing, and neither does a    *)
(* use of the decryption or the authentication key, whose answer is an     *)
(* operator of its own.                                                    *)
(***************************************************************************)
EXTENDS Integers

CONSTANTS
    Code,           \* PW1 and PW3 values
    DefaultCode,    \* the values ensure_loaded provisions
    Unset,          \* a PIN slot without a hash
    Absent,         \* no card state in the store
    KeySlot,        \* "sig", "dec" and "aut"
    MaxAttempts,    \* PW_POLICY.max_attempts
    MaxKeys,        \* bound on the keys generated
    MaxSignatures   \* bound on the signature counter

ASSUME ConstantsAssumption ==
    /\ Unset \notin Code
    /\ DefaultCode \in Code
    /\ {"sig", "dec"} \subseteq KeySlot
    /\ MaxAttempts \in Nat \ {0}
    /\ MaxKeys \in Nat
    /\ MaxSignatures \in Nat

Ref == {"pw1", "pw3"}
Session == {"sign", "other", "admin"}

PinSlot == [hash : Code \cup {Unset}, retries : 0 .. MaxAttempts]

(* p256 is ECDSA or ECDH, by the slot, and 25519 Ed25519 or X25519.  size  *)
(* is what KeySlot::len tells apart: nothing, a scalar, a scalar with the  *)
(* material of PUT DATA D2, an RSA key.                                    *)
Algo == {"p256", "25519", "rsa"}
Key ==
    [algo : Algo \cup {"unset"}, size : {"none", "scalar", "ecdh", "rsa"}, id : 0 .. MaxKeys]

NoKey == [algo |-> "unset", size |-> "none", id |-> 0]

CardState ==
    [pw : [Ref -> PinSlot], keys : [KeySlot -> Key], counter : 0 .. MaxSignatures]

ASSUME AbsentAssumption == Absent \notin CardState

VARIABLES
    ram,        \* the card state the commands work on
    stored,     \* the card state a load reads
    floor,      \* pw1_floor and pw3_floor
    selected,   \* the router routes commands to this applet
    sessions,   \* the verified flags that are set
    made,       \* keys generated so far
    guessed,    \* history: wrong presentations answered or persisted
                \* against each value since it was last installed
    recorded,   \* history: guessed as of the save the store holds
    signed,     \* history: signatures answered with each key
    material,   \* history: the last key for which PUT DATA D2 was confirmed
    answered,   \* history: the key GENERATE last answered for a slot, until
                \* the slot is written again
    replaced    \* history: ensure_loaded took defaults although the store
                \* held a card state

vars ==
    <<ram, stored, floor, selected, sessions, made, guessed, recorded, signed, material, answered,
      replaced>>

(* How a save ends; see PivPin.  That a blob is there entirely or not is   *)
(* what SealedBlob shows.                                                  *)
Write ==
    {w \in [landed : BOOLEAN, end : {"ok", "error", "crash"}] :
        w.end # "error" => w.landed}

Full(h) == [hash |-> h, retries |-> MaxAttempts]

Lower(a, b) == IF a <= b THEN a ELSE b

Blank ==
    [pw |-> [ref \in Ref |-> Full(Unset)], keys |-> [k \in KeySlot |-> NoKey], counter |-> 0]

NoGuesses == [c \in Code |-> 0]

Init ==
    /\ ram = Blank
    /\ stored = Absent
    /\ floor = [ref \in Ref |-> MaxAttempts]
    /\ selected = FALSE
    /\ sessions = {}
    /\ made = 0
    /\ guessed = [ref \in Ref |-> NoGuesses]
    /\ recorded = guessed
    /\ signed = [id \in 1 .. MaxKeys |-> 0]
    /\ material = 0
    /\ answered = [k \in KeySlot |-> 0]
    /\ replaced = FALSE

(***************************************************************************)
(* Persistence.                                                            *)
(***************************************************************************)

(* A power cycle that finds the card state st, saved when the wrong        *)
(* presentations were g.  The ones that were in RAM only are forgotten:    *)
(* docs/security-model.md accepts this for a failing flash.                *)
Restart(st, g) ==
    /\ stored' = st
    /\ ram' = Blank
    /\ floor' = [ref \in Ref |-> MaxAttempts]
    /\ selected' = FALSE
    /\ sessions' = {}
    /\ guessed' = g
    /\ recorded' = g

PowerCycle ==
    /\ Restart(stored, recorded)
    /\ UNCHANGED <<made, signed, material, answered, replaced>>

(* save_state of the card state s by a command that leaves the floors f,   *)
(* the sessions v and the guesses g.                                       *)
Save(w, s, f, v, g) ==
    IF w.end = "crash"
    THEN Restart(s, g)
    ELSE /\ ram' = s
         /\ stored' = IF w.landed THEN s ELSE stored
         /\ floor' = f
         /\ sessions' = v
         /\ guessed' = g
         /\ recorded' = IF w.landed THEN g ELSE recorded
         /\ selected' = TRUE

(* Faulty: a save that fails leaves the floors where they are. *)
FloorsKept(w, s) ==
    [ref \in Ref |-> IF w.end = "ok" THEN s.pw[ref].retries ELSE floor[ref]]

(* The floors after persist_state. *)
Anchored(w, s) ==
    [ref \in Ref |->
        IF w.end = "ok" THEN s.pw[ref].retries ELSE Lower(floor[ref], s.pw[ref].retries)]

Persist(w, s, v, g) == Save(w, s, Anchored(w, s), v, g)

(***************************************************************************)
(* SELECT: ensure_loaded.                                                  *)
(***************************************************************************)

(* decode_state: an RSA slot must hold an RSA key, and only the decryption *)
(* slot may hold D2 material, under ECDH P-256.                            *)
KeyDecodes(k, key) ==
    IF key.algo = "rsa" THEN key.size = "rsa"
    ELSE key.size = "ecdh" => k = "dec" /\ key.algo \in {"unset", "p256"}

Decodes(st) == \A k \in KeySlot : KeyDecodes(k, st.keys[k])

Clamped(pw) ==
    [ref \in Ref |-> [pw[ref] EXCEPT !.retries = Lower(@, floor[ref])]]

LoadState ==
    /\ stored # Absent
    /\ Decodes(stored)
    /\ ram' = [stored EXCEPT !.pw = Clamped(stored.pw)]
    /\ selected' = TRUE
    /\ sessions' = {}
    /\ UNCHANGED <<stored, floor, made, guessed, recorded, signed, material, answered, replaced>>

(* No state, one that cannot be read, or one that does not decode: both    *)
(* PINs take their defaults, the rest of RAM stays, and the result of the  *)
(* save is not looked at.                                                  *)
Provision(w) ==
    /\ Save(w, [ram EXCEPT !.pw = Clamped([ref \in Ref |-> Full(DefaultCode)])],
            floor, {}, guessed)
    /\ replaced' = (replaced \/ stored # Absent)
    /\ UNCHANGED <<made, signed, material, answered>>

Deselect ==
    /\ selected
    /\ selected' = FALSE
    /\ UNCHANGED <<ram, stored, floor, sessions, made, guessed, recorded, signed, material, answered, replaced>>

(***************************************************************************)
(* The PIN commands.                                                       *)
(***************************************************************************)

Pw(ref) == ram.pw[ref]

Usable(ref) == Pw(ref).hash # Unset /\ Pw(ref).retries > 0
Right(ref, c) == Usable(ref) /\ Pw(ref).hash = c

KeyHistory == <<made, signed, material, answered, replaced>>

(* PinSlot::verify or resolve_change of a wrong value. *)
WrongCode(w, ref, c) ==
    /\ Usable(ref)
    /\ Pw(ref).hash # c
    /\ Persist(w, [ram EXCEPT !.pw[ref].retries = @ - 1], sessions,
               [guessed EXCEPT ![ref][Pw(ref).hash] =
                   IF @ < MaxAttempts THEN @ + 1 ELSE @])

(* set of a new value: change or unblock. *)
Install(w, ref, d) ==
    Persist(w, [ram EXCEPT !.pw[ref] = Full(d)], sessions,
            [guessed EXCEPT ![ref][d] = 0])

(* A refusal that is saved all the same (finish_change), and the PUT DATA  *)
(* of a plain object.                                                      *)
SaveUnchanged(w) == Persist(w, ram, sessions, guessed)

(* A wrong value leaves the sessions as they are. *)
VerifyWrong(w, ref, c) ==
    /\ selected
    /\ WrongCode(w, ref, c)
    /\ UNCHANGED KeyHistory

(* P2 81, 82 and 83. *)
VerifyRight(session, c) ==
    /\ selected
    /\ Right(IF session = "admin" THEN "pw3" ELSE "pw1", c)
    /\ sessions' = sessions \cup {session}
    /\ UNCHANGED <<ram, stored, floor, selected, made, guessed, recorded, signed, material, answered, replaced>>

(* verify_change *)
ChangeReferenceData(w, ref, c, d) ==
    /\ selected
    /\ ref = "pw3" => "admin" \in sessions
    /\ \/ WrongCode(w, ref, c)
       \/ Right(ref, c) /\ Install(w, ref, d)
       \/ ~Usable(ref) /\ SaveUnchanged(w)
    /\ UNCHANGED KeyHistory

(* reset_retry *)
ResetRetryCounter(w, d) ==
    /\ selected
    /\ "admin" \in sessions
    /\ Install(w, "pw1", d)
    /\ UNCHANGED KeyHistory

(***************************************************************************)
(* PUT DATA, GENERATE and signatures.                                      *)
(***************************************************************************)

Admin == selected /\ "admin" \in sessions

PutObject(w) ==
    /\ Admin
    /\ SaveUnchanged(w)
    /\ UNCHANGED KeyHistory

EffectiveAlgo(key) == IF key.algo = "unset" THEN "p256" ELSE key.algo

(* put_algo: new attributes delete the key. *)
PutAlgo(w, k, algo) ==
    /\ Admin
    /\ Persist(w, [ram EXCEPT !.keys[k] = [algo |-> algo, size |-> "none", id |-> 0]],
               sessions, guessed)
    /\ answered' = [answered EXCEPT ![k] = 0]
    /\ UNCHANGED <<made, signed, material, replaced>>

HasEcdhKey == ram.keys["dec"].id # 0 /\ EffectiveAlgo(ram.keys["dec"]) = "p256"

(* put_ecdh_material, confirmed by put_data only when it is saved *)
PutEcdhMaterial(w) ==
    /\ Admin
    /\ HasEcdhKey
    /\ Persist(w, [ram EXCEPT !.keys["dec"].size = "ecdh"], sessions, guessed)
    /\ material' = IF w.end = "ok" THEN ram.keys["dec"].id ELSE material
    /\ UNCHANGED <<made, signed, answered, replaced>>

Generated(k) ==
    LET algo == EffectiveAlgo(ram.keys[k])
    IN  [algo |-> algo, size |-> IF algo = "rsa" THEN "rsa" ELSE "scalar", id |-> made + 1]

(* Faulty: the public key is answered although the save failed. *)
GenerateUnsaved(w, k) ==
    /\ Admin
    /\ made < MaxKeys
    /\ Save(w, [ram EXCEPT !.keys[k] = Generated(k),
                           !.counter = IF k = "sig" THEN 0 ELSE @],
            floor, sessions, guessed)
    /\ made' = made + 1
    /\ answered' = [answered EXCEPT ![k] = made + 1]
    /\ UNCHANGED <<signed, material, replaced>>

(* generate and generate_rsa: the signature key starts a new count. *)
Generate(w, k) ==
    /\ Admin
    /\ made < MaxKeys
    /\ Save(w, [ram EXCEPT !.keys[k] = Generated(k),
                           !.counter = IF k = "sig" THEN 0 ELSE @],
            floor, sessions, guessed)
    /\ made' = made + 1
    /\ answered' = [answered EXCEPT ![k] = IF w.end = "ok" THEN made + 1 ELSE 0]
    /\ UNCHANGED <<signed, material, replaced>>

(* Faulty: the signature is answered although the counter is not saved. *)
SignUncounted(w) ==
    /\ selected
    /\ "sign" \in sessions
    /\ ram.keys["sig"].id # 0
    /\ ram.counter < MaxSignatures
    /\ Save(w, [ram EXCEPT !.counter = @ + 1], floor, sessions \ {"sign"}, guessed)
    /\ signed' = [signed EXCEPT ![ram.keys["sig"].id] = @ + 1]
    /\ UNCHANGED <<made, material, answered, replaced>>

(* sign: the session flag is spent and the counter saved before the answer. *)
Sign(w) ==
    /\ selected
    /\ "sign" \in sessions
    /\ ram.keys["sig"].id # 0
    /\ ram.counter < MaxSignatures
    /\ Save(w, [ram EXCEPT !.counter = @ + 1], floor, sessions \ {"sign"}, guessed)
    /\ signed' = IF w.end = "ok" THEN [signed EXCEPT ![ram.keys["sig"].id] = @ + 1] ELSE signed
    /\ UNCHANGED <<made, material, answered, replaced>>

(***************************************************************************)
(* The uses of the other two keys.  An input is the set of what it carries *)
(* and what checks out: the point of the sender, the encrypted data with   *)
(* its modification detection code, a block or digest of the right length. *)
(***************************************************************************)
Input == SUBSET {"point", "data", "block"}

(* decipher_ecdh with the session key that is wrapped in the material *)
Unwrapped(input) == IF {"point", "data"} \subseteq input THEN "data" ELSE "refused"

(* decipher_ecdh_shared_secret, decipher_ecdh_x25519 *)
PartialDecrypt(input) == IF "point" \in input THEN "shared secret" ELSE "refused"

(* EcdhMaterial::from_slot *)
HasMaterial(key) == EffectiveAlgo(key) = "p256" /\ key.size = "ecdh"

(* decipher *)
DecipherAnswer(key, input) ==
    IF EffectiveAlgo(key) = "rsa"
    THEN IF key.size = "rsa" /\ "block" \in input THEN "plain block" ELSE "refused"
    ELSE IF HasMaterial(key) THEN Unwrapped(input) ELSE PartialDecrypt(input)

(* internal_authenticate *)
AuthenticateAnswer(key, input) ==
    IF "block" \in input /\ (EffectiveAlgo(key) = "rsa" => key.size = "rsa")
    THEN "signature" ELSE "refused"

UseKey(k, input) ==
    /\ selected
    /\ "other" \in sessions
    /\ ram.keys[k].id # 0
    /\ IF k = "dec" THEN DecipherAnswer(ram.keys[k], input) # "refused"
       ELSE k # "sig" /\ AuthenticateAnswer(ram.keys[k], input) # "refused"
    /\ UNCHANGED vars

PinCommand(w) ==
    \/ \E ref \in Ref, c \in Code : VerifyWrong(w, ref, c)
    \/ \E ref \in Ref, c, d \in Code : ChangeReferenceData(w, ref, c, d)
    \/ \E d \in Code : ResetRetryCounter(w, d)

KeyCommand(w) ==
    \/ \E k \in KeySlot, algo \in Algo : PutAlgo(w, k, algo)
    \/ PutObject(w)
    \/ PutEcdhMaterial(w)
    \/ \E k \in KeySlot : Generate(w, k)
    \/ Sign(w)

Next ==
    \/ \E w \in Write : PinCommand(w) \/ KeyCommand(w) \/ Provision(w)
    \/ LoadState
    \/ \E session \in Session, c \in Code : VerifyRight(session, c)
    \/ \E k \in KeySlot, input \in Input : UseKey(k, input)
    \/ Deselect
    \/ PowerCycle

Spec == Init /\ [][Next]_vars

-----------------------------------------------------------------------------
(* Every variable has its type. *)
TypeOK ==
    /\ ram \in CardState
    /\ stored \in CardState \cup {Absent}
    /\ floor \in [Ref -> 0 .. MaxAttempts]
    /\ selected \in BOOLEAN
    /\ sessions \subseteq Session
    /\ made \in 0 .. MaxKeys
    /\ guessed \in [Ref -> [Code -> 0 .. MaxAttempts]]
    /\ recorded \in [Ref -> [Code -> 0 .. MaxAttempts]]
    /\ signed \in [1 .. MaxKeys -> 0 .. MaxSignatures]
    /\ material \in 0 .. MaxKeys
    /\ answered \in [KeySlot -> 0 .. MaxKeys]
    /\ replaced \in BOOLEAN

WithinBudget(pin, guesses) ==
    pin.hash # Unset => pin.retries + guesses[pin.hash] <= MaxAttempts

(* openpgp.rs, pw1_floor: "a reload can never restore a more permissive    *)
(* counter than the one already lost".  Although one save carries both PIN *)
(* slots and the key commands save without moving the floors, the wrong    *)
(* presentations against a value and the tries it has left never exceed    *)
(* the budget, in RAM and in the store, over reselections, failed saves    *)
(* and power cycles; unless a stored card state was given up for defaults. *)
GuessesAreBounded ==
    ~replaced =>
        \A ref \in Ref :
            /\ WithinBudget(ram.pw[ref], guessed[ref])
            /\ stored # Absent => WithinBudget(stored.pw[ref], recorded[ref])

(* The signature counter is never behind: however saves fail and whatever  *)
(* is reloaded, a card state with a signature key counts at least the      *)
(* signatures answered with that key.                                      *)
SignaturesAreCounted ==
    \A s \in {ram, stored} \ {Absent} :
        s.keys["sig"].id # 0 => signed[s.keys["sig"].id] <= s.counter

(* A key whose public part GENERATE answered is the one the store holds,   *)
(* whatever fails later, until the slot is written again or a stored card  *)
(* state is given up for the defaults.                                     *)
AnsweredKeyIsStored ==
    ~replaced =>
        \A k \in KeySlot :
            answered[k] # 0 => stored # Absent /\ stored.keys[k].id = answered[k]

(* decipher: "The shared secret never leaves the card", of a slot with the *)
(* material of RFC 6637.  Once PUT DATA D2 has been confirmed for a key,   *)
(* no failed save, reselection or power cycle brings back the partial      *)
(* decrypt for that key.                                                   *)
SharedSecretStays ==
    \A s \in {ram, stored} \ {Absent} :
        material # 0 /\ s.keys["dec"].id = material
            => \A input \in Input : DecipherAnswer(s.keys["dec"], input) # "shared secret"

(* decode_state: "so the state the card itself wrote survives to the next  *)
(* session".  Whatever the commands save, a load decodes.                  *)
WrittenStateDecodes == stored # Absent => Decodes(stored)
(* What the card answered about its keys outlives the session: a generated *)
(* key is the stored one, and a secret bound by PUT DATA D2 stays bound.   *)
PgpInv == TypeOK /\ AnsweredKeyIsStored /\ SharedSecretStays
=============================================================================

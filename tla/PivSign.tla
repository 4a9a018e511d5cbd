------------------------------ MODULE PivSign -------------------------------
(***************************************************************************)
(* The keys of the PIV applet (aegis-applets/src/piv.rs): management-key   *)
(* authentication, key generation and signatures under a PIN policy and a  *)
(* touch policy, on top of the PIN and PUK of PivPin.                      *)
(*                                                                         *)
(* A signature that needs a touch is parked in pending_sign and the card   *)
(* front end (Card::poll) handles no other message until the touch is      *)
(* confirmed or denied; a power loss can still come between.  A key is     *)
(* its pair of policies: its algorithm and scalar decide nothing here.     *)
(***************************************************************************)
EXTENDS PivPin

CONSTANTS
    KeySlot,     \* 9A, 9C, 9E
    Policies,    \* the policy pairs GENERATE may ask for
    NoKey,       \* an empty key slot
    MgmtKey,     \* management keys
    DefaultMgmt, \* MgmtKey::default_key
    NoWitness    \* no management authentication is under way

PinPolicy == {"never", "once", "always"}
TouchPolicy == {"never", "always", "cached"}

ASSUME PolicyAssumption ==
    /\ Policies \subseteq [pin : PinPolicy, touch : TouchPolicy]
    /\ DefaultMgmt \in MgmtKey

VARIABLES
    keys,        \* the key records
    mgmt,        \* the management key in RAM
    mgmtStored,  \* its record
    mgmtAuth,    \* mgmt_authenticated
    witness,     \* the key under which the open nonce was sent
    pending,     \* slot of pending_sign, or NoKey
    cached,      \* presence_cached
    spent,       \* history: PIN-always signatures since the PIN was last
                 \* proved
    touched      \* history: touches confirmed since SELECT

keyVars ==
    <<keys, mgmt, mgmtStored, mgmtAuth, witness, pending, cached, spent, touched>>
vars == <<pivPinVars, keyVars>>

Init ==
    /\ PivPinInit
    /\ keys = [k \in KeySlot |-> NoKey]
    /\ mgmt = DefaultMgmt
    /\ mgmtStored = Absent
    /\ mgmtAuth = FALSE
    /\ witness = NoWitness
    /\ pending = NoKey
    /\ cached = FALSE
    /\ spent = 0
    /\ touched = FALSE

Idle == selected /\ pending = NoKey

(* The session part of select_response and of a restart. *)
EndSession ==
    /\ mgmtAuth' = FALSE
    /\ witness' = NoWitness
    /\ pending' = NoKey
    /\ cached' = FALSE
    /\ spent' = 0
    /\ touched' = FALSE

PowerLoss ==
    /\ PowerCycle
    /\ EndSession
    /\ mgmt' = DefaultMgmt
    /\ UNCHANGED <<keys, mgmtStored>>

(***************************************************************************)
(* SELECT and the PIN commands, with their effect on the session.          *)
(***************************************************************************)

(* What happens to the management record in a SELECT: provision finds none *)
(* (missing), and its write lands (written); load_state cannot read or     *)
(* decode it (unread).                                                     *)
MgmtAccess == [missing : BOOLEAN, written : BOOLEAN, unread : BOOLEAN]

(* As with the PINs, a read that fails is taken for a missing record:      *)
(* provision writes the key in RAM over it.  load_state comes to it last,  *)
(* and keeps the key in RAM where it stops before.                         *)
SelectApplet(missing, written, unread, m) ==
    LET rec == IF m.written THEN mgmt ELSE mgmtStored
    IN  /\ pending = NoKey
        /\ IF provisioned THEN ~m.missing ELSE mgmtStored = Absent => m.missing
        /\ m.written => m.missing
        /\ rec = Absent => m.unread
        /\ Select(missing, written, unread)
        /\ EndSession
        /\ mgmtStored' = rec
        /\ mgmt' = IF unread = {} /\ ~m.unread THEN rec ELSE mgmt
        /\ UNCHANGED keys

DeselectApplet ==
    /\ pending = NoKey
    /\ Deselect
    /\ UNCHANGED keyVars

(* A command that saves a PIN record; a change counts as a proof. *)
PinCommand(w) ==
    /\ pending = NoKey
    /\ PivPinCommand(w)
    /\ IF w.end = "crash"
       THEN EndSession /\ mgmt' = DefaultMgmt /\ UNCHANGED <<keys, mgmtStored>>
       ELSE /\ spent' = IF verified' /\ ~verified THEN 0 ELSE spent
            /\ UNCHANGED <<keys, mgmt, mgmtStored, mgmtAuth, witness, pending, cached, touched>>

PinProof(ref, c) ==
    /\ pending = NoKey
    /\ VerifyUnsaved(ref, c)
    /\ spent' = IF ref = "pin" /\ Right(ref, c) THEN 0 ELSE spent
    /\ UNCHANGED <<keys, mgmt, mgmtStored, mgmtAuth, witness, pending, cached, touched>>

(***************************************************************************)
(* Management.                                                             *)
(***************************************************************************)

(* First step of authenticate_management: the card sends its nonce.        *)
Challenge ==
    /\ Idle
    /\ witness = NoWitness
    /\ witness' = mgmt
    /\ UNCHANGED <<pivPinVars, keys, mgmt, mgmtStored, mgmtAuth, pending, cached,
                   spent, touched>>

(* Second step: right means the host returned the nonce, which takes the   *)
(* key it was encrypted under.  A wrong answer takes the witness and       *)
(* leaves an earlier authentication alone.                                 *)
Respond(right) ==
    /\ Idle
    /\ witness # NoWitness
    /\ witness' = NoWitness
    /\ mgmtAuth' = (mgmtAuth \/ right)
    /\ UNCHANGED <<pivPinVars, keys, mgmt, mgmtStored, pending, cached, spent, touched>>

(* A store write of a key or management record that ends as w, leaving     *)
(* key records ks, management record rec and, when it is confirmed, RAM    *)
(* key m and witness wit behind.                                           *)
StoreKey(w, ks, rec, m, wit) ==
    /\ keys' = IF w.landed THEN ks ELSE keys
    /\ mgmtStored' = IF w.landed THEN rec ELSE mgmtStored
    /\ IF w.end = "crash"
       THEN PowerCycle /\ EndSession /\ mgmt' = DefaultMgmt
       ELSE /\ mgmt' = IF w.end = "ok" THEN m ELSE mgmt
            /\ witness' = IF w.end = "ok" THEN wit ELSE witness
            /\ UNCHANGED <<pivPinVars, mgmtAuth, pending, cached, spent, touched>>

(* Faulty: the open nonce outlives the key it was sent under. *)
SetMgmtKeepsWitness(w, m) ==
    /\ Idle
    /\ mgmtAuth
    /\ StoreKey(w, keys, m, m, witness)

GenerateKeyPair(w, k, policy) ==
    /\ Idle
    /\ mgmtAuth
    /\ StoreKey(w, [keys EXCEPT ![k] = policy], mgmtStored, mgmt, witness)

SetMgmtKey(w, m) ==
    /\ Idle
    /\ mgmtAuth
    /\ StoreKey(w, keys, m, m, NoWitness)

(***************************************************************************)
(* Signatures.                                                             *)
(***************************************************************************)

TouchRequired(k) ==
    \/ keys[k].touch = "always"
    \/ keys[k].touch = "cached" /\ ~cached

(* Faulty: a PIN-always signature leaves the session verified. *)
FinishKeepsPin(k) ==
    /\ cached' = IF keys[k].touch = "never" THEN cached ELSE keys[k].touch = "cached"
    /\ spent' = IF keys[k].pin = "always" THEN spent + 1 ELSE spent
    /\ UNCHANGED verified

(* finish_sign *)
FinishSign(k) ==
    /\ verified' = (verified /\ keys[k].pin # "always")
    /\ cached' = IF keys[k].touch = "never" THEN cached ELSE keys[k].touch = "cached"
    /\ spent' = IF keys[k].pin = "always" THEN spent + 1 ELSE spent

Sign(k) ==
    /\ Idle
    /\ keys[k] # NoKey
    /\ keys[k].pin # "never" => verified
    /\ IF TouchRequired(k)
       THEN pending' = k /\ UNCHANGED <<verified, cached, spent>>
       ELSE FinishSign(k) /\ UNCHANGED pending
    /\ UNCHANGED <<slots, stored, floor, provisioned, selected, guessed, recorded, replaced, shown,
                   keys, mgmt, mgmtStored, mgmtAuth, witness, touched>>

ConfirmPresence ==
    /\ pending # NoKey
    /\ FinishSign(pending)
    /\ pending' = NoKey
    /\ touched' = TRUE
    /\ UNCHANGED <<slots, stored, floor, provisioned, selected, guessed, recorded, replaced, shown,
                   keys, mgmt, mgmtStored, mgmtAuth, witness>>

DenyPresence ==
    /\ pending # NoKey
    /\ pending' = NoKey
    /\ UNCHANGED <<pivPinVars, keys, mgmt, mgmtStored, mgmtAuth, witness, cached,
                   spent, touched>>

Next ==
    \/ \E w \in Write :
          \/ PinCommand(w)
          \/ \E k \in KeySlot, policy \in Policies : GenerateKeyPair(w, k, policy)
          \/ \E m \in MgmtKey : SetMgmtKey(w, m)
    \/ \E ref \in Ref, c \in Code : PinProof(ref, c)
    \/ \E missing, written, unread \in SUBSET Ref, m \in MgmtAccess :
          SelectApplet(missing, written, unread, m)
    \/ \E right \in BOOLEAN : Respond(right)
    \/ \E k \in KeySlot : Sign(k)
    \/ DeselectApplet \/ Challenge \/ ConfirmPresence \/ DenyPresence \/ PowerLoss

Spec == Init /\ [][Next]_vars

-----------------------------------------------------------------------------
(* A key with PIN policy "always" makes at most one signature per proof of *)
(* the PIN, in whatever order signatures, touches, refused changes and     *)
(* other keys interleave (sign, complete_sign, finish_sign).               *)
OneSignaturePerPin == spent <= 1 /\ (spent = 1 => ~verified)

(* A cached touch was given since the last SELECT: presence_cached never   *)
(* carries a touch over to another selection or past a restart.            *)
CachedTouchIsOfThisSelection == cached => touched

(* Management authority rests on a nonce returned under the key that is    *)
(* in force: replacing the key, a restart and SELECT each void a nonce     *)
(* that was sent under another one (set_mgmt_key, select_response).        *)
OpenNonceIsOfCurrentKey == witness # NoWitness => witness = mgmt
(* Neither a touch nor a nonce outlives the selection or the key it was    *)
(* given for (piv.rs).                                                     *)
SessionInv == CachedTouchIsOfThisSelection /\ OpenNonceIsOfCurrentKey

KeyTypeOK ==
    /\ keys \in [KeySlot -> Policies \cup {NoKey}]
    /\ pending \in KeySlot \cup {NoKey}
    /\ cached \in BOOLEAN /\ spent \in Nat

(* What makes OneSignaturePerPin inductive: nothing comes between the PIN  *)
(* check of sign and the signature that complete_sign makes after a touch. *)
PendingIsAuthorized ==
    pending # NoKey =>
        /\ keys[pending] # NoKey
        /\ keys[pending].pin # "never" => verified

PivInv ==
    /\ IInv
    /\ KeyTypeOK
    /\ VerifiedShowsCurrentPin
    /\ PendingIsAuthorized
    /\ OneSignaturePerPin
    /\ SessionInv
=============================================================================

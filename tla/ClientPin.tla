----------------------------- MODULE ClientPin ------------------------------
(***************************************************************************)
(* The clientPIN protocol of aegis-core/src/pin.rs over the PIN state the  *)
(* credential store keeps: PIN hash, retry budget, key agreement and the   *)
(* pinUvAuthToken with its permissions and relying-party binding.          *)
(*                                                                         *)
(* The PIN state lives in RAM (pinState) and in the sealed database        *)
(* (pinFlash).  Every change of it is followed by a flush, and a flush can *)
(* end three ways: stored, an error, or a power loss; in the last two the  *)
(* record may or may not have landed (see SlotStore).  RAM is not rolled   *)
(* back when a flush fails.                                                *)
(*                                                                         *)
(* A PIN stands for its hash.  A request whose shared secret, HMAC,        *)
(* encoding or PIN policy does not hold is answered with an error and      *)
(* changes nothing, so it is a stuttering step.                            *)
(***************************************************************************)
EXTENDS Integers

CONSTANTS
    Pin,            \* PINs a user may choose
    NoPin,          \* no PIN is set
    Rp,             \* relying parties
    NoRp,           \* a token that is not bound to a relying party
    NoToken,        \* no pinUvAuthToken was issued
    DefaultRetries  \* DEFAULT_RETRIES

ASSUME ConstantsAssumption ==
    /\ NoPin \notin Pin
    /\ NoRp \notin Rp
    /\ DefaultRetries \in Nat \ {0}

VARIABLES
    pinState,   \* PIN hash and retries in RAM
    pinFlash,   \* PIN hash and retries a power-up would read
    agreement,  \* agreement_private is present
    token,      \* the active token
    guesses,    \* history: wrong proofs of each PIN answered since it was
                \* last set or proven
    faulted     \* history: a flush returned an error since power-up

pinVars == <<pinState, pinFlash, agreement, token, guesses, faulted>>

Permission == {"mc", "ga", "cm"}

PinRecord == [hash : Pin \cup {NoPin}, retries : 0 .. DefaultRetries]

(* pin and served are history: the PIN proven for the token, and the       *)
(* relying parties it authorised mc or ga for.  used counts the operations *)
(* with user presence that succeeded with it.                              *)
Token ==
    [perms : SUBSET Permission, rp : Rp \cup {NoRp},
     pin : Pin, served : SUBSET Rp, used : Nat]

Fresh(p) == [hash |-> p, retries |-> DefaultRetries]

(* How a flush ends.  landed: the new record is what a power-up reads.  A  *)
(* power loss before it lands is PinPowerLoss: only RAM has changed.       *)
Flush ==
    {f \in [landed : BOOLEAN, end : {"ok", "error", "crash"}] :
        f.end # "error" => f.landed}

PinInit ==
    /\ pinState = Fresh(NoPin)
    /\ pinFlash = Fresh(NoPin)
    /\ agreement = FALSE
    /\ token = NoToken
    /\ guesses = [p \in Pin |-> 0]
    /\ faulted = FALSE

(***************************************************************************)
(* The state after a flush of the PIN state s that ends as f, when the     *)
(* handler leaves token t and key agreement a behind.  A power loss        *)
(* re-reads the flash and forgets the session.                             *)
(***************************************************************************)
Durable(f, s) == IF f.landed THEN s ELSE pinFlash

AfterFlush(f, s, t, a) ==
    /\ pinFlash' = Durable(f, s)
    /\ IF f.end = "crash"
       THEN pinState' = Durable(f, s) /\ token' = NoToken /\ agreement' = FALSE
       ELSE pinState' = s /\ token' = t /\ agreement' = a
    /\ faulted' = (f.end # "crash" /\ (faulted \/ f.end = "error"))

(* What a flush that belongs to a credential operation does to the PIN     *)
(* state: the whole database is written, the PIN state with it.            *)
FlushUnchanged(f, t) == AfterFlush(f, pinState, t, agreement)

PinPowerLoss ==
    /\ pinState' = pinFlash
    /\ token' = NoToken
    /\ agreement' = FALSE
    /\ faulted' = FALSE
    /\ UNCHANGED <<pinFlash, guesses>>

(***************************************************************************)
(* The subcommands.                                                        *)
(***************************************************************************)

GetKeyAgreement ==
    /\ agreement' = TRUE
    /\ UNCHANGED <<pinState, pinFlash, token, guesses, faulted>>

(* set_pin: the first PIN only. *)
SetPin(p, f) ==
    /\ pinState.hash = NoPin
    /\ agreement
    /\ AfterFlush(f, Fresh(p), token, agreement)
    /\ guesses' = [guesses EXCEPT ![p] = 0]

MayProve == pinState.hash # NoPin /\ pinState.retries > 0 /\ agreement

Charged == [pinState EXCEPT !.retries = @ - 1]

Answered(f) ==
    guesses' = IF f.end = "ok" THEN [guesses EXCEPT ![pinState.hash] = @ + 1] ELSE guesses

(* Faulty: the wrong guess is charged in RAM only. *)
ChargeInRam(f) ==
    /\ MayProve
    /\ pinState' = Charged
    /\ Answered(f)
    /\ UNCHANGED <<pinFlash, agreement, token, faulted>>

(* get_pin_token with a wrong PIN: the charge is stored before the answer. *)
WrongPin(f) ==
    /\ MayProve
    /\ AfterFlush(f, Charged, token, agreement)
    /\ Answered(f)

(* change_pin with a wrong current PIN drops token and key agreement too,  *)
(* unless the charge could not be stored.                                  *)
WrongCurrentPin(f) ==
    /\ MayProve
    /\ IF f.end = "ok"
       THEN AfterFlush(f, Charged, NoToken, FALSE)
       ELSE AfterFlush(f, Charged, token, agreement)
    /\ Answered(f)

Issued(perms, rp) ==
    [perms |-> perms, rp |-> rp, pin |-> pinState.hash, served |-> {}, used |-> 0]

(* get_pin_token with the right PIN: the budget is refilled and stored     *)
(* before the token is drawn.                                              *)
GetPinToken(perms, rp, f) ==
    /\ MayProve
    /\ perms # {}
    /\ AfterFlush(f, Fresh(pinState.hash),
                  IF f.end = "ok" THEN Issued(perms, rp) ELSE token, agreement)
    /\ guesses' = [guesses EXCEPT ![pinState.hash] = 0]

(* change_pin with the right current PIN.  It flushes twice, set_pin_hash  *)
(* and set_pin_retries, and both flushes write the same PIN state: an      *)
(* error or a power loss at the second one leaves what one at the first    *)
(* one leaves when its record landed.  Only the end of the function        *)
(* invalidates the token.                                                  *)
ChangePin(p, f) ==
    /\ MayProve
    /\ AfterFlush(f, Fresh(p), IF f.end = "ok" THEN NoToken ELSE token, agreement)
    /\ guesses' = [guesses EXCEPT ![pinState.hash] = 0, ![p] = 0]

(***************************************************************************)
(* Using the token.                                                        *)
(***************************************************************************)

(* authorize for mc and ga, with a pinUvAuthParam of the active token. *)
TokenAuthorizes(perm, rp) ==
    /\ token # NoToken
    /\ perm \in token.perms
    /\ token.rp \in {NoRp, rp}

(* bind_rp_id *)
BoundToken(rp) == [token EXCEPT !.rp = rp, !.served = @ \cup {rp}]

(* Faulty: the permissions survive the operation. *)
ReusableToken(t) == [t EXCEPT !.rp = NoRp, !.used = @ + 1]

(* close_user_presence_operation, token used and operation succeeded. *)
SpentToken(t) == [t EXCEPT !.perms = {}, !.rp = NoRp, !.used = @ + 1]

(* makeCredential or getAssertion with a token, up to the flush of the     *)
(* credential database.                                                    *)
TokenOperation(perm, rp, f) ==
    /\ TokenAuthorizes(perm, rp)
    /\ FlushUnchanged(f, IF f.end = "ok" THEN SpentToken(BoundToken(rp)) ELSE BoundToken(rp))
    /\ UNCHANGED guesses

(* The same, when it ends before the flush: no user presence, no matching  *)
(* credential, an excluded credential.  The token stays bound.             *)
TokenOperationRefused(perm, rp) ==
    /\ TokenAuthorizes(perm, rp)
    /\ token' = BoundToken(rp)
    /\ UNCHANGED <<pinState, pinFlash, agreement, guesses, faulted>>

(* Any other operation that writes the credential database. *)
OtherFlush(f) ==
    /\ FlushUnchanged(f, token)
    /\ UNCHANGED guesses

(* authenticator::reset: clear() flushes the database, a failure ignored;  *)
(* clear_pin_state() flushes it again and must succeed for the token to be *)
(* invalidated.                                                            *)
PinReset(f, g) ==
    /\ f.end = "crash" => g = f
    /\ IF f.end = "crash"
       THEN AfterFlush(f, pinState, token, agreement)
       ELSE /\ pinFlash' = IF g.landed THEN Fresh(NoPin) ELSE Durable(f, pinState)
            /\ pinState' = IF g.end = "crash" THEN pinFlash' ELSE Fresh(NoPin)
            /\ token' = IF g.end = "error" THEN token ELSE NoToken
            /\ agreement' = (agreement /\ g.end # "crash")
            /\ faulted' = (g.end # "crash" /\ (faulted \/ "error" \in {f.end, g.end}))
    /\ UNCHANGED guesses

PinNext ==
    \/ GetKeyAgreement
    \/ PinPowerLoss
    \/ \E f \in Flush : OtherFlush(f) \/ WrongPin(f) \/ WrongCurrentPin(f)
    \/ \E f \in Flush, p \in Pin : SetPin(p, f) \/ ChangePin(p, f)
    \/ \E f, g \in Flush : PinReset(f, g)
    \/ \E perm \in {"mc", "ga"}, rp \in Rp :
          TokenOperationRefused(perm, rp) \/ \E f \in Flush : TokenOperation(perm, rp, f)
    \/ \E perms \in SUBSET Permission, rp \in Rp \cup {NoRp}, f \in Flush :
          GetPinToken(perms, rp, f)

PinSpec == PinInit /\ [][PinNext]_pinVars

-----------------------------------------------------------------------------
(***************************************************************************)
(* Properties.                                                             *)
(***************************************************************************)

(* PIN state, token and history are of their kinds; in particular a retry  *)
(* count is never negative nor above the budget, and no PIN sees more      *)
(* answered wrong guesses than the budget.                                 *)
PinTypeOK ==
    /\ pinState \in PinRecord
    /\ pinFlash \in PinRecord
    /\ agreement \in BOOLEAN
    /\ token \in Token \cup {NoToken}
    /\ guesses \in [Pin -> 0 .. DefaultRetries]
    /\ faulted \in BOOLEAN

WithinBudget(s) == s.hash # NoPin => guesses[s.hash] + s.retries <= DefaultRetries

(* Every wrong guess that was answered stays charged: whatever flushes     *)
(* fail and whenever power is lost, the guesses already answered and the   *)
(* retries a power-up would grant never exceed the budget together         *)
(* (get_pin_token and change_pin store the charge before they answer).     *)
WrongGuessesAreCharged ==
    WithinBudget(pinState) /\ WithinBudget(pinFlash)

(* Unless a flush has failed since power-up, the active token was issued   *)
(* for the PIN that is set now: a rotation or a reset leaves no token of   *)
(* an earlier PIN.                                                         *)
TokenOfCurrentPin ==
    (~faulted /\ token # NoToken) => token.pin = pinState.hash

(* All the operations a token ever authorises are for one relying party,   *)
(* and at most one of them that tests user presence succeeds.              *)
TokenIsScoped ==
    token # NoToken =>
        /\ \A r, s \in token.served : r = s
        /\ token.used <= 1

(* What makes TokenIsScoped inductive: a token that still has permissions  *)
(* is unspent, and has served nobody but the party it is bound to.         *)
LiveTokenIsUnspent ==
    (token # NoToken /\ token.perms # {}) =>
        token.used = 0 /\ token.served \subseteq {token.rp}

PinInv ==
    /\ PinTypeOK
    /\ WrongGuessesAreCharged
    /\ TokenOfCurrentPin
    /\ TokenIsScoped
    /\ LiveTokenIsUnspent
=============================================================================

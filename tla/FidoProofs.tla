----------------------------- MODULE FidoProofs -----------------------------
(***************************************************************************)
(* Proofs about the authenticator, for every set of PINs, relying parties  *)
(* and channels and every bound: first of the clientPIN protocol           *)
(* (ClientPin), then of the composed authenticator with its credential     *)
(* management.  The composition implements the protocol, so what is proved *)
(* of ClientPin holds of it; and its database keeps what it answered for.  *)
(***************************************************************************)
EXTENDS FidoManagement, TLAPS

USE ConstantsAssumption

Guesses == [Pin -> 0 .. DefaultRetries]

(* The PIN state s is within the budget, when g are the guesses answered.  *)
Budget(s, g) == s.hash # NoPin => g[s.hash] + s.retries <= DefaultRetries

(* What PinInv says of a token in use. *)
Scoped(t) ==
    /\ \A r, s \in t.served : r = s
    /\ t.used <= 1
    /\ t.perms # {} => t.used = 0 /\ t.served \subseteq {t.rp}

(* PinInv in terms of Budget and Scoped. *)
LEMMA PinInvParts ==
    PinInv <=> /\ PinTypeOK
               /\ Budget(pinState, guesses) /\ Budget(pinFlash, guesses)
               /\ (~faulted /\ token # NoToken) => token.pin = pinState.hash
               /\ token # NoToken => Scoped(token)
BY Zenon DEF PinInv, WrongGuessesAreCharged, WithinBudget, TokenOfCurrentPin, TokenIsScoped,
       LiveTokenIsUnspent, Budget, Scoped

(* The same of the next state. *)
LEMMA PinInvPartsNext ==
    PinInv' <=> /\ PinTypeOK'
                /\ Budget(pinState', guesses') /\ Budget(pinFlash', guesses')
                /\ (~faulted' /\ token' # NoToken) => token'.pin = pinState'.hash
                /\ token' # NoToken => Scoped(token')
BY Zenon DEF PinInv, WrongGuessesAreCharged, WithinBudget, TokenOfCurrentPin, TokenIsScoped,
       LiveTokenIsUnspent, Budget, Scoped

(* However the flush of the PIN state s ends, the invariant holds again if *)
(* s and, where s may not have landed, the old record are within budget,   *)
(* and the token left behind is scoped and of the PIN of s.                *)
LEMMA AfterFlushKeeps ==
    ASSUME PinInv, NEW f \in Flush, NEW s \in PinRecord,
           NEW t \in Token \cup {NoToken}, NEW a \in BOOLEAN,
           guesses' \in Guesses,
           Budget(s, guesses'),
           ~f.landed => Budget(pinFlash, guesses'),
           (f.end = "ok" /\ ~faulted /\ t # NoToken) => t.pin = s.hash,
           t # NoToken => Scoped(t),
           AfterFlush(f, s, t, a)
    PROVE  PinInv'
<1>1. /\ f.landed \in BOOLEAN /\ f.end \in {"ok", "error", "crash"}
  BY Zenon DEF Flush
<1>2. pinFlash \in PinRecord /\ faulted \in BOOLEAN
  BY Zenon DEF PinInv, PinTypeOK
<1>3. Durable(f, s) \in PinRecord /\ Budget(Durable(f, s), guesses')
  BY <1>1, <1>2, Zenon DEF Durable
<1>4. pinFlash' = Durable(f, s) /\ faulted' \in BOOLEAN
  BY Zenon DEF AfterFlush
<1>5. CASE f.end = "crash"
  <2>1. pinState' = Durable(f, s) /\ token' = NoToken /\ agreement' = FALSE
    BY <1>5, Zenon DEF AfterFlush
  <2>2. PinTypeOK'
    BY <1>3, <1>4, <2>1, Zenon DEF PinTypeOK, Guesses
  <2> QED BY <1>3, <1>4, <2>1, <2>2, PinInvPartsNext, Zenon
<1>6. CASE f.end # "crash"
  <2>1. pinState' = s /\ token' = t /\ agreement' = a
    BY <1>6, Zenon DEF AfterFlush
  <2>2. faulted' = (faulted \/ f.end = "error")
    BY <1>6, Zenon DEF AfterFlush
  <2>3. PinTypeOK'
    BY <1>3, <1>4, <2>1, Zenon DEF PinTypeOK, Guesses
  <2>4. (~faulted' /\ token' # NoToken) => token'.pin = pinState'.hash
    BY <1>1, <1>6, <2>1, <2>2, Zenon
  <2> QED BY <1>3, <1>4, <2>1, <2>3, <2>4, PinInvPartsNext, Zenon
<1> QED BY <1>5, <1>6, Zenon

(* A PIN state with a full budget, once the guesses against it are zero. *)
LEMMA FreshKeeps ==
    ASSUME NEW p \in Pin, NEW g \in Guesses, g[p] = 0
    PROVE  Fresh(p) \in PinRecord /\ Fresh(p).hash = p /\ Budget(Fresh(p), g)
BY DEF Fresh, PinRecord, Guesses, Budget

(* Forgetting guesses never takes a PIN state out of its budget. *)
LEMMA FewerGuesses ==
    ASSUME NEW s \in PinRecord, NEW g \in Guesses, NEW h \in Guesses,
           \A p \in Pin : h[p] <= g[p], Budget(s, g)
    PROVE  Budget(s, h)
<1>1. CASE s.hash = NoPin
  BY <1>1, Zenon DEF Budget
<1>2. CASE s.hash # NoPin
  <2>1. s.hash \in Pin /\ s.retries \in 0 .. DefaultRetries
    BY <1>2, Zenon DEF PinRecord
  <2>2. /\ h[s.hash] \in 0 .. DefaultRetries /\ g[s.hash] \in 0 .. DefaultRetries
        /\ h[s.hash] <= g[s.hash]
    BY <2>1, Zenon DEF Guesses
  <2> QED BY <1>2, <2>1, <2>2 DEF Budget
<1> QED BY <1>1, <1>2, Zenon

(* The first use of a token binds it, a spent one has no permissions: both *)
(* stay scoped.                                                            *)
LEMMA TokenUse ==
    ASSUME PinInv, NEW perm \in {"mc", "ga"}, NEW rp \in Rp, TokenAuthorizes(perm, rp)
    PROVE  LET b == BoundToken(rp)
           IN  /\ b \in Token /\ Scoped(b) /\ b.pin = token.pin
               /\ SpentToken(b) \in Token /\ Scoped(SpentToken(b))
               /\ SpentToken(b).pin = token.pin
<1> DEFINE b == BoundToken(rp)
           c == SpentToken(b)
<1>1. token \in Token /\ token.perms # {} /\ token.rp \in {NoRp, rp}
  BY Zenon DEF TokenAuthorizes, PinInv, PinTypeOK
<1>2. /\ token.used = 0 /\ token.served \subseteq {token.rp}
      /\ token.served \in SUBSET Rp
  BY <1>1, Zenon DEF TokenAuthorizes, PinInv, LiveTokenIsUnspent, Token
<1>3. token.served \subseteq {rp}
  BY <1>1, <1>2, Zenon
<1>4. /\ b \in Token /\ b.rp = rp /\ b.used = 0 /\ b.pin = token.pin
      /\ b.served = token.served \cup {rp}
  BY <1>1, <1>2, Zenon DEF BoundToken, Token
<1>5. Scoped(b)
  BY <1>3, <1>4 DEF Scoped
<1> HIDE DEF b
<1>6. /\ c \in Token /\ c.perms = {} /\ c.used = 1 /\ c.pin = b.pin
      /\ c.served = b.served
  <2>1. /\ c.perms = {} /\ c.pin = b.pin /\ c.served = b.served
    BY <1>4, Zenon DEF SpentToken, Token
  <2>2. c.used = b.used + 1
    BY <1>4, Zenon DEF SpentToken, Token
  <2>3. c \in Token
    <3> DEFINE d == [b EXCEPT !.perms = {}, !.rp = NoRp]
    <3>1. d \in Token /\ d.used = 0
      BY <1>4, Zenon DEF Token
    <3>2. c = [d EXCEPT !.used = d.used + 1]
      BY Zenon DEF SpentToken
    <3> HIDE DEF c, d
    <3> QED BY <3>1, <3>2 DEF Token
  <2> QED BY <1>4, <2>1, <2>2, <2>3
<1> HIDE DEF c
<1>7. Scoped(c)
  BY <1>3, <1>4, <1>6 DEF Scoped
<1> QED BY <1>4, <1>5, <1>6, <1>7, Zenon DEF b, c

(* Every step of the clientPIN machine keeps PinInv. *)
LEMMA InductiveStep ==
    ASSUME PinInv, [PinNext]_pinVars
    PROVE  PinInv'
<1>1. /\ pinState \in PinRecord /\ pinFlash \in PinRecord /\ agreement \in BOOLEAN
      /\ token \in Token \cup {NoToken} /\ guesses \in Guesses /\ faulted \in BOOLEAN
      /\ Budget(pinState, guesses) /\ Budget(pinFlash, guesses)
      /\ (~faulted /\ token # NoToken) => token.pin = pinState.hash
      /\ token # NoToken => Scoped(token)
  BY PinInvParts, Zenon DEF PinTypeOK, Guesses
<1>2. CASE GetKeyAgreement
  BY <1>1, <1>2, PinInvPartsNext, Zenon DEF GetKeyAgreement, PinTypeOK, Guesses
<1>3. CASE PinPowerLoss
  BY <1>1, <1>3, PinInvPartsNext, Zenon DEF PinPowerLoss, PinTypeOK, Guesses
<1>4. ASSUME NEW f \in Flush, NEW p \in Pin, SetPin(p, f)
      PROVE  PinInv'
  <2>1. /\ guesses' \in Guesses /\ guesses'[p] = 0
        /\ \A q \in Pin : guesses'[q] <= guesses[q]
    BY <1>1, <1>4 DEF SetPin, Guesses
  <2>2. Budget(pinFlash, guesses')
    BY <1>1, <2>1, FewerGuesses, Zenon
  <2>3. (f.end = "ok" /\ ~faulted /\ token # NoToken) => token.pin = Fresh(p).hash
    BY <1>1, <1>4, Zenon DEF SetPin, Token
  <2>4. Fresh(p) \in PinRecord /\ Budget(Fresh(p), guesses')
    BY <2>1, FreshKeeps, Zenon
  <2>5. AfterFlush(f, Fresh(p), token, agreement)
    BY <1>4, Zenon DEF SetPin
  <2> QED BY <1>1, <2>1, <2>2, <2>3, <2>4, <2>5, AfterFlushKeeps, Zenon
<1>5. ASSUME NEW f \in Flush, NEW p \in Pin, ChangePin(p, f)
      PROVE  PinInv'
  <2>1. pinState.hash \in Pin
    BY <1>1, <1>5, Zenon DEF ChangePin, MayProve, PinRecord
  <2>2. /\ guesses' \in Guesses /\ guesses'[p] = 0
        /\ \A q \in Pin : guesses'[q] <= guesses[q]
    BY <1>1, <1>5, <2>1 DEF ChangePin, Guesses
  <2>3. Budget(pinFlash, guesses')
    BY <1>1, <2>2, FewerGuesses, Zenon
  <2> DEFINE t == IF f.end = "ok" THEN NoToken ELSE token
  <2>4. Fresh(p) \in PinRecord /\ Budget(Fresh(p), guesses')
    BY <2>2, FreshKeeps, Zenon
  <2>5. AfterFlush(f, Fresh(p), t, agreement)
    BY <1>5, Zenon DEF ChangePin
  <2>6. /\ t \in Token \cup {NoToken}
        /\ t # NoToken => Scoped(t) /\ f.end # "ok"
    BY <1>1, Zenon
  <2> HIDE DEF t
  <2> QED BY <1>1, <2>2, <2>3, <2>4, <2>5, <2>6, AfterFlushKeeps, Zenon
<1>6. ASSUME MayProve
      PROVE  /\ pinState.hash \in Pin
             /\ Charged \in PinRecord /\ Charged.hash = pinState.hash
             /\ Budget(Charged, guesses)
             /\ Charged.retries = pinState.retries - 1
             /\ guesses[pinState.hash] + 1 \in 0 .. DefaultRetries
  <2>1. /\ pinState.hash \in Pin /\ pinState.retries \in 1 .. DefaultRetries
        /\ guesses[pinState.hash] \in 0 .. DefaultRetries
        /\ guesses[pinState.hash] + pinState.retries <= DefaultRetries
    BY <1>1, <1>6 DEF MayProve, PinRecord, Guesses, Budget
  <2>2. /\ Charged \in PinRecord /\ Charged.hash = pinState.hash
        /\ Charged.retries = pinState.retries - 1
    BY <1>1, <2>1 DEF Charged, PinRecord
  <2> QED BY <2>1, <2>2 DEF Budget
<1>7. ASSUME NEW f \in Flush, MayProve, Answered(f)
      PROVE  /\ guesses' \in Guesses /\ Budget(Charged, guesses')
             /\ ~f.landed => guesses' = guesses
  <2>1. CASE f.end = "ok"
    <3>1. f.landed
      BY <2>1, Zenon DEF Flush
    <3>2. guesses' \in Guesses
      BY <1>1, <1>6, <1>7, <2>1, Zenon DEF Answered, Guesses
    <3>3. guesses'[Charged.hash] = guesses[Charged.hash] + 1
      BY <1>1, <1>6, <1>7, <2>1, Zenon DEF Answered, Guesses
    <3>4. guesses[pinState.hash] + pinState.retries <= DefaultRetries
      BY <1>1, <1>7, Zenon DEF Budget, MayProve
    <3>5. guesses[pinState.hash] \in Int /\ pinState.retries \in Int
      BY <1>1, <1>6, <1>7 DEF Guesses, PinRecord
    <3>6. guesses'[Charged.hash] + Charged.retries <= DefaultRetries
      BY <1>6, <1>7, <3>3, <3>4, <3>5
    <3> QED BY <3>1, <3>2, <3>6, Zenon DEF Budget
  <2>2. CASE f.end # "ok"
    BY <1>1, <1>6, <1>7, <2>2, Zenon DEF Answered
  <2> QED BY <2>1, <2>2, Zenon
<1>8. ASSUME NEW f \in Flush, WrongPin(f)
      PROVE  PinInv'
  BY <1>1, <1>6, <1>7, <1>8, AfterFlushKeeps, Zenon DEF WrongPin
<1>9. ASSUME NEW f \in Flush, WrongCurrentPin(f)
      PROVE  PinInv'
  <2>1. CASE f.end = "ok"
    BY <1>1, <1>6, <1>7, <1>9, <2>1, AfterFlushKeeps, Zenon DEF WrongCurrentPin
  <2>2. CASE f.end # "ok"
    BY <1>1, <1>6, <1>7, <1>9, <2>2, AfterFlushKeeps, Zenon DEF WrongCurrentPin
  <2> QED BY <2>1, <2>2, Zenon
<1>10. ASSUME NEW f \in Flush, NEW perms \in SUBSET Permission, NEW rp \in Rp \cup {NoRp},
              GetPinToken(perms, rp, f)
       PROVE  PinInv'
  <2> DEFINE t == IF f.end = "ok" THEN Issued(perms, rp) ELSE token
  <2>1. pinState.hash \in Pin
    BY <1>1, <1>10, Zenon DEF GetPinToken, MayProve, PinRecord
  <2>2. /\ guesses' \in Guesses /\ guesses'[pinState.hash] = 0
        /\ \A q \in Pin : guesses'[q] <= guesses[q]
    BY <1>1, <1>10, <2>1 DEF GetPinToken, Guesses
  <2>3. Budget(pinFlash, guesses')
    BY <1>1, <2>2, FewerGuesses, Zenon
  <2>4. /\ Issued(perms, rp) \in Token /\ Scoped(Issued(perms, rp))
        /\ Issued(perms, rp).pin = pinState.hash
    BY <2>1 DEF Issued, Token, Scoped
  <2>5. AfterFlush(f, Fresh(pinState.hash), t, agreement)
    BY <1>10, Zenon DEF GetPinToken
  <2>6. /\ t \in Token \cup {NoToken}
        /\ t # NoToken => Scoped(t)
    BY <1>1, <2>4, Zenon
  <2>7. f.end = "ok" => t.pin = pinState.hash
    BY <2>4, Zenon
  <2> HIDE DEF t
  <2> QED BY <1>1, <2>1, <2>2, <2>3, <2>5, <2>6, <2>7, FreshKeeps, AfterFlushKeeps, Zenon
<1>11. ASSUME NEW f \in Flush, NEW perm \in {"mc", "ga"}, NEW rp \in Rp,
              TokenOperation(perm, rp, f)
       PROVE  PinInv'
  <2> DEFINE t == IF f.end = "ok" THEN SpentToken(BoundToken(rp)) ELSE BoundToken(rp)
  <2>1. TokenAuthorizes(perm, rp) /\ token # NoToken
    BY <1>11, Zenon DEF TokenOperation, TokenAuthorizes
  <2>2. t \in Token /\ Scoped(t) /\ t.pin = token.pin
    BY <2>1, TokenUse, Zenon
  <2>3. AfterFlush(f, pinState, t, agreement) /\ guesses' = guesses
    BY <1>11, Zenon DEF TokenOperation, FlushUnchanged
  <2> HIDE DEF t
  <2> QED BY <1>1, <2>1, <2>2, <2>3, AfterFlushKeeps, Zenon
<1>12. ASSUME NEW f \in Flush, OtherFlush(f)
       PROVE  PinInv'
  BY <1>1, <1>12, AfterFlushKeeps, Zenon DEF OtherFlush, FlushUnchanged
<1>13. ASSUME NEW f \in Flush, NEW g \in Flush, PinReset(f, g)
       PROVE  PinInv'
  <2>1. guesses' = guesses
    BY <1>13, Zenon DEF PinReset
  <2>2. CASE f.end = "crash"
    BY <1>1, <1>13, <2>1, <2>2, AfterFlushKeeps, Zenon DEF PinReset
  <2>3. CASE f.end # "crash"
    <3>1. /\ Fresh(NoPin) \in PinRecord /\ Budget(Fresh(NoPin), guesses)
          /\ Durable(f, pinState) \in PinRecord /\ Budget(Durable(f, pinState), guesses)
      BY <1>1 DEF Fresh, PinRecord, Budget, Durable
    <3>2. /\ pinFlash' = IF g.landed THEN Fresh(NoPin) ELSE Durable(f, pinState)
          /\ pinState' = IF g.end = "crash" THEN pinFlash' ELSE Fresh(NoPin)
          /\ token' = IF g.end = "error" THEN token ELSE NoToken
          /\ agreement' \in BOOLEAN
          /\ faulted' = (g.end # "crash" /\ (faulted \/ "error" \in {f.end, g.end}))
      BY <1>13, <2>3, Zenon DEF PinReset
    <3>3. /\ pinFlash' \in PinRecord /\ Budget(pinFlash', guesses)
          /\ pinState' \in PinRecord /\ Budget(pinState', guesses)
      BY <3>1, <3>2, Zenon
    <3>4. token' # NoToken => faulted' /\ token' = token
      BY <3>2, Zenon
    <3>5. faulted' \in BOOLEAN /\ token' \in Token \cup {NoToken}
      BY <1>1, <3>2, Zenon
    <3>6. PinTypeOK'
      BY <1>1, <2>1, <3>2, <3>3, <3>5, Zenon DEF PinTypeOK, Guesses
    <3> QED BY <1>1, <2>1, <3>3, <3>4, <3>6, PinInvPartsNext, Zenon
  <2> QED BY <2>2, <2>3, Zenon
<1>14. ASSUME NEW perm \in {"mc", "ga"}, NEW rp \in Rp, TokenOperationRefused(perm, rp)
       PROVE  PinInv'
  <2>1. TokenAuthorizes(perm, rp) /\ token # NoToken /\ token' = BoundToken(rp)
    BY <1>14, Zenon DEF TokenOperationRefused, TokenAuthorizes
  <2>2. token' \in Token /\ Scoped(token') /\ token'.pin = token.pin
    BY <2>1, TokenUse, Zenon
  <2>3. UNCHANGED <<pinState, pinFlash, agreement, guesses, faulted>>
    BY <1>14, Zenon DEF TokenOperationRefused
  <2>4. PinTypeOK'
    BY <1>1, <2>2, <2>3, Zenon DEF PinTypeOK, Guesses
  <2> QED BY <1>1, <2>1, <2>2, <2>3, <2>4, PinInvPartsNext, Zenon
<1>15. CASE UNCHANGED pinVars
  BY <1>1, <1>15, PinInvPartsNext, Zenon DEF pinVars, PinTypeOK, Guesses
<1> QED BY <1>2, <1>3, <1>4, <1>5, <1>8, <1>9, <1>10, <1>11, <1>12, <1>13, <1>14, <1>15, Zenon
        DEF PinNext

(* Types, budget, and scope and owner of the token hold in every reachable *)
(* state, however flushes fail and whenever power is lost.                 *)
THEOREM Invariance == PinSpec => []PinInv
<1>1. PinInit => PinInv
  <2> SUFFICES ASSUME PinInit PROVE PinInv
    BY Zenon
  <2>1. Fresh(NoPin) \in PinRecord /\ Fresh(NoPin).hash = NoPin
    BY DEF Fresh, PinRecord
  <2>2. PinTypeOK
    <3>1. guesses \in [Pin -> 0 .. DefaultRetries]
      BY DEF PinInit
    <3> QED BY <2>1, <3>1, Zenon DEF PinInit, PinTypeOK
  <2> QED BY <2>1, <2>2, PinInvParts, Zenon DEF PinInit, Budget
<1>2. PinInv /\ [PinNext]_pinVars => PinInv'
  BY InductiveStep, Zenon
<1> QED BY <1>1, <1>2, PTL DEF PinSpec

(* get_pin_token and change_pin store the charge before they answer: the   *)
(* wrong guesses answered and the retries a power-up would grant stay      *)
(* within the budget together.                                             *)
THEOREM GuessesCharged == PinSpec => []WrongGuessesAreCharged
<1>1. PinInv => WrongGuessesAreCharged
  BY Zenon DEF PinInv
<1> QED BY <1>1, Invariance, PTL

(* bind_rp_id and close_user_presence_operation: a token serves one        *)
(* relying party, and one operation that tests user presence.              *)
THEOREM TokenScope == PinSpec => []TokenIsScoped
<1>1. PinInv => TokenIsScoped
  BY Zenon DEF PinInv
<1> QED BY <1>1, Invariance, PTL

(* Until a flush fails, change_pin and reset leave no token of an earlier  *)
(* PIN.                                                                    *)
THEOREM TokenOwner == PinSpec => []TokenOfCurrentPin
<1>1. PinInv => TokenOfCurrentPin
  BY Zenon DEF PinInv
<1> QED BY <1>1, Invariance, PTL

-----------------------------------------------------------------------------
(***************************************************************************)
(* The composed authenticator.                                             *)
(***************************************************************************)

(* A request that writes the database is one step of ClientPin, with the   *)
(* same flush: the PIN state is part of every record that is flushed.      *)
LEMMA WritingIsPinStep ==
    ASSUME NEW f \in Flush, Writing(f)
    PROVE  PinNext
<1>1. CASE PinRequest(f)
  <2>1. ASSUME NEW perms \in Grants, NEW rp \in Rp \cup {NoRp}, GetPinToken(perms, rp, f)
        PROVE  PinNext
    BY <2>1, SessionAssumption, Zenon DEF PinNext
  <2> QED BY <1>1, <2>1, Zenon DEF PinRequest, PinNext
<1>2. ASSUME OtherFlush(f) PROVE PinNext
  BY <1>2, Zenon DEF PinNext
<1>3. ASSUME NEW perm \in {"mc", "ga"}, NEW rp \in Rp, NEW withToken,
             FlushAuthorized(perm, rp, withToken, f)
      PROVE  PinNext
  BY <1>2, <1>3, Zenon DEF FlushAuthorized, PinNext
<1>4. ASSUME NEW rp \in Rp, NEW rk, NEW withToken, MakeCredential(rp, rk, withToken, f)
      PROVE  PinNext
  BY <1>3, <1>4, Zenon DEF MakeCredential
<1>5. ASSUME NEW rp \in Rp, NEW ch, NEW candidates, NEW withToken,
             GetAssertion(rp, ch, candidates, withToken, f)
      PROVE  PinNext
  BY <1>3, <1>5, Zenon DEF GetAssertion
<1>6. ASSUME NEW ch, GetNextAssertion(ch, f) PROVE PinNext
  BY <1>2, <1>6, Zenon DEF GetNextAssertion
<1>7. ASSUME NEW id, U2fAuthenticate(id, f) \/ DeleteCredential(id, f) PROVE PinNext
  BY <1>2, <1>7, Zenon DEF U2fAuthenticate, DeleteCredential
<1>8. ASSUME NEW e \in Flush, Reset(e, f) PROVE PinNext
  BY <1>8, Zenon DEF Reset, PinNext
<1> QED BY <1>1, <1>4, <1>5, <1>6, <1>7, <1>8, Zenon DEF Writing

(* Every step of the authenticator is a step of ClientPin or leaves the    *)
(* PIN state alone.                                                        *)
LEMMA StepIsPinStep == [ManagementNext]_managementVars => [PinNext]_pinVars
<1> SUFFICES ASSUME [ManagementNext]_managementVars PROVE [PinNext]_pinVars
  BY Zenon
<1>1. CASE \E f \in Flush : Writing(f)
  BY <1>1, WritingIsPinStep, Zenon
<1>2. CASE Reading
  <2>1. CASE KeyAgreement
    BY <2>1, Zenon DEF KeyAgreement, PinNext
  <2>2. CASE Refused
    BY <2>2, Zenon DEF Refused, PinNext
  <2>3. CASE \E ch \in Channel : GetNextDeleted(ch)
    BY <2>3, Zenon DEF GetNextDeleted
  <2> QED BY <1>2, <2>1, <2>2, <2>3, Zenon DEF Reading
<1>3. CASE PowerLoss
  BY <1>3, Zenon DEF PowerLoss, PinNext
<1>4. CASE UNCHANGED vars
  BY <1>4, Zenon DEF vars
<1>5. CASE EnumerateRps \/ EnumerateRpsNext \/ EnumerateCredentialsNext
  BY <1>4, <1>5, Zenon DEF EnumerateRps, EnumerateRpsNext, EnumerateCredentialsNext, Enumerate
<1>6. CASE \E rp \in Rp : EnumerateCredentials(rp)
  BY <1>4, <1>6, Zenon DEF EnumerateCredentials, Enumerate
<1>7. CASE UNCHANGED managementVars
  BY <1>4, <1>7, Zenon DEF managementVars
<1> QED BY <1>1, <1>2, <1>3, <1>5, <1>6, <1>7, Zenon DEF ManagementNext

(* What authenticator and firmware do to the PIN state is a behaviour of   *)
(* the clientPIN protocol (pin.rs), whatever credential operations come in *)
(* between.                                                                *)
THEOREM PinRefinement == ManagementSpec => ImplementsClientPin
<1>1. ManagementInit => PinInit
  BY Zenon DEF ManagementInit, Init
<1> QED BY <1>1, StepIsPinStep, PTL DEF ManagementSpec, ImplementsClientPin, PinSpec

(* In the composed authenticator too, answered wrong guesses stay charged, *)
(* and a token is scoped and of the current PIN.                           *)
THEOREM PinSafety == ManagementSpec => []PinInv
BY PinRefinement, Invariance, PTL DEF ImplementsClientPin

-----------------------------------------------------------------------------
(***************************************************************************)
(* The credential database.                                                *)
(***************************************************************************)
(* A list of credentials with distinct ids, all drawn so far. *)
Database(c, last) ==
    /\ c \in Seq(Credential)
    /\ Len(c) <= MaxCredentials
    /\ Distinct(c)
    /\ Ids(c) \subseteq 1 .. last

(* The inductive invariant: besides the two properties, ids are drawn in   *)
(* order and each database holds one at most once.                         *)
DbInv ==
    /\ created \in 0 .. MaxCreated
    /\ Database(cache, created)
    /\ Database(cacheFlash, created)
    /\ CreatedIsDurable
    /\ gone \subseteq 1 .. created
    /\ RemovedStaysRemoved

(* add: the new id is above the ones drawn before. *)
LEMMA Appended ==
    ASSUME NEW n \in Nat, NEW c, Database(c, n), Len(c) < MaxCredentials,
           NEW x \in Credential, x.id = n + 1
    PROVE  Database(Append(c, x), n + 1) /\ Ids(Append(c, x)) = Ids(c) \cup {n + 1}
<1> DEFINE d == Append(c, x)
<1>1. /\ d \in Seq(Credential) /\ DOMAIN d = 1 .. (Len(c) + 1) /\ DOMAIN c = 1 .. Len(c)
      /\ \A i \in DOMAIN c : d[i] = c[i]
      /\ d[Len(c) + 1] = x
      /\ Len(c) \in Nat
  BY DEF Database
<1> HIDE DEF d
<1>2. Ids(d) = Ids(c) \cup {n + 1}
  <2>1. /\ Len(c) + 1 \in DOMAIN d /\ \A i \in DOMAIN c : i \in DOMAIN d
        /\ \A i \in DOMAIN d : i \in DOMAIN c \/ i = Len(c) + 1
    BY <1>1
  <2> QED BY <1>1, <2>1, Zenon DEF Ids
<1>3. \A i \in DOMAIN c : c[i].id # n + 1
  <2> SUFFICES ASSUME NEW i \in DOMAIN c PROVE c[i].id # n + 1
    BY Zenon
  <2>1. c[i].id \in Ids(c)
    BY Zenon DEF Ids
  <2> QED BY <2>1 DEF Database
<1>4. Distinct(d)
  BY <1>1, <1>3 DEF Distinct, Database
<1>5. Ids(d) \subseteq 1 .. (n + 1)
  BY <1>2 DEF Database
<1>6. Len(d) <= MaxCredentials
  BY <1>1, SessionAssumption DEF d, Database
<1> QED BY <1>1, <1>2, <1>4, <1>5, <1>6, Zenon DEF Database, d

(* next_sign_count: whichever credential is counted, the ids stay. *)
LEMMA CountedKeeps ==
    ASSUME NEW n \in Nat, NEW c, Database(c, n), NEW id, Get(c, id).count < MaxCount
    PROVE  Database(Counted(c, id), n) /\ Ids(Counted(c, id)) = Ids(c)
<1> DEFINE p == Position(c, id)
           d == Counted(c, id)
<1>1. /\ d = [c EXCEPT ![p].count = @ + 1]
      /\ c \in Seq(Credential) /\ DOMAIN c = 1 .. Len(c) /\ Len(c) \in Nat
      /\ \A i \in DOMAIN c : c[i] \in Credential
      /\ c[p].count < MaxCount
  BY DEF Counted, Database, Get
<1> HIDE DEF p, d
<1>2. DOMAIN d = DOMAIN c
  BY <1>1, Zenon
<1>3. ASSUME NEW i \in DOMAIN c PROVE d[i] \in Credential /\ d[i].id = c[i].id
  <2>1. CASE i = p
    <3>1. d[i] = [c[i] EXCEPT !.count = @ + 1] /\ c[i] \in Credential
      BY <1>1, <1>3, <2>1, Zenon
    <3>2. c[i].count + 1 \in 0 .. MaxCount
      <4>1. c[i].count \in 0 .. MaxCount /\ c[i].count < MaxCount
        BY <1>1, <2>1, <3>1, Zenon DEF Credential
      <4> QED BY <4>1, SessionAssumption
    <3> QED BY <3>1, <3>2, Zenon DEF Credential
  <2>2. CASE i # p
    BY <1>1, <1>3, <2>2, Zenon
  <2> QED BY <2>1, <2>2, Zenon
<1>4. d \in Seq(Credential)
  <2>1. d \in [1 .. Len(c) -> Credential]
    BY <1>1, <1>2, <1>3, Zenon
  <2> QED BY <1>1, <2>1
<1>5. Ids(d) = Ids(c)
  BY <1>2, <1>3, Zenon DEF Ids
<1>6. Distinct(d)
  BY <1>2, <1>3, Zenon DEF Distinct, Database
<1>7. Len(d) = Len(c)
  BY <1>1, <1>2, <1>4
<1> QED BY <1>4, <1>5, <1>6, <1>7, Zenon DEF Database, d

(* swap_remove: exactly the one id is gone. *)
LEMMA RemovedDrops ==
    ASSUME NEW n \in Nat, NEW c, Database(c, n), NEW id \in Ids(c)
    PROVE  Database(Removed(c, id), n) /\ Ids(Removed(c, id)) = Ids(c) \ {id}
<1> DEFINE p == Position(c, id)
           m == Len(c)
           s == [c EXCEPT ![p] = c[Len(c)]]
           d == Removed(c, id)
<1>1. /\ c \in Seq(Credential) /\ DOMAIN c = 1 .. m /\ m \in Nat
      /\ \A i \in DOMAIN c : c[i] \in Credential
      /\ Distinct(c)
  BY DEF Database
<1>2. p \in DOMAIN c /\ c[p].id = id
  BY Zenon DEF Ids, Position
<1> HIDE DEF p
<1>3. s \in Seq(Credential) /\ Len(s) = m
  BY <1>1, <1>2
<1>4. d = SubSeq(s, 1, m - 1)
  BY <1>3, Zenon DEF Removed, p
<1> HIDE DEF d
<1>5. /\ d \in Seq(Credential) /\ DOMAIN d = 1 .. (m - 1)
      /\ \A i \in 1 .. (m - 1) : d[i] = IF i = p THEN c[m] ELSE c[i]
  BY <1>1, <1>2, <1>3, <1>4
<1>6. \A i \in DOMAIN c : i # p => c[i].id # id
  BY <1>1, <1>2, Zenon DEF Distinct
<1>7. Ids(d) \subseteq Ids(c) \ {id}
  <2> SUFFICES ASSUME NEW i \in DOMAIN d PROVE d[i].id \in Ids(c) \ {id}
    BY Zenon DEF Ids
  <2>1. CASE i = p
    BY <1>1, <1>2, <1>5, <1>6, <2>1 DEF Ids
  <2>2. CASE i # p
    BY <1>1, <1>5, <1>6, <2>2 DEF Ids
  <2> QED BY <2>1, <2>2, Zenon
<1>8. Ids(c) \ {id} \subseteq Ids(d)
  <2> SUFFICES ASSUME NEW i \in DOMAIN c, c[i].id # id PROVE c[i].id \in Ids(d)
    BY Zenon DEF Ids
  <2>1. i # p
    BY <1>2, Zenon
  <2>2. CASE i = m
    <3>1. p \in 1 .. (m - 1) /\ d[p] = c[m]
      BY <1>1, <1>2, <1>5, <2>1, <2>2
    <3> QED BY <1>5, <2>2, <3>1, Zenon DEF Ids
  <2>3. CASE i # m
    <3>1. i \in 1 .. (m - 1) /\ d[i] = c[i]
      BY <1>1, <1>5, <2>1, <2>3
    <3> QED BY <1>5, <3>1, Zenon DEF Ids
  <2> QED BY <2>2, <2>3, Zenon
<1>9. Distinct(d)
  <2> DEFINE at(i) == IF i = p THEN m ELSE i
  <2>1. \A i \in 1 .. (m - 1) : at(i) \in DOMAIN c /\ i # m
    <3>1. \A k \in Nat : \A i \in 1 .. (k - 1) : i \in 1 .. k /\ k \in 1 .. k /\ i # k
      OBVIOUS
    <3> QED BY <1>1, <3>1, Zenon
  <2>2. \A i \in DOMAIN d : d[i] = c[at(i)]
    BY <1>5, Zenon
  <2>3. \A i, j \in DOMAIN d : at(i) = at(j) => i = j
    BY <1>5, <2>1, Zenon
  <2> HIDE DEF at
  <2>4. ASSUME NEW i \in DOMAIN d, NEW j \in DOMAIN d, d[i].id = d[j].id PROVE i = j
    <3>1. at(i) \in DOMAIN c /\ at(j) \in DOMAIN c /\ c[at(i)].id = c[at(j)].id
      BY <1>5, <2>1, <2>2, <2>4, Zenon
    <3>2. at(i) = at(j)
      BY <1>1, <3>1, Zenon DEF Distinct
    <3> QED BY <2>3, <3>2, Zenon
  <2> QED BY <2>4, Zenon DEF Distinct
<1>10. Len(d) <= MaxCredentials
  <2>1. m <= MaxCredentials
    BY Zenon DEF Database
  <2>2. m - 1 \in Nat
    BY <1>1, <1>2
  <2>3. Len(d) = m - 1
    BY <1>5, <2>2
  <2> QED BY <2>1, <2>2, <2>3, SessionAssumption
<1> QED BY <1>5, <1>7, <1>8, <1>9, <1>10, Zenon DEF Database, d

(* However the flush of the list c ends, the invariant holds again if it   *)
(* holds of c and, where c may not have landed, of what was in flash.      *)
LEMMA FlushKeeps ==
    ASSUME DbInv, NEW f \in Flush, NEW c, CacheFlush(f, c),
           created' \in 0 .. MaxCreated, created <= created',
           Database(c, created'),
           acked' \subseteq Ids(c), ~f.landed => acked' \subseteq Ids(cacheFlash),
           gone' \subseteq 1 .. created',
           gone' \cap Ids(c) = {}, ~f.landed => gone' \cap Ids(cacheFlash) = {}
    PROVE  DbInv'
<1>1. cacheFlash' \in {c, cacheFlash} /\ cache' \in {c, cacheFlash'}
  BY Zenon DEF CacheFlush
<1>2. cacheFlash' = IF f.landed THEN c ELSE cacheFlash
  BY Zenon DEF CacheFlush
<1>3. Database(cacheFlash, created')
  BY DEF DbInv, Database
<1>4. Database(cache', created') /\ Database(cacheFlash', created')
  BY <1>1, <1>3, Zenon
<1>5. /\ acked' \subseteq Ids(cacheFlash') /\ gone' \cap Ids(cacheFlash') = {}
  BY <1>2, Zenon
<1>6. /\ acked' \subseteq Ids(cache') /\ gone' \cap Ids(cache') = {}
  BY <1>1, <1>5, Zenon
<1> QED BY <1>4, <1>5, <1>6, Zenon
    DEF DbInv, CreatedIsDurable, RemovedStaysRemoved, Database, Distinct, Ids

(* A flush of a list with the ids of the one in RAM. *)
LEMMA SameIdsKeep ==
    ASSUME DbInv, NEW f \in Flush, NEW c, CacheFlush(f, c),
           Database(c, created), Ids(c) = Ids(cache),
           UNCHANGED <<created, acked, gone>>
    PROVE  DbInv'
<1>1. /\ created \in 0 .. MaxCreated /\ created \in Nat
      /\ acked \subseteq Ids(cache) /\ acked \subseteq Ids(cacheFlash)
      /\ gone \subseteq 1 .. created
      /\ gone \cap Ids(cache) = {} /\ gone \cap Ids(cacheFlash) = {}
  BY DEF DbInv, CreatedIsDurable, RemovedStaysRemoved
<1> QED BY <1>1, SessionAssumption, FlushKeeps

(* A signature changes a counter and no id. *)
LEMMA SigningKeeps ==
    ASSUME DbInv, NEW f \in Flush, NEW id, StoreCount(id, f),
           UNCHANGED <<created, acked, gone>>
    PROVE  DbInv'
<1>1. CacheFlush(f, Counted(cache, id)) /\ Get(cache, id).count < MaxCount
  BY Zenon DEF StoreCount
<1>2. Database(Counted(cache, id), created) /\ Ids(Counted(cache, id)) = Ids(cache)
  BY <1>1, CountedKeeps, SessionAssumption DEF DbInv
<1> QED BY <1>1, <1>2, SameIdsKeep, Zenon

(* Every request that writes the database keeps the invariant. *)
LEMMA WritingKeeps ==
    ASSUME DbInv, NEW f \in Flush, Writing(f)
    PROVE  DbInv'
<1>1. /\ created \in 0 .. MaxCreated /\ created \in Nat
      /\ acked \subseteq Ids(cache) /\ acked \subseteq Ids(cacheFlash)
      /\ gone \subseteq 1 .. created
      /\ gone \cap Ids(cache) = {} /\ gone \cap Ids(cacheFlash) = {}
      /\ Database(cache, created) /\ Database(cacheFlash, created)
  BY DEF DbInv, CreatedIsDurable, RemovedStaysRemoved
<1>2. /\ f.landed \in BOOLEAN /\ f.end \in {"ok", "error", "crash"}
      /\ f.end # "error" => f.landed
  BY Zenon DEF Flush
<1>3. CASE PinRequest(f)
  BY <1>1, <1>3, SameIdsKeep, Zenon DEF PinRequest
<1>4. ASSUME NEW rp \in Rp, NEW rk \in BOOLEAN, NEW withToken,
             MakeCredential(rp, rk, withToken, f)
      PROVE  DbInv'
  <2> DEFINE x == [id |-> created + 1, rp |-> rp, rk |-> rk, count |-> 0]
  <2>1. /\ CacheFlush(f, Append(cache, x)) /\ Len(cache) < MaxCredentials
        /\ created < MaxCreated
        /\ created' = created + 1 /\ UNCHANGED gone
        /\ acked' = IF f.end = "ok" THEN acked \cup {created + 1} ELSE acked
    BY <1>4, Zenon DEF MakeCredential
  <2>2. x \in Credential /\ x.id = created + 1
    BY <1>1, <2>1, SessionAssumption DEF Credential, Id
  <2> HIDE DEF x
  <2>3. /\ Database(Append(cache, x), created + 1)
        /\ Ids(Append(cache, x)) = Ids(cache) \cup {created + 1}
    BY <1>1, <2>1, <2>2, Appended, Zenon
  <2>4. /\ gone \subseteq 1 .. (created + 1) /\ (created + 1) \notin gone
        /\ created + 1 \in 0 .. MaxCreated
    BY <1>1, <2>1, SessionAssumption
  <2> QED BY <1>1, <1>2, <2>1, <2>3, <2>4, FlushKeeps
<1>5. ASSUME NEW rp, NEW ch, NEW candidates, NEW withToken,
             GetAssertion(rp, ch, candidates, withToken, f)
      PROVE  DbInv'
  BY <1>5, SigningKeeps, Zenon DEF GetAssertion, SignCounted
<1>6. ASSUME NEW ch, GetNextAssertion(ch, f) PROVE DbInv'
  BY <1>6, SigningKeeps, Zenon DEF GetNextAssertion, SignCounted
<1>7. ASSUME NEW id, U2fAuthenticate(id, f) PROVE DbInv'
  BY <1>7, SigningKeeps, Zenon DEF U2fAuthenticate
<1>8. ASSUME NEW id, DeleteCredential(id, f) PROVE DbInv'
  <2>1. /\ id \in Ids(cache) /\ CacheFlush(f, Removed(cache, id))
        /\ gone' = IF f.end = "ok" THEN gone \cup {id} ELSE gone
        /\ acked' = acked \ {id} /\ created' = created
    BY <1>8, Zenon DEF DeleteCredential
  <2>2. /\ Database(Removed(cache, id), created)
        /\ Ids(Removed(cache, id)) = Ids(cache) \ {id}
    BY <1>1, <2>1, RemovedDrops, Zenon
  <2>3. id \in 1 .. created
    BY <1>1, <2>1, Zenon DEF Database
  <2> QED BY <1>1, <1>2, <2>1, <2>2, <2>3, FlushKeeps
<1>9. ASSUME NEW e \in Flush, Reset(e, f) PROVE DbInv'
  <2>1. /\ e.end = "crash" => f = e
        /\ cacheFlash' = IF e.landed \/ (e.end # "crash" /\ f.landed) THEN <<>> ELSE cacheFlash
        /\ cache' \in {cacheFlash', <<>>}
        /\ gone' = IF f.end = "ok" THEN 1 .. created ELSE gone
        /\ acked' = {} /\ created' = created
    BY <1>9, Zenon DEF Reset, PinReset
  <2>2. Database(<<>>, created) /\ Ids(<<>>) = {}
    BY SessionAssumption DEF Database, Distinct, Ids
  <2>3. CASE cacheFlash' = <<>>
    <3>1. cache' = <<>> /\ gone' \subseteq 1 .. created
      BY <1>1, <2>1, <2>3, Zenon
    <3>2. /\ Database(cache', created') /\ Database(cacheFlash', created')
          /\ Ids(cache') = {} /\ Ids(cacheFlash') = {}
      BY <2>1, <2>2, <2>3, <3>1, Zenon
    <3> QED BY <1>1, <2>1, <3>1, <3>2, Zenon DEF DbInv, CreatedIsDurable, RemovedStaysRemoved
  <2>4. CASE cacheFlash' = cacheFlash /\ gone' = gone
    <3>1. cache' \in {cacheFlash, <<>>}
      BY <2>1, <2>4, Zenon
    <3>2. Database(cache', created) /\ gone \cap Ids(cache') = {}
      BY <1>1, <2>2, <3>1, Zenon
    <3>3. /\ created' \in 0 .. MaxCreated
          /\ Database(cache', created') /\ Database(cacheFlash', created')
          /\ gone' \subseteq 1 .. created' /\ acked' = {}
          /\ gone' \cap Ids(cache') = {} /\ gone' \cap Ids(cacheFlash') = {}
      BY <1>1, <2>1, <2>4, <3>2, Zenon
    <3> QED BY <3>3, Zenon
            DEF DbInv, CreatedIsDurable, RemovedStaysRemoved, Database, Distinct, Ids
  <2> QED BY <1>2, <2>1, <2>3, <2>4, Zenon
<1> QED BY <1>3, <1>4, <1>5, <1>6, <1>7, <1>8, <1>9, Zenon DEF Writing

(* Credential management leaves the session alone: its own steps change    *)
(* the enumeration only.                                                   *)
LEMMA ManagementIsSession == [ManagementNext]_managementVars => [Next]_vars
BY Zenon DEF ManagementNext, managementVars, Next, EnumerateRps, EnumerateRpsNext,
       EnumerateCredentials, EnumerateCredentialsNext, Enumerate

(* Every step keeps the invariant; a power-up reads back a database for    *)
(* which it holds.                                                         *)
LEMMA StepKeepsDb == DbInv /\ [Next]_vars => DbInv'
<1> SUFFICES ASSUME DbInv, [Next]_vars PROVE DbInv'
  BY Zenon
<1>1. CASE \E f \in Flush : Writing(f)
  BY <1>1, WritingKeeps, Zenon
<1>2. ASSUME UNCHANGED <<cache, cacheFlash, created, acked, gone>> PROVE DbInv'
  BY <1>2 DEF DbInv, CreatedIsDurable, RemovedStaysRemoved, Database, Distinct, Ids
<1>3. CASE Reading
  BY <1>2, <1>3, Zenon DEF Reading, KeyAgreement, Refused, GetNextDeleted, sessionVars
<1>4. CASE PowerLoss
  <2>1. cache' = cacheFlash /\ UNCHANGED <<cacheFlash, created, acked, gone>>
    BY <1>4, Zenon DEF PowerLoss
  <2> QED BY <2>1 DEF DbInv, CreatedIsDurable, RemovedStaysRemoved, Database, Distinct, Ids
<1>5. CASE UNCHANGED vars
  BY <1>2, <1>5, Zenon DEF vars, sessionVars
<1> QED BY <1>1, <1>3, <1>4, <1>5, Zenon DEF Next

(* The invariant of the database holds in every reachable state. *)
LEMMA DatabaseInvariant == ManagementSpec => []DbInv
<1>1. ManagementInit => DbInv
  BY SessionAssumption
     DEF ManagementInit, Init, DbInv, CreatedIsDurable, RemovedStaysRemoved, Database, Distinct,
         Ids
<1> QED BY <1>1, StepKeepsDb, ManagementIsSession, PTL DEF ManagementSpec

(* make_credential answers Ok only once the credential is stored, and no   *)
(* later failure or power loss costs it.                                   *)
THEOREM CreatedStays == ManagementSpec => []CreatedIsDurable
<1>1. DbInv => CreatedIsDurable
  BY Zenon DEF DbInv
<1> QED BY <1>1, DatabaseInvariant, PTL

(* A credential whose deletion or reset was answered Ok is neither in RAM  *)
(* nor in flash, although swap_remove moves others and reset ignores the   *)
(* failure of its first flush.                                             *)
THEOREM RemovedIsGone == ManagementSpec => []RemovedStaysRemoved
<1>1. DbInv => RemovedStaysRemoved
  BY Zenon DEF DbInv
<1> QED BY <1>1, DatabaseInvariant, PTL

-----------------------------------------------------------------------------
(***************************************************************************)
(* Lists of credentials: the candidates of an assertion and the            *)
(* enumerations.                                                           *)
(***************************************************************************)

(* A list that was pushed takes its entries from different positions. *)
LEMMA PushedPicks ==
    ASSUME NEW s, Len(s) \in Nat, NEW P \in SUBSET Nat, NEW t \in Pushed(s, P)
    PROVE  \E n \in Nat : \E o \in [1 .. n -> P] :
              /\ t = [k \in 1 .. n |-> s[o[k]]]
              /\ \A i, j \in 1 .. n : o[i] = o[j] => i = j
<1>1. PICK n \in 0 .. Len(s) : \E o \in [1 .. n -> P] :
         /\ t = [k \in DOMAIN o |-> s[o[k]]]
         /\ \A i, j \in DOMAIN o : i < j => o[i] < o[j]
  BY DEF Pushed
<1>2. PICK o \in [1 .. n -> P] :
         /\ t = [k \in DOMAIN o |-> s[o[k]]]
         /\ \A i, j \in DOMAIN o : i < j => o[i] < o[j]
  BY <1>1, Zenon
<1>3. ASSUME NEW i \in 1 .. n, NEW j \in 1 .. n, o[i] = o[j] PROVE i = j
  <2>1. DOMAIN o = 1 .. n /\ o[i] \in Nat /\ o[j] \in Nat
    BY Zenon
  <2>3. i \in Int /\ j \in Int
    OBVIOUS
  <2>2. ~(i < j) /\ ~(j < i)
    BY <1>2, <1>3, <2>1
  <2> QED BY <2>2, <2>3
<1>4. n \in Nat /\ t = [k \in 1 .. n |-> s[o[k]]]
  BY <1>1, <1>2
<1> QED BY <1>3, <1>4, Zenon

(* A lookup by id finds the credential with this id. *)
LEMMA Found ==
    ASSUME NEW n \in Nat, NEW c, Database(c, n), NEW i \in DOMAIN c
    PROVE  /\ c[i].id \in Ids(c)
           /\ Position(c, c[i].id) = i /\ Get(c, c[i].id) = c[i]
<1>1. c[i].id \in Ids(c)
  BY Zenon DEF Ids
<1>2. Position(c, c[i].id) = i
  BY Zenon DEF Position, Database, Distinct
<1> QED BY <1>1, <1>2, Zenon DEF Get

(* Each id of a database has its position. *)
LEMMA Looked ==
    ASSUME NEW n \in Nat, NEW c, Database(c, n), NEW id \in Ids(c)
    PROVE  /\ Position(c, id) \in DOMAIN c /\ c[Position(c, id)].id = id
           /\ Get(c, id) \in Credential /\ id \in Id
<1>1. Position(c, id) \in DOMAIN c /\ c[Position(c, id)].id = id
  BY Zenon DEF Ids, Position
<1>2. Get(c, id) \in Credential
  BY <1>1 DEF Get, Database
<1> QED BY <1>1, <1>2, Zenon DEF Get, Credential

(* What a list of credentials of one relying party is. *)
OfRp(s, rp) ==
    /\ s \in Seq(Id)
    /\ \A i, j \in DOMAIN s : s[i] = s[j] => i = j
    /\ \A i \in DOMAIN s : s[i] \in Ids(cache) /\ Get(cache, s[i]).rp = rp

(* assertion_candidates lists credentials of the relying party, each once. *)
LEMMA CandidatesOfRp ==
    ASSUME DbInv, NEW rp, NEW allow, Len(allow) \in Nat, DOMAIN allow \subseteq Nat,
           NEW t \in Candidates(rp, allow)
    PROVE  OfRp(t, rp)
<1>1. Database(cache, created) /\ created \in Nat /\ DOMAIN cache = 1 .. Len(cache)
      /\ Len(cache) \in Nat
  BY SessionAssumption DEF DbInv, Database
<1>2. CASE allow = <<>>
  <2>1. t \in Pushed(ListedIds, Discoverable(rp))
    BY <1>2, Zenon DEF Candidates
  <2>2. Len(ListedIds) \in Nat /\ Discoverable(rp) \in SUBSET Nat
    BY <1>1 DEF ListedIds, Discoverable
  <2>3. PICK n \in Nat : \E o \in [1 .. n -> Discoverable(rp)] :
           /\ t = [k \in 1 .. n |-> ListedIds[o[k]]]
           /\ \A i, j \in 1 .. n : o[i] = o[j] => i = j
    BY <2>1, <2>2, PushedPicks
  <2>4. PICK o \in [1 .. n -> Discoverable(rp)] :
           /\ t = [k \in 1 .. n |-> ListedIds[o[k]]]
           /\ \A i, j \in 1 .. n : o[i] = o[j] => i = j
    BY <2>3, Zenon
  <2>5. \A k \in 1 .. n : /\ o[k] \in DOMAIN cache /\ t[k] = cache[o[k]].id
                          /\ cache[o[k]].rp = rp
    BY <2>4, Zenon DEF ListedIds, Discoverable
  <2>6. \A k \in 1 .. n : /\ t[k] \in Ids(cache) /\ Get(cache, t[k]).rp = rp
                          /\ t[k] \in Id
    BY <1>1, <2>5, Found, Looked, SMTT(30)
  <2>7. \A i, j \in 1 .. n : t[i] = t[j] => i = j
    BY <1>1, <2>4, <2>5 DEF Database, Distinct
  <2>8. DOMAIN t = 1 .. n /\ t \in Seq(Id)
    BY <2>4, <2>6
  <2> QED BY <2>6, <2>7, <2>8, Zenon DEF OfRp
<1>3. CASE allow # <<>>
  <2> DEFINE P == {k \in DOMAIN allow : /\ Owned(rp, allow[k])
                                        /\ \A j \in 1 .. (k - 1) : allow[j] # allow[k]}
  <2>1. t \in Pushed(allow, P)
    BY <1>3, Zenon DEF Candidates
  <2>2. P \in SUBSET Nat /\ \A k \in P : k \in DOMAIN allow /\ Owned(rp, allow[k])
    BY Zenon
  <2>3. ASSUME NEW i \in P, NEW j \in P, allow[i] = allow[j] PROVE i = j
    BY <2>3
  <2> HIDE DEF P
  <2>4. PICK n \in Nat : \E o \in [1 .. n -> P] :
           /\ t = [k \in 1 .. n |-> allow[o[k]]]
           /\ \A i, j \in 1 .. n : o[i] = o[j] => i = j
    BY <2>1, <2>2, PushedPicks
  <2>5. PICK o \in [1 .. n -> P] :
           /\ t = [k \in 1 .. n |-> allow[o[k]]]
           /\ \A i, j \in 1 .. n : o[i] = o[j] => i = j
    BY <2>4, Zenon
  <2>6. \A k \in 1 .. n : /\ t[k] \in Ids(cache) /\ Get(cache, t[k]).rp = rp
                          /\ t[k] \in Id
    BY <1>1, <2>2, <2>5, Looked, Zenon DEF Owned
  <2>7. \A i, j \in 1 .. n : t[i] = t[j] => i = j
    BY <2>3, <2>5, Zenon
  <2>8. DOMAIN t = 1 .. n /\ t \in Seq(Id)
    BY <2>5, <2>6
  <2> QED BY <2>6, <2>7, <2>8, Zenon DEF OfRp
<1> QED BY <1>2, <1>3, Zenon

(* The candidates of a request. *)
LEMMA CandidateListsOfRp ==
    ASSUME DbInv, NEW rp, NEW candidates \in CandidateLists(rp)
    PROVE  OfRp(candidates, rp) /\ Len(candidates) >= 1
<1>1. PICK allow \in AllowLists : candidates \in Candidates(rp, allow)
  BY Zenon DEF CandidateLists
<1>2. Len(allow) \in Nat /\ DOMAIN allow \subseteq Nat
  BY SessionAssumption DEF AllowLists
<1>3. OfRp(candidates, rp)
  BY <1>1, <1>2, CandidatesOfRp, Zenon
<1>4. candidates # <<>>
  BY Zenon DEF CandidateLists
<1> QED BY <1>3, <1>4 DEF OfRp

-----------------------------------------------------------------------------
(***************************************************************************)
(* The signature counters.                                                 *)
(***************************************************************************)

(* No counter in the list c is behind the values h that were released. *)
Covered(c, h) == \A i \in DOMAIN c : h[c[i].id] <= c[i].count

(* The inductive invariant: RAM and flash are both at or past what was     *)
(* released, and a new credential has released nothing.                    *)
CounterInv ==
    /\ high \in [Id -> Nat]
    /\ \A id \in Id : id > created => high[id] = 0
    /\ Covered(cache, high)
    /\ Covered(cacheFlash, high)
    /\ CountersIncrease

(* A step that releases nothing and flushes a list that is covered. *)
LEMMA UnreleasedKeeps ==
    ASSUME DbInv, CounterInv, created' \in Nat, created <= created',
           UNCHANGED <<high, repeated>>,
           Covered(cache', high), Covered(cacheFlash', high)
    PROVE  CounterInv'
<1>1. \A id \in Id : id > created' => id > created
  BY SessionAssumption DEF DbInv, Id
<1> QED BY <1>1, Zenon DEF CounterInv, Covered, CountersIncrease

(* What next_sign_count does to the counters. *)
LEMMA CountedOnce ==
    ASSUME NEW n \in Nat, NEW c, Database(c, n), NEW id \in Ids(c)
    PROVE  /\ DOMAIN Counted(c, id) = DOMAIN c
           /\ \A i \in DOMAIN c :
                 /\ Counted(c, id)[i].id = c[i].id
                 /\ c[i].id = id => Counted(c, id)[i].count = Get(c, id).count + 1
                 /\ c[i].id # id => Counted(c, id)[i].count = c[i].count
<1> DEFINE p == Position(c, id)
           d == Counted(c, id)
<1>1. /\ d = [c EXCEPT ![p].count = @ + 1]
      /\ c \in Seq(Credential) /\ Distinct(c)
      /\ \A i \in DOMAIN c : c[i] \in Credential
  BY DEF Counted, Database
<1>2. p \in DOMAIN c /\ c[p].id = id /\ Get(c, id) = c[p]
  BY Looked, Zenon DEF Get
<1> HIDE DEF p, d
<1>3. DOMAIN d = DOMAIN c
  BY <1>1, Zenon
<1>4. ASSUME NEW i \in DOMAIN c
      PROVE  /\ d[i].id = c[i].id
             /\ c[i].id = id => d[i].count = Get(c, id).count + 1
             /\ c[i].id # id => d[i].count = c[i].count
  <2>1. CASE i = p
    <3>1. d[i] = [c[i] EXCEPT !.count = @ + 1] /\ c[i] \in Credential
      BY <1>1, <1>4, <2>1, Zenon
    <3> QED BY <1>2, <2>1, <3>1, Zenon DEF Credential
  <2>2. CASE i # p
    <3>1. d[i] = c[i] /\ c[i].id # id
      BY <1>1, <1>2, <1>4, <2>2, Zenon DEF Distinct
    <3> QED BY <3>1, Zenon
  <2> QED BY <2>1, <2>2, Zenon
<1> QED BY <1>3, <1>4, Zenon DEF d

(* A counter is stored before it is released, and both lists are past it.  *)
LEMMA SigningCounts ==
    ASSUME DbInv, CounterInv, NEW f \in Flush, NEW id \in Ids(cache), StoreCount(id, f),
           f.end = "ok" => Release(id, Get(cache, id).count + 1),
           f.end # "ok" => UNCHANGED <<high, repeated>> \/ Release(id, 0),
           UNCHANGED created
    PROVE  CounterInv'
<1> DEFINE d == Counted(cache, id)
           m == Get(cache, id).count
<1>1. /\ Database(cache, created) /\ Database(cacheFlash, created) /\ created \in Nat
      /\ CacheFlush(f, d)
  BY SessionAssumption DEF DbInv, StoreCount
<1>2. /\ DOMAIN d = DOMAIN cache
      /\ \A i \in DOMAIN cache :
            /\ d[i].id = cache[i].id
            /\ cache[i].id = id => d[i].count = m + 1
            /\ cache[i].id # id => d[i].count = cache[i].count
  BY <1>1, CountedOnce, SMTT(30)
<1>3. /\ id \in Id /\ m \in Nat /\ high[id] \in Nat /\ high[id] <= m
  <2>1. /\ Position(cache, id) \in DOMAIN cache /\ cache[Position(cache, id)].id = id
        /\ Get(cache, id) \in Credential /\ id \in Id
    BY <1>1, Looked, Zenon
  <2>2. high[id] <= m
    BY <2>1, Zenon DEF CounterInv, Covered, Get
  <2> QED BY <2>1, <2>2 DEF Credential, CounterInv
<1>4. \A i \in DOMAIN cache : /\ cache[i].id \in Id /\ cache[i].count \in Nat
                              /\ high[cache[i].id] \in Nat
                              /\ high[cache[i].id] <= cache[i].count
  <2> SUFFICES ASSUME NEW i \in DOMAIN cache
               PROVE  /\ cache[i].id \in Id /\ cache[i].count \in Nat
                      /\ high[cache[i].id] \in Nat
                      /\ high[cache[i].id] <= cache[i].count
    BY Zenon
  <2>1. cache[i] \in Credential
    BY <1>1 DEF Database
  <2>2. cache[i].id \in Id /\ cache[i].count \in Nat
    BY <2>1 DEF Credential
  <2> QED BY <2>2, Zenon DEF CounterInv, Covered
<1>5. id <= created
  BY <1>1 DEF Database
<1>6. /\ cacheFlash' = IF f.landed THEN d ELSE cacheFlash
      /\ cache' = IF f.end = "crash" THEN cacheFlash' ELSE d
      /\ f.end # "error" => f.landed
  BY <1>1, Zenon DEF CacheFlush, Flush
<1>7. CASE f.end = "ok"
  <2>1. Release(id, m + 1)
    BY <1>7, Zenon
  <2> HIDE DEF d, m
  <2>2. high' = [high EXCEPT ![id] = m + 1] /\ repeated' \subseteq {0}
    <3>1. high' = [high EXCEPT ![id] = IF m + 1 > high[id] THEN m + 1 ELSE high[id]]
      BY <2>1, Zenon DEF Release, CounterInv
    <3>2. m + 1 > high[id]
      BY <1>3
    <3>3. repeated' \subseteq {0}
      BY <2>1, <3>2, Zenon DEF Release, CounterInv, CountersIncrease
    <3> QED BY <3>1, <3>2, <3>3, Zenon
  <2>3. Covered(d, high')
    BY <1>2, <1>3, <1>4, <2>2 DEF Covered, CounterInv
  <2>4. high' \in [Id -> Nat] /\ \A x \in Id : x > created' => high'[x] = 0
    BY <1>1, <1>3, <1>5, <2>2 DEF CounterInv, Id
  <2>5. cache' = d /\ cacheFlash' = d
    BY <1>6, <1>7, Zenon
  <2> QED BY <2>2, <2>3, <2>4, <2>5, Zenon DEF CounterInv, CountersIncrease, Covered
<1>8. CASE f.end # "ok"
  <2> HIDE DEF d, m
  <2>1. high' = high /\ repeated' \subseteq {0}
    <3>1. CASE UNCHANGED <<high, repeated>>
      BY <3>1, Zenon DEF CounterInv, CountersIncrease
    <3>2. CASE Release(id, 0)
      <4>1. ~(0 > high[id])
        BY <1>3
      <4>2. high' = [high EXCEPT ![id] = high[id]] /\ repeated' = repeated \cup {0}
        BY <3>2, <4>1, Zenon DEF Release
      <4>3. high' = high
        BY <1>3, <4>2, Zenon DEF CounterInv
      <4> QED BY <4>2, <4>3, Zenon DEF CounterInv, CountersIncrease
    <3> QED BY <1>8, <3>1, <3>2, Zenon
  <2>2. Covered(d, high)
    BY <1>2, <1>3, <1>4 DEF Covered
  <2>3. Covered(cache', high) /\ Covered(cacheFlash', high)
    BY <1>6, <2>2, Zenon DEF CounterInv
  <2> QED BY <2>1, <2>3, Zenon DEF CounterInv, Covered, CountersIncrease
<1> QED BY <1>7, <1>8, Zenon

(* However the flush of a covered list ends, both lists are covered. *)
LEMMA FlushCovers ==
    ASSUME NEW f \in Flush, NEW c, CacheFlush(f, c), CounterInv, Covered(c, high)
    PROVE  Covered(cache', high) /\ Covered(cacheFlash', high)
BY Zenon DEF CacheFlush, CounterInv

(* swap_remove only moves credentials. *)
LEMMA RemovedMoves ==
    ASSUME NEW n \in Nat, NEW c, Database(c, n), NEW id \in Ids(c)
    PROVE  \A i \in DOMAIN Removed(c, id) : \E j \in DOMAIN c : Removed(c, id)[i] = c[j]
<1> DEFINE p == Position(c, id)
           s == [c EXCEPT ![p] = c[Len(c)]]
<1>1. c \in Seq(Credential) /\ DOMAIN c = 1 .. Len(c) /\ Len(c) \in Nat /\ p \in DOMAIN c
  BY Looked DEF Database
<1> HIDE DEF p
<1>2. /\ s \in Seq(Credential) /\ Len(s) = Len(c)
      /\ \A i \in DOMAIN c : s[i] = IF i = p THEN c[Len(c)] ELSE c[i]
  BY <1>1
<1>3. Removed(c, id) = SubSeq(s, 1, Len(c) - 1)
  BY Zenon DEF Removed, p
<1> HIDE DEF s
<1>4. \A i \in DOMAIN Removed(c, id) : i \in DOMAIN c /\ Removed(c, id)[i] = s[i]
  BY <1>1, <1>2, <1>3
<1>5. Len(c) \in DOMAIN c
  BY <1>1
<1> QED BY <1>2, <1>4, <1>5, Zenon

(* Every request that writes the database releases fresh counters only. *)
LEMMA WritingCounts ==
    ASSUME DbInv, CounterInv, NEW f \in Flush, Writing(f)
    PROVE  CounterInv'
<1>1. /\ created \in 0 .. MaxCreated /\ created \in Nat /\ Database(cache, created)
      /\ Covered(cache, high) /\ Covered(cacheFlash, high) /\ Covered(<<>>, high)
  BY SessionAssumption DEF DbInv, CounterInv, Covered
<1>2. ASSUME NEW c, CacheFlush(f, c), Covered(c, high), UNCHANGED <<high, repeated>>,
             created' \in Nat, created <= created'
      PROVE  CounterInv'
  BY <1>2, FlushCovers, UnreleasedKeeps, Zenon
<1>3. CASE PinRequest(f)
  BY <1>1, <1>2, <1>3 DEF PinRequest
<1>4. ASSUME NEW rp \in Rp, NEW rk \in BOOLEAN, NEW withToken,
             MakeCredential(rp, rk, withToken, f)
      PROVE  CounterInv'
  <2> DEFINE x == [id |-> created + 1, rp |-> rp, rk |-> rk, count |-> 0]
             d == Append(cache, x)
  <2>1. /\ CacheFlush(f, d) /\ created' = created + 1 /\ UNCHANGED <<high, repeated>>
        /\ created < MaxCreated
    BY <1>4, Zenon DEF MakeCredential
  <2>2. x.id = created + 1 /\ x.count = 0 /\ high[created + 1] = 0
    BY <1>1, <2>1, SessionAssumption DEF CounterInv, Id
  <2> HIDE DEF x
  <2>3. /\ DOMAIN d = 1 .. (Len(cache) + 1) /\ DOMAIN cache = 1 .. Len(cache)
        /\ \A i \in DOMAIN cache : d[i] = cache[i]
        /\ d[Len(cache) + 1] = x
        /\ Len(cache) \in Nat
    BY <1>1 DEF Database
  <2> HIDE DEF d
  <2>4. Covered(d, high)
    BY <1>1, <2>2, <2>3, SMTT(30) DEF Covered
  <2> QED BY <1>1, <1>2, <2>1, <2>4
<1>5. ASSUME NEW rp, NEW ch, NEW candidates \in CandidateLists(rp), NEW withToken,
             GetAssertion(rp, ch, candidates, withToken, f)
      PROVE  CounterInv'
  <2>1. candidates[1] \in Ids(cache)
    BY CandidateListsOfRp DEF OfRp
  <2> QED BY <1>5, <2>1, SigningCounts, Zenon DEF GetAssertion, SignCounted
<1>6. ASSUME NEW ch, GetNextAssertion(ch, f) PROVE CounterInv'
  BY <1>6, SigningCounts, Zenon DEF GetNextAssertion, SignCounted
<1>7. ASSUME NEW id, U2fAuthenticate(id, f) PROVE CounterInv'
  <2>1. /\ id \in Ids(cache) /\ StoreCount(id, f) /\ UNCHANGED created
        /\ f.end = "ok" => Release(id, Get(cache, id).count + 1)
        /\ f.end = "error" => Release(id, 0)
        /\ f.end = "crash" => UNCHANGED <<high, repeated>>
    BY <1>7, Zenon DEF U2fAuthenticate
  <2>2. f.end \in {"ok", "error", "crash"}
    BY Zenon DEF Flush
  <2> QED BY <2>1, <2>2, SigningCounts, Zenon
<1>8. ASSUME NEW id, DeleteCredential(id, f) PROVE CounterInv'
  <2>1. /\ id \in Ids(cache) /\ CacheFlush(f, Removed(cache, id))
        /\ UNCHANGED <<created, high, repeated>>
    BY <1>8, Zenon DEF DeleteCredential
  <2>2. \A i \in DOMAIN Removed(cache, id) :
           \E j \in DOMAIN cache : Removed(cache, id)[i] = cache[j]
    BY <1>1, <2>1, RemovedMoves
  <2>3. Covered(Removed(cache, id), high)
    BY <1>1, <2>2, Zenon DEF Covered
  <2> QED BY <1>1, <1>2, <2>1, <2>3
<1>9. ASSUME NEW e \in Flush, Reset(e, f) PROVE CounterInv'
  <2>1. /\ cacheFlash' \in {<<>>, cacheFlash} /\ cache' \in {<<>>, cacheFlash'}
        /\ UNCHANGED <<created, high, repeated>>
    BY <1>9, Zenon DEF Reset
  <2>2. Covered(cacheFlash', high) /\ Covered(cache', high)
    BY <1>1, <2>1, Zenon
  <2> QED BY <1>1, <2>1, <2>2, UnreleasedKeeps
<1> QED BY <1>3, <1>4, <1>5, <1>6, <1>7, <1>8, <1>9, Zenon DEF Writing

(* Every step keeps the invariant of the counters. *)
LEMMA StepKeepsCounters == DbInv /\ CounterInv /\ [Next]_vars => CounterInv'
<1> SUFFICES ASSUME DbInv, CounterInv, [Next]_vars PROVE CounterInv'
  BY Zenon
<1>1. CASE \E f \in Flush : Writing(f)
  BY <1>1, WritingCounts, Zenon
<1>2. ASSUME UNCHANGED <<created, high, repeated, cacheFlash>>, cache' \in {cache, cacheFlash}
      PROVE  CounterInv'
  <2>1. Covered(cache', high) /\ Covered(cacheFlash', high)
    BY <1>2, Zenon DEF CounterInv
  <2> QED BY <1>2, <2>1, UnreleasedKeeps, SessionAssumption DEF DbInv
<1>3. CASE Reading
  BY <1>2, <1>3, Zenon DEF Reading, KeyAgreement, Refused, GetNextDeleted, sessionVars
<1>4. CASE PowerLoss
  BY <1>2, <1>4, Zenon DEF PowerLoss
<1>5. CASE UNCHANGED vars
  BY <1>2, <1>5, Zenon DEF vars, sessionVars
<1> QED BY <1>1, <1>3, <1>4, <1>5, Zenon DEF Next

(* sign_assertion, next_sign_count and the authenticate of U2F: for every  *)
(* number of credentials and whatever flushes fail, each counter that is   *)
(* released is above the ones before it, or the 0 of a U2F signature whose *)
(* flush failed.  A failed flush leaves RAM ahead, and a power loss goes   *)
(* back to a value that was never released.                                *)
THEOREM StoredCountersIncrease == ManagementSpec => []CountersIncrease
<1>1. ManagementInit => CounterInv
  BY DEF ManagementInit, Init, CounterInv, Covered, CountersIncrease
<1>2. CounterInv => CountersIncrease
  BY Zenon DEF CounterInv
<1> QED BY <1>1, <1>2, DatabaseInvariant, StepKeepsCounters, ManagementIsSession, PTL
        DEF ManagementSpec

-----------------------------------------------------------------------------
(***************************************************************************)
(* The pending assertion.                                                  *)
(***************************************************************************)

(* The assertion a lists each credential once, and only credentials        *)
(* before its position are among the signers.                              *)
Continues(a, signers) ==
    a # Nothing =>
        /\ a \in [channel : Channel, creds : Seq(Id), next : Nat]
        /\ a.next \in 2 .. (Len(a.creds) + 1)
        /\ \A i, j \in DOMAIN a.creds : a.creds[i] = a.creds[j] => i = j
        /\ \A x \in signers : \E i \in 1 .. (a.next - 1) : x = a.creds[i]

PendingInv == Continues(assertion, sinceUp)

(* What a handler leaves pending, or a power loss in it. *)
LEMMA SessionKeeps ==
    ASSUME NEW f, NEW a, NEW signers, Session(f, a, signers), Continues(a, signers)
    PROVE  PendingInv'
<1>1. CASE f.end = "crash"
  BY <1>1, Zenon DEF Session, PendingInv, Continues
<1>2. CASE f.end # "crash"
  <2>1. assertion' = a /\ sinceUp' = signers
    BY <1>2, Zenon DEF Session
  <2> QED BY <2>1, Zenon DEF PendingInv, Continues
<1> QED BY <1>1, <1>2, Zenon

(* begin: the first candidate has signed. *)
LEMMA BegunContinues ==
    ASSUME DbInv, NEW rp, NEW candidates \in CandidateLists(rp), NEW ch \in Channel
    PROVE  Continues(Pending(ch, candidates), {candidates[1]})
<1> DEFINE a == Pending(ch, candidates)
<1>1. OfRp(candidates, rp) /\ Len(candidates) >= 1
  BY CandidateListsOfRp, Zenon
<1>2. /\ a \in [channel : Channel, creds : Seq(Id), next : Nat]
      /\ a.next = 2 /\ a.creds = candidates /\ Len(candidates) \in Nat
  BY <1>1 DEF Pending, OfRp
<1> HIDE DEF a
<1>3. \A i, j \in DOMAIN a.creds : a.creds[i] = a.creds[j] => i = j
  BY <1>1, <1>2, Zenon DEF OfRp
<1> QED BY <1>1, <1>2, <1>3 DEF Continues, a

(* next: the position is past the credential that may sign. *)
LEMMA AdvancedContinues ==
    ASSUME PendingInv, NEW ch, MayContinue(ch),
           NEW signers, signers \subseteq sinceUp \cup {assertion.creds[assertion.next]}
    PROVE  Continues(Advanced, signers)
<1>1. /\ assertion \in [channel : Channel, creds : Seq(Id), next : Nat]
      /\ assertion.next \in 2 .. Len(assertion.creds) /\ Len(assertion.creds) \in Nat
      /\ \A i, j \in DOMAIN assertion.creds :
            assertion.creds[i] = assertion.creds[j] => i = j
      /\ \A x \in sinceUp : \E i \in 1 .. (assertion.next - 1) : x = assertion.creds[i]
  BY DEF PendingInv, Continues, MayContinue
<1>2. /\ Advanced \in [channel : Channel, creds : Seq(Id), next : Nat]
      /\ Advanced.creds = assertion.creds /\ Advanced.next = assertion.next + 1
  BY <1>1 DEF Advanced
<1>3. \A x \in signers : \E i \in 1 .. assertion.next : x = assertion.creds[i]
  BY <1>1
<1>4. Advanced.next - 1 = assertion.next /\ Advanced.next \in 2 .. (Len(Advanced.creds) + 1)
  BY <1>1, <1>2
<1> QED BY <1>1, <1>2, <1>3, <1>4 DEF Continues

(* Every step keeps the invariant of the pending assertion. *)
LEMMA StepKeepsPending == DbInv /\ PendingInv /\ [Next]_vars => PendingInv'
<1> SUFFICES ASSUME DbInv, PendingInv, [Next]_vars PROVE PendingInv'
  BY Zenon
<1>1. Continues(assertion, sinceUp)
  BY Zenon DEF PendingInv
<1>2. ASSUME UNCHANGED <<assertion, sinceUp>> PROVE PendingInv'
  BY <1>1, <1>2, Zenon DEF PendingInv, Continues
<1>3. ASSUME NEW f \in Flush, Writing(f) PROVE PendingInv'
  <2>1. ASSUME NEW rp, NEW ch \in Channel, NEW candidates \in CandidateLists(rp),
               NEW withToken, GetAssertion(rp, ch, candidates, withToken, f)
        PROVE  PendingInv'
    <3>1. \/ Session(f, Pending(ch, candidates), {candidates[1]})
          \/ Session(f, assertion, sinceUp)
      BY <2>1, Zenon DEF GetAssertion
    <3> QED BY <1>1, <3>1, BegunContinues, SessionKeeps, Zenon
  <2>2. ASSUME NEW ch, GetNextAssertion(ch, f) PROVE PendingInv'
    <3> DEFINE id == assertion.creds[assertion.next]
               signers == IF f.end = "ok" THEN sinceUp \cup {id} ELSE sinceUp
    <3>1. MayContinue(ch) /\ Session(f, Advanced, signers)
      BY <2>2, Zenon DEF GetNextAssertion
    <3>2. signers \subseteq sinceUp \cup {id}
      BY Zenon
    <3> HIDE DEF signers
    <3>3. Continues(Advanced, signers)
      BY <3>1, <3>2, AdvancedContinues, Zenon
    <3> QED BY <3>1, <3>3, SessionKeeps, Zenon
  <2>3. ASSUME Session(f, assertion, sinceUp) PROVE PendingInv'
    BY <1>1, <2>3, SessionKeeps, Zenon
  <2>4. CASE PinRequest(f)
    BY <2>3, <2>4, Zenon DEF PinRequest
  <2>5. ASSUME NEW rp, NEW rk, NEW withToken, MakeCredential(rp, rk, withToken, f)
        PROVE  PendingInv'
    BY <2>3, <2>5, Zenon DEF MakeCredential
  <2>6. ASSUME NEW id, U2fAuthenticate(id, f) \/ DeleteCredential(id, f)
        PROVE  PendingInv'
    BY <2>3, <2>6, Zenon DEF U2fAuthenticate, DeleteCredential
  <2>7. ASSUME NEW e, Reset(e, f) PROVE PendingInv'
    BY <2>3, <2>7, Zenon DEF Reset
  <2> QED BY <1>3, <2>1, <2>2, <2>4, <2>5, <2>6, <2>7, Zenon DEF Writing
<1>4. CASE Reading
  <2>1. ASSUME NEW ch, GetNextDeleted(ch) PROVE PendingInv'
    <3>1. MayContinue(ch) /\ assertion' = Advanced /\ sinceUp' = sinceUp
      BY <2>1, Zenon DEF GetNextDeleted
    <3>2. Continues(Advanced, sinceUp)
      BY <3>1, AdvancedContinues, Zenon
    <3> QED BY <3>1, <3>2, Zenon DEF PendingInv, Continues
  <2> QED BY <1>2, <1>4, <2>1, Zenon DEF Reading, KeyAgreement, Refused, sessionVars
<1>5. CASE PowerLoss
  BY <1>5, Zenon DEF PowerLoss, PendingInv, Continues
<1>6. CASE UNCHANGED vars
  BY <1>2, <1>6, Zenon DEF vars, sessionVars
<1> QED BY <1>3, <1>4, <1>5, <1>6, Zenon DEF Next

(* get_next_assertion: for every store, allow list and channel, one user   *)
(* presence lets each credential sign once at most, although credentials   *)
(* are deleted and counters fail to be stored between two requests; and    *)
(* the lists in RAM and in flash hold each credential once and fit.        *)
THEOREM OneAssertionPerPresence == ManagementSpec => []AssertionInv
<1>1. ManagementInit => PendingInv
  BY Zenon DEF ManagementInit, Init, PendingInv, Continues
<1>2. DbInv /\ PendingInv => AssertionInv
  <2> SUFFICES ASSUME DbInv, PendingInv PROVE AssertionInv
    BY Zenon
  <2>1. TypeOK
    BY Zenon DEF DbInv, Database, PendingInv, Continues, TypeOK
  <2>2. OneSignaturePerPresence
    <3> SUFFICES ASSUME assertion # Nothing,
                        NEW i \in assertion.next .. Len(assertion.creds),
                        assertion.creds[i] \in sinceUp
                 PROVE  FALSE
      BY Zenon DEF OneSignaturePerPresence
    <3>1. /\ assertion.creds \in Seq(Id) /\ assertion.next \in Nat /\ assertion.next >= 2
          /\ \A k, j \in DOMAIN assertion.creds :
                assertion.creds[k] = assertion.creds[j] => k = j
      BY DEF PendingInv, Continues
    <3>2. PICK k \in 1 .. (assertion.next - 1) : assertion.creds[i] = assertion.creds[k]
      BY Zenon DEF PendingInv, Continues
    <3>3. /\ DOMAIN assertion.creds = 1 .. Len(assertion.creds) /\ Len(assertion.creds) \in Nat
      BY <3>1
    <3>4. i \in DOMAIN assertion.creds /\ k \in DOMAIN assertion.creds /\ i # k
      BY <3>1, <3>2, <3>3
    <3> QED BY <3>1, <3>2, <3>4, Zenon
  <2> QED BY <2>1, <2>2, Zenon DEF AssertionInv
<1> QED BY <1>1, <1>2, DatabaseInvariant, StepKeepsPending, ManagementIsSession, PTL
        DEF ManagementSpec

-----------------------------------------------------------------------------
(***************************************************************************)
(* The enumerations of credential management.                              *)
(***************************************************************************)

(* The inductive invariant: an enumeration names ids that were drawn, so a *)
(* credential that is created later is in none.                            *)
EnumerationInv ==
    /\ enumeration \in [rps : Seq(Rp), rpNext : Nat, creds : Seq(Id), credNext : Nat]
    /\ Range(enumeration.creds) \subseteq 1 .. created
    /\ EnumeratesOnce

(* Every credential of the list d is new or in RAM with its relying party. *)
SameRps(d) ==
    \A i \in DOMAIN d :
        \/ d[i].id > created
        \/ \E j \in DOMAIN cache : cache[j].id = d[i].id /\ cache[j].rp = d[i].rp

(* list_rps tells each relying party once. *)
LEMMA RpListsOnce ==
    ASSUME DbInv, NEW t \in RpLists
    PROVE  t \in Seq(Rp) /\ IsInjective(t)
<1> DEFINE P == {i \in DOMAIN cache :
                    /\ cache[i].rk
                    /\ \A j \in 1 .. (i - 1) : cache[j].rk => cache[j].rp # cache[i].rp}
<1>1. /\ DOMAIN cache = 1 .. Len(cache) /\ Len(cache) \in Nat
      /\ \A i \in DOMAIN cache : cache[i].rp \in Rp
  <2>1. cache \in Seq(Credential)
    BY Zenon DEF DbInv, Database
  <2>2. \A i \in DOMAIN cache : cache[i] \in Credential
    BY <2>1
  <2> QED BY <2>1, <2>2 DEF Credential
<1>2. t \in Pushed(ListedRps, P)
  BY Zenon DEF RpLists
<1>3. Len(ListedRps) \in Nat /\ P \in SUBSET Nat /\ P \subseteq DOMAIN cache
  BY <1>1 DEF ListedRps
<1>4. ASSUME NEW i \in P, NEW j \in P, cache[i].rp = cache[j].rp PROVE i = j
  <2>1. i \in Nat /\ j \in Nat /\ i >= 1 /\ j >= 1
    BY <1>1
  <2>2. ~(i < j) /\ ~(j < i)
    BY <1>4, <2>1
  <2> QED BY <2>1, <2>2
<1> HIDE DEF P
<1>5. PICK n \in Nat : \E o \in [1 .. n -> P] :
         /\ t = [k \in 1 .. n |-> ListedRps[o[k]]]
         /\ \A i, j \in 1 .. n : o[i] = o[j] => i = j
  BY <1>2, <1>3, PushedPicks
<1>6. PICK o \in [1 .. n -> P] :
         /\ t = [k \in 1 .. n |-> ListedRps[o[k]]]
         /\ \A i, j \in 1 .. n : o[i] = o[j] => i = j
  BY <1>5, Zenon
<1>7. \A k \in 1 .. n : o[k] \in P /\ t[k] = cache[o[k]].rp /\ t[k] \in Rp
  BY <1>1, <1>3, <1>6, Zenon DEF ListedRps
<1>8. DOMAIN t = 1 .. n /\ t \in Seq(Rp)
  BY <1>6, <1>7
<1>9. \A i, j \in 1 .. n : t[i] = t[j] => i = j
  BY <1>4, <1>6, <1>7
<1> QED BY <1>8, <1>9, Zenon DEF IsInjective

(* list_credentials lists credentials of one relying party, each once. *)
LEMMA CredentialListsOnce ==
    ASSUME DbInv, NEW rp, NEW t \in CredentialLists(rp)
    PROVE  /\ t \in Seq(Id) /\ IsInjective(t)
           /\ Range(t) \subseteq Ids(cache)
           /\ \A id \in Range(t) : Get(cache, id).rp = rp
<1>1. OfRp(t, rp)
  BY CandidatesOfRp DEF CredentialLists
<1> QED BY <1>1, Zenon DEF OfRp, IsInjective, Range

(* A request that writes the database, without a power loss, leaves every  *)
(* credential with its relying party.                                      *)
LEMMA WritingKeepsRps ==
    ASSUME DbInv, NEW f \in Flush, f.end # "crash", Writing(f)
    PROVE  SameRps(cache')
<1>1. Database(cache, created) /\ created \in Nat
  BY SessionAssumption DEF DbInv
<1>2. ASSUME NEW c, CacheFlush(f, c) PROVE cache' = c
  BY <1>2, Zenon DEF CacheFlush
<1>3. SameRps(cache) /\ SameRps(<<>>)
  BY DEF SameRps
<1>4. CASE PinRequest(f)
  BY <1>2, <1>3, <1>4, Zenon DEF PinRequest
<1>5. ASSUME NEW rp \in Rp, NEW rk, NEW withToken, MakeCredential(rp, rk, withToken, f)
      PROVE  SameRps(cache')
  <2> DEFINE x == [id |-> created + 1, rp |-> rp, rk |-> rk, count |-> 0]
  <2>1. cache' = Append(cache, x)
    BY <1>2, <1>5, Zenon DEF MakeCredential
  <2>2. x.id > created
    BY <1>1
  <2> HIDE DEF x
  <2>3. /\ DOMAIN cache' = 1 .. (Len(cache) + 1) /\ DOMAIN cache = 1 .. Len(cache)
        /\ \A i \in DOMAIN cache : cache'[i] = cache[i]
        /\ cache'[Len(cache) + 1] = x
        /\ Len(cache) \in Nat
    BY <1>1, <2>1 DEF Database
  <2> QED BY <2>2, <2>3 DEF SameRps
<1>6. ASSUME NEW id \in Ids(cache), StoreCount(id, f) PROVE SameRps(cache')
  <2> DEFINE p == Position(cache, id)
  <2>1. cache' = [cache EXCEPT ![p].count = @ + 1]
    BY <1>2, <1>6, Zenon DEF StoreCount, Counted
  <2>2. ASSUME NEW i \in DOMAIN cache
        PROVE  cache'[i].id = cache[i].id /\ cache'[i].rp = cache[i].rp
    <3>1. cache[i] \in Credential
      BY <1>1 DEF Database
    <3>2. cache'[i] = cache[i] \/ cache'[i] = [cache[i] EXCEPT !.count = @ + 1]
      BY <2>1, Zenon
    <3> QED BY <3>1, <3>2, Zenon DEF Credential
  <2>3. DOMAIN cache' = DOMAIN cache
    BY <2>1, Zenon
  <2> QED BY <2>2, <2>3, SMTT(30) DEF SameRps
<1>7. ASSUME NEW rp, NEW ch, NEW candidates \in CandidateLists(rp), NEW withToken,
             GetAssertion(rp, ch, candidates, withToken, f)
      PROVE  SameRps(cache')
  <2>1. candidates[1] \in Ids(cache)
    BY CandidateListsOfRp DEF OfRp
  <2> QED BY <1>6, <1>7, <2>1, Zenon DEF GetAssertion, SignCounted
<1>8. ASSUME NEW ch, GetNextAssertion(ch, f) PROVE SameRps(cache')
  BY <1>6, <1>8, Zenon DEF GetNextAssertion, SignCounted
<1>9. ASSUME NEW id, U2fAuthenticate(id, f) PROVE SameRps(cache')
  BY <1>6, <1>9, Zenon DEF U2fAuthenticate
<1>10. ASSUME NEW id, DeleteCredential(id, f) PROVE SameRps(cache')
  <2>1. id \in Ids(cache) /\ cache' = Removed(cache, id)
    BY <1>2, <1>10, Zenon DEF DeleteCredential
  <2> QED BY <1>1, <2>1, RemovedMoves, SMTT(30) DEF SameRps
<1>11. ASSUME NEW e \in Flush, Reset(e, f) PROVE SameRps(cache')
  <2>1. cache' = <<>>
    BY <1>11, Zenon DEF Reset, PinReset
  <2> QED BY <1>3, <2>1, Zenon
<1> QED BY <1>4, <1>5, <1>7, <1>8, <1>9, <1>10, <1>11, Zenon DEF Writing

(* Whatever happened in between, the credentials that are left of an       *)
(* enumeration are still of one relying party.                             *)
LEMMA EnumerationOutlives ==
    ASSUME DbInv, DbInv', EnumerationInv, UNCHANGED enumeration, created <= created',
           SameRps(cache')
    PROVE  EnumerationInv'
<1> DEFINE named == Range(enumeration.creds)
<1>1. /\ created \in Nat /\ created' \in Nat
      /\ Database(cache, created) /\ Database(cache', created')
      /\ named \subseteq 1 .. created
  BY SessionAssumption DEF DbInv, EnumerationInv
<1> HIDE DEF named
<1>2. ASSUME NEW id \in named \cap Ids(cache')
      PROVE  id \in Ids(cache) /\ Get(cache', id).rp = Get(cache, id).rp
  <2> DEFINE i == Position(cache', id)
  <2>1. i \in DOMAIN cache' /\ cache'[i].id = id /\ Get(cache', id) = cache'[i]
    BY <1>1, Looked, Zenon DEF Get
  <2> HIDE DEF i
  <2>2. ~(id > created)
    BY <1>1
  <2>3. PICK j \in DOMAIN cache : cache[j].id = id /\ cache[j].rp = cache'[i].rp
    BY <2>1, <2>2, Zenon DEF SameRps
  <2>4. id \in Ids(cache) /\ Get(cache, id) = cache[j]
    BY <1>1, <2>3, Found, Zenon
  <2> QED BY <2>1, <2>3, <2>4, Zenon
<1>3. \A id, other \in named \cap Ids(cache) : Get(cache, id).rp = Get(cache, other).rp
  BY Zenon DEF EnumerationInv, EnumeratesOnce, named
<1>4. \A id, other \in named \cap Ids(cache') : Get(cache', id).rp = Get(cache', other).rp
  BY <1>2, <1>3, Zenon
<1>5. named' = named /\ named \subseteq 1 .. created'
  BY <1>1 DEF named
<1> QED BY <1>4, <1>5, Zenon DEF EnumerationInv, EnumeratesOnce, named

(* Ids are drawn in order. *)
LEMMA CreatedGrows == ASSUME DbInv, NEW f, Writing(f) PROVE created <= created'
<1>1. created \in Nat
  BY SessionAssumption DEF DbInv
<1>2. created' = created \/ created' = created + 1
  BY Zenon DEF Writing, PinRequest, MakeCredential, GetAssertion, GetNextAssertion,
               U2fAuthenticate, DeleteCredential, Reset
<1> QED BY <1>1, <1>2

(* Every step of credential management and of the session in between keeps *)
(* the invariant.                                                          *)
LEMMA StepKeepsEnumeration ==
    DbInv /\ DbInv' /\ EnumerationInv /\ [ManagementNext]_managementVars => EnumerationInv'
<1> SUFFICES ASSUME DbInv, DbInv', EnumerationInv, [ManagementNext]_managementVars
             PROVE  EnumerationInv'
  BY Zenon
<1>1. created \in Nat /\ SameRps(cache) /\ Ids(cache) \subseteq 1 .. created
  BY SessionAssumption DEF DbInv, SameRps, Database
<1>2. ASSUME UNCHANGED <<cache, created, enumeration>> PROVE EnumerationInv'
  BY <1>1, <1>2, EnumerationOutlives
<1>3. ASSUME NEW en, Enumerate(en), en.creds = enumeration.creds, en.rps \in Seq(Rp),
             IsInjective(en.rps),
             en \in [rps : Seq(Rp), rpNext : Nat, creds : Seq(Id), credNext : Nat]
      PROVE  EnumerationInv'
  <2>1. enumeration' = en /\ UNCHANGED <<cache, created>>
    BY <1>3, Zenon DEF Enumerate, vars, sessionVars
  <2> QED BY <1>3, <2>1, Zenon DEF EnumerationInv, EnumeratesOnce
<1>4. CASE EnumerateRps
  <2>1. PICK rps \in RpLists :
           Enumerate([enumeration EXCEPT !.rps = rps, !.rpNext = 2])
    BY <1>4, Zenon DEF EnumerateRps
  <2>2. rps \in Seq(Rp) /\ IsInjective(rps)
    BY RpListsOnce, Zenon
  <2> QED BY <1>3, <2>1, <2>2, Zenon DEF EnumerationInv
<1>5. CASE EnumerateRpsNext \/ EnumerateCredentialsNext
  <2>1. \/ Enumerate([enumeration EXCEPT !.rpNext = @ + 1])
        \/ Enumerate([enumeration EXCEPT !.credNext = @ + 1])
    BY <1>5, Zenon DEF EnumerateRpsNext, EnumerateCredentialsNext
  <2> DEFINE E == [rps : Seq(Rp), rpNext : Nat, creds : Seq(Id), credNext : Nat]
  <2>2. enumeration \in E /\ IsInjective(enumeration.rps)
    BY Zenon DEF EnumerationInv, EnumeratesOnce
  <2>3. enumeration.rpNext + 1 \in Nat /\ enumeration.credNext + 1 \in Nat
    <3>1. enumeration.rpNext \in Nat /\ enumeration.credNext \in Nat
      BY <2>2, Zenon
    <3> QED BY <3>1
  <2>4. CASE Enumerate([enumeration EXCEPT !.rpNext = @ + 1])
    <3> DEFINE en == [enumeration EXCEPT !.rpNext = @ + 1]
    <3>1. en \in E /\ en.creds = enumeration.creds /\ en.rps = enumeration.rps
      BY <2>2, <2>3, Zenon
    <3> HIDE DEF en
    <3> QED BY <1>3, <2>2, <2>4, <3>1, Zenon DEF en
  <2>5. CASE Enumerate([enumeration EXCEPT !.credNext = @ + 1])
    <3> DEFINE en == [enumeration EXCEPT !.credNext = @ + 1]
    <3>1. en \in E /\ en.creds = enumeration.creds /\ en.rps = enumeration.rps
      BY <2>2, <2>3, Zenon
    <3> HIDE DEF en
    <3> QED BY <1>3, <2>2, <2>5, <3>1, Zenon DEF en
  <2> QED BY <2>1, <2>4, <2>5, Zenon
<1>6. ASSUME NEW rp, EnumerateCredentials(rp) PROVE EnumerationInv'
  <2>1. PICK creds \in CredentialLists(rp) :
           Enumerate([enumeration EXCEPT !.creds = creds, !.credNext = 2])
    BY <1>6, Zenon DEF EnumerateCredentials
  <2>2. /\ creds \in Seq(Id) /\ IsInjective(creds) /\ Range(creds) \subseteq Ids(cache)
        /\ \A id \in Range(creds) : Get(cache, id).rp = rp
    BY CredentialListsOnce, Zenon
  <2>3. UNCHANGED <<cache, created>>
    BY <2>1, Zenon DEF Enumerate, vars, sessionVars
  <2>4. /\ enumeration' \in [rps : Seq(Rp), rpNext : Nat, creds : Seq(Id), credNext : Nat]
        /\ enumeration'.creds = creds /\ enumeration'.rps = enumeration.rps
    BY <2>1, <2>2, Zenon DEF Enumerate, EnumerationInv
  <2> QED BY <1>1, <2>2, <2>3, <2>4, Zenon DEF EnumerationInv, EnumeratesOnce
<1>7. ASSUME NEW f \in Flush, f.end # "crash", Writing(f), UNCHANGED enumeration
      PROVE  EnumerationInv'
  BY <1>7, WritingKeepsRps, CreatedGrows, EnumerationOutlives, Zenon
<1>8. CASE Reading /\ UNCHANGED enumeration
  BY <1>2, <1>8, Zenon DEF Reading, KeyAgreement, Refused, GetNextDeleted, sessionVars
<1>9. CASE enumeration' = NoEnumeration
  <2>1. /\ NoEnumeration \in [rps : Seq(Rp), rpNext : Nat, creds : Seq(Id), credNext : Nat]
        /\ NoEnumeration.rps = <<>> /\ NoEnumeration.creds = <<>>
    BY DEF NoEnumeration
  <2>2. IsInjective(<<>>) /\ Range(<<>>) = {}
    BY DEF IsInjective, Range
  <2> QED BY <1>9, <2>1, <2>2, Zenon DEF EnumerationInv, EnumeratesOnce
<1>10. CASE UNCHANGED managementVars
  BY <1>2, <1>10, Zenon DEF managementVars, vars, sessionVars
<1> QED BY <1>4, <1>5, <1>6, <1>7, <1>8, <1>9, <1>10, Zenon DEF ManagementNext

(* list_rps and list_credentials: for every store, an enumeration tells    *)
(* each relying party and each credential once, and what is left of it is  *)
(* of one relying party, although deletions move credentials and requests  *)
(* come in between.                                                        *)
THEOREM EnumerationOnce == ManagementSpec => []EnumeratesOnce
<1>1. ManagementInit => EnumerationInv
  BY SMTT(30) DEF ManagementInit, Init, NoEnumeration, EnumerationInv, EnumeratesOnce, IsInjective, Range
<1>2. EnumerationInv => EnumeratesOnce
  BY Zenon DEF EnumerationInv
<1> QED BY <1>1, <1>2, DatabaseInvariant, StepKeepsEnumeration, PTL DEF ManagementSpec
=============================================================================

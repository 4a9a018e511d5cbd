---------------------------- MODULE OpenPgpProofs ----------------------------
(***************************************************************************)
(* Proofs about the OpenPGP card: its PIN budgets, its signature counter   *)
(* and what it answered about its keys, for every set of codes and key     *)
(* slots and every bound on tries, keys and signatures.                    *)
(***************************************************************************)
EXTENDS OpenPgp, TLAPS

(***************************************************************************)
(* The inductive invariant.                                                *)
(***************************************************************************)

(* A PIN slot holds a code as soon as it can be used, or is stored. *)
HasCodes(s) == \A ref \in Ref : s.pw[ref].hash \in Code

Guesses == [Ref -> [Code -> 0 .. MaxAttempts]]

(* What SELECT finds of a PIN in the stored card state st, or else the     *)
(* defaults it provisions; and that it is within the budget, as it stands  *)
(* or below the floor f.                                                   *)
Found(st, ref) == IF st = Absent THEN Full(DefaultCode) ELSE st.pw[ref]
Recorded(st, g) ==
    \A ref \in Ref : Found(st, ref).retries + g[ref][Found(st, ref).hash] <= MaxAttempts
Covered(st, f, g) ==
    \A ref \in Ref :
        Lower(Found(st, ref).retries, f[ref]) + g[ref][Found(st, ref).hash] <= MaxAttempts
Budgeted(s, g) == \A ref \in Ref : WithinBudget(s.pw[ref], g[ref])

(* A reload within the power cycle is within the budget because of the     *)
(* floors, one after a restart because of what the store recorded.         *)
PinInv ==
    /\ selected => HasCodes(ram)
    /\ stored # Absent => HasCodes(stored)
    /\ ~replaced =>
          Budgeted(ram, guessed) /\ Covered(stored, floor, guessed) /\ Recorded(stored, recorded)

(* The keys of a card state s are among the n made, its signature key      *)
(* counts the signatures sg, and its decryption key holds the material if  *)
(* it is the key m that was confirmed to.                                  *)
KeysOf(s, n, sg, m) ==
    /\ \A k \in KeySlot : s.keys[k].id <= n
    /\ s.keys["sig"].id # 0 => sg[s.keys["sig"].id] <= s.counter
    /\ m # 0 /\ s.keys["dec"].id = m =>
          EffectiveAlgo(s.keys["dec"]) = "p256" /\ s.keys["dec"].size = "ecdh"

Holds(s, a) == \A k \in KeySlot : a[k] # 0 => s.keys[k].id = a[k]

(* What was answered is in RAM too, as long as RAM may be saved. *)
KeyInv ==
    /\ KeysOf(ram, made, signed, material)
    /\ stored # Absent => KeysOf(stored, made, signed, material)
    /\ material <= made
    /\ \A id \in 1 .. MaxKeys : id > made => signed[id] = 0
    /\ ~replaced =>
          /\ \A k \in KeySlot : answered[k] # 0 => stored # Absent
          /\ Holds(stored, answered)
          /\ selected => Holds(ram, answered)

CardInv == TypeOK /\ PinInv /\ KeyInv

-----------------------------------------------------------------------------
(* What the provers need to know of a card state, ... *)
LEMMA CardStates ==
    \A s \in CardState :
        /\ s.pw \in [Ref -> PinSlot] /\ s.keys \in [KeySlot -> Key]
        /\ s.counter \in 0 .. MaxSignatures
        /\ \A ref \in Ref : s.pw[ref] \in PinSlot
        /\ \A k \in KeySlot : s.keys[k] \in Key
        /\ s # Absent
BY AbsentAssumption, Zenon DEF CardState

(* ... of a PIN slot, ... *)
LEMMA PinSlots ==
    /\ \A p \in PinSlot : p.hash \in Code \cup {Unset} /\ p.retries \in 0 .. MaxAttempts
    /\ \A h \in Code \cup {Unset} : Full(h) \in PinSlot /\ Full(h).hash = h
                                   /\ Full(h).retries = MaxAttempts
BY ConstantsAssumption DEF PinSlot, Full

(* ... and of a blank one. *)
LEMMA BlankCard ==
    /\ Blank \in CardState
    /\ \A ref \in Ref : Blank.pw[ref].hash = Unset
    /\ \A k \in KeySlot : Blank.keys[k].id = 0
<1>1. NoKey \in Key
  BY ConstantsAssumption DEF NoKey, Key
<1>2. Full(Unset) \in PinSlot /\ Full(Unset).hash = Unset
  BY PinSlots, Zenon
<1>3. Blank \in CardState
  BY <1>1, <1>2, ConstantsAssumption DEF Blank, CardState
<1> QED BY <1>2, <1>3, Zenon DEF Blank, NoKey

(* A save leaves a typed state. *)
LEMMA SaveType ==
    ASSUME TypeOK, NEW w \in Write, NEW s \in CardState, NEW f \in [Ref -> 0 .. MaxAttempts],
           NEW v \in SUBSET Session, NEW g \in Guesses, Save(w, s, f, v, g)
    PROVE  /\ ram' \in CardState
           /\ stored' \in CardState \cup {Absent}
           /\ floor' \in [Ref -> 0 .. MaxAttempts]
           /\ selected' \in BOOLEAN
           /\ sessions' \subseteq Session
           /\ guessed' \in Guesses
           /\ recorded' \in Guesses
<1>1. CASE w.end = "crash"
  <2>1. /\ stored' = s /\ ram' = Blank /\ floor' = [ref \in Ref |-> MaxAttempts]
        /\ selected' = FALSE /\ sessions' = {} /\ guessed' = g /\ recorded' = g
    BY <1>1, Zenon DEF Save, Restart
  <2>2. floor' \in [Ref -> 0 .. MaxAttempts]
    BY <2>1, ConstantsAssumption
  <2> QED BY <2>1, <2>2, BlankCard, Zenon
<1>2. CASE w.end # "crash"
  BY <1>2, Zenon DEF Save, TypeOK, Guesses
<1> QED BY <1>1, <1>2, Zenon

(* A save keeps the PINs within their budgets where the card state it      *)
(* saves is and, should it not land, the floors it leaves cover what the   *)
(* store still holds.                                                      *)
LEMMA SavePins ==
    ASSUME TypeOK, PinInv, NEW w \in Write, NEW s \in CardState,
           NEW f \in [Ref -> 0 .. MaxAttempts], NEW v \in SUBSET Session, NEW g \in Guesses,
           HasCodes(s), Save(w, s, f, v, g), ~replaced' => ~replaced,
           ~replaced' => Budgeted(s, g),
           ~replaced' /\ ~w.landed => Covered(stored, f, g)
    PROVE  PinInv'
<1>1. s # Absent /\ stored \in CardState \cup {Absent}
  BY CardStates, Zenon DEF TypeOK
<1>2. \A ref \in Ref : s.pw[ref] \in PinSlot /\ s.pw[ref].hash \in Code /\ s.pw[ref].hash # Unset
  BY CardStates, ConstantsAssumption, Zenon DEF HasCodes
<1>3. \A ref \in Ref : Found(s, ref) = s.pw[ref]
  BY <1>1, Zenon DEF Found
<1>4. \A ref \in Ref, c \in Code : g[ref][c] \in 0 .. MaxAttempts
  BY Zenon DEF Guesses
<1>5. \A ref \in Ref : s.pw[ref].retries \in 0 .. MaxAttempts
  BY <1>2, PinSlots, Zenon
<1>6. ASSUME ~replaced' PROVE Recorded(s, g)
  BY <1>2, <1>3, <1>6, Zenon DEF Budgeted, WithinBudget, Recorded
<1>7. ASSUME ~replaced', NEW fl \in [Ref -> 0 .. MaxAttempts] PROVE Covered(s, fl, g)
  BY <1>2, <1>3, <1>4, <1>5, <1>6, <1>7, ConstantsAssumption DEF Recorded, Covered, Lower
<1>8. CASE w.end = "crash"
  <2>1. /\ stored' = s /\ ram' = Blank /\ floor' \in [Ref -> 0 .. MaxAttempts]
        /\ ~selected' /\ guessed' = g /\ recorded' = g
    BY <1>8, ConstantsAssumption DEF Save, Restart
  <2>2. Budgeted(Blank, g)
    BY BlankCard, Zenon DEF Budgeted, WithinBudget
  <2> QED BY <1>6, <1>7, <2>1, <2>2, Zenon DEF PinInv
<1>9. CASE w.end # "crash"
  <2>1. /\ ram' = s /\ floor' = f /\ guessed' = g
        /\ stored' = IF w.landed THEN s ELSE stored
        /\ recorded' = IF w.landed THEN g ELSE recorded
    BY <1>9, Zenon DEF Save
  <2>2. CASE w.landed
    BY <1>6, <1>7, <2>1, <2>2, Zenon DEF PinInv
  <2>3. CASE ~w.landed
    BY <2>1, <2>3, Zenon DEF PinInv
  <2> QED BY <2>2, <2>3, Zenon
<1> QED BY <1>8, <1>9, Zenon

(* A save keeps what is known of the keys where it is true of the card     *)
(* state it saves and, should it not land, of what the store still holds.  *)
LEMMA SaveKeys ==
    ASSUME TypeOK, KeyInv, NEW w \in Write, NEW s \in CardState,
           NEW f, NEW v, NEW g, Save(w, s, f, v, g),
           made' \in Nat, KeysOf(s, made', signed', material'),
           stored # Absent /\ ~w.landed => KeysOf(stored, made', signed', material'),
           material' <= made',
           \A id \in 1 .. MaxKeys : id > made' => signed'[id] = 0,
           ~replaced' => /\ Holds(s, answered')
                         /\ ~w.landed => /\ \A k \in KeySlot : answered'[k] # 0 => stored # Absent
                                        /\ Holds(stored, answered')
    PROVE  KeyInv'
<1>1. s # Absent
  BY CardStates, Zenon
<1>2. w.landed \in BOOLEAN
  BY Zenon DEF Write
<1>3. CASE w.end = "crash"
  <2>1. stored' = s /\ ram' = Blank /\ ~selected' /\ w.landed
    BY <1>3, Zenon DEF Save, Restart, Write
  <2>2. KeysOf(Blank, made', signed', material')
    BY BlankCard, ConstantsAssumption DEF KeysOf
  <2> QED BY <1>1, <2>1, <2>2, Zenon DEF KeyInv
<1>4. CASE w.end # "crash"
  <2>1. ram' = s /\ stored' = IF w.landed THEN s ELSE stored
    BY <1>4, Zenon DEF Save
  <2>2. CASE w.landed
    BY <1>1, <2>1, <2>2, Zenon DEF KeyInv
  <2>3. CASE ~w.landed
    BY <2>1, <2>3, Zenon DEF KeyInv
  <2> QED BY <2>2, <2>3, Zenon
<1> QED BY <1>3, <1>4, Zenon

-----------------------------------------------------------------------------
(* The floors persist_state leaves; they only sink when a save does not    *)
(* land.                                                                   *)
LEMMA AnchoredFloors ==
    ASSUME TypeOK, NEW w \in Write, NEW s \in CardState
    PROVE  /\ Anchored(w, s) \in [Ref -> 0 .. MaxAttempts]
           /\ ~w.landed => \A ref \in Ref : /\ Anchored(w, s)[ref] <= floor[ref]
                                           /\ Anchored(w, s)[ref] <= s.pw[ref].retries
<1>1. \A ref \in Ref : floor[ref] \in 0 .. MaxAttempts /\ s.pw[ref].retries \in 0 .. MaxAttempts
  BY CardStates, PinSlots, Zenon DEF TypeOK
<1>2. ~w.landed => w.end # "ok"
  BY Zenon DEF Write
<1> QED BY <1>1, <1>2, ConstantsAssumption DEF Anchored, Lower

(* Lower floors cover what higher ones do. *)
LEMMA LowerFloorsCover ==
    ASSUME NEW st \in CardState \cup {Absent}, NEW f \in [Ref -> 0 .. MaxAttempts],
           NEW e \in [Ref -> 0 .. MaxAttempts], NEW g \in Guesses,
           st # Absent => HasCodes(st), Covered(st, f, g), \A ref \in Ref : e[ref] <= f[ref]
    PROVE  Covered(st, e, g)
<1>1. \A ref \in Ref : Found(st, ref) \in PinSlot /\ Found(st, ref).hash \in Code
  BY CardStates, PinSlots, ConstantsAssumption, Zenon DEF Found, HasCodes
<1>2. \A ref \in Ref : /\ Found(st, ref).retries \in 0 .. MaxAttempts
                      /\ g[ref][Found(st, ref).hash] \in 0 .. MaxAttempts
                      /\ e[ref] \in 0 .. MaxAttempts /\ f[ref] \in 0 .. MaxAttempts
  BY <1>1, PinSlots, Zenon DEF Guesses
<1> QED BY <1>2, ConstantsAssumption DEF Covered, Lower

(* The commands that leave the PINs alone save them as they are. *)
LEMMA PinsUntouched ==
    ASSUME TypeOK, PinInv, selected, NEW w \in Write, NEW s \in CardState, NEW f,
           NEW v \in SUBSET Session, s.pw = ram.pw, f = floor \/ f = Anchored(w, s),
           Save(w, s, f, v, guessed), replaced' = replaced
    PROVE  PinInv'
<1>1. /\ guessed \in Guesses /\ floor \in [Ref -> 0 .. MaxAttempts]
      /\ stored \in CardState \cup {Absent}
  BY Zenon DEF TypeOK, Guesses
<1>2. f \in [Ref -> 0 .. MaxAttempts]
  BY <1>1, AnchoredFloors, Zenon
<1>3. HasCodes(s)
  BY Zenon DEF PinInv, HasCodes
<1>4. ~replaced => Budgeted(s, guessed)
  BY Zenon DEF PinInv, Budgeted
<1>5. ~w.landed => \A ref \in Ref : f[ref] <= floor[ref]
  BY <1>1, AnchoredFloors, ConstantsAssumption
<1>6. ~replaced /\ ~w.landed => Covered(stored, f, guessed)
  BY <1>1, <1>2, <1>5, LowerFloorsCover, Zenon DEF PinInv
<1> QED BY <1>1, <1>2, <1>3, <1>4, <1>6, SavePins, Zenon

(* The commands that leave the keys alone save them as they are. *)
LEMMA KeysUntouched ==
    ASSUME TypeOK, KeyInv, selected, NEW w \in Write, NEW s \in CardState, NEW f, NEW v, NEW g,
           s.keys = ram.keys, s.counter = ram.counter, Save(w, s, f, v, g), UNCHANGED KeyHistory
    PROVE  KeyInv'
<1>1. UNCHANGED <<made, signed, material, answered, replaced>> /\ made' \in Nat
  BY DEF KeyHistory, TypeOK
<1>2. KeysOf(s, made, signed, material)
  BY Zenon DEF KeyInv, KeysOf
<1>3. ~replaced => Holds(s, answered)
  BY Zenon DEF KeyInv, Holds
<1> QED BY <1>1, <1>2, <1>3, SaveKeys, Zenon DEF KeyInv

-----------------------------------------------------------------------------
(* A wrong code takes a try from the value it was tried against; should    *)
(* the save not land, the floor remembers it.                              *)
LEMMA WrongCodeKeeps ==
    ASSUME CardInv, selected, NEW w \in Write, NEW ref \in Ref, NEW c \in Code,
           WrongCode(w, ref, c), UNCHANGED KeyHistory
    PROVE  CardInv'
<1> DEFINE h == Pw(ref).hash
           p == [Pw(ref) EXCEPT !.retries = @ - 1]
           s == [ram EXCEPT !.pw[ref].retries = @ - 1]
           g == [guessed EXCEPT ![ref][h] = IF @ < MaxAttempts THEN @ + 1 ELSE @]
           f == Anchored(w, s)
<1>1. TypeOK /\ PinInv /\ KeyInv
  BY Zenon DEF CardInv
<1>2. /\ ram \in CardState /\ guessed \in Guesses /\ sessions \in SUBSET Session
      /\ floor \in [Ref -> 0 .. MaxAttempts] /\ stored \in CardState \cup {Absent}
  BY <1>1, Zenon DEF TypeOK, Guesses
<1>3. /\ Pw(ref) \in PinSlot /\ h \in Code /\ Pw(ref).retries \in 1 .. MaxAttempts
  <2>1. Pw(ref) \in PinSlot /\ Pw(ref).retries \in 0 .. MaxAttempts
    BY <1>2, CardStates, PinSlots, Zenon DEF Pw
  <2>2. h \in Code
    BY <1>1, Zenon DEF Pw, PinInv, HasCodes
  <2>3. Pw(ref).retries > 0
    BY Zenon DEF WrongCode, Usable
  <2> QED BY <2>1, <2>2, <2>3
<1>4. p \in PinSlot /\ p.hash = h /\ p.retries = Pw(ref).retries - 1
  BY <1>3, ConstantsAssumption DEF PinSlot
<1>5. /\ s \in CardState /\ s.keys = ram.keys /\ s.counter = ram.counter
      /\ s.pw = [ram.pw EXCEPT ![ref] = p]
  BY <1>2, <1>4, Zenon DEF CardState, Pw
<1>6. /\ g \in Guesses
      /\ \A r \in Ref, d \in Code : <<r, d>> # <<ref, h>> => g[r][d] = guessed[r][d]
      /\ guessed[ref][h] < MaxAttempts => g[ref][h] = guessed[ref][h] + 1
  BY <1>2, <1>3, ConstantsAssumption DEF Guesses
<1> HIDE DEF s, g, p
<1>7. Save(w, s, f, sessions, g)
  BY Zenon DEF WrongCode, Persist, s, g
<1>8. f \in [Ref -> 0 .. MaxAttempts]
  BY <1>1, <1>5, AnchoredFloors, Zenon
<1>9. UNCHANGED <<made, signed, material, answered, replaced>>
  BY Zenon DEF KeyHistory
<1>10. TypeOK'
  BY <1>1, <1>2, <1>5, <1>6, <1>7, <1>8, <1>9, SaveType, Zenon DEF TypeOK, Guesses
<1>11. KeyInv'
  BY <1>1, <1>5, <1>7, KeysUntouched, Zenon
<1>12. HasCodes(s)
  BY <1>1, <1>2, <1>3, <1>4, <1>5, CardStates, Zenon DEF HasCodes, PinInv
<1>13. ASSUME ~replaced
       PROVE  /\ Pw(ref).retries + guessed[ref][h] <= MaxAttempts
              /\ p.retries + g[ref][h] <= MaxAttempts
  BY <1>1, <1>2, <1>3, <1>4, <1>6, <1>13, ConstantsAssumption
     DEF PinInv, Budgeted, WithinBudget, Pw, Guesses
<1>14. ASSUME ~replaced PROVE Budgeted(s, g)
  <2>1. \A r \in Ref \ {ref} : s.pw[r] = ram.pw[r] /\ ram.pw[r].hash \in Code
    BY <1>1, <1>2, <1>5, CardStates, Zenon DEF PinInv, HasCodes
  <2>2. s.pw[ref] = p
    BY <1>2, <1>5, CardStates, Zenon
  <2>3. WithinBudget(s.pw[ref], g[ref])
    BY <1>4, <1>13, <1>14, <2>2, Zenon DEF WithinBudget
  <2>4. ASSUME NEW r \in Ref \ {ref} PROVE WithinBudget(s.pw[r], g[r])
    <3>1. WithinBudget(ram.pw[r], guessed[r])
      BY <1>1, <1>14, Zenon DEF PinInv, Budgeted
    <3>2. g[r][ram.pw[r].hash] = guessed[r][ram.pw[r].hash]
      BY <1>6, <2>1, <2>4
    <3> QED BY <2>1, <3>1, <3>2, Zenon DEF WithinBudget
  <2> QED BY <2>3, <2>4, Zenon DEF Budgeted
<1>15. ASSUME ~replaced, ~w.landed PROVE Covered(stored, f, g)
  <2>1. \A r \in Ref : f[r] <= floor[r] /\ f[r] <= s.pw[r].retries
    BY <1>1, <1>5, <1>15, AnchoredFloors, Zenon
  <2>2. Covered(stored, f, guessed)
    BY <1>1, <1>2, <1>8, <1>15, <2>1, LowerFloorsCover, Zenon DEF PinInv
  <2>3. \A r \in Ref : Found(stored, r) \in PinSlot /\ Found(stored, r).hash \in Code
    BY <1>1, <1>2, CardStates, PinSlots, ConstantsAssumption, Zenon DEF Found, HasCodes, PinInv
  <2>4. f[ref] + g[ref][h] <= MaxAttempts
    <3>1. s.pw[ref] = p
      BY <1>2, <1>5, CardStates, Zenon
    <3>2. f[ref] \in Nat /\ g[ref][h] \in Nat /\ p.retries \in Nat
      BY <1>3, <1>4, <1>6, <1>8, PinSlots DEF Guesses
    <3> HIDE DEF f
    <3> QED BY <1>13, <1>15, <2>1, <3>1, <3>2, ConstantsAssumption
  <2>5. ASSUME NEW r \in Ref
        PROVE  Lower(Found(stored, r).retries, f[r]) + g[r][Found(stored, r).hash] <= MaxAttempts
    <3>1. CASE <<r, Found(stored, r).hash>> # <<ref, h>>
      BY <1>6, <2>2, <2>3, <3>1, Zenon DEF Covered
    <3>2. CASE r = ref /\ Found(stored, r).hash = h
      <4>1. /\ Found(stored, r).retries \in Nat /\ f[ref] \in Nat /\ g[ref][h] \in Nat
        BY <1>3, <1>6, <1>8, <2>3, PinSlots DEF Guesses
      <4>2. Lower(Found(stored, r).retries, f[ref]) <= f[ref]
            /\ Lower(Found(stored, r).retries, f[ref]) \in Nat
        BY <4>1 DEF Lower
      <4> HIDE DEF f
      <4> QED BY <2>4, <3>2, <4>1, <4>2, ConstantsAssumption
    <3> QED BY <3>1, <3>2, Zenon
  <2> QED BY <2>5, Zenon DEF Covered
<1>16. PinInv'
  BY <1>1, <1>2, <1>5, <1>6, <1>7, <1>8, <1>9, <1>12, <1>14, <1>15, SavePins, Zenon
<1> QED BY <1>10, <1>11, <1>16, Zenon DEF CardInv

(* A value that is installed starts with a full budget and no guesses. *)
LEMMA InstallKeeps ==
    ASSUME CardInv, selected, NEW w \in Write, NEW ref \in Ref, NEW d \in Code,
           Install(w, ref, d), UNCHANGED KeyHistory
    PROVE  CardInv'
<1> DEFINE s == [ram EXCEPT !.pw[ref] = Full(d)]
           g == [guessed EXCEPT ![ref][d] = 0]
           f == Anchored(w, s)
<1>1. TypeOK /\ PinInv /\ KeyInv
  BY Zenon DEF CardInv
<1>2. /\ ram \in CardState /\ guessed \in Guesses /\ sessions \in SUBSET Session
      /\ floor \in [Ref -> 0 .. MaxAttempts] /\ stored \in CardState \cup {Absent}
  BY <1>1, Zenon DEF TypeOK, Guesses
<1>3. Full(d) \in PinSlot /\ Full(d).hash = d /\ Full(d).retries = MaxAttempts
  BY PinSlots, Zenon
<1>4. /\ s \in CardState /\ s.keys = ram.keys /\ s.counter = ram.counter
      /\ s.pw = [ram.pw EXCEPT ![ref] = Full(d)]
  BY <1>2, <1>3, Zenon DEF CardState
<1>5. /\ g \in Guesses /\ g[ref][d] = 0
      /\ \A r \in Ref, c \in Code :
            g[r][c] <= guessed[r][c] /\ g[r][c] \in Nat /\ guessed[r][c] \in Nat
  BY <1>2, ConstantsAssumption DEF Guesses
<1> HIDE DEF s, g
<1>6. Save(w, s, f, sessions, g)
  BY Zenon DEF Install, Persist, s, g
<1>7. f \in [Ref -> 0 .. MaxAttempts]
  BY <1>1, <1>4, AnchoredFloors, Zenon
<1>8. UNCHANGED <<made, signed, material, answered, replaced>>
  BY Zenon DEF KeyHistory
<1>9. TypeOK'
  BY <1>1, <1>2, <1>4, <1>5, <1>6, <1>7, <1>8, SaveType, Zenon DEF TypeOK, Guesses
<1>10. KeyInv'
  BY <1>1, <1>4, <1>6, KeysUntouched, Zenon
<1>11. HasCodes(s)
  BY <1>1, <1>2, <1>3, <1>4, CardStates, Zenon DEF HasCodes, PinInv
<1>12. ASSUME ~replaced PROVE Budgeted(s, g)
  <2>1. \A r \in Ref \ {ref} : /\ s.pw[r] = ram.pw[r] /\ ram.pw[r].hash \in Code
                              /\ ram.pw[r].retries \in Nat
    BY <1>1, <1>2, <1>4, CardStates, PinSlots DEF PinInv, HasCodes
  <2>2. s.pw[ref] = Full(d)
    BY <1>2, <1>4, CardStates, Zenon
  <2> QED BY <1>1, <1>3, <1>5, <1>12, <2>1, <2>2, ConstantsAssumption, SMTT(30)
          DEF PinInv, Budgeted, WithinBudget
<1>13. ASSUME ~replaced, ~w.landed PROVE Covered(stored, f, g)
  <2>1. Covered(stored, f, guessed)
    BY <1>1, <1>2, <1>4, <1>7, <1>13, AnchoredFloors, LowerFloorsCover, Zenon DEF PinInv
  <2>2. \A r \in Ref : Found(stored, r) \in PinSlot /\ Found(stored, r).hash \in Code
    BY <1>1, <1>2, CardStates, PinSlots, ConstantsAssumption, Zenon DEF Found, HasCodes, PinInv
  <2>3. \A r \in Ref : Lower(Found(stored, r).retries, f[r]) \in Nat
    BY <1>7, <2>2, PinSlots DEF Lower
  <2> QED BY <1>5, <2>1, <2>2, <2>3, ConstantsAssumption DEF Covered
<1>14. PinInv'
  BY <1>1, <1>2, <1>4, <1>5, <1>6, <1>7, <1>8, <1>11, <1>12, <1>13, SavePins, Zenon
<1> QED BY <1>9, <1>10, <1>14, Zenon DEF CardInv

(* A command that saves the card state unchanged. *)
LEMMA SaveUnchangedKeeps ==
    ASSUME CardInv, selected, NEW w \in Write, SaveUnchanged(w), UNCHANGED KeyHistory
    PROVE  CardInv'
<1> DEFINE f == Anchored(w, ram)
<1>1. TypeOK /\ PinInv /\ KeyInv
  BY Zenon DEF CardInv
<1>2. ram \in CardState /\ guessed \in Guesses /\ sessions \in SUBSET Session
  BY <1>1, Zenon DEF TypeOK, Guesses
<1>3. Save(w, ram, f, sessions, guessed) /\ UNCHANGED <<made, signed, material, answered, replaced>>
  BY Zenon DEF SaveUnchanged, Persist, KeyHistory
<1>4. f \in [Ref -> 0 .. MaxAttempts]
  BY <1>1, <1>2, AnchoredFloors, Zenon
<1>5. TypeOK'
  BY <1>1, <1>2, <1>3, <1>4, SaveType, Zenon DEF TypeOK, Guesses
<1>6. KeyInv' /\ PinInv'
  BY <1>1, <1>2, <1>3, KeysUntouched, PinsUntouched, Zenon
<1> QED BY <1>5, <1>6, Zenon DEF CardInv

-----------------------------------------------------------------------------
(* New attributes delete the key of a slot. *)
LEMMA PutAlgoKeeps ==
    ASSUME CardInv, NEW w \in Write, NEW k \in KeySlot, NEW algo \in Algo, PutAlgo(w, k, algo)
    PROVE  CardInv'
<1> DEFINE key == [algo |-> algo, size |-> "none", id |-> 0]
           s == [ram EXCEPT !.keys[k] = key]
           f == Anchored(w, s)
<1>1. TypeOK /\ PinInv /\ KeyInv /\ selected
  BY Zenon DEF CardInv, PutAlgo, Admin
<1>2. ram \in CardState /\ guessed \in Guesses /\ sessions \in SUBSET Session
  BY <1>1, Zenon DEF TypeOK, Guesses
<1>3. key \in Key /\ key.id = 0
  BY ConstantsAssumption DEF Key
<1>4. /\ s \in CardState /\ s.pw = ram.pw /\ s.counter = ram.counter
      /\ s.keys = [ram.keys EXCEPT ![k] = key]
  BY <1>2, <1>3, Zenon DEF CardState
<1>5. /\ Save(w, s, f, sessions, guessed)
      /\ answered' = [answered EXCEPT ![k] = 0]
      /\ UNCHANGED <<made, signed, material, replaced>>
  BY Zenon DEF PutAlgo, Persist
<1> HIDE DEF s, key
<1>6. f \in [Ref -> 0 .. MaxAttempts]
  BY <1>1, <1>4, AnchoredFloors, Zenon
<1>7. answered \in [KeySlot -> 0 .. MaxKeys] /\ answered' \in [KeySlot -> 0 .. MaxKeys]
  BY <1>1, <1>5, ConstantsAssumption DEF TypeOK
<1>8. TypeOK'
  BY <1>1, <1>2, <1>4, <1>5, <1>6, <1>7, SaveType, Zenon DEF TypeOK, Guesses
<1>9. PinInv'
  BY <1>1, <1>2, <1>4, <1>5, PinsUntouched, Zenon
<1>10. \A i \in KeySlot : /\ s.keys[i] = IF i = k THEN key ELSE ram.keys[i]
                         /\ answered'[i] = IF i = k THEN 0 ELSE answered[i]
  BY <1>2, <1>4, <1>5, <1>7, CardStates, Zenon
<1>11. made \in Nat /\ material \in Nat /\ {"sig", "dec"} \subseteq KeySlot
  BY <1>1, ConstantsAssumption DEF TypeOK
<1>12. KeysOf(s, made, signed, material)
  BY <1>1, <1>3, <1>4, <1>10, <1>11 DEF KeyInv, KeysOf
<1>13. ~replaced => /\ Holds(s, answered') /\ Holds(stored, answered')
                    /\ \A i \in KeySlot : answered'[i] # 0 => stored # Absent
  BY <1>1, <1>10, Zenon DEF KeyInv, Holds
<1>14. KeyInv'
  BY <1>1, <1>4, <1>5, <1>11, <1>12, <1>13, SaveKeys, Zenon DEF KeyInv
<1> QED BY <1>8, <1>9, <1>14, Zenon DEF CardInv

(* The material of PUT DATA D2 is confirmed only where it is stored. *)
LEMMA PutEcdhMaterialKeeps ==
    ASSUME CardInv, NEW w \in Write, PutEcdhMaterial(w)
    PROVE  CardInv'
<1> DEFINE old == ram.keys["dec"]
           key == [old EXCEPT !.size = "ecdh"]
           s == [ram EXCEPT !.keys["dec"].size = "ecdh"]
           f == Anchored(w, s)
<1>1. TypeOK /\ PinInv /\ KeyInv /\ selected
  BY Zenon DEF CardInv, PutEcdhMaterial, Admin
<1>2. /\ ram \in CardState /\ guessed \in Guesses /\ sessions \in SUBSET Session
      /\ {"sig", "dec"} \subseteq KeySlot
  BY <1>1, ConstantsAssumption, Zenon DEF TypeOK, Guesses
<1>3. /\ old \in Key /\ old.id # 0 /\ EffectiveAlgo(old) = "p256"
  BY <1>2, CardStates, Zenon DEF PutEcdhMaterial, HasEcdhKey
<1>4. /\ key \in Key /\ key.id = old.id /\ EffectiveAlgo(key) = "p256" /\ key.size = "ecdh"
      /\ old.id \in 0 .. MaxKeys
  BY <1>3, Zenon DEF Key, EffectiveAlgo
<1>5. /\ s \in CardState /\ s.pw = ram.pw /\ s.counter = ram.counter
      /\ s.keys = [ram.keys EXCEPT !["dec"] = key]
  BY <1>2, <1>4, Zenon DEF CardState
<1>6. /\ Save(w, s, f, sessions, guessed)
      /\ material' = IF w.end = "ok" THEN old.id ELSE material
      /\ UNCHANGED <<made, signed, answered, replaced>>
  BY Zenon DEF PutEcdhMaterial, Persist
<1> HIDE DEF s, key
<1>7. f \in [Ref -> 0 .. MaxAttempts]
  BY <1>1, <1>5, AnchoredFloors, Zenon
<1>8. material' \in 0 .. MaxKeys
  BY <1>1, <1>4, <1>6, Zenon DEF TypeOK
<1>9. TypeOK'
  BY <1>1, <1>2, <1>5, <1>6, <1>7, <1>8, SaveType, Zenon DEF TypeOK, Guesses
<1>10. PinInv'
  BY <1>1, <1>2, <1>5, <1>6, PinsUntouched, Zenon
<1>11. \A i \in KeySlot : s.keys[i] = IF i = "dec" THEN key ELSE ram.keys[i]
  BY <1>2, <1>5, CardStates, Zenon
<1>12. made \in Nat /\ material' <= made
  BY <1>1, <1>2, <1>6, SMTT(30) DEF TypeOK, KeyInv, KeysOf
<1>13. KeysOf(s, made, signed, material')
  BY <1>1, <1>2, <1>4, <1>5, <1>11, Zenon DEF KeyInv, KeysOf
<1>14. ~w.landed => material' = material
  BY <1>6, Zenon DEF Write
<1>15. ~replaced => Holds(s, answered)
  BY <1>1, <1>4, <1>11, Zenon DEF KeyInv, Holds
<1>16. KeyInv'
  BY <1>1, <1>5, <1>6, <1>12, <1>13, <1>14, <1>15, SaveKeys, Zenon DEF KeyInv
<1> QED BY <1>9, <1>10, <1>16, Zenon DEF CardInv

(* A generated key has a number of its own, under which nothing was signed *)
(* or confirmed; it is answered only where it is stored.                   *)
LEMMA GenerateKeeps ==
    ASSUME CardInv, NEW w \in Write, NEW k \in KeySlot, Generate(w, k)
    PROVE  CardInv'
<1> DEFINE key == Generated(k)
           n == IF k = "sig" THEN 0 ELSE ram.counter
           s == [ram EXCEPT !.keys[k] = key, !.counter = IF k = "sig" THEN 0 ELSE @]
<1>1. TypeOK /\ PinInv /\ KeyInv /\ selected /\ made < MaxKeys
  BY Zenon DEF CardInv, Generate, Admin
<1>2. /\ ram \in CardState /\ guessed \in Guesses /\ sessions \in SUBSET Session
      /\ floor \in [Ref -> 0 .. MaxAttempts] /\ {"sig", "dec"} \subseteq KeySlot
      /\ made \in Nat /\ material \in Nat /\ ram.counter \in 0 .. MaxSignatures
  BY <1>1, ConstantsAssumption, CardStates DEF TypeOK, Guesses
<1>3. key \in Key /\ key.id = made + 1
  <2>1. ram.keys[k].algo \in Algo \cup {"unset"}
    BY <1>2, CardStates, Zenon DEF Key
  <2> QED BY <1>1, <1>2, <2>1, ConstantsAssumption DEF Generated, EffectiveAlgo, Key, Algo
<1>4. /\ s \in CardState /\ s.pw = ram.pw /\ s.counter = n
      /\ s.keys = [ram.keys EXCEPT ![k] = key]
  <2>1. n \in 0 .. MaxSignatures
    BY <1>2, ConstantsAssumption
  <2> HIDE DEF key
  <2>2. s = [ram EXCEPT !.keys = [ram.keys EXCEPT ![k] = key], !.counter = n]
    BY <1>2, Zenon DEF CardState
  <2> HIDE DEF s, n
  <2> QED BY <1>2, <1>3, <2>1, <2>2, Zenon DEF CardState
<1>5. /\ Save(w, s, floor, sessions, guessed)
      /\ answered' = [answered EXCEPT ![k] = IF w.end = "ok" THEN made + 1 ELSE 0]
      /\ made' = made + 1
      /\ UNCHANGED <<signed, material, replaced>>
  BY Zenon DEF Generate
<1> HIDE DEF s, key
<1>6. answered \in [KeySlot -> 0 .. MaxKeys] /\ answered' \in [KeySlot -> 0 .. MaxKeys]
  BY <1>1, <1>2, <1>5, ConstantsAssumption DEF TypeOK
<1>7. TypeOK'
  <2>1. made' \in 0 .. MaxKeys
    BY <1>1, <1>2, <1>5, ConstantsAssumption
  <2> QED BY <1>1, <1>2, <1>4, <1>5, <1>6, <2>1, SaveType, Zenon DEF TypeOK, Guesses
<1>8. PinInv'
  BY <1>1, <1>2, <1>4, <1>5, PinsUntouched, Zenon
<1>9. \A i \in KeySlot :
          /\ s.keys[i] = IF i = k THEN key ELSE ram.keys[i]
          /\ answered'[i] = IF i # k THEN answered[i] ELSE IF w.end = "ok" THEN made + 1 ELSE 0
          /\ ram.keys[i].id \in Nat
  BY <1>2, <1>4, <1>5, <1>6, CardStates, SMTT(30) DEF Key
<1>10. /\ signed[made + 1] = 0 /\ material # made + 1
  BY <1>1, <1>2, ConstantsAssumption DEF KeyInv
<1>11. KeysOf(s, made', signed, material)
  <2>1. \A i \in KeySlot : s.keys[i].id <= made'
    BY <1>1, <1>2, <1>3, <1>5, <1>9 DEF KeyInv, KeysOf
  <2>2. s.keys["sig"].id # 0 => signed[s.keys["sig"].id] <= s.counter
    BY <1>1, <1>2, <1>3, <1>4, <1>9, <1>10, ConstantsAssumption, SMTT(30) DEF KeyInv, KeysOf
  <2>3. material # 0 /\ s.keys["dec"].id = material =>
            EffectiveAlgo(s.keys["dec"]) = "p256" /\ s.keys["dec"].size = "ecdh"
    BY <1>1, <1>2, <1>3, <1>9, <1>10, Zenon DEF KeyInv, KeysOf
  <2> QED BY <2>1, <2>2, <2>3, Zenon DEF KeysOf
<1>12. stored # Absent => KeysOf(stored, made', signed, material)
  <2>1. stored # Absent => \A i \in KeySlot : stored.keys[i].id \in Nat
    BY <1>1, CardStates DEF TypeOK, Key
  <2>2. ASSUME stored # Absent, NEW i \in KeySlot PROVE stored.keys[i].id <= made'
    <3>1. stored.keys[i].id \in Nat /\ stored.keys[i].id <= made
      BY <1>1, <2>1, <2>2, Zenon DEF KeyInv, KeysOf
    <3> QED BY <1>2, <1>5, <3>1
  <2> QED BY <1>1, <2>2, Zenon DEF KeyInv, KeysOf
<1>13. /\ material <= made' /\ made' \in Nat
       /\ \A id \in 1 .. MaxKeys : id > made' => signed[id] = 0
  BY <1>1, <1>2, <1>5 DEF KeyInv
<1>14. ~w.landed => w.end # "ok"
  BY Zenon DEF Write
<1>15. ~replaced => /\ Holds(s, answered')
                    /\ ~w.landed => /\ \A i \in KeySlot : answered'[i] # 0 => stored # Absent
                                   /\ Holds(stored, answered')
  BY <1>1, <1>3, <1>9, <1>14, Zenon DEF KeyInv, Holds
<1>16. KeyInv'
  BY <1>1, <1>4, <1>5, <1>11, <1>12, <1>13, <1>15, SaveKeys, Zenon
<1> QED BY <1>7, <1>8, <1>16, Zenon DEF CardInv

(* A signature is answered only where its count is stored. *)
LEMMA SignKeeps ==
    ASSUME CardInv, NEW w \in Write, Sign(w)
    PROVE  CardInv'
<1> DEFINE s == [ram EXCEPT !.counter = @ + 1]
           id == ram.keys["sig"].id
<1>1. /\ TypeOK /\ PinInv /\ KeyInv /\ selected
      /\ id # 0 /\ ram.counter < MaxSignatures
  BY Zenon DEF CardInv, Sign
<1>2. /\ ram \in CardState /\ guessed \in Guesses /\ sessions \ {"sign"} \in SUBSET Session
      /\ floor \in [Ref -> 0 .. MaxAttempts] /\ {"sig", "dec"} \subseteq KeySlot
      /\ made \in Nat /\ signed \in [1 .. MaxKeys -> 0 .. MaxSignatures]
      /\ ram.counter \in 0 .. MaxSignatures
  BY <1>1, ConstantsAssumption, CardStates DEF TypeOK, Guesses
<1>3. id \in 1 .. MaxKeys
  BY <1>1, <1>2, CardStates DEF Key
<1>4. s \in CardState /\ s.pw = ram.pw /\ s.counter = ram.counter + 1 /\ s.keys = ram.keys
  <2>1. ram.counter + 1 \in 0 .. MaxSignatures
    BY <1>1, <1>2, ConstantsAssumption
  <2> QED BY <1>2, <2>1, Zenon DEF CardState
<1>5. /\ Save(w, s, floor, sessions \ {"sign"}, guessed)
      /\ signed' = IF w.end = "ok" THEN [signed EXCEPT ![id] = @ + 1] ELSE signed
      /\ UNCHANGED <<made, material, answered, replaced>>
  BY Zenon DEF Sign
<1> HIDE DEF s
<1>6. signed[id] <= ram.counter /\ id <= made
  BY <1>1, <1>2, Zenon DEF KeyInv, KeysOf
<1>7. /\ signed' \in [1 .. MaxKeys -> 0 .. MaxSignatures]
      /\ \A i \in 1 .. MaxKeys : i # id => signed'[i] = signed[i]
      /\ signed'[id] <= ram.counter + 1
  <2> HIDE DEF id
  <2>1. signed[id] \in 0 .. MaxSignatures
    BY <1>2, <1>3, Zenon
  <2>2. signed[id] + 1 \in 0 .. MaxSignatures
    BY <1>1, <1>2, <1>6, <2>1, ConstantsAssumption
  <2> QED BY <1>2, <1>3, <1>5, <1>6, <2>1, <2>2
<1>8. TypeOK'
  BY <1>1, <1>2, <1>4, <1>5, <1>7, SaveType, Zenon DEF TypeOK, Guesses
<1>9. PinInv'
  BY <1>1, <1>2, <1>4, <1>5, PinsUntouched, Zenon
<1>10. KeysOf(s, made, signed', material)
  BY <1>1, <1>4, <1>7, Zenon DEF KeyInv, KeysOf
<1>11. ~w.landed => signed' = signed
  BY <1>5, Zenon DEF Write
<1>12. \A i \in 1 .. MaxKeys : i > made => signed'[i] = 0
  BY <1>1, <1>2, <1>3, <1>6, <1>7 DEF KeyInv
<1>13. ~replaced => Holds(s, answered)
  BY <1>1, <1>4, Zenon DEF KeyInv, Holds
<1>14. KeyInv'
  BY <1>1, <1>2, <1>4, <1>5, <1>10, <1>11, <1>12, <1>13, SaveKeys, Zenon DEF KeyInv
<1> QED BY <1>8, <1>9, <1>14, Zenon DEF CardInv

-----------------------------------------------------------------------------
(* The PINs of a reload: those of the store, or the defaults, with the     *)
(* tries the floors leave them.                                            *)
LEMMA ClampedPins ==
    ASSUME TypeOK, NEW pw \in [Ref -> PinSlot]
    PROVE  /\ Clamped(pw) \in [Ref -> PinSlot]
           /\ \A ref \in Ref : /\ Clamped(pw)[ref].hash = pw[ref].hash
                             /\ Clamped(pw)[ref].retries = Lower(pw[ref].retries, floor[ref])
<1>1. \A ref \in Ref : pw[ref] \in PinSlot /\ pw[ref].retries \in 0 .. MaxAttempts
                      /\ floor[ref] \in 0 .. MaxAttempts
  BY PinSlots, Zenon DEF TypeOK
<1>2. \A ref \in Ref : Lower(pw[ref].retries, floor[ref]) \in 0 .. MaxAttempts
  BY <1>1, Zenon DEF Lower
<1> QED BY <1>1, <1>2, Zenon DEF Clamped, PinSlot

(* A SELECT that loads the store. *)
LEMMA LoadStateKeeps ==
    ASSUME CardInv, LoadState
    PROVE  CardInv'
<1> DEFINE s == [stored EXCEPT !.pw = Clamped(stored.pw)]
<1>1. TypeOK /\ PinInv /\ KeyInv
  BY Zenon DEF CardInv
<1>2. /\ stored \in CardState /\ stored # Absent
      /\ ram' = s /\ selected' = TRUE /\ sessions' = {}
      /\ UNCHANGED <<stored, floor, made, guessed, recorded, signed, material, answered, replaced>>
  BY <1>1, Zenon DEF LoadState, TypeOK
<1>3. /\ Clamped(stored.pw) \in [Ref -> PinSlot]
      /\ \A ref \in Ref :
            /\ Clamped(stored.pw)[ref].hash = stored.pw[ref].hash
            /\ Clamped(stored.pw)[ref].retries = Lower(stored.pw[ref].retries, floor[ref])
  BY <1>1, <1>2, CardStates, ClampedPins, Zenon
<1>4. /\ s \in CardState /\ s.pw = Clamped(stored.pw) /\ s.keys = stored.keys
      /\ s.counter = stored.counter
  BY <1>2, <1>3, Zenon DEF CardState
<1> HIDE DEF s
<1>5. TypeOK'
  BY <1>1, <1>2, <1>4, Zenon DEF TypeOK
<1>6. HasCodes(s)
  BY <1>1, <1>2, <1>3, <1>4, Zenon DEF PinInv, HasCodes
<1>7. ~replaced => Budgeted(s, guessed)
  BY <1>1, <1>2, <1>3, <1>4, Zenon DEF PinInv, Covered, Found, Budgeted, WithinBudget
<1>8. PinInv'
  BY <1>1, <1>2, <1>6, <1>7, Zenon DEF PinInv
<1>9. KeysOf(s, made, signed, material)
  BY <1>1, <1>2, <1>4, Zenon DEF KeyInv, KeysOf
<1>10. ~replaced => Holds(s, answered)
  BY <1>1, <1>4, Zenon DEF KeyInv, Holds
<1>11. KeyInv'
  BY <1>1, <1>2, <1>9, <1>10, Zenon DEF KeyInv
<1> QED BY <1>5, <1>8, <1>11, Zenon DEF CardInv

(* A SELECT that provisions the defaults: unless it gives up a stored card *)
(* state, there is none, and nothing was answered.                         *)
LEMMA ProvisionKeeps ==
    ASSUME CardInv, NEW w \in Write, Provision(w)
    PROVE  CardInv'
<1> DEFINE defaults == [ref \in Ref |-> Full(DefaultCode)]
           s == [ram EXCEPT !.pw = Clamped(defaults)]
<1>1. TypeOK /\ PinInv /\ KeyInv
  BY Zenon DEF CardInv
<1>2. /\ ram \in CardState /\ guessed \in Guesses /\ {} \in SUBSET Session
      /\ floor \in [Ref -> 0 .. MaxAttempts] /\ made \in Nat
      /\ DefaultCode \in Code /\ DefaultCode # Unset
  BY <1>1, ConstantsAssumption DEF TypeOK, Guesses
<1>3. /\ defaults \in [Ref -> PinSlot]
      /\ \A ref \in Ref : defaults[ref].hash = DefaultCode /\ defaults[ref].retries = MaxAttempts
  BY <1>2, PinSlots, Zenon
<1> HIDE DEF defaults
<1>4. /\ Clamped(defaults) \in [Ref -> PinSlot]
      /\ \A ref \in Ref :
            /\ Clamped(defaults)[ref].hash = DefaultCode
            /\ Clamped(defaults)[ref].retries = Lower(MaxAttempts, floor[ref])
  BY <1>1, <1>3, ClampedPins, Zenon
<1>5. /\ s \in CardState /\ s.pw = Clamped(defaults) /\ s.keys = ram.keys
      /\ s.counter = ram.counter
  BY <1>2, <1>4, Zenon DEF CardState
<1>6. /\ Save(w, s, floor, {}, guessed)
      /\ replaced' = (replaced \/ stored # Absent)
      /\ UNCHANGED <<made, signed, material, answered>>
  BY Zenon DEF Provision, defaults
<1> HIDE DEF s
<1>7. TypeOK'
  BY <1>1, <1>2, <1>5, <1>6, SaveType, Zenon DEF TypeOK, Guesses
<1>8. HasCodes(s)
  BY <1>2, <1>4, <1>5, Zenon DEF HasCodes
<1>9. ASSUME ~replaced' PROVE ~replaced /\ stored = Absent
  BY <1>6, <1>9, Zenon
<1>10. ASSUME ~replaced' PROVE Budgeted(s, guessed) /\ Covered(stored, floor, guessed)
  <2>1. \A ref \in Ref :
           Found(stored, ref).hash = DefaultCode /\ Found(stored, ref).retries = MaxAttempts
    BY <1>2, <1>9, <1>10, PinSlots, Zenon DEF Found
  <2> QED BY <1>1, <1>4, <1>5, <1>9, <1>10, <2>1, Zenon DEF PinInv, Covered, Budgeted, WithinBudget
<1>11. PinInv'
  BY <1>1, <1>2, <1>5, <1>6, <1>8, <1>9, <1>10, SavePins, Zenon
<1>12. KeysOf(s, made, signed, material)
  BY <1>1, <1>5, Zenon DEF KeyInv, KeysOf
<1>13. ASSUME ~replaced' PROVE \A k \in KeySlot : answered[k] = 0
  BY <1>1, <1>9, <1>13, Zenon DEF KeyInv
<1>14. ~replaced' => /\ Holds(s, answered) /\ Holds(stored, answered)
                     /\ \A k \in KeySlot : answered[k] # 0 => stored # Absent
  BY <1>13, Zenon DEF Holds
<1>15. KeyInv'
  BY <1>1, <1>2, <1>5, <1>6, <1>12, <1>14, SaveKeys, Zenon DEF KeyInv
<1> QED BY <1>7, <1>11, <1>15, Zenon DEF CardInv

(* A power cycle leaves what the store recorded. *)
LEMMA PowerCycleKeeps ==
    ASSUME CardInv, PowerCycle
    PROVE  CardInv'
<1>1. TypeOK /\ PinInv /\ KeyInv
  BY Zenon DEF CardInv
<1>2. /\ UNCHANGED <<stored, recorded, made, signed, material, answered, replaced>>
      /\ ram' = Blank /\ floor' = [ref \in Ref |-> MaxAttempts] /\ selected' = FALSE
      /\ sessions' = {} /\ guessed' = recorded
  BY Zenon DEF PowerCycle, Restart
<1>3. floor' \in [Ref -> 0 .. MaxAttempts]
  BY <1>2, ConstantsAssumption
<1>4. TypeOK'
  BY <1>1, <1>2, <1>3, BlankCard, Zenon DEF TypeOK
<1>5. Budgeted(Blank, recorded)
  BY BlankCard, Zenon DEF Budgeted, WithinBudget
<1>6. ~replaced => Covered(stored, floor', recorded)
  <2>1. \A ref \in Ref : Found(stored, ref) \in PinSlot
    BY <1>1, CardStates, PinSlots, ConstantsAssumption, Zenon DEF Found, TypeOK
  <2>2. \A ref \in Ref : Lower(Found(stored, ref).retries, floor'[ref]) = Found(stored, ref).retries
    BY <1>2, <2>1, PinSlots, ConstantsAssumption DEF Lower
  <2> QED BY <1>1, <2>2, Zenon DEF PinInv, Covered, Recorded
<1>7. PinInv'
  BY <1>1, <1>2, <1>5, <1>6, Zenon DEF PinInv
<1>8. KeysOf(Blank, made, signed, material)
  BY <1>1, BlankCard, ConstantsAssumption DEF KeysOf, TypeOK
<1>9. KeyInv'
  BY <1>1, <1>2, <1>8, Zenon DEF KeyInv
<1> QED BY <1>4, <1>7, <1>9, Zenon DEF CardInv

(* The steps that change neither the card state nor the store. *)
LEMMA SessionKeeps ==
    ASSUME CardInv,
           UNCHANGED <<ram, stored, floor, made, guessed, recorded, signed, material, answered,
                       replaced>>,
           selected' \in BOOLEAN, selected' => selected, sessions' \subseteq Session
    PROVE  CardInv'
<1>1. TypeOK'
  BY Zenon DEF CardInv, TypeOK
<1>2. PinInv' /\ KeyInv'
  BY Zenon DEF CardInv, PinInv, KeyInv
<1> QED BY <1>1, <1>2, Zenon DEF CardInv

(* Every step keeps the invariant. *)
LEMMA CardStep ==
    ASSUME CardInv, [Next]_vars
    PROVE  CardInv'
<1>1. CASE UNCHANGED vars
  BY <1>1, SessionKeeps, Zenon DEF vars, CardInv, TypeOK
<1>2. ASSUME NEW w \in Write, PinCommand(w) PROVE CardInv'
  <2>1. ASSUME NEW ref \in Ref, NEW c \in Code, VerifyWrong(w, ref, c) PROVE CardInv'
    BY <2>1, WrongCodeKeeps, Zenon DEF VerifyWrong
  <2>2. ASSUME NEW ref \in Ref, NEW c \in Code, NEW d \in Code,
               ChangeReferenceData(w, ref, c, d)
        PROVE  CardInv'
    BY <2>2, WrongCodeKeeps, InstallKeeps, SaveUnchangedKeeps, Zenon DEF ChangeReferenceData
  <2>3. ASSUME NEW d \in Code, ResetRetryCounter(w, d) PROVE CardInv'
    BY <2>3, InstallKeeps, Zenon DEF ResetRetryCounter, Ref
  <2> QED BY <1>2, <2>1, <2>2, <2>3, Zenon DEF PinCommand
<1>3. ASSUME NEW w \in Write, KeyCommand(w) PROVE CardInv'
  <2>1. CASE PutObject(w)
    BY <2>1, SaveUnchangedKeeps, Zenon DEF PutObject, Admin
  <2> QED BY <1>3, <2>1, PutAlgoKeeps, PutEcdhMaterialKeeps, GenerateKeeps, SignKeeps, Zenon DEF KeyCommand
<1>4. ASSUME NEW session \in Session, NEW c \in Code, VerifyRight(session, c) PROVE CardInv'
  BY <1>4, SessionKeeps, Zenon DEF VerifyRight, CardInv, TypeOK
<1>5. ASSUME NEW k \in KeySlot, NEW input \in Input, UseKey(k, input) PROVE CardInv'
  BY <1>5, <1>1, Zenon DEF UseKey
<1>6. CASE Deselect
  BY <1>6, SessionKeeps, Zenon DEF Deselect, CardInv, TypeOK
<1> QED BY <1>1, <1>2, <1>3, <1>4, <1>5, <1>6, ProvisionKeeps, LoadStateKeeps, PowerCycleKeeps, Zenon
        DEF Next

(* A card that was never selected is blank, and so is its store. *)
LEMMA CardInit == Init => CardInv
<1> SUFFICES ASSUME Init PROVE CardInv
  BY Zenon
<1>1. /\ ram = Blank /\ stored = Absent /\ floor = [ref \in Ref |-> MaxAttempts]
      /\ selected = FALSE /\ sessions = {} /\ made = 0 /\ replaced = FALSE /\ material = 0
      /\ guessed = [ref \in Ref |-> NoGuesses] /\ recorded = guessed
      /\ signed = [id \in 1 .. MaxKeys |-> 0] /\ answered = [k \in KeySlot |-> 0]
  BY Zenon DEF Init
<1>2. guessed \in Guesses /\ \A ref \in Ref, c \in Code : guessed[ref][c] = 0
  BY <1>1, ConstantsAssumption DEF Guesses, NoGuesses
<1>3. TypeOK
  <2>1. /\ floor \in [Ref -> 0 .. MaxAttempts] /\ made \in 0 .. MaxKeys /\ material \in 0 .. MaxKeys
        /\ signed \in [1 .. MaxKeys -> 0 .. MaxSignatures] /\ answered \in [KeySlot -> 0 .. MaxKeys]
    BY <1>1, ConstantsAssumption
  <2> QED BY <1>1, <1>2, <2>1, BlankCard, Zenon DEF TypeOK, Guesses
<1>4. \A ref \in Ref :
         Found(stored, ref).hash = DefaultCode /\ Found(stored, ref).retries = MaxAttempts
  BY <1>1, PinSlots, ConstantsAssumption, Zenon DEF Found
<1>5. \A ref \in Ref : Lower(MaxAttempts, floor[ref]) = MaxAttempts
  BY <1>1, ConstantsAssumption, Zenon DEF Lower
<1>6. PinInv
  BY <1>1, <1>2, <1>4, <1>5, BlankCard, ConstantsAssumption, SMTT(30)
     DEF PinInv, Covered, Recorded, Budgeted, WithinBudget
<1>7. KeyInv
  BY <1>1, BlankCard, ConstantsAssumption DEF KeyInv, KeysOf, Holds
<1> QED BY <1>3, <1>6, <1>7, Zenon DEF CardInv

(* The invariant holds of every behaviour. *)
THEOREM CardInvariance == Spec => []CardInv
BY CardInit, CardStep, PTL DEF Spec

(* The PIN budget of openpgp.rs and pin.rs: however saves fail, and        *)
(* whatever is reloaded, the wrong presentations against a value of PW1 or *)
(* PW3 and the tries it has left never exceed MaxAttempts, unless a stored *)
(* card state was given up for the defaults.                               *)
THEOREM PinBudget == Spec => []GuessesAreBounded
<1>1. CardInv => GuessesAreBounded
  BY Zenon DEF CardInv, PinInv, GuessesAreBounded, Budgeted, Recorded, Found, WithinBudget
<1> QED BY <1>1, CardInvariance, PTL

(* The signature counter of openpgp.rs, sign: RAM and store count at least *)
(* the signatures that were answered with their signature key.             *)
THEOREM CounterNeverBehind == Spec => []SignaturesAreCounted
<1>1. CardInv => SignaturesAreCounted
  BY Zenon DEF CardInv, KeyInv, KeysOf, SignaturesAreCounted
<1> QED BY <1>1, CardInvariance, PTL

(* What the card answered about its keys outlives the session (generate,   *)
(* put_ecdh_material, decipher): a generated key is the stored one, and    *)
(* the partial decrypt does not come back for a key with material.         *)
THEOREM AnswersOutliveSession == Spec => []PgpInv
<1>1. CardInv => AnsweredKeyIsStored
  BY Zenon DEF CardInv, KeyInv, Holds, AnsweredKeyIsStored
<1>2. CardInv => SharedSecretStays
  <2> SUFFICES ASSUME CardInv, NEW s \in {ram, stored} \ {Absent},
                      material # 0, s.keys["dec"].id = material, NEW input \in Input
               PROVE  DecipherAnswer(s.keys["dec"], input) # "shared secret"
    BY Zenon DEF SharedSecretStays
  <2>1. EffectiveAlgo(s.keys["dec"]) = "p256" /\ s.keys["dec"].size = "ecdh"
    BY Zenon DEF CardInv, KeyInv, KeysOf
  <2> QED BY <2>1, Zenon DEF DecipherAnswer, HasMaterial, Unwrapped
<1> QED BY <1>1, <1>2, CardInvariance, PTL DEF CardInv, PgpInv
==============================================================================

----------------------------- MODULE PivProofs ------------------------------
(***************************************************************************)
(* Proofs about PivPin and PivSign, for every set of codes, keys and       *)
(* policies and every retry budget.                                        *)
(***************************************************************************)
EXTENDS PivSign, TLAPS

USE CodeAssumption, AbsentAssumption

Guesses == [Ref -> [Code -> 0 .. MaxAttempts]]

(* Whatever was in RAM only, a restart grants no more than the records do. *)
LEMMA RestartKeeps ==
    ASSUME NEW st \in [Ref -> Slot \cup {Absent}], NEW g \in Guesses,
           replaced \in BOOLEAN,
           ~replaced => \A ref \in Ref : st[ref] # Absent => WithinBudget(st[ref], g[ref]),
           Restart(st, g)
    PROVE  IInv'
<1>1. Full(Unset) \in Slot /\ Full(Unset).hash = Unset
  BY DEF Full, Slot
<1>2. /\ stored' = st /\ guessed' = g /\ recorded' = g /\ replaced' = replaced
      /\ slots' \in [Ref -> Slot] /\ floor' \in [Ref -> 0 .. MaxAttempts]
      /\ \A ref \in Ref : slots'[ref].hash = Unset /\ floor'[ref] = MaxAttempts
      /\ provisioned' = FALSE /\ selected' = FALSE /\ verified' = FALSE /\ shown' = Unset
  BY <1>1 DEF Restart
<1>3. PivPinTypeOK'
  BY <1>1, <1>2, Zenon DEF PivPinTypeOK, Guesses
<1>4. GuessesAreBounded'
  BY <1>2, Zenon DEF GuessesAreBounded, WithinBudget
<1>5. FloorCovers'
  <2> SUFFICES ASSUME ~replaced, NEW ref \in Ref, st[ref] # Absent, st[ref].hash # Unset
               PROVE  Lower(st[ref].retries, floor'[ref]) + g[ref][st[ref].hash] <= MaxAttempts
    BY <1>2, Zenon DEF FloorCovers
  <2>1. Lower(st[ref].retries, floor'[ref]) = st[ref].retries
    BY <1>2 DEF Lower, Slot
  <2> QED BY <2>1, Zenon DEF WithinBudget
<1> QED BY <1>3, <1>4, <1>5, Zenon DEF IInv

(* The slot s that a command left in RAM when the guesses are g is within  *)
(* the budget, and so is the old record clamped by the lowered floor.      *)
StaysCovered(ref, s, g) ==
    ~replaced =>
        /\ WithinBudget(s, g[ref])
        /\ stored[ref] # Absent /\ stored[ref].hash # Unset =>
               Lower(stored[ref].retries, Lower(floor[ref], s.retries))
                   + g[ref][stored[ref].hash] <= MaxAttempts

(* However the write of a slot that stays covered ends, the budget holds   *)
(* afterwards.                                                             *)
LEMMA PersistKeeps ==
    ASSUME IInv,
           NEW w \in Write, NEW ref \in Ref, NEW s \in Slot, NEW v \in BOOLEAN,
           NEW g \in Guesses, NEW sh \in Code \cup {Unset},
           \A o \in Ref \ {ref} : g[o] = guessed[o],
           StaysCovered(ref, s, g),
           Persist(w, ref, s, v, g, sh)
    PROVE  IInv'
<1> DEFINE st == IF w.landed THEN [stored EXCEPT ![ref] = s] ELSE stored
           rec == IF w.landed THEN [recorded EXCEPT ![ref] = g[ref]] ELSE recorded
           fl == NewFloor(w, ref, s)
<1>1. /\ w.landed \in BOOLEAN
      /\ w.end # "error" => w.landed
      /\ w.end = "ok" => w.landed
  BY Zenon DEF Write
<1>2. /\ s.retries \in 0 .. MaxAttempts /\ s # Absent
      /\ \A o \in Ref : g[o] \in [Code -> 0 .. MaxAttempts]
      /\ floor[ref] \in 0 .. MaxAttempts
      /\ recorded \in Guesses /\ replaced \in BOOLEAN
  <2>1. s # Absent
    BY Zenon
  <2> QED BY <2>1, Zenon DEF Slot, Guesses, IInv, PivPinTypeOK
<1>3. /\ st \in [Ref -> Slot \cup {Absent}]
      /\ st[ref] = IF w.landed THEN s ELSE stored[ref]
      /\ \A o \in Ref \ {ref} : st[o] = stored[o]
  BY <1>1, Zenon DEF IInv, PivPinTypeOK
<1>4. /\ rec \in Guesses
      /\ rec[ref] = IF w.landed THEN g[ref] ELSE recorded[ref]
      /\ \A o \in Ref \ {ref} : rec[o] = recorded[o]
  BY <1>1, <1>2, Zenon DEF Guesses
<1>5. ASSUME ~replaced, NEW o \in Ref, st[o] # Absent
      PROVE  WithinBudget(st[o], rec[o])
  <2> HIDE DEF st, rec
  <2>1. stored[o] # Absent => WithinBudget(stored[o], recorded[o])
    BY <1>5, Zenon DEF IInv, GuessesAreBounded
  <2>2. CASE o = ref /\ w.landed
    BY <2>2, <1>5, <1>3, <1>4, Zenon DEF StaysCovered
  <2>3. CASE ~(o = ref /\ w.landed)
    BY <2>3, <2>1, <1>5, <1>3, <1>4, Zenon
  <2> QED BY <2>2, <2>3, Zenon
<1>6. CASE w.end = "crash"
  <2>1. Restart(st, rec)
    BY <1>6, Zenon DEF Persist
  <2> HIDE DEF st, rec
  <2> QED BY <2>1, <1>2, <1>3, <1>4, <1>5, RestartKeeps, Zenon
<1>7. CASE w.end # "crash"
  <2>1. /\ stored' = st
        /\ slots' = [slots EXCEPT ![ref] = s]
        /\ floor' = [floor EXCEPT ![ref] = fl]
        /\ recorded' = rec
        /\ verified' = v /\ guessed' = g /\ shown' = sh
        /\ UNCHANGED <<provisioned, selected, replaced>>
    BY <1>7, Zenon DEF Persist
  <2>2. /\ fl \in 0 .. MaxAttempts
        /\ w.landed => fl = s.retries \/ fl = Lower(floor[ref], s.retries)
        /\ ~w.landed => fl = Lower(floor[ref], s.retries)
    BY <1>1, <1>2, Zenon DEF NewFloor, Lower
  <2> HIDE DEF st, rec, fl
  <2>3. /\ slots' \in [Ref -> Slot] /\ floor' \in [Ref -> 0 .. MaxAttempts]
        /\ slots'[ref] = s /\ floor'[ref] = fl
        /\ \A o \in Ref \ {ref} : slots'[o] = slots[o] /\ floor'[o] = floor[o]
    BY <2>1, <2>2, <1>1, Zenon DEF IInv, PivPinTypeOK
  <2>4. PivPinTypeOK'
    BY <2>1, <2>3, <1>3, <1>4, Zenon DEF IInv, PivPinTypeOK, Guesses
  <2>5. GuessesAreBounded'
    <3> SUFFICES ASSUME ~replaced, NEW o \in Ref
                 PROVE  /\ WithinBudget(slots'[o], g[o])
                        /\ st[o] # Absent => WithinBudget(st[o], rec[o])
      BY <2>1, Zenon DEF GuessesAreBounded, WithinBudget
    <3>1. CASE o # ref
      BY <3>1, <2>3, <1>5, Zenon DEF IInv, GuessesAreBounded
    <3>2. CASE o = ref
      BY <3>2, <2>3, <1>5, Zenon DEF StaysCovered
    <3> QED BY <3>1, <3>2, Zenon
  <2>6. FloorCovers'
    <3> SUFFICES ASSUME ~replaced, NEW o \in Ref, st[o] # Absent, st[o].hash # Unset
                 PROVE  Lower(st[o].retries, floor'[o]) + g[o][st[o].hash] <= MaxAttempts
      BY <2>1, Zenon DEF FloorCovers
    <3>1. CASE o # ref
      BY <3>1, <2>3, <1>3, Zenon DEF IInv, FloorCovers
    <3>2. CASE o = ref /\ w.landed
      <4>1. st[o] = s /\ s.hash \in Code
        BY <3>2, <1>3, Zenon DEF Slot
      <4>2. s.retries + g[ref][s.hash] <= MaxAttempts /\ g[ref][s.hash] \in Nat
        BY <4>1, <1>2 DEF StaysCovered, WithinBudget
      <4>3. Lower(s.retries, fl) <= s.retries /\ Lower(s.retries, fl) \in Nat
        BY <2>2, <1>2 DEF Lower
      <4> QED BY <3>2, <4>1, <4>2, <4>3, <2>3, <1>2
    <3>3. CASE o = ref /\ ~w.landed
      BY <3>3, <2>2, <2>3, <1>3, Zenon DEF StaysCovered
    <3> QED BY <3>1, <3>2, <3>3, <1>1, Zenon
  <2> QED BY <2>4, <2>5, <2>6, Zenon DEF IInv
<1> QED BY <1>6, <1>7, Zenon

(* A wrong presentation spends one of the tries that are left. *)
LEMMA WrongCodeKeeps ==
    ASSUME IInv, NEW w \in Write, NEW ref \in Ref, NEW c \in Code, NEW v \in BOOLEAN,
           WrongCode(w, ref, c, v)
    PROVE  IInv'
<1> DEFINE s == Charged(ref)
           g == OneMore(ref)
           h == slots[ref].hash
           n == IF guessed[ref][h] < MaxAttempts THEN guessed[ref][h] + 1 ELSE guessed[ref][h]
<1>1. /\ slots[ref] \in Slot /\ h \in Code
      /\ slots[ref].retries \in 1 .. MaxAttempts
      /\ ~replaced => slots[ref].retries + guessed[ref][h] <= MaxAttempts
  BY DEF IInv, PivPinTypeOK, GuessesAreBounded, WithinBudget, WrongCode, Slot
<1>2. /\ s \in Slot /\ s.hash = h /\ s.retries = slots[ref].retries - 1
  BY <1>1 DEF Charged, Slot
<1>3. /\ guessed \in Guesses
      /\ guessed[ref] \in [Code -> 0 .. MaxAttempts]
      /\ floor[ref] \in 0 .. MaxAttempts /\ shown \in Code \cup {Unset}
  BY Zenon DEF IInv, PivPinTypeOK, Guesses
<1>4. g = [guessed EXCEPT ![ref] = [guessed[ref] EXCEPT ![h] = n]]
  BY Zenon DEF OneMore
<1>5. n \in 0 .. MaxAttempts /\ n <= guessed[ref][h] + 1
  BY <1>1, <1>3
<1> HIDE DEF n
<1>6. /\ g \in Guesses
      /\ g[ref] = [guessed[ref] EXCEPT ![h] = n]
      /\ \A o \in Ref \ {ref} : g[o] = guessed[o]
  BY <1>1, <1>3, <1>4, <1>5 DEF Guesses
<1>7. Persist(w, ref, s, v, g, shown)
  BY Zenon DEF WrongCode
<1> HIDE DEF s, g
<1>8. ~replaced => s.retries + g[ref][h] <= MaxAttempts
  BY <1>1, <1>2, <1>3, <1>5, <1>6
<1>9. ASSUME ~replaced, stored[ref] # Absent, stored[ref].hash # Unset
      PROVE  Lower(stored[ref].retries, Lower(floor[ref], s.retries))
                 + g[ref][stored[ref].hash] <= MaxAttempts
  <2>1. stored[ref].retries \in 0 .. MaxAttempts /\ stored[ref].hash \in Code
    BY <1>9, Zenon DEF IInv, PivPinTypeOK, Slot
  <2>2. CASE stored[ref].hash = h
    BY <1>8, <1>9, <1>2, <1>3, <1>5, <1>6, <2>1, <2>2, <1>1 DEF Lower
  <2>3. CASE stored[ref].hash # h
    <3>1. g[ref][stored[ref].hash] = guessed[ref][stored[ref].hash]
      BY <2>1, <2>3, <1>6, <1>3, Zenon
    <3>2. Lower(stored[ref].retries, floor[ref]) + guessed[ref][stored[ref].hash]
              <= MaxAttempts
      BY <1>9, Zenon DEF IInv, FloorCovers
    <3> QED BY <3>1, <3>2, <2>1, <1>1, <1>2, <1>3 DEF Lower
  <2> QED BY <2>2, <2>3, Zenon
<1>10. StaysCovered(ref, s, g)
  BY <1>2, <1>8, <1>9, Zenon DEF StaysCovered, WithinBudget
<1> QED BY <1>2, <1>3, <1>6, <1>7, <1>10, PersistKeeps

(* A new value starts with a full budget and no guesses against it. *)
LEMMA InstallKeeps ==
    ASSUME IInv, NEW w \in Write, NEW ref \in Ref, NEW d \in Code, NEW v \in BOOLEAN,
           NEW sh \in Code \cup {Unset},
           Persist(w, ref, Full(d), v, Installed(ref, d), sh)
    PROVE  IInv'
<1> DEFINE s == Full(d)
           g == Installed(ref, d)
<1>1. /\ s \in Slot /\ s.hash = d /\ s.retries = MaxAttempts
  BY DEF Full, Slot
<1>2. /\ guessed \in Guesses
      /\ guessed[ref] \in [Code -> 0 .. MaxAttempts]
      /\ floor[ref] \in 0 .. MaxAttempts
  BY Zenon DEF IInv, PivPinTypeOK, Guesses
<1>3. g = [guessed EXCEPT ![ref] = [guessed[ref] EXCEPT ![d] = 0]]
  BY Zenon DEF Installed
<1>4. /\ g \in Guesses
      /\ g[ref] = [guessed[ref] EXCEPT ![d] = 0]
      /\ \A o \in Ref \ {ref} : g[o] = guessed[o]
  BY <1>2, <1>3 DEF Guesses
<1> HIDE DEF g
<1>5. WithinBudget(s, g[ref])
  BY <1>1, <1>2, <1>4 DEF WithinBudget
<1>6. ASSUME ~replaced, stored[ref] # Absent, stored[ref].hash # Unset
      PROVE  Lower(stored[ref].retries, Lower(floor[ref], s.retries))
                 + g[ref][stored[ref].hash] <= MaxAttempts
  <2>1. stored[ref].retries \in 0 .. MaxAttempts /\ stored[ref].hash \in Code
    BY <1>6, Zenon DEF IInv, PivPinTypeOK, Slot
  <2>2. g[ref][stored[ref].hash] <= guessed[ref][stored[ref].hash]
        /\ g[ref][stored[ref].hash] \in Int /\ guessed[ref][stored[ref].hash] \in Int
    BY <2>1, <1>2, <1>4
  <2>3. Lower(stored[ref].retries, floor[ref]) + guessed[ref][stored[ref].hash]
            <= MaxAttempts
    BY <1>6, Zenon DEF IInv, FloorCovers
  <2>4. Lower(floor[ref], s.retries) = floor[ref]
    BY <1>1, <1>2 DEF Lower
  <2> HIDE DEF s
  <2> QED BY <2>1, <2>2, <2>3, <2>4, <1>2 DEF Lower
<1>7. Persist(w, ref, s, v, g, sh)
  BY Zenon DEF g
<1> HIDE DEF s
<1>8. StaysCovered(ref, s, g)
  BY <1>5, <1>6, Zenon DEF StaysCovered
<1> QED BY <1>1, <1>4, <1>7, <1>8, PersistKeeps, Zenon

(* SELECT loads a record clamped to its floor; a default it provisions     *)
(* where no record was starts with a full budget and no guesses.           *)
LEMMA SelectKeeps ==
    ASSUME IInv,
           NEW missing \in SUBSET Ref, NEW written \in SUBSET Ref,
           NEW unread \in SUBSET Ref,
           Select(missing, written, unread)
    PROVE  IInv'
<1> DEFINE st == Provisioned(written)
           loads == IF "pin" \in unread THEN {} ELSE Ref \ unread
           g == AfterProvision(written, guessed)
           rec == AfterProvision(written, recorded)
<1>1. /\ slots \in [Ref -> Slot] /\ stored \in [Ref -> Slot \cup {Absent}]
      /\ floor \in [Ref -> 0 .. MaxAttempts] /\ guessed \in Guesses
      /\ recorded \in Guesses /\ replaced \in BOOLEAN
  BY Zenon DEF IInv, PivPinTypeOK, Guesses
<1>2. /\ Full(DefaultCode) \in Slot /\ Full(DefaultCode) # Absent
      /\ Full(DefaultCode).hash = DefaultCode
      /\ Full(DefaultCode).retries = MaxAttempts
  <2>1. Full(DefaultCode) \in Slot
    BY DEF Full, Slot
  <2>2. Full(DefaultCode) # Absent
    BY <2>1, Zenon
  <2> QED BY <2>1, <2>2, Zenon DEF Full
<1>3. /\ Unreadable(st) \subseteq unread
      /\ stored' = st /\ guessed' = g /\ recorded' = rec
      /\ replaced' = (replaced \/ ~(written \subseteq Unreadable(stored)))
      /\ slots' = [ref \in Ref |-> IF ref \in loads THEN Clamped(ref, st) ELSE slots[ref]]
      /\ provisioned' = TRUE /\ selected' = TRUE /\ verified' = FALSE
      /\ shown' = Unset /\ floor' = floor
  BY Zenon DEF Select
<1>4. /\ replaced' \in BOOLEAN
      /\ ~replaced' => ~replaced /\ \A ref \in written : stored[ref] = Absent
  BY <1>1, <1>3, Zenon DEF Unreadable
<1>5. /\ st \in [Ref -> Slot \cup {Absent}]
      /\ \A ref \in Ref : st[ref] = IF ref \in written THEN Full(DefaultCode) ELSE stored[ref]
  BY <1>1, <1>2, Zenon DEF Provisioned
<1>6. ASSUME NEW f \in Guesses
      PROVE  /\ AfterProvision(written, f) \in Guesses
             /\ \A ref \in Ref, c \in Code :
                    /\ f[ref][c] \in 0 .. MaxAttempts
                    /\ AfterProvision(written, f)[ref][c] \in 0 .. f[ref][c]
             /\ \A ref \in written :
                    stored[ref] = Absent => AfterProvision(written, f)[ref][DefaultCode] = 0
             /\ \A ref \in Ref \ written : AfterProvision(written, f)[ref] = f[ref]
  BY <1>6 DEF Guesses, AfterProvision
<1>7. \A ref \in loads : ref \in Ref /\ st[ref] \in Slot /\ st[ref] # Absent
  BY <1>3, <1>5, Zenon DEF Unreadable
<1>8. /\ g \in Guesses /\ rec \in Guesses
      /\ \A ref \in Ref, c \in Code :
             guessed[ref][c] \in 0 .. MaxAttempts /\ g[ref][c] \in 0 .. guessed[ref][c]
      /\ ~replaced' => \A ref \in written : g[ref][DefaultCode] = 0 /\ rec[ref][DefaultCode] = 0
      /\ \A ref \in Ref \ written : g[ref] = guessed[ref] /\ rec[ref] = recorded[ref]
  BY <1>1, <1>4, <1>6, Zenon
<1> HIDE DEF st, loads, g, rec
<1>9. \A ref \in loads :
          /\ Clamped(ref, st) \in Slot /\ Clamped(ref, st).hash = st[ref].hash
          /\ Clamped(ref, st).retries = Lower(st[ref].retries, floor[ref])
  BY <1>1, <1>7, Zenon DEF Clamped, Lower, Slot
<1>10. /\ slots' \in [Ref -> Slot]
       /\ \A ref \in Ref : slots'[ref] = IF ref \in loads THEN Clamped(ref, st) ELSE slots[ref]
  BY <1>1, <1>3, <1>9, Zenon
<1>11. PivPinTypeOK'
  BY <1>1, <1>3, <1>4, <1>5, <1>8, <1>10, Zenon DEF PivPinTypeOK, Guesses
<1>12. FloorCovers'
  <2> SUFFICES ASSUME ~replaced', NEW ref \in Ref, st[ref] # Absent, st[ref].hash # Unset
               PROVE  Lower(st[ref].retries, floor[ref]) + g[ref][st[ref].hash] <= MaxAttempts
    BY <1>3, Zenon DEF FloorCovers
  <2>1. CASE ref \in written
    BY <2>1, <1>1, <1>2, <1>5, <1>8 DEF Lower
  <2>2. CASE ref \notin written
    BY <2>2, <1>4, <1>5, <1>8, Zenon DEF IInv, FloorCovers
  <2> QED BY <2>1, <2>2, Zenon
<1>13. GuessesAreBounded'
  <2> SUFFICES ASSUME ~replaced', NEW ref \in Ref
               PROVE  /\ WithinBudget(slots'[ref], g[ref])
                      /\ st[ref] # Absent => WithinBudget(st[ref], rec[ref])
    BY <1>3, Zenon DEF GuessesAreBounded, WithinBudget
  <2>1. ~replaced
    BY <1>4, Zenon
  <2>2. st[ref] # Absent => WithinBudget(st[ref], rec[ref])
    <3>1. CASE ref \in written
      BY <3>1, <1>2, <1>5, <1>8 DEF WithinBudget
    <3>2. CASE ref \notin written
      BY <3>2, <2>1, <1>5, <1>8, Zenon DEF IInv, GuessesAreBounded
    <3> QED BY <3>1, <3>2, Zenon
  <2>3. CASE ref \in loads
    BY <2>2, <2>3, <1>3, <1>7, <1>9, <1>10, <1>12, Zenon DEF FloorCovers, WithinBudget
  <2>4. CASE ref \notin loads
    <3> SUFFICES ASSUME slots[ref].hash # Unset
                 PROVE  slots[ref].retries + g[ref][slots[ref].hash] <= MaxAttempts
      BY <2>2, <2>4, <1>10, Zenon DEF WithinBudget
    <3>1. slots[ref].hash \in Code /\ slots[ref].retries \in 0 .. MaxAttempts
      BY <1>1, Zenon DEF Slot
    <3>2. slots[ref].retries + guessed[ref][slots[ref].hash] <= MaxAttempts
      BY <2>1, Zenon DEF IInv, GuessesAreBounded, WithinBudget
    <3> QED BY <3>1, <3>2, <1>8
  <2> QED BY <2>3, <2>4, Zenon
<1> QED BY <1>11, <1>12, <1>13, Zenon DEF IInv

(* Every step of the PIN machine keeps the inductive invariant, floors     *)
(* included.                                                               *)
LEMMA InductiveStep ==
    ASSUME IInv, [PivPinNext]_pivPinVars
    PROVE  IInv'
<1> verified \in BOOLEAN /\ shown \in Code \cup {Unset}
  BY Zenon DEF IInv, PivPinTypeOK
<1>1. ASSUME NEW w \in Write, NEW ref \in Ref, NEW c \in Code, VerifyWrong(w, ref, c)
      PROVE  IInv'
  BY <1>1, WrongCodeKeeps, Zenon DEF VerifyWrong
<1>2. ASSUME NEW w \in Write, NEW ref \in Ref, NEW c \in Code, NEW d \in Code,
             ChangeReferenceData(w, ref, c, d)
      PROVE  IInv'
  <2>1. CASE WrongCode(w, ref, c, verified)
    BY <2>1, WrongCodeKeeps, Zenon
  <2>2. CASE Persist(w, ref, Full(d), verified \/ ref = "pin", Installed(ref, d),
                     IF ref = "pin" THEN d ELSE shown)
    BY <2>2, InstallKeeps, Zenon
  <2> QED BY <1>2, <2>1, <2>2, Zenon DEF ChangeReferenceData
<1>3. ASSUME NEW w \in Write, NEW c \in Code, NEW d \in Code, ResetRetryCounter(w, c, d)
      PROVE  IInv'
  <2>1. CASE WrongCode(w, "puk", c, verified)
    BY <2>1, WrongCodeKeeps, Zenon DEF Ref
  <2>2. CASE Persist(w, "pin", Full(d), FALSE, Installed("pin", d), shown)
    BY <2>2, InstallKeeps, Zenon DEF Ref
  <2> QED BY <1>3, <2>1, <2>2, Zenon DEF ResetRetryCounter
<1>4. ASSUME NEW ref \in Ref, NEW c \in Code, VerifyUnsaved(ref, c)
      PROVE  IInv'
  <2>1. verified' \in BOOLEAN /\ shown' \in Code \cup {Unset}
    BY <1>4, Zenon DEF VerifyUnsaved, Right
  <2> QED BY <1>4, <2>1, Zenon
      DEF VerifyUnsaved, IInv, PivPinTypeOK, GuessesAreBounded, WithinBudget, FloorCovers
<1>5. ASSUME NEW missing \in SUBSET Ref, NEW written \in SUBSET Ref,
             NEW unread \in SUBSET Ref, Select(missing, written, unread)
      PROVE  IInv'
  BY <1>5, SelectKeeps, Zenon
<1>6. CASE Deselect
  BY <1>6, Zenon DEF Deselect, IInv, PivPinTypeOK, GuessesAreBounded, WithinBudget, FloorCovers
<1>7. CASE PowerCycle
  <2>1. /\ stored \in [Ref -> Slot \cup {Absent}] /\ recorded \in Guesses
        /\ replaced \in BOOLEAN
    BY Zenon DEF IInv, PivPinTypeOK, Guesses
  <2>2. ~replaced =>
            \A ref \in Ref : stored[ref] # Absent => WithinBudget(stored[ref], recorded[ref])
    BY Zenon DEF IInv, GuessesAreBounded
  <2> QED BY <1>7, <2>1, <2>2, RestartKeeps, Zenon DEF PowerCycle
<1>8. CASE UNCHANGED pivPinVars
  BY <1>8, Zenon DEF pivPinVars, IInv, PivPinTypeOK, GuessesAreBounded, WithinBudget, FloorCovers
<1> QED BY <1>1, <1>2, <1>3, <1>4, <1>5, <1>6, <1>7, <1>8, Zenon DEF PivPinNext, PivPinCommand

(* The PIN and PUK as the token starts. *)
LEMMA PinInit == PivPinInit => IInv
<1> SUFFICES ASSUME PivPinInit PROVE IInv
  BY Zenon
<1>1. Full(Unset) \in Slot /\ Full(Unset).hash = Unset
  BY DEF Full, Slot
<1>2. /\ slots \in [Ref -> Slot] /\ stored \in [Ref -> Slot \cup {Absent}]
      /\ floor \in [Ref -> 0 .. MaxAttempts] /\ replaced = FALSE
  BY <1>1 DEF PivPinInit
<1>3. guessed \in [Ref -> [Code -> 0 .. MaxAttempts]] /\ recorded = guessed
  BY DEF PivPinInit
<1>4. PivPinTypeOK
  BY <1>2, <1>3, Zenon DEF PivPinInit, PivPinTypeOK
<1>5. \A ref \in Ref : slots[ref].hash = Unset /\ stored[ref] = Absent
  BY <1>1, Zenon DEF PivPinInit
<1> QED BY <1>4, <1>5, Zenon DEF IInv, GuessesAreBounded, WithinBudget, FloorCovers

-----------------------------------------------------------------------------
(***************************************************************************)
(* The session: what verified, spent, cached and witness stand for.        *)
(***************************************************************************)

(* No way a PIN record is saved sets pin_verified for a PIN not shown. *)
LEMMA PersistShows ==
    ASSUME IInv, VerifiedShowsCurrentPin,
           NEW w, NEW ref \in Ref, NEW s \in Slot, NEW v, NEW g, NEW sh,
           v => (ref = "pin" => sh = s.hash) /\ (ref # "pin" => verified /\ sh = shown)
                 /\ sh # Unset,
           Persist(w, ref, s, v, g, sh)
    PROVE  VerifiedShowsCurrentPin'
<1>1. CASE w.end = "crash"
  BY <1>1, Zenon DEF Persist, Restart, VerifiedShowsCurrentPin
<1>2. CASE w.end # "crash"
  <2>1. slots' = [slots EXCEPT ![ref] = s] /\ verified' = v /\ shown' = sh
    BY <1>2, Zenon DEF Persist
  <2>2. slots \in [Ref -> Slot] /\ "pin" \in Ref
    BY Zenon DEF IInv, PivPinTypeOK, Ref
  <2>3. slots'["pin"] = IF ref = "pin" THEN s ELSE slots["pin"]
    BY <2>1, <2>2, Zenon
  <2> QED BY <2>1, <2>3, Zenon DEF VerifiedShowsCurrentPin
<1> QED BY <1>1, <1>2, Zenon

(* A wrong presentation changes no hash. *)
LEMMA WrongCodeShows ==
    ASSUME IInv, VerifiedShowsCurrentPin,
           NEW w \in Write, NEW ref \in Ref, NEW c \in Code, NEW v \in BOOLEAN,
           v => verified,
           WrongCode(w, ref, c, v)
    PROVE  VerifiedShowsCurrentPin'
<1>1. slots[ref] \in Slot /\ slots[ref].retries \in 1 .. MaxAttempts
  BY DEF IInv, PivPinTypeOK, WrongCode, Slot
<1>2. Charged(ref) \in Slot /\ Charged(ref).hash = slots[ref].hash
  BY <1>1 DEF Charged, Slot
<1>3. Persist(w, ref, Charged(ref), v, OneMore(ref), shown)
  BY Zenon DEF WrongCode
<1>4. v => shown = slots["pin"].hash /\ shown # Unset
  BY Zenon DEF VerifiedShowsCurrentPin
<1> QED BY <1>2, <1>3, <1>4, PersistShows, Zenon

(* A freshly set code has its tries. *)
LEMMA FullIsSlot == \A d \in Code : Full(d) \in Slot /\ Full(d).hash = d /\ d # Unset
BY DEF Full, Slot

(* VERIFY, CHANGE REFERENCE DATA and RESET RETRY COUNTER. *)
LEMMA CommandShows ==
    ASSUME IInv, VerifiedShowsCurrentPin, NEW w \in Write, PivPinCommand(w)
    PROVE  VerifiedShowsCurrentPin'
<1> verified \in BOOLEAN
  BY Zenon DEF IInv, PivPinTypeOK
<1>1. ASSUME NEW ref \in Ref, NEW c \in Code, VerifyWrong(w, ref, c)
      PROVE  VerifiedShowsCurrentPin'
  BY <1>1, WrongCodeShows, Zenon DEF VerifyWrong
<1>2. ASSUME NEW ref \in Ref, NEW c \in Code, NEW d \in Code,
             ChangeReferenceData(w, ref, c, d)
      PROVE  VerifiedShowsCurrentPin'
  <2>1. CASE WrongCode(w, ref, c, verified)
    BY <2>1, WrongCodeShows, Zenon
  <2>2. CASE Persist(w, ref, Full(d), verified \/ ref = "pin", Installed(ref, d),
                     IF ref = "pin" THEN d ELSE shown)
    BY <2>2, PersistShows, FullIsSlot, Zenon DEF VerifiedShowsCurrentPin
  <2> QED BY <1>2, <2>1, <2>2, Zenon DEF ChangeReferenceData
<1>3. ASSUME NEW c \in Code, NEW d \in Code, ResetRetryCounter(w, c, d)
      PROVE  VerifiedShowsCurrentPin'
  <2>1. CASE WrongCode(w, "puk", c, verified)
    BY <2>1, WrongCodeShows, Zenon DEF Ref
  <2>2. CASE Persist(w, "pin", Full(d), FALSE, Installed("pin", d), shown)
    BY <2>2, PersistShows, FullIsSlot, Zenon DEF Ref
  <2> QED BY <1>3, <2>1, <2>2, Zenon DEF ResetRetryCounter
<1> QED BY <1>1, <1>2, <1>3, Zenon DEF PivPinCommand

(* The signature of finish_sign spends the proof of the PIN it used, and   *)
(* leaves a cached touch only where one was given.                         *)
LEMMA FinishSignKeeps ==
    ASSUME PivInv, NEW k \in KeySlot, keys[k] # NoKey,
           keys[k].pin # "never" => verified,
           FinishSign(k)
    PROVE  /\ verified' \in BOOLEAN /\ (verified' => verified)
           /\ spent' \in Nat
           /\ spent' <= 1 /\ (spent' = 1 => ~verified')
           /\ cached' \in BOOLEAN /\ (cached' => cached \/ keys[k].touch = "cached")
<1>1. /\ spent \in Nat /\ verified \in BOOLEAN /\ cached \in BOOLEAN
      /\ spent <= 1 /\ (spent = 1 => ~verified)
  BY Zenon DEF PivInv, KeyTypeOK, OneSignaturePerPin, IInv, PivPinTypeOK
<1>2. /\ verified' = (verified /\ keys[k].pin # "always")
      /\ spent' = IF keys[k].pin = "always" THEN spent + 1 ELSE spent
      /\ cached' = IF keys[k].touch = "never" THEN cached ELSE keys[k].touch = "cached"
  BY Zenon DEF FinishSign
<1>3. cached' \in BOOLEAN /\ (cached' => cached \/ keys[k].touch = "cached")
  <2>1. CASE keys[k].touch = "never"
    BY <1>1, <1>2, <2>1, Zenon
  <2>2. CASE keys[k].touch # "never"
    BY <1>2, <2>2, Zenon
  <2> QED BY <2>1, <2>2, Zenon
<1>4. CASE keys[k].pin = "always"
  <2>1. verified /\ spent = 0
    BY <1>1, <1>4
  <2>2. ~verified' /\ verified' \in BOOLEAN
    BY <1>2, <1>4, Zenon
  <2>3. spent' = 1
    BY <1>2, <1>4, <2>1
  <2> QED BY <2>2, <2>3, <1>3
<1>5. CASE keys[k].pin # "always"
  <2>1. verified' = verified /\ spent' = spent
    BY <1>1, <1>2, <1>5, Zenon
  <2> QED BY <2>1, <1>1, <1>3, Zenon
<1> QED BY <1>4, <1>5, Zenon

(* The invariants of the PIN machine look at verified for its type and for *)
(* what it shows, and sign and complete_sign only clear it.                *)
LEMMA SignKeepsPin ==
    ASSUME IInv, VerifiedShowsCurrentPin,
           verified' \in BOOLEAN, verified' => verified,
           UNCHANGED <<slots, stored, floor, provisioned, selected, guessed, recorded, replaced,
                       shown>>
    PROVE  IInv' /\ VerifiedShowsCurrentPin'
<1>1. PivPinTypeOK'
  BY Zenon DEF IInv, PivPinTypeOK
<1>2. GuessesAreBounded' /\ FloorCovers'
  BY Zenon DEF IInv, GuessesAreBounded, WithinBudget, FloorCovers
<1> QED BY <1>1, <1>2, Zenon DEF IInv, VerifiedShowsCurrentPin

(* A restart, and the end of a session by SELECT. *)
LEMMA EndSessionKeeps ==
    ASSUME EndSession, IInv', ~verified',
           keys' \in [KeySlot -> Policies \cup {NoKey}]
    PROVE  PivInv'
<1>1. KeyTypeOK'
  BY Zenon DEF EndSession, KeyTypeOK
<1>2. VerifiedShowsCurrentPin' /\ PendingIsAuthorized' /\ OneSignaturePerPin'
  BY DEF EndSession, VerifiedShowsCurrentPin, PendingIsAuthorized, OneSignaturePerPin
<1>3. SessionInv'
  BY Zenon DEF EndSession, SessionInv, CachedTouchIsOfThisSelection, OpenNonceIsOfCurrentKey
<1> QED BY <1>1, <1>2, <1>3, Zenon DEF PivInv

(* A restart ends the session and keeps the records. *)
LEMMA PowerCycleKeeps ==
    ASSUME PivInv, PowerCycle, EndSession, keys' \in [KeySlot -> Policies \cup {NoKey}]
    PROVE  PivInv'
<1>1. IInv'
  BY InductiveStep, Zenon DEF PivInv, PivPinNext
<1>2. ~verified'
  BY Zenon DEF PowerCycle, Restart
<1> QED BY <1>1, <1>2, EndSessionKeeps, Zenon

(* The commands that save a PIN record. *)
LEMMA PinCommandKeeps ==
    ASSUME PivInv, NEW w \in Write, PinCommand(w)
    PROVE  PivInv'
<1>1. IInv' /\ VerifiedShowsCurrentPin'
  <2>1. PivPinCommand(w) /\ [PivPinNext]_pivPinVars
    BY Zenon DEF PinCommand, PivPinNext
  <2> QED BY <2>1, InductiveStep, CommandShows, Zenon DEF PivInv
<1>2. CASE w.end = "crash"
  <2>1. EndSession /\ keys' = keys
    BY <1>2, Zenon DEF PinCommand
  <2>2. ~verified'
    <3>1. ASSUME NEW r, NEW s, NEW v, NEW g, NEW sh, Persist(w, r, s, v, g, sh) PROVE ~verified'
      BY <1>2, <3>1, Zenon DEF Persist, Restart
    <3>2. ASSUME NEW r, NEW c, NEW v, WrongCode(w, r, c, v) PROVE ~verified'
      BY <3>1, <3>2, Zenon DEF WrongCode
    <3> QED BY <3>1, <3>2, Zenon
            DEF PinCommand, PivPinCommand, VerifyWrong, ChangeReferenceData, ResetRetryCounter
  <2> QED BY <2>1, <2>2, <1>1, EndSessionKeeps, Zenon DEF PivInv, KeyTypeOK
<1>3. CASE w.end # "crash"
  <2>1. /\ pending = NoKey
        /\ spent' = IF verified' /\ ~verified THEN 0 ELSE spent
        /\ UNCHANGED <<keys, mgmt, mgmtStored, mgmtAuth, witness, pending, cached, touched>>
    BY <1>3, Zenon DEF PinCommand
  <2>2. OneSignaturePerPin' /\ spent' \in Nat
    BY <2>1 DEF PivInv, KeyTypeOK, OneSignaturePerPin
  <2> QED BY <1>1, <2>1, <2>2, Zenon DEF PivInv, KeyTypeOK, PendingIsAuthorized, SessionInv,
                 CachedTouchIsOfThisSelection, OpenNonceIsOfCurrentKey
<1> QED BY <1>2, <1>3, Zenon

(* A VERIFY that saves nothing. *)
LEMMA PinProofKeeps ==
    ASSUME PivInv, NEW ref \in Ref, NEW c \in Code, PinProof(ref, c)
    PROVE  PivInv'
<1>1. /\ pending = NoKey
      /\ verified' = (IF ref = "pin" THEN Right(ref, c) ELSE verified)
      /\ shown' = (IF ref = "pin" /\ Right(ref, c) THEN c ELSE shown)
      /\ spent' = (IF ref = "pin" /\ Right(ref, c) THEN 0 ELSE spent)
      /\ UNCHANGED <<slots, keys, mgmt, mgmtStored, mgmtAuth, witness, pending, cached, touched>>
  BY Zenon DEF PinProof, VerifyUnsaved
<1>2. IInv'
  BY InductiveStep, Zenon DEF PinProof, PivPinNext, PivInv
<1>3. VerifiedShowsCurrentPin'
  BY <1>1, Zenon DEF PivInv, VerifiedShowsCurrentPin, Right
<1>4. OneSignaturePerPin' /\ spent' \in Nat
  BY <1>1 DEF PivInv, KeyTypeOK, OneSignaturePerPin
<1> QED BY <1>1, <1>2, <1>3, <1>4, Zenon DEF PivInv, KeyTypeOK, PendingIsAuthorized, SessionInv,
               CachedTouchIsOfThisSelection, OpenNonceIsOfCurrentKey

(* A signature is made at once or parked under the PIN check that allowed  *)
(* it.                                                                     *)
LEMMA SignKeeps ==
    ASSUME PivInv, NEW k \in KeySlot, Sign(k)
    PROVE  PivInv'
<1>1. /\ pending = NoKey /\ keys[k] # NoKey
      /\ keys[k].pin # "never" => verified
      /\ UNCHANGED <<slots, stored, floor, provisioned, selected, guessed, recorded, replaced,
                     shown, keys, mgmt, mgmtStored, mgmtAuth, witness, touched>>
  BY Zenon DEF Sign, Idle
<1>2. /\ IInv /\ VerifiedShowsCurrentPin /\ verified \in BOOLEAN
      /\ cached \in BOOLEAN /\ (cached => touched)
  BY Zenon DEF PivInv, IInv, PivPinTypeOK, KeyTypeOK, SessionInv, CachedTouchIsOfThisSelection
<1>3. CASE TouchRequired(k)
  <2>1. pending' = k /\ UNCHANGED <<verified, cached, spent>>
    BY <1>3, Zenon DEF Sign
  <2>2. IInv' /\ VerifiedShowsCurrentPin'
    BY <1>1, <1>2, <2>1, SignKeepsPin, Zenon
  <2>3. PendingIsAuthorized'
    BY <1>1, <2>1, Zenon DEF PendingIsAuthorized
  <2> QED BY <1>1, <2>1, <2>2, <2>3, Zenon DEF PivInv, KeyTypeOK, OneSignaturePerPin, SessionInv,
                 CachedTouchIsOfThisSelection, OpenNonceIsOfCurrentKey
<1>4. CASE ~TouchRequired(k)
  <2>1. FinishSign(k) /\ pending' = pending
    BY <1>4, Zenon DEF Sign
  <2>2. /\ verified' \in BOOLEAN /\ (verified' => verified)
        /\ spent' \in Nat /\ spent' <= 1 /\ (spent' = 1 => ~verified')
        /\ cached' \in BOOLEAN /\ (cached' => cached \/ keys[k].touch = "cached")
    BY <1>1, <2>1, FinishSignKeeps, Zenon
  <2>3. IInv' /\ VerifiedShowsCurrentPin'
    BY <1>1, <1>2, <2>2, SignKeepsPin, Zenon
  <2>4. cached' => touched'
    BY <1>1, <1>2, <1>4, <2>2, Zenon DEF TouchRequired
  <2> QED BY <1>1, <2>1, <2>2, <2>3, <2>4, Zenon DEF PivInv, KeyTypeOK, PendingIsAuthorized,
                 OneSignaturePerPin, SessionInv, CachedTouchIsOfThisSelection,
                 OpenNonceIsOfCurrentKey
<1> QED BY <1>3, <1>4, Zenon

(* The parked signature is made. *)
LEMMA ConfirmPresenceKeeps ==
    ASSUME PivInv, ConfirmPresence
    PROVE  PivInv'
<1>1. /\ pending # NoKey /\ pending' = NoKey /\ touched' = TRUE
      /\ FinishSign(pending)
      /\ UNCHANGED <<slots, stored, floor, provisioned, selected, guessed, recorded, replaced,
                     shown, keys, mgmt, mgmtStored, mgmtAuth, witness>>
  BY Zenon DEF ConfirmPresence
<1>2. /\ pending \in KeySlot /\ keys[pending] # NoKey
      /\ keys[pending].pin # "never" => verified
  BY <1>1, Zenon DEF PivInv, KeyTypeOK, PendingIsAuthorized
<1>3. /\ verified' \in BOOLEAN /\ (verified' => verified)
      /\ spent' \in Nat /\ spent' <= 1 /\ (spent' = 1 => ~verified')
      /\ cached' \in BOOLEAN
  BY <1>1, <1>2, FinishSignKeeps, Zenon
<1>4. IInv' /\ VerifiedShowsCurrentPin'
  BY <1>1, <1>3, SignKeepsPin, Zenon DEF PivInv
<1> QED BY <1>1, <1>3, <1>4, Zenon DEF PivInv, KeyTypeOK, PendingIsAuthorized, OneSignaturePerPin,
               SessionInv, CachedTouchIsOfThisSelection, OpenNonceIsOfCurrentKey

(* A store of a key or management record: the nonce that survives it was   *)
(* sent under the key that is then in force.                               *)
LEMMA StoreKeyKeeps ==
    ASSUME PivInv, Idle, NEW w \in Write,
           NEW ks \in [KeySlot -> Policies \cup {NoKey}], NEW rec, NEW m, NEW wit,
           wit # NoWitness => wit = m,
           StoreKey(w, ks, rec, m, wit)
    PROVE  PivInv'
<1>1. keys' \in [KeySlot -> Policies \cup {NoKey}]
  BY Zenon DEF StoreKey, PivInv, KeyTypeOK
<1>2. CASE w.end = "crash"
  BY <1>1, <1>2, PowerCycleKeeps, Zenon DEF StoreKey
<1>3. CASE w.end # "crash"
  <2>1. /\ pending = NoKey
        /\ mgmt' = IF w.end = "ok" THEN m ELSE mgmt
        /\ witness' = IF w.end = "ok" THEN wit ELSE witness
        /\ UNCHANGED <<pivPinVars, mgmtAuth, pending, cached, spent, touched>>
    BY <1>3, Zenon DEF StoreKey, Idle
  <2>2. IInv' /\ VerifiedShowsCurrentPin'
    BY <2>1, InductiveStep, Zenon DEF PivInv, pivPinVars, VerifiedShowsCurrentPin
  <2>3. OpenNonceIsOfCurrentKey'
    BY <2>1, Zenon DEF PivInv, SessionInv, OpenNonceIsOfCurrentKey
  <2> QED BY <1>1, <2>1, <2>2, <2>3, Zenon DEF PivInv, KeyTypeOK, PendingIsAuthorized,
                 OneSignaturePerPin, SessionInv, CachedTouchIsOfThisSelection, pivPinVars
<1> QED BY <1>2, <1>3, Zenon

(* Every step preserves the invariant. *)
LEMMA PivStep ==
    ASSUME PivInv, [Next]_vars
    PROVE  PivInv'
<1>1. ASSUME NEW w \in Write, PinCommand(w)
      PROVE  PivInv'
  BY <1>1, PinCommandKeeps, Zenon
<1>2. ASSUME NEW w \in Write, NEW k \in KeySlot, NEW policy \in Policies,
             GenerateKeyPair(w, k, policy)
      PROVE  PivInv'
  <2>1. [keys EXCEPT ![k] = policy] \in [KeySlot -> Policies \cup {NoKey}]
    BY Zenon DEF PivInv, KeyTypeOK
  <2>2. witness # NoWitness => witness = mgmt
    BY Zenon DEF PivInv, SessionInv, OpenNonceIsOfCurrentKey
  <2> QED BY <1>2, <2>1, <2>2, StoreKeyKeeps, Zenon DEF GenerateKeyPair
<1>3. ASSUME NEW w \in Write, NEW m \in MgmtKey, SetMgmtKey(w, m)
      PROVE  PivInv'
  BY <1>3, StoreKeyKeeps, Zenon DEF SetMgmtKey, PivInv, KeyTypeOK
<1>4. ASSUME NEW ref \in Ref, NEW c \in Code, PinProof(ref, c)
      PROVE  PivInv'
  BY <1>4, PinProofKeeps, Zenon
<1>5. ASSUME NEW missing \in SUBSET Ref, NEW written \in SUBSET Ref,
             NEW unread \in SUBSET Ref, NEW m \in MgmtAccess,
             SelectApplet(missing, written, unread, m)
      PROVE  PivInv'
  <2>1. Select(missing, written, unread) /\ EndSession /\ keys' = keys
    BY <1>5, Zenon DEF SelectApplet
  <2>2. IInv' /\ ~verified'
    BY <2>1, SelectKeeps, Zenon DEF PivInv, Select
  <2> QED BY <2>1, <2>2, EndSessionKeeps, Zenon DEF PivInv, KeyTypeOK
<1>6. ASSUME NEW right \in BOOLEAN, Respond(right)
      PROVE  PivInv'
  <2>1. /\ UNCHANGED <<pivPinVars, keys, mgmt, mgmtStored, pending, cached, spent, touched>>
        /\ witness' = NoWitness
    BY <1>6, Zenon DEF Respond
  <2>2. IInv'
    BY <2>1, InductiveStep, Zenon DEF PivInv
  <2> QED BY <2>1, <2>2, Zenon DEF PivInv, pivPinVars, KeyTypeOK, VerifiedShowsCurrentPin,
                 PendingIsAuthorized, OneSignaturePerPin, SessionInv,
                 CachedTouchIsOfThisSelection, OpenNonceIsOfCurrentKey
<1>7. ASSUME NEW k \in KeySlot, Sign(k)
      PROVE  PivInv'
  BY <1>7, SignKeeps, Zenon
<1>8. CASE DeselectApplet
  <2>1. /\ UNCHANGED <<slots, verified, shown>> /\ UNCHANGED keyVars
        /\ Deselect
    BY <1>8, Zenon DEF DeselectApplet, Deselect
  <2>2. IInv'
    BY <2>1, InductiveStep, Zenon DEF PivInv, PivPinNext
  <2> QED BY <2>1, <2>2, Zenon DEF PivInv, keyVars, KeyTypeOK, VerifiedShowsCurrentPin,
                 PendingIsAuthorized, OneSignaturePerPin, SessionInv,
                 CachedTouchIsOfThisSelection, OpenNonceIsOfCurrentKey
<1>9. CASE Challenge
  <2>1. /\ UNCHANGED <<pivPinVars, keys, mgmt, pending, cached, spent, touched>>
        /\ witness' = mgmt
    BY <1>9, Zenon DEF Challenge
  <2>2. IInv'
    BY <2>1, InductiveStep, Zenon DEF PivInv
  <2> QED BY <2>1, <2>2, Zenon DEF PivInv, pivPinVars, KeyTypeOK, VerifiedShowsCurrentPin,
                 PendingIsAuthorized, OneSignaturePerPin, SessionInv,
                 CachedTouchIsOfThisSelection, OpenNonceIsOfCurrentKey
<1>10. CASE ConfirmPresence
  BY <1>10, ConfirmPresenceKeeps, Zenon
<1>11. CASE DenyPresence
  <2>1. /\ UNCHANGED <<pivPinVars, keys, mgmt, witness, cached, spent, touched>>
        /\ pending' = NoKey
    BY <1>11, Zenon DEF DenyPresence
  <2>2. IInv'
    BY <2>1, InductiveStep, Zenon DEF PivInv
  <2> QED BY <2>1, <2>2, Zenon DEF PivInv, pivPinVars, KeyTypeOK, VerifiedShowsCurrentPin,
                 PendingIsAuthorized, OneSignaturePerPin, SessionInv,
                 CachedTouchIsOfThisSelection, OpenNonceIsOfCurrentKey
<1>12. CASE PowerLoss
  BY <1>12, PowerCycleKeeps, Zenon DEF PowerLoss, PivInv, KeyTypeOK
<1>13. CASE UNCHANGED vars
  <2>1. UNCHANGED pivPinVars /\ UNCHANGED keyVars
    BY <1>13, Zenon DEF vars
  <2>2. IInv'
    BY <2>1, InductiveStep, Zenon DEF PivInv
  <2> QED BY <2>1, <2>2, Zenon DEF PivInv, pivPinVars, keyVars, KeyTypeOK, VerifiedShowsCurrentPin,
                 PendingIsAuthorized, OneSignaturePerPin, SessionInv,
                 CachedTouchIsOfThisSelection, OpenNonceIsOfCurrentKey
<1> QED BY <1>1, <1>2, <1>3, <1>4, <1>5, <1>6, <1>7, <1>8, <1>9, <1>10, <1>11, <1>12, <1>13, Zenon
        DEF Next

(* The whole applet keeps the budgets of PIN and PUK and what its session  *)
(* flags stand for.                                                        *)
THEOREM Invariance == Spec => []PivInv
<1>1. Init => PivInv
  <2> SUFFICES ASSUME Init PROVE PivInv
    BY Zenon
  <2>1. IInv
    BY PinInit, Zenon DEF Init
  <2>2. VerifiedShowsCurrentPin
    BY Zenon DEF Init, PivPinInit, VerifiedShowsCurrentPin
  <2>3. KeyTypeOK
    BY Zenon DEF Init, KeyTypeOK
  <2>4. SessionInv
    BY Zenon DEF Init, SessionInv, CachedTouchIsOfThisSelection, OpenNonceIsOfCurrentKey
  <2>5. PendingIsAuthorized /\ OneSignaturePerPin
    BY DEF Init, PendingIsAuthorized, OneSignaturePerPin
  <2> QED BY <2>1, <2>2, <2>3, <2>4, <2>5, Zenon DEF PivInv
<1>2. PivInv /\ [Next]_vars => PivInv'
  BY PivStep, Zenon
<1> QED BY <1>1, <1>2, PTL DEF Spec

(* piv.rs, pin_floor: "a reload can never restore a more permissive        *)
(* counter than the one already lost".  The wrong presentations made       *)
(* against a PIN or PUK and the tries it has left never exceed the budget, *)
(* unless provision wrote a default over a record it could not read.       *)
THEOREM BoundedGuesses == Spec => []GuessesAreBounded
<1>1. PivInv => GuessesAreBounded
  BY Zenon DEF PivInv, IInv
<1> QED BY <1>1, Invariance, PTL

(* pin_verified stands for the PIN that is in the slot, also after CHANGE  *)
(* REFERENCE DATA and RESET RETRY COUNTER replaced it.                     *)
THEOREM VerifiedPinIsCurrent == Spec => []VerifiedShowsCurrentPin
<1>1. PivInv => VerifiedShowsCurrentPin
  BY Zenon DEF PivInv
<1> QED BY <1>1, Invariance, PTL

(* Under PIN policy "always", one proof of the PIN makes one signature, in *)
(* whatever order touches, changes and other keys come (finish_sign).      *)
THEOREM OneSignature == Spec => []OneSignaturePerPin
<1>1. PivInv => OneSignaturePerPin
  BY Zenon DEF PivInv
<1> QED BY <1>1, Invariance, PTL

(* A cached touch is of this selection and an open nonce was sent under    *)
(* the management key in force (select_response, set_mgmt_key).            *)
THEOREM SessionIsCurrent == Spec => []SessionInv
<1>1. PivInv => SessionInv
  BY Zenon DEF PivInv
<1> QED BY <1>1, Invariance, PTL
=============================================================================

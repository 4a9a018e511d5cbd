----------------------------- MODULE OathProofs ------------------------------
(***************************************************************************)
(* Proofs about the OATH applet, for every set of names and access keys    *)
(* and every bound on credentials and counters.                            *)
(***************************************************************************)
EXTENDS Oath, TLAPS

(***************************************************************************)
(* The inductive invariant.                                                *)
(***************************************************************************)

Key == AccessKey \cup {NoAccessKey}
Counters == [1 .. MaxPuts -> 0 .. MaxCounter]

(* A credential vector: names and numbers are unique, the numbers are      *)
(* among the first n, and no counter is behind the codes u answered.       *)
Vector(cs, n, u) ==
    /\ cs \in Seq(Credential) /\ Len(cs) <= MaxCredentials
    /\ \A i \in DOMAIN cs : cs[i].id <= n /\ u[cs[i].id] <= cs[i].counter
    /\ \A i, j \in DOMAIN cs : i # j => cs[i].name # cs[j].name /\ cs[i].id # cs[j].id

Ids(cs) == {cs[i].id : i \in DOMAIN cs}

(* The history of the credentials ever put. *)
History(n, u) ==
    /\ n \in 0 .. MaxPuts /\ u \in Counters
    /\ \A id \in 1 .. MaxPuts : id > n => u[id] = 0

(* Both vectors; RAM has what is kept too, as long as it may be saved. *)
VectorInv ==
    /\ History(puts, used)
    /\ Vector(credentials, puts, used) /\ Vector(blob.credentials, puts, used)
    /\ kept \subseteq Ids(blob.credentials)
    /\ mode = "open" => kept \subseteq Ids(credentials)

SessionInv ==
    /\ {authKey, blob.authKey} \subseteq Key /\ proved \subseteq AccessKey
    /\ mode \in {"off", "open", "closed"} /\ authenticated \in BOOLEAN
    /\ asked \in 0 .. MaxPuts
    /\ pending = NoPending \/ pending \in DOMAIN credentials
    /\ TouchIsForTheAsked /\ AccessCodeProved /\ CodeIsNotLifted

AppletInv == VectorInv /\ SessionInv

-----------------------------------------------------------------------------
(* What the provers need to know of a credential, ... *)
LEMMA Credentials ==
    \A c \in Credential :
        /\ c.id \in 1 .. MaxPuts /\ c.name \in Name /\ c.kind \in Kind /\ c.touch \in BOOLEAN
        /\ c.counter \in 0 .. MaxCounter
BY Zenon DEF Credential

(* ... of a vector of them, ... *)
LEMMA Vectors ==
    ASSUME NEW cs, NEW n, NEW u, Vector(cs, n, u)
    PROVE  /\ cs \in Seq(Credential) /\ DOMAIN cs = 1 .. Len(cs)
           /\ Len(cs) \in Nat /\ Len(cs) <= MaxCredentials
           /\ \A i \in 1 .. Len(cs) :
                 cs[i] \in Credential /\ cs[i].id \in 1 .. MaxPuts /\ cs[i].counter \in Nat
           /\ \A i \in 1 .. Len(cs) : cs[i].id <= n /\ u[cs[i].id] <= cs[i].counter
           /\ \A i, j \in 1 .. Len(cs) : i # j => cs[i].name # cs[j].name /\ cs[i].id # cs[j].id
<1>1. cs \in Seq(Credential) /\ Len(cs) <= MaxCredentials
  BY Zenon DEF Vector
<1>2. DOMAIN cs = 1 .. Len(cs) /\ Len(cs) \in Nat /\ \A i \in 1 .. Len(cs) : cs[i] \in Credential
  BY <1>1
<1>3. \A i \in 1 .. Len(cs) : cs[i].id \in 1 .. MaxPuts /\ cs[i].counter \in Nat
  BY <1>2, Credentials
<1>4. /\ \A i \in 1 .. Len(cs) : cs[i].id <= n /\ u[cs[i].id] <= cs[i].counter
      /\ \A i, j \in 1 .. Len(cs) : i # j => cs[i].name # cs[j].name /\ cs[i].id # cs[j].id
  BY <1>2, Zenon DEF Vector
<1> QED BY <1>1, <1>2, <1>3, <1>4, Zenon

(* ... of what makes one, ... *)
LEMMA IsVector ==
    ASSUME NEW cs \in Seq(Credential), NEW m, DOMAIN cs = 1 .. m, Len(cs) <= MaxCredentials,
           NEW n, NEW u, \A i \in 1 .. m : cs[i].id <= n /\ u[cs[i].id] <= cs[i].counter,
           \A i, j \in 1 .. m : i # j => cs[i].name # cs[j].name /\ cs[i].id # cs[j].id
    PROVE  Vector(cs, n, u)
BY Zenon DEF Vector

(* ... and of an empty one. *)
LEMMA EmptyVector ==
    \A n, u : Vector(<<>>, n, u) /\ Ids(<<>>) = {} /\ DOMAIN <<>> = {}
<1>1. <<>> \in Seq(Credential) /\ Len(<<>>) = 0 /\ DOMAIN <<>> = {}
  OBVIOUS
<1> QED BY <1>1, OathAssumption DEF Vector, Ids

(* PUT: the new credential takes the place of the one of its name, or is   *)
(* appended; the others stay.                                              *)
LEMMA PutVector ==
    ASSUME VectorInv, puts < MaxPuts, NEW c \in Credential, c.id = puts + 1, c.counter = 0,
           Find(c.name) # {} \/ Len(credentials) < MaxCredentials
    PROVE  /\ Vector(With(c), puts + 1, used)
           /\ (Ids(credentials) \ Named(c.name)) \cup {c.id} \subseteq Ids(With(c))
<1> DEFINE cs == credentials
           n == Len(credentials)
           ds == With(c)
<1>1. /\ Vector(cs, puts, used) /\ puts \in Nat /\ used[puts + 1] = 0
  BY OathAssumption DEF VectorInv, History
<1>2. cs \in Seq(Credential) /\ DOMAIN cs = 1 .. n /\ n \in Nat /\ n <= MaxCredentials
  BY <1>1 DEF Vector
<1>3. /\ \A i \in 1 .. n : cs[i] \in Credential /\ cs[i].id \in Nat
      /\ \A i \in 1 .. n : cs[i].id <= puts /\ used[cs[i].id] <= cs[i].counter
      /\ \A i, j \in 1 .. n : i # j => cs[i].name # cs[j].name /\ cs[i].id # cs[j].id
  BY <1>1, <1>2, Vectors
<1>4. CASE Find(c.name) = {}
  <2>1. ds = Append(cs, c) /\ n < MaxCredentials
    BY <1>4, Zenon DEF With
  <2>2. /\ ds \in Seq(Credential) /\ Len(ds) = n + 1 /\ DOMAIN ds = 1 .. (n + 1) /\ ds[n + 1] = c
        /\ \A i \in 1 .. n : ds[i] = cs[i]
    BY <1>2, <2>1
  <2>3. \A i \in 1 .. n : cs[i].name # c.name
    BY <1>2, <1>4, Zenon DEF Find
  <2> HIDE DEF ds, cs, n
  <2>4. Vector(ds, puts + 1, used)
    <3>1. \A i \in 1 .. (n + 1) : ds[i].id <= puts + 1 /\ used[ds[i].id] <= ds[i].counter
      BY <1>1, <1>2, <1>3, <2>2
    <3>2. \A i, j \in 1 .. (n + 1) : i # j => ds[i].name # ds[j].name /\ ds[i].id # ds[j].id
      <4>1. \A i \in 1 .. n : ds[i].name # ds[n + 1].name /\ ds[i].id # ds[n + 1].id
        BY <1>1, <1>2, <1>3, <2>2, <2>3
      <4>2. \A i \in 1 .. (n + 1) : i \in 1 .. n \/ i = n + 1
        BY <1>2
      <4> SUFFICES ASSUME NEW i \in 1 .. (n + 1), NEW j \in 1 .. (n + 1), i # j
                   PROVE  ds[i].name # ds[j].name /\ ds[i].id # ds[j].id
        BY Zenon
      <4>3. CASE i \in 1 .. n /\ j \in 1 .. n
        <5>1. ds[i] = cs[i] /\ ds[j] = cs[j]
          BY <2>2, <4>3, Zenon
        <5> QED BY <1>3, <4>3, <5>1, Zenon
      <4>4. CASE i = n + 1
        BY <4>1, <4>2, <4>4, Zenon
      <4>5. CASE j = n + 1
        BY <4>1, <4>2, <4>5, Zenon
      <4> QED BY <4>2, <4>3, <4>4, <4>5, Zenon
    <3>3. Len(ds) <= MaxCredentials
      BY <1>2, <2>1, <2>2, OathAssumption
    <3>4. ds \in Seq(Credential) /\ DOMAIN ds = 1 .. (n + 1)
      BY <2>2, Zenon
    <3> QED BY <3>1, <3>2, <3>3, <3>4, IsVector, Zenon
  <2>5. Ids(cs) \cup {c.id} \subseteq Ids(ds)
    BY <1>2, <2>2 DEF Ids
  <2> QED BY <2>4, <2>5, Zenon DEF ds, cs
<1>5. CASE Find(c.name) # {}
  <2>1. PICK k \in 1 .. n : cs[k].name = c.name
    BY <1>2, <1>5, Zenon DEF Find
  <2>2. Find(c.name) = {k}
    BY <1>2, <1>3, <2>1, Zenon DEF Find
  <2>3. ds = [i \in 1 .. n |-> IF i = k THEN c ELSE cs[i]]
    BY <1>2, <2>2, Zenon DEF With
  <2>4. /\ ds \in Seq(Credential) /\ Len(ds) = n /\ DOMAIN ds = 1 .. n /\ ds[k] = c
        /\ \A i \in 1 .. n : i # k => ds[i] = cs[i]
    BY <1>2, <1>3, <2>3
  <2>5. Named(c.name) = {cs[k].id}
    BY <2>2, Zenon DEF Named
  <2> HIDE DEF ds, cs, n
  <2>6. Vector(ds, puts + 1, used)
    <3>1. \A i \in 1 .. n : ds[i].id <= puts + 1 /\ used[ds[i].id] <= ds[i].counter
      BY <1>1, <1>3, <2>4
    <3>2. \A i, j \in 1 .. n : i # j => ds[i].name # ds[j].name /\ ds[i].id # ds[j].id
      <4>1. \A i \in 1 .. n : i # k => ds[i].name # ds[k].name /\ ds[i].id # ds[k].id
        BY <1>1, <1>3, <2>1, <2>4
      <4> SUFFICES ASSUME NEW i \in 1 .. n, NEW j \in 1 .. n, i # j
                   PROVE  ds[i].name # ds[j].name /\ ds[i].id # ds[j].id
        BY Zenon
      <4>2. CASE i # k /\ j # k
        <5>1. ds[i] = cs[i] /\ ds[j] = cs[j]
          BY <2>4, <4>2, Zenon
        <5> QED BY <1>3, <5>1, Zenon
      <4>3. CASE i = k \/ j = k
        BY <4>1, <4>3, Zenon
      <4> QED BY <4>2, <4>3, Zenon
    <3>3. Len(ds) <= MaxCredentials
      BY <1>2, <2>4, Zenon
    <3>4. ds \in Seq(Credential) /\ DOMAIN ds = 1 .. n
      BY <2>4, Zenon
    <3> QED BY <3>1, <3>2, <3>3, <3>4, IsVector, Zenon
  <2>7. (Ids(cs) \ {cs[k].id}) \cup {c.id} \subseteq Ids(ds)
    BY <1>2, <2>4 DEF Ids
  <2> QED BY <2>5, <2>6, <2>7, Zenon DEF ds, cs
<1> QED BY <1>4, <1>5, Zenon

(* DELETE: the last credential takes the place of the deleted one. *)
LEMMA DeleteVector ==
    ASSUME VectorInv, NEW k \in DOMAIN credentials
    PROVE  /\ Vector(Without(k), puts, used)
           /\ Ids(credentials) \ {credentials[k].id} \subseteq Ids(Without(k))
<1> DEFINE cs == credentials
           n == Len(credentials)
           ds == Without(k)
           from(i) == IF i = k THEN n ELSE i
<1>1. Vector(cs, puts, used)
  BY Zenon DEF VectorInv
<1>2. /\ cs \in Seq(Credential) /\ DOMAIN cs = 1 .. n /\ n \in Nat /\ n <= MaxCredentials
      /\ k \in 1 .. n
  BY <1>1 DEF Vector
<1>a. /\ \A i \in 1 .. n : cs[i].id <= puts /\ used[cs[i].id] <= cs[i].counter
      /\ \A i, j \in 1 .. n : i # j => cs[i].name # cs[j].name /\ cs[i].id # cs[j].id
  BY <1>1, Vectors, Zenon
<1>3. /\ ds \in Seq(Credential) /\ Len(ds) = n - 1 /\ DOMAIN ds = 1 .. (n - 1)
      /\ \A i \in 1 .. (n - 1) : ds[i] = cs[from(i)] /\ from(i) \in (1 .. n) \ {k}
  BY <1>2 DEF Without
<1> HIDE DEF cs, n, ds
<1>4. \A i, j \in 1 .. (n - 1) : i # j => from(i) # from(j)
  BY <1>2
<1>5. \A j \in (1 .. n) \ {k} : \E i \in 1 .. (n - 1) : from(i) = j
  <2> SUFFICES ASSUME NEW j \in (1 .. n) \ {k} PROVE \E i \in 1 .. (n - 1) : from(i) = j
    BY Zenon
  <2>1. CASE j # n
    <3>1. j \in 1 .. (n - 1) /\ from(j) = j
      BY <1>2, <2>1
    <3> QED BY <3>1, Zenon
  <2>2. CASE j = n
    <3>1. k \in 1 .. (n - 1) /\ from(k) = j
      BY <1>2, <2>2
    <3> QED BY <3>1, Zenon
  <2> QED BY <2>1, <2>2, Zenon
<1> HIDE DEF from
<1>6. Vector(ds, puts, used)
  <2>1. \A i \in 1 .. (n - 1) : ds[i].id <= puts /\ used[ds[i].id] <= ds[i].counter
    BY <1>3, <1>a, Zenon
  <2>2. \A i, j \in 1 .. (n - 1) : i # j => ds[i].name # ds[j].name /\ ds[i].id # ds[j].id
    BY <1>3, <1>4, <1>a
  <2>3. Len(ds) <= MaxCredentials
    BY <1>2, <1>3, OathAssumption
  <2> QED BY <1>3, <2>1, <2>2, <2>3, IsVector, Zenon
<1>7. Ids(cs) \ {cs[k].id} \subseteq Ids(ds)
  <2> SUFFICES ASSUME NEW j \in 1 .. n, cs[j].id # cs[k].id PROVE cs[j].id \in Ids(ds)
    BY <1>2, Zenon DEF Ids
  <2>1. PICK i \in 1 .. (n - 1) : from(i) = j
    BY <1>5, Zenon
  <2> QED BY <1>3, <2>1, Zenon DEF Ids
<1> QED BY <1>6, <1>7, Zenon DEF cs, ds

(* A counter that advances. *)
LEMMA CountedVector ==
    ASSUME VectorInv, NEW k \in DOMAIN credentials, credentials[k].counter < MaxCounter
    PROVE  LET ds == [credentials EXCEPT ![k].counter = @ + 1]
               u == [used EXCEPT ![credentials[k].id] = credentials[k].counter + 1]
           IN  /\ Vector(ds, puts, used) /\ Vector(ds, puts, u) /\ History(puts, u)
               /\ Ids(ds) = Ids(credentials) /\ DOMAIN ds = DOMAIN credentials
               /\ \A i \in DOMAIN ds : ds[i].id = credentials[i].id
<1> DEFINE cs == credentials
           n == Len(credentials)
           c == [cs[k] EXCEPT !.counter = @ + 1]
           ds == [cs EXCEPT ![k].counter = @ + 1]
           u == [used EXCEPT ![cs[k].id] = cs[k].counter + 1]
<1>1. Vector(cs, puts, used) /\ History(puts, used)
  BY Zenon DEF VectorInv
<1>2. /\ cs \in Seq(Credential) /\ DOMAIN cs = 1 .. n /\ n \in Nat /\ n <= MaxCredentials
      /\ k \in 1 .. n /\ cs[k] \in Credential
  BY <1>1 DEF Vector
<1>3. /\ cs[k].id \in 1 .. MaxPuts /\ cs[k].counter \in Nat /\ cs[k].counter + 1 \in 0 .. MaxCounter
      /\ cs[k].id <= puts /\ used[cs[k].id] <= cs[k].counter
  BY <1>1, <1>2, Credentials, OathAssumption DEF Vector
<1>4. /\ c \in Credential /\ c.id = cs[k].id /\ c.name = cs[k].name /\ c.counter = cs[k].counter + 1
  BY <1>2, <1>3, Zenon DEF Credential
<1>5. ds = [cs EXCEPT ![k] = c]
  BY <1>2, Zenon
<1> HIDE DEF c
<1>6. /\ ds \in Seq(Credential) /\ Len(ds) = n /\ DOMAIN ds = 1 .. n /\ ds[k] = c
      /\ \A i \in 1 .. n : i # k => ds[i] = cs[i]
  BY <1>2, <1>4, <1>5
<1> HIDE DEF cs, ds, n
<1>7. \A i \in 1 .. n : ds[i].id = cs[i].id /\ ds[i].name = cs[i].name
  BY <1>4, <1>6, Zenon
<1>8. /\ used \in Counters /\ puts \in 0 .. MaxPuts
      /\ \A id \in 1 .. MaxPuts : id > puts => used[id] = 0
      /\ \A i \in 1 .. n : cs[i].id \in 1 .. MaxPuts /\ cs[i].counter \in Nat
  BY <1>1, Vectors, Zenon DEF History, cs, n
<1>9. /\ u \in Counters /\ u[cs[k].id] = cs[k].counter + 1
      /\ \A id \in 1 .. MaxPuts : id # cs[k].id => u[id] = used[id]
  BY <1>3, <1>8, Zenon DEF Counters
<1> HIDE DEF u
<1>10. History(puts, u)
  BY <1>3, <1>8, <1>9 DEF History
<1>11. /\ \A i \in 1 .. n : cs[i].id <= puts /\ used[cs[i].id] <= cs[i].counter
       /\ \A i, j \in 1 .. n : i # j => cs[i].name # cs[j].name /\ cs[i].id # cs[j].id
  BY <1>1, Vectors, Zenon DEF cs, n
<1>12. used[cs[k].id] \in Nat
  BY <1>3, <1>8 DEF Counters
<1>13. \A i, j \in 1 .. n : i # j => ds[i].name # ds[j].name /\ ds[i].id # ds[j].id
  BY <1>7, <1>11
<1>14. ASSUME NEW i \in 1 .. n
       PROVE  ds[i].id <= puts /\ used[ds[i].id] <= ds[i].counter /\ u[ds[i].id] <= ds[i].counter
  <2>1. CASE i = k
    <3>1. cs[k].id <= puts /\ used[cs[k].id] <= c.counter /\ u[cs[k].id] <= c.counter
      BY <1>3, <1>4, <1>9, <1>12
    <3> QED BY <1>4, <1>6, <2>1, <3>1, Zenon
  <2>2. CASE i # k
    <3>1. ds[i] = cs[i]
      BY <1>6, <2>2, Zenon
    <3>2. cs[i].id # cs[k].id /\ cs[i].id \in 1 .. MaxPuts
      BY <1>2, <1>8, <1>11, <2>2, Zenon DEF cs, n
    <3>3. u[cs[i].id] = used[cs[i].id]
      BY <1>9, <3>2, Zenon
    <3> QED BY <1>11, <3>1, <3>3, Zenon
  <2> QED BY <2>1, <2>2, Zenon
<1>15. Vector(ds, puts, used) /\ Vector(ds, puts, u)
  <2>1. Len(ds) <= MaxCredentials
    BY <1>2, <1>6, Zenon
  <2>2. ds \in Seq(Credential) /\ DOMAIN ds = 1 .. n
    BY <1>6, Zenon
  <2>3. Vector(ds, puts, used)
    BY <1>13, <1>14, <2>1, <2>2, IsVector, Zenon
  <2>4. Vector(ds, puts, u)
    BY <1>13, <1>14, <2>1, <2>2, IsVector, Zenon
  <2> QED BY <2>3, <2>4, Zenon
<1>16. Ids(ds) = Ids(cs)
  BY <1>2, <1>6, <1>7 DEF Ids
<1> QED BY <1>2, <1>6, <1>7, <1>10, <1>15, <1>16, Zenon DEF cs, ds, u

(* Numbers that are given out later leave a vector as it is. *)
LEMMA LaterVector ==
    ASSUME NEW cs, NEW n \in Nat, NEW u, Vector(cs, n, u)
    PROVE  Vector(cs, n + 1, u)
<1>1. \A i \in 1 .. Len(cs) : cs[i].id \in Nat /\ cs[i].id <= n + 1
  BY Vectors
<1> QED BY <1>1, Vectors, Zenon DEF Vector

-----------------------------------------------------------------------------
(* Emptying RAM: nothing can be saved over the store before the next       *)
(* SELECT, or the store is empty as well.                                  *)
LEMMA Emptied ==
    ASSUME NEW m \in {"off", "open", "closed"}, NEW auth \in BOOLEAN, EmptyRam(m, auth),
           History(puts', used'), Vector(blob.credentials', puts', used'),
           blob.authKey' \in Key, kept' \subseteq Ids(blob.credentials'),
           m = "open" => kept' = {} /\ blob.authKey' = NoAccessKey
    PROVE  AppletInv'
<1>1. VectorInv'
  BY EmptyVector, Zenon DEF EmptyRam, VectorInv
<1>2. SessionInv'
  BY OathAssumption DEF EmptyRam, SessionInv, TouchIsForTheAsked, AccessCodeProved, CodeIsNotLifted,
     Key
<1> QED BY <1>1, <1>2, Zenon DEF AppletInv

(* Every save, however it ends: a vector that fits the history in RAM and, *)
(* where the save did not land, still in the store.                        *)
LEMMA Saved ==
    ASSUME AppletInv, mode = "open", NEW f \in Save, NEW cs, NEW k \in Key, NEW auth \in BOOLEAN,
           NEW p, NEW pr, pr \subseteq AccessKey, SaveState(f, cs, k, auth, p, pr),
           History(puts', used'), Vector(cs, puts', used'), kept' \subseteq Ids(cs),
           ~f.landed => /\ Vector(blob.credentials, puts', used')
                        /\ kept' \subseteq Ids(blob.credentials),
           p = NoPending \/ (p \in DOMAIN cs /\ cs[p].id = asked),
           k # NoAccessKey /\ auth => k \in pr,
           k # blob.authKey /\ blob.authKey # NoAccessKey => blob.authKey \in pr
    PROVE  AppletInv'
<1>1. /\ f.landed => blob.credentials' = cs /\ blob.authKey' = k
      /\ ~f.landed => blob' = blob
  BY Zenon DEF SaveState, State
<1>2. blob.authKey \in Key /\ asked \in 0 .. MaxPuts /\ f.landed \in BOOLEAN
  BY Zenon DEF AppletInv, SessionInv, Save
<1>3. /\ Vector(blob.credentials', puts', used') /\ kept' \subseteq Ids(blob.credentials')
      /\ blob.authKey' \in Key
  BY <1>1, <1>2, Zenon
<1>4. CASE f.end = "crash"
  <2>1. EmptyRam("off", FALSE)
    BY <1>4, Zenon DEF SaveState
  <2> QED BY <1>3, <2>1, Emptied, Zenon
<1>5. CASE f.end # "crash"
  <2>1. /\ credentials' = cs /\ authKey' = k /\ authenticated' = auth /\ pending' = p
        /\ asked' = IF p = NoPending THEN 0 ELSE asked
        /\ proved' = pr /\ mode' = mode
    BY <1>5, Zenon DEF SaveState
  <2>2. VectorInv'
    BY <1>3, <2>1, Zenon DEF VectorInv
  <2>3. SessionInv'
    BY <1>1, <1>2, <1>3, <2>1, OathAssumption
    DEF SessionInv, TouchIsForTheAsked, AccessCodeProved, CodeIsNotLifted
  <2> QED BY <2>2, <2>3, Zenon DEF AppletInv
<1> QED BY <1>4, <1>5, Zenon

(* What a command finds. *)
LEMMA Found ==
    ASSUME AppletInv
    PROVE  /\ History(puts, used) /\ Vector(credentials, puts, used)
           /\ Vector(blob.credentials, puts, used) /\ kept \subseteq Ids(blob.credentials)
           /\ mode = "open" => kept \subseteq Ids(credentials)
           /\ authKey \in Key /\ blob.authKey \in Key /\ proved \subseteq AccessKey
           /\ authenticated \in BOOLEAN /\ asked \in 0 .. MaxPuts
           /\ \/ pending = NoPending
              \/ pending \in DOMAIN credentials /\ credentials[pending].id = asked
           /\ authKey # NoAccessKey /\ authenticated => authKey \in proved
           /\ mode = "open" /\ authKey # blob.authKey /\ blob.authKey # NoAccessKey =>
                 blob.authKey \in proved
BY Zenon DEF AppletInv, VectorInv, SessionInv, TouchIsForTheAsked, AccessCodeProved, CodeIsNotLifted

(* The save of a command that leaves the access code alone. *)
LEMMA SavedSameCode ==
    ASSUME AppletInv, mode = "open", NEW f \in Save, NEW cs, NEW p,
           SaveState(f, cs, authKey, authenticated, p, proved),
           History(puts', used'), Vector(cs, puts', used'), kept' \subseteq Ids(cs),
           ~f.landed => /\ Vector(blob.credentials, puts', used')
                        /\ kept' \subseteq Ids(blob.credentials),
           p = NoPending \/ (p \in DOMAIN cs /\ cs[p].id = asked)
    PROVE  AppletInv'
<1>1. authKey \in Key /\ authenticated \in BOOLEAN /\ proved \subseteq AccessKey
  BY Found, Zenon
<1>2. authKey # NoAccessKey /\ authenticated => authKey \in proved
  BY Found, Zenon
<1>3. authKey # blob.authKey /\ blob.authKey # NoAccessKey => blob.authKey \in proved
  BY Found, Zenon
<1> QED BY <1>1, <1>2, <1>3, Saved, SMTT(30)

-----------------------------------------------------------------------------
(* Put, whether its save lands or not. *)
LEMMA PutStep ==
    ASSUME AppletInv, NEW f \in Save, NEW name \in Name, NEW kind \in Kind, NEW touch \in BOOLEAN,
           Put(f, name, kind, touch)
    PROVE  AppletInv'
<1> DEFINE c == [id |-> puts + 1, name |-> name, kind |-> kind, touch |-> touch, counter |-> 0]
           others == kept \ Named(name)
<1>1. /\ mode = "open" /\ puts < MaxPuts
      /\ Find(name) # {} \/ Len(credentials) < MaxCredentials
      /\ SaveState(f, With(c), authKey, authenticated, NoPending, proved)
      /\ puts' = puts + 1 /\ used' = used
      /\ kept' = IF f.end = "ok" THEN others \cup {c.id} ELSE others
  BY Zenon DEF Put, RequireAuth
<1>2. puts \in Nat /\ puts + 1 \in 1 .. MaxPuts /\ VectorInv
  BY <1>1, OathAssumption, Found DEF History, AppletInv
<1>3. c \in Credential /\ c.id = puts + 1 /\ c.counter = 0 /\ c.name = name
  BY <1>2, OathAssumption DEF Credential
<1> HIDE DEF c
<1>4. /\ Vector(With(c), puts + 1, used)
      /\ (Ids(credentials) \ Named(name)) \cup {c.id} \subseteq Ids(With(c))
  BY <1>1, <1>2, <1>3, PutVector, Zenon
<1>5. History(puts', used')
  BY <1>1, <1>2, Found DEF History
<1>6. Vector(blob.credentials, puts', used')
  BY <1>1, <1>2, Found, LaterVector, Zenon
<1>7. kept' \subseteq Ids(With(c)) /\ (~f.landed => kept' \subseteq Ids(blob.credentials))
  BY <1>1, <1>4, Found, Zenon DEF Save
<1> HIDE DEF others
<1> QED BY <1>1, <1>4, <1>5, <1>6, <1>7, Found, SavedSameCode, Zenon

(* Delete, whether its save lands or not. *)
LEMMA DeleteStep ==
    ASSUME AppletInv, NEW f \in Save, NEW i \in DOMAIN credentials, Delete(f, i)
    PROVE  AppletInv'
<1>1. /\ mode = "open" /\ SaveState(f, Without(i), authKey, authenticated, NoPending, proved)
      /\ kept' = kept \ {credentials[i].id} /\ puts' = puts /\ used' = used
  BY Zenon DEF Delete, RequireAuth
<1>2. /\ Vector(Without(i), puts, used)
      /\ Ids(credentials) \ {credentials[i].id} \subseteq Ids(Without(i))
  BY DeleteVector, Zenon DEF AppletInv
<1>3. kept' \subseteq Ids(Without(i)) /\ kept' \subseteq Ids(blob.credentials)
  BY <1>1, <1>2, Found, Zenon
<1> QED BY <1>1, <1>2, <1>3, Found, SavedSameCode, Zenon

(* A HOTP code: answered only when the advanced counter is stored. *)
LEMMA CalculateStep ==
    ASSUME AppletInv, mode = "open", NEW f \in Save, NEW i \in DOMAIN credentials,
           NEW p \in {pending, NoPending}, CalculateHotp(f, i, p)
    PROVE  AppletInv'
<1> DEFINE ds == [credentials EXCEPT ![i].counter = @ + 1]
           u == [used EXCEPT ![credentials[i].id] = credentials[i].counter + 1]
<1>1. /\ credentials[i].counter < MaxCounter
      /\ SaveState(f, ds, authKey, authenticated, p, proved)
      /\ used' = IF f.end = "ok" THEN u ELSE used
      /\ puts' = puts /\ kept' = kept
  BY Zenon DEF CalculateHotp
<1>2. /\ Vector(ds, puts, used) /\ Vector(ds, puts, u) /\ History(puts, u)
      /\ Ids(ds) = Ids(credentials) /\ DOMAIN ds = DOMAIN credentials
      /\ \A j \in DOMAIN ds : ds[j].id = credentials[j].id
  BY <1>1, CountedVector, Zenon DEF AppletInv
<1> HIDE DEF ds, u
<1>3. p = NoPending \/ (p \in DOMAIN ds /\ ds[p].id = asked)
  BY <1>2, Found, Zenon
<1>4. History(puts', used') /\ Vector(ds, puts', used')
  BY <1>1, <1>2, Found, Zenon
<1>5. ~f.landed => Vector(blob.credentials, puts', used')
  BY <1>1, Found, Zenon DEF Save
<1> QED BY <1>1, <1>2, <1>3, <1>4, <1>5, Found, SavedSameCode, Zenon

(* A session that may change the code has proved the one of the store. *)
LEMMA StoredCodeProved ==
    ASSUME AppletInv, RequireAuth
    PROVE  blob.authKey # NoAccessKey => blob.authKey \in proved
BY Found, Zenon DEF RequireAuth

(* SetCode, ClearCode and Validate leave the credentials alone. *)
LEMMA CodeStep ==
    ASSUME AppletInv, NEW f \in Save,
           (\E k \in Key : SetCode(f, k)) \/ ClearCode(f) \/ Validate(f)
    PROVE  AppletInv'
<1>1. mode = "open" /\ puts' = puts /\ used' = used /\ kept' = kept
  BY Zenon DEF SetCode, ClearCode, Validate, RequireAuth
<1>2. ASSUME NEW k \in Key, SetCode(f, k) PROVE AppletInv'
  <2> DEFINE pr == proved \cup ({k} \ {NoAccessKey})
  <2>1. SaveState(f, credentials, k, TRUE, pending, pr) /\ RequireAuth
    BY <1>2, Zenon DEF SetCode
  <2>2. pr \subseteq AccessKey /\ (k # NoAccessKey => k \in pr) /\ proved \subseteq pr
    BY Found, Zenon DEF Key
  <2>3. blob.authKey # NoAccessKey => blob.authKey \in pr
    BY <2>1, <2>2, StoredCodeProved, Zenon
  <2> HIDE DEF pr
  <2> QED BY <1>1, <2>1, <2>2, <2>3, Found, Saved, Zenon
<1>3. ASSUME ClearCode(f) PROVE AppletInv'
  <2>1. SaveState(f, credentials, NoAccessKey, FALSE, pending, proved) /\ RequireAuth
    BY <1>3, Zenon DEF ClearCode
  <2>2. NoAccessKey \in Key /\ (blob.authKey # NoAccessKey => blob.authKey \in proved)
    BY <2>1, StoredCodeProved, Zenon DEF Key
  <2> QED BY <1>1, <2>1, <2>2, Found, Saved, Zenon
<1>4. ASSUME Validate(f) PROVE AppletInv'
  <2> DEFINE pr == proved \cup {authKey}
  <2>1. SaveState(f, credentials, authKey, TRUE, pending, pr) /\ authKey # NoAccessKey
    BY <1>4, Zenon DEF Validate
  <2>2. pr \subseteq AccessKey /\ authKey \in pr /\ proved \subseteq pr
    BY <2>1, Found, Zenon DEF Key
  <2> HIDE DEF pr
  <2> QED BY <1>1, <2>1, <2>2, Found, Saved, Zenon
<1> QED BY <1>2, <1>3, <1>4, Zenon

(* A key that is too long clears the code in RAM and nothing else. *)
LEMMA TooLongStep ==
    ASSUME AppletInv, SetCodeTooLong
    PROVE  AppletInv'
<1>1. /\ RequireAuth /\ authKey' = NoAccessKey
      /\ UNCHANGED <<credentials, blob, mode, authenticated, pending, asked, proved>>
      /\ UNCHANGED <<puts, used, kept>>
  BY Zenon DEF SetCodeTooLong, session
<1>2. VectorInv'
  BY <1>1, Zenon DEF AppletInv, VectorInv
<1>3. blob.authKey # NoAccessKey => blob.authKey \in proved
  BY <1>1, StoredCodeProved, Zenon
<1>4. SessionInv'
  BY <1>1, <1>3, Zenon
  DEF AppletInv, SessionInv, TouchIsForTheAsked, AccessCodeProved, CodeIsNotLifted, Key
<1> QED BY <1>2, <1>4, Zenon DEF AppletInv

(* Reset: the store first, RAM only when that succeeded. *)
LEMMA ResetStep ==
    ASSUME AppletInv, NEW f \in Save, Reset(f)
    PROVE  AppletInv'
<1>1. /\ f.landed => blob.credentials' = <<>> /\ blob.authKey' = NoAccessKey
      /\ ~f.landed => blob' = blob
      /\ puts' = puts /\ used' = used /\ kept' = {}
  BY Zenon DEF Reset, State
<1>2. f.landed \in BOOLEAN /\ f.end \in {"ok", "error", "crash"} /\ (f.end # "error" => f.landed)
  BY Zenon DEF Save
<1>3. /\ History(puts', used') /\ Vector(blob.credentials', puts', used')
      /\ blob.authKey' \in Key /\ kept' \subseteq Ids(blob.credentials')
  BY <1>1, <1>2, Found, EmptyVector, Zenon DEF Key
<1>4. CASE f.end = "ok"
  <2>1. EmptyRam("open", FALSE)
    BY <1>4, Zenon DEF Reset
  <2> QED BY <1>1, <1>2, <1>3, <1>4, <2>1, Emptied, Zenon
<1>5. CASE f.end = "crash"
  <2>1. EmptyRam("off", FALSE)
    BY <1>5, Zenon DEF Reset
  <2> QED BY <1>3, <2>1, Emptied, Zenon
<1>6. CASE f.end = "error"
  <2>1. /\ pending' = NoPending /\ asked' = 0
        /\ UNCHANGED <<credentials, authKey, mode, authenticated, proved>>
    BY <1>6, Zenon DEF Reset
  <2>2. VectorInv'
    BY <1>1, <1>3, <2>1, Found, Zenon DEF VectorInv
  <2>3. SessionInv'
    BY <1>1, <1>2, <1>3, <2>1, OathAssumption
    DEF AppletInv, SessionInv, TouchIsForTheAsked, AccessCodeProved, CodeIsNotLifted
  <2> QED BY <2>2, <2>3, Zenon DEF AppletInv
<1> QED BY <1>2, <1>4, <1>5, <1>6, Zenon

(* Arm names the credential it parks; Disarm and TakePending let go of it. *)
LEMMA TouchStep ==
    ASSUME AppletInv, (\E i \in DOMAIN credentials : Arm(i)) \/ Disarm \/ TakePending
    PROVE  AppletInv'
<1>1. UNCHANGED <<credentials, authKey, blob, mode, authenticated, proved, puts, used, kept>>
  BY Zenon DEF Arm, Disarm, TakePending
<1>2. VectorInv'
  BY <1>1, Zenon DEF AppletInv, VectorInv
<1>3. \A i \in DOMAIN credentials : credentials[i].id \in 0 .. MaxPuts
  BY Found, Vectors
<1>4. SessionInv'
  BY <1>1, <1>3, OathAssumption
  DEF AppletInv, SessionInv, TouchIsForTheAsked, AccessCodeProved, CodeIsNotLifted,
      Arm, Disarm, TakePending
<1> QED BY <1>2, <1>4, Zenon DEF AppletInv

(* Select takes over the store or closes; PowerLoss only empties RAM. *)
LEMMA SelectStep ==
    ASSUME AppletInv, (\E readable \in BOOLEAN : Select(readable)) \/ PowerLoss
    PROVE  AppletInv'
<1>1. UNCHANGED <<blob, puts, used, kept>>
  BY Zenon DEF Select, PowerLoss
<1>2. CASE Select(TRUE)
  <2>1. VectorInv'
    BY <1>1, <1>2, Found, Zenon DEF Select, VectorInv
  <2>2. authenticated' \in BOOLEAN /\ (authKey' # NoAccessKey => ~authenticated')
    BY <1>2, Zenon DEF Select, Unlocked
  <2>3. /\ authKey' = blob.authKey /\ mode' = "open" /\ pending' = NoPending /\ asked' = 0
        /\ proved' = {}
    BY <1>2, Zenon DEF Select
  <2>4. SessionInv'
    BY <1>1, <2>2, <2>3, Found, OathAssumption
    DEF SessionInv, TouchIsForTheAsked, AccessCodeProved, CodeIsNotLifted, Key
  <2> QED BY <2>1, <2>4, Zenon DEF AppletInv
<1>3. CASE Select(FALSE) \/ PowerLoss
  <2>1. EmptyRam("closed", FALSE) \/ EmptyRam("off", FALSE)
    BY <1>3, Zenon DEF Select, Close, PowerLoss
  <2> QED BY <1>1, <2>1, Found, Emptied, Zenon
<1> QED BY <1>2, <1>3, Zenon

-----------------------------------------------------------------------------
(* The erased token. *)
LEMMA AppletInit == Init => AppletInv
<1> SUFFICES ASSUME Init PROVE AppletInv
  BY Zenon
<1>1. blob.credentials = <<>> /\ blob.authKey = NoAccessKey
  BY Zenon DEF Init, State
<1>2. History(puts, used)
  BY OathAssumption DEF Init, History, Counters
<1>3. VectorInv
  BY <1>1, <1>2, EmptyVector, Zenon DEF Init, VectorInv
<1>4. /\ authKey = NoAccessKey /\ mode = "off" /\ ~authenticated /\ authenticated \in BOOLEAN
      /\ pending = NoPending /\ asked = 0 /\ proved = {}
  BY Zenon DEF Init
<1>5. SessionInv
  BY <1>1, <1>4, OathAssumption
  DEF SessionInv, TouchIsForTheAsked, AccessCodeProved, CodeIsNotLifted, Key
<1> QED BY <1>3, <1>5, Zenon DEF AppletInv

(* Every step preserves the invariant. *)
LEMMA AppletStep == AppletInv /\ [Next]_vars => AppletInv'
<1> SUFFICES ASSUME AppletInv, [Next]_vars PROVE AppletInv'
  BY Zenon
<1>1. ASSUME NEW f \in Save, Saving(f) PROVE AppletInv'
  <2>1. ASSUME NEW i \in DOMAIN credentials, Calculate(f, i) PROVE AppletInv'
    BY <2>1, CalculateStep, Zenon DEF Calculate, RequireAuth
  <2>2. ASSUME ConfirmHotp(f) PROVE AppletInv'
    BY <2>2, CalculateStep, Zenon DEF ConfirmHotp
  <2> QED BY <1>1, <2>1, <2>2, PutStep, DeleteStep, CodeStep, ResetStep, Zenon
     DEF Saving, Key
<1>2. CASE UNCHANGED vars
  BY <1>2, Zenon DEF vars, session, AppletInv, VectorInv, SessionInv,
     TouchIsForTheAsked, AccessCodeProved, CodeIsNotLifted
<1> QED BY <1>1, <1>2, TooLongStep, TouchStep, SelectStep, Zenon DEF Next

(* The inductive invariant holds of the applet. *)
THEOREM AppletInvariance == Spec => []AppletInv
BY AppletInit, AppletStep, PTL DEF Spec

(* No HOTP code is answered twice: no counter in RAM or in the store is    *)
(* behind the codes already answered.                                      *)
THEOREM HotpCodesFresh == Spec => []HotpCodeOnce
<1>1. AppletInv => HotpCodeOnce
  <2> SUFFICES ASSUME AppletInv PROVE HotpCodeOnce
    BY Zenon
  <2>1. ASSUME NEW cs, Vector(cs, puts, used), NEW c \in Range(cs) PROVE c.counter >= used[c.id]
    <3>1. PICK i \in DOMAIN cs : c = cs[i]
      BY <2>1, Zenon DEF Range
    <3>2. used[cs[i].id] <= cs[i].counter /\ cs[i].counter \in Nat /\ cs[i].id \in 1 .. MaxPuts
      BY <2>1, Vectors, Zenon
    <3>3. used[cs[i].id] \in Nat
      BY <3>2, Found, OathAssumption DEF History, Counters
    <3> QED BY <3>1, <3>2, <3>3, Zenon
  <2> QED BY <2>1, Found, Zenon DEF HotpCodeOnce
<1> QED BY <1>1, AppletInvariance, PTL

(* A confirmed credential stays in the store until the host names it or    *)
(* resets.                                                                 *)
THEOREM ConfirmedIsStored == Spec => []ConfirmedStaysStored
<1>1. AppletInv => ConfirmedStaysStored
  BY Found, Zenon DEF ConfirmedStaysStored, Ids, Range
<1> QED BY <1>1, AppletInvariance, PTL

(* Types, the touch that belongs to the credential that asked, and access  *)
(* that rests on a proof of the code in force; the code of the store gives *)
(* way to another one, or to none, only before a host that proved it.      *)
THEOREM GrantedToSession == Spec => []OathInv
<1>1. AppletInv => OathInv
  <2> SUFFICES ASSUME AppletInv PROVE OathInv
    BY Zenon
  <2>1. ASSUME NEW cs, Vector(cs, puts, used)
        PROVE  /\ Range(cs) \subseteq Credential /\ Len(cs) <= MaxCredentials
               /\ Ids(cs) \subseteq 1 .. MaxPuts
    BY <2>1, Vectors, Zenon DEF Range, Ids
  <2>2. TypeOK
    BY <2>1, Found, Zenon DEF AppletInv, SessionInv, TypeOK, Key, History
  <2> QED BY <2>2, Zenon DEF AppletInv, SessionInv, OathInv
<1> QED BY <1>1, AppletInvariance, PTL
==============================================================================

----------------------------- MODULE CardProofs -----------------------------
(***************************************************************************)
(* Proofs about Card, for every set of applets and messages, every         *)
(* workload of a host and every capacity of the buffers, whatever the host *)
(* cancels and whatever mixed frames are read as.                          *)
(***************************************************************************)
EXTENDS Card, SequenceTheorems, TLAPS

(* Quotient and remainder. *)
LEMMA Division ==
    ASSUME NEW n \in Nat, NEW b \in Nat, b > 0,
           NEW q \in Int, NEW r \in Int, q = n \div b, r = n % b
    PROVE  n = q * b + r
OBVIOUS

(* Two bytes of a length field are read as they are written. *)
LEMMA FieldRead ==
    ASSUME NEW n \in Nat
    PROVE  /\ Field16(n) \in Seq(Nat) /\ Len(Field16(n)) = 2
           /\ U16(Field16(n)[1], Field16(n)[2]) = n
<1>1. ByteBase \in Nat /\ ByteBase > 0
  BY ApduAssumption
<1> DEFINE q == n \div ByteBase
           r == n % ByteBase
<1>2. q \in Nat /\ r \in Nat
  BY <1>1
<1>3. n = q * ByteBase + r
  BY <1>1, <1>2, Division
<1>4. Field16(n) = <<q, r>>
  BY Zenon DEF Field16
<1> HIDE DEF q, r
<1>5. /\ <<q, r>> \in Seq(Nat) /\ Len(<<q, r>>) = 2
      /\ <<q, r>>[1] = q /\ <<q, r>>[2] = r
  BY <1>2
<1> QED BY <1>3, <1>4, <1>5, Zenon DEF U16

(* An Le that is written modulo its field is read back. *)
LEMMA LeRead ==
    ASSUME NEW limit \in Nat, NEW le \in 1 .. limit
    PROVE  /\ le % limit \in 0 .. (limit - 1)
           /\ Normalise(le % limit, limit) = le
<1>1. CASE le = limit
  BY <1>1 DEF Normalise
<1>2. CASE le < limit
  <2>1. le % limit = le
    BY <1>2
  <2> QED BY <1>2, <2>1 DEF Normalise
<1> QED BY <1>1, <1>2

(* A sequence that is found in another from place k + 1 is a part of it. *)
LEMMA FoundIn ==
    ASSUME NEW S, NEW x \in Seq(S), NEW y \in Seq(S), NEW k \in Nat,
           k + Len(y) <= Len(x),
           \A i \in 1 .. Len(y) : x[k + i] = y[i]
    PROVE  SubSeq(x, k + 1, k + Len(y)) = y
<1> DEFINE n == Len(y)
           t == SubSeq(x, k + 1, k + n)
<1>1. n \in Nat /\ Len(x) \in Nat /\ k + n <= Len(x)
  OBVIOUS
<1>2. \A i \in k + 1 .. k + n : x[i] \in S
  <2> HIDE DEF n
  <2> QED BY <1>1
<1>3. /\ t \in Seq(S)
      /\ Len(t) = IF k + 1 <= k + n THEN (k + n) - (k + 1) + 1 ELSE 0
      /\ \A i \in 1 .. (k + n) - (k + 1) + 1 : t[i] = x[(k + 1) + i - 1]
  <2> HIDE DEF n
  <2> QED BY <1>1, <1>2, SubSeqProperties
<1>4. \A i \in 1 .. n : x[k + i] = y[i]
  BY Zenon
<1>5. n = Len(y)
  BY Zenon
<1> HIDE DEF n, t
<1>6. Len(t) = n
  BY <1>1, <1>3
<1>7. ASSUME NEW i \in 1 .. n
      PROVE  t[i] = y[i]
  <2>1. i \in 1 .. (k + n) - (k + 1) + 1 /\ (k + 1) + i - 1 = k + i
    BY <1>1
  <2> QED BY <1>3, <1>4, <2>1, Zenon
<1>8. t = y
  BY <1>3, <1>5, <1>6, <1>7, SeqEqual, Zenon
<1> QED BY <1>8, Zenon DEF n, t

(* The two parts a and b of x, by their places. *)
HasParts(S, x, a, b) ==
    /\ x \in Seq(S) /\ Len(x) = Len(a) + Len(b)
    /\ Len(a) \in Nat /\ Len(b) \in Nat
    /\ \A i \in 1 .. Len(a) : x[i] = a[i]
    /\ \A i \in 1 .. Len(b) : x[Len(a) + i] = b[i]
    /\ SubSeq(x, 1, Len(a)) = a
    /\ SubSeq(x, Len(a) + 1, Len(x)) = b

(* A concatenation has the parts it is made of. *)
LEMMA Parts ==
    ASSUME NEW S, NEW a \in Seq(S), NEW b \in Seq(S)
    PROVE  HasParts(S, a \o b, a, b)
<1> DEFINE x == a \o b
<1>1. /\ x \in Seq(S) /\ Len(x) = Len(a) + Len(b)
      /\ Len(a) \in Nat /\ Len(b) \in Nat
  OBVIOUS
<1>2. \A i \in 1 .. Len(a) : x[i] = a[i]
  OBVIOUS
<1>3. \A i \in 1 .. Len(b) : x[Len(a) + i] = b[i]
  OBVIOUS
<1> HIDE DEF x
<1>4. SubSeq(x, 1, Len(a)) = a
  <2>1. 0 + Len(a) <= Len(x) /\ 0 + 1 = 1 /\ 0 + Len(a) = Len(a)
    BY <1>1
  <2>2. \A i \in 1 .. Len(a) : x[0 + i] = a[i]
    <3> TAKE i \in 1 .. Len(a)
    <3>1. 0 + i = i
      OBVIOUS
    <3> QED BY <1>2, <3>1, Zenon
  <2>3. SubSeq(x, 0 + 1, 0 + Len(a)) = a
    BY <1>1, <2>1, <2>2, FoundIn, Zenon
  <2> QED BY <2>1, <2>3, Zenon
<1>5. SubSeq(x, Len(a) + 1, Len(x)) = b
  <2>1. Len(a) + Len(b) <= Len(x)
    BY <1>1
  <2>2. SubSeq(x, Len(a) + 1, Len(a) + Len(b)) = b
    BY <1>1, <1>3, <2>1, FoundIn, Zenon
  <2> QED BY <1>1, <2>2, Zenon
<1> QED BY <1>1, <1>2, <1>3, <1>4, <1>5, Zenon DEF x, HasParts

(* The first parts of three are a head for the last two. *)
LEMMA Regroup ==
    ASSUME NEW x \in Seq(Nat), NEW y \in Seq(Nat), NEW z \in Seq(Nat)
    PROVE  (x \o y) \o z = x \o (y \o z)
BY SMTT(30)

(* A length field of two bytes behind the zero that says so. *)
ZeroThen(head, x) ==
    /\ head \in Seq(Nat) /\ Len(head) = 3
    /\ head[1] = 0 /\ head[2] = x[1] /\ head[3] = x[2]

(* It is the zero and the two bytes. *)
LEMMA BehindZero ==
    ASSUME NEW x \in Seq(Nat), Len(x) = 2
    PROVE  ZeroThen(<<0>> \o x, x)
<1> DEFINE z == <<0>>
<1>1. z \in Seq(Nat) /\ Len(z) = 1 /\ z[1] = 0
  OBVIOUS
<1> HIDE DEF z
<1> DEFINE head == z \o x
<1>2. HasParts(Nat, head, z, x)
  BY <1>1, Parts, Zenon
<1> HIDE DEF head
<1>3. head \in Seq(Nat) /\ Len(head) = 3
  BY <1>1, <1>2 DEF HasParts
<1>4. head[1] = 0
  BY <1>1, <1>2, 1 \in 1 .. 1 DEF HasParts
<1>5. head[2] = x[1] /\ head[3] = x[2]
  <2>1. 1 \in 1 .. 2 /\ 2 \in 1 .. 2 /\ 1 + 1 = 2 /\ 1 + 2 = 3
    OBVIOUS
  <2> QED BY <1>1, <1>2, <2>1 DEF HasParts
<1> QED BY <1>3, <1>4, <1>5, Zenon DEF head, z, ZeroThen

(* A body is a head, which gives the number of bytes of data, and the rest *)
(* of it: the data and the end.                                            *)
HasBody(body, head, rest, data, end) ==
    /\ HasParts(Nat, body, head, rest)
    /\ HasParts(Nat, rest, data, end)
    /\ Len(body) > Len(head)
    /\ rest # <<>>

(* So is the body of a command with data. *)
LEMMA AfterHead ==
    ASSUME NEW head \in Seq(Nat), NEW data \in Seq(Nat), NEW end \in Seq(Nat),
           data # <<>>
    PROVE  HasBody(head \o (data \o end), head, data \o end, data, end)
<1> DEFINE tail == data \o end
<1>1. HasParts(Nat, tail, data, end)
  BY Parts, Zenon
<1>2. Len(data) \in Nat /\ Len(data) > 0
  OBVIOUS
<1> HIDE DEF tail
<1>3. tail \in Seq(Nat) /\ Len(tail) \in Nat /\ Len(tail) > 0
  BY <1>1, <1>2 DEF HasParts
<1>4. tail # <<>>
  BY <1>3
<1> DEFINE body == head \o tail
<1>5. HasParts(Nat, body, head, tail)
  BY <1>3, Parts, Zenon
<1> HIDE DEF body
<1>6. Len(body) > Len(head)
  BY <1>3, <1>5 DEF HasParts
<1> QED BY <1>1, <1>4, <1>5, <1>6, Zenon DEF tail, body, HasBody

(* The data of a command is a sequence of numbers. *)
LEMMA BytesAreNumbers ==
    ASSUME NEW data \in Seq(Byte)
    PROVE  data \in Seq(Nat) /\ Len(data) \in Nat
<1>1. Byte \subseteq Nat
  BY ApduAssumption DEF Byte
<1>2. data \in Seq(Nat)
  BY <1>1, SeqMonotonic, Zenon
<1> QED BY <1>2

(* A short command is read as it is written. *)
LEMMA ShortRead ==
    ASSUME NEW data, NEW le, Writable(data, le, FALSE)
    PROVE  Parse(IsoBody(data, le, FALSE)) = Parsed(data, le, FALSE)
<1>1. data \in Seq(Nat) /\ Len(data) \in Nat
  BY BytesAreNumbers, Zenon DEF Writable
<1> DEFINE last == le % ByteBase
<1>2. le # NoLe => last \in Nat /\ Normalise(last, ByteBase) = le
  <2>1. (le = NoLe \/ le \in 1 .. ByteBase) /\ ByteBase \in Nat
    BY ApduAssumption, Zenon DEF Writable
  <2> QED BY <2>1, LeRead
<1> DEFINE body == IsoBody(data, le, FALSE)
<1>3. CASE data = <<>> /\ le = NoLe
  <2>1. body = <<>>
    BY <1>3 DEF IsoBody
  <2> QED BY <1>3, <2>1, Zenon DEF Parse
<1>4. CASE data = <<>> /\ le # NoLe
  <2>1. body = <<last>>
    BY <1>4 DEF IsoBody
  <2> HIDE DEF body, last
  <2>2. Len(body) = 1 /\ body # <<>> /\ Tail(body) = <<>> /\ body[1] = last
    BY <2>1
  <2>3. Parse(body) = ParseShort(body)
    BY <2>2 DEF Parse
  <2>4. Parse(body) = Parsed(data, le, FALSE)
    BY <1>2, <1>4, <2>2, <2>3, Zenon DEF ParseShort
  <2> QED BY <2>4, Zenon DEF body
<1>5. CASE data # <<>>
  <2> DEFINE n    == Len(data)
             head == <<n>>
             end  == IF le = NoLe THEN <<>> ELSE <<last>>
             rest == data \o end
  <2>1. body = (head \o data) \o end
    BY <1>5, Zenon DEF IsoBody
  <2>2. n \in Nat /\ n # 0
    BY <1>1, <1>5
  <2> HIDE DEF last, body, n
  <2>3. head \in Seq(Nat) /\ Len(head) = 1 /\ head[1] = n
    BY <2>2
  <2>4. end \in Seq(Nat)
    BY <1>2
  <2>5. le # NoLe => Len(end) = 1 /\ end[1] = last
    BY Zenon
  <2>6. le = NoLe => Len(end) = 0
    BY Zenon
  <2> HIDE DEF head, end
  <2>7. body = head \o rest
    BY <1>1, <2>1, <2>3, <2>4, Regroup, Zenon
  <2>8. HasBody(body, head, rest, data, end)
    BY <1>1, <1>5, <2>3, <2>4, <2>7, AfterHead, Zenon
  <2> HIDE DEF rest
  <2>9. /\ body \in Seq(Nat) /\ Len(body) > 1 /\ SubSeq(body, 1 + 1, Len(body)) = rest
        /\ Len(rest) = n + Len(end) /\ Len(end) \in Nat
        /\ SubSeq(rest, 1, n) = data
    BY <2>3, <2>8, Zenon DEF HasBody, HasParts, n
  <2>10. body # <<>> /\ body[1] = n /\ rest # <<>>
    <3>1. body # <<>>
      BY <2>9
    <3>2. body[1] = n
      BY <2>3, <2>8, 1 \in 1 .. 1 DEF HasBody, HasParts
    <3> QED BY <2>8, <3>1, <3>2, Zenon DEF HasBody
  <2>11. rest = Tail(body)
    <3>1. 1 + 1 = 2
      OBVIOUS
    <3> QED BY <2>9, <2>10, <3>1, TailIsSubSeq, Zenon
  <2>12. Parse(body) = ParseShort(body)
    BY <2>2, <2>10, Zenon DEF Parse
  <2>13. CASE le = NoLe
    <3>1. Len(rest) = n
      BY <2>2, <2>6, <2>9, <2>13
    <3>2. rest = data
      BY <1>1, <2>13 DEF rest, end
    <3>3. Parse(body) = Parsed(data, le, FALSE)
      BY <2>10, <2>11, <2>12, <2>13, <3>1, <3>2, Zenon DEF ParseShort
    <3> QED BY <3>3, Zenon DEF body
  <2>14. CASE le # NoLe
    <3>1. Len(end) = 1 /\ end[1] = last
      BY <2>5, <2>14, Zenon
    <3>2. Len(rest) = n + 1 /\ Len(rest) # n
      BY <2>2, <2>9, <3>1
    <3>3. rest[n + 1] = last
      BY <2>8, <3>1, 1 \in 1 .. 1 DEF HasBody, HasParts, n
    <3>4. Parse(body) = Parsed(data, le, FALSE)
      BY <1>2, <2>9, <2>10, <2>11, <2>12, <2>14, <3>2, <3>3, Zenon DEF ParseShort
    <3> QED BY <3>4, Zenon DEF body
  <2> QED BY <2>13, <2>14, Zenon
<1> QED BY <1>3, <1>4, <1>5, Zenon

(* So is an extended one. *)
LEMMA ExtendedRead ==
    ASSUME NEW data, NEW le, Writable(data, le, TRUE)
    PROVE  Parse(IsoBody(data, le, TRUE)) = Parsed(data, le, TRUE)
<1> DEFINE limit == ByteBase * ByteBase
           last  == le % limit
           n     == Len(data)
           lc    == Field16(n)
           tail  == Field16(last)
           body  == IsoBody(data, le, TRUE)
<1>1. data \in Seq(Nat) /\ n \in Nat
  BY BytesAreNumbers, Zenon DEF Writable
<1>2. le # NoLe => last \in Nat /\ Normalise(last, limit) = le
  <2>1. (le = NoLe \/ le \in 1 .. limit) /\ limit \in Nat
    BY ApduAssumption DEF Writable
  <2> HIDE DEF limit
  <2> QED BY <2>1, LeRead
<1>3. body = LET b == (IF data = <<>> THEN <<>> ELSE lc) \o data
                         \o (IF le = NoLe THEN <<>> ELSE tail)
             IN  IF b # <<>> THEN <<0>> \o b ELSE b
  BY Zenon DEF IsoBody
<1> HIDE DEF limit, last, body, n
<1>4. lc \in Seq(Nat) /\ Len(lc) = 2 /\ U16(lc[1], lc[2]) = n
  BY <1>1, FieldRead, Zenon
<1>5. ASSUME le # NoLe
      PROVE  tail \in Seq(Nat) /\ Len(tail) = 2 /\ U16(tail[1], tail[2]) = last
  BY <1>2, <1>5, FieldRead, Zenon
<1> HIDE DEF lc, tail
<1>6. CASE data = <<>>
  <2>1. le # NoLe
    BY <1>6, Zenon DEF Writable
  <2>2. tail \in Seq(Nat) /\ Len(tail) = 2
    BY <1>5, <2>1, Zenon
  <2>3. (<<>> \o <<>>) \o tail = tail /\ tail # <<>>
    <3>1. <<>> \o <<>> = <<>>
      OBVIOUS
    <3>2. <<>> \o tail = tail
      BY <2>2
    <3>3. tail # <<>>
      BY <2>2, EmptySeq, 0 # 2, Zenon
    <3> QED BY <3>1, <3>2, <3>3, Zenon
  <2>4. body = <<0>> \o tail
    BY <1>3, <1>6, <2>1, <2>3, Zenon
  <2>5. /\ body \in Seq(Nat) /\ Len(body) = 3
        /\ body[1] = 0 /\ body[2] = tail[1] /\ body[3] = tail[2]
    BY <2>2, <2>4, BehindZero, Zenon DEF ZeroThen
  <2>6. body # <<>>
    BY <2>5, EmptySeq, 0 # 3, Zenon
  <2>7. SubSeq(body, 4, Len(body)) = <<>>
    BY <2>5, SubSeqEmpty
  <2>8. Parse(body) = ParseExtended(body)
    BY <2>5, <2>6 DEF Parse
  <2>9. U16(body[2], body[3]) = last
    BY <1>5, <2>1, <2>5, Zenon
  <2>10. Parse(body) = Parsed(data, le, TRUE)
    BY <1>2, <1>6, <2>1, <2>7, <2>8, <2>9, Zenon DEF ParseExtended, limit
  <2> QED BY <2>10, Zenon DEF body
<1>7. CASE data # <<>>
  <2> DEFINE end  == IF le = NoLe THEN <<>> ELSE tail
             head == <<0>> \o lc
             rest == data \o end
  <2>1. body = LET b == (lc \o data) \o end
               IN  IF b # <<>> THEN <<0>> \o b ELSE b
    BY <1>3, <1>7, Zenon
  <2>2. end \in Seq(Nat)
    BY <1>5
  <2>3. le # NoLe => end = tail
    BY Zenon
  <2>4. le = NoLe => end = <<>>
    BY Zenon
  <2> HIDE DEF end
  <2>5. <<0>> \in Seq(Nat) /\ rest \in Seq(Nat)
    BY <1>1, <2>2
  <2>6. (lc \o data) \o end = lc \o rest
    BY <1>1, <1>4, <2>2, Regroup, Zenon
  <2> HIDE DEF rest
  <2>7. lc \o rest # <<>>
    BY <1>4, <2>5
  <2>8. body = <<0>> \o (lc \o rest)
    BY <2>1, <2>6, <2>7, Zenon
  <2>9. body = head \o rest
    BY <1>4, <2>5, <2>8, Regroup, Zenon
  <2>10. ZeroThen(head, lc)
    BY <1>4, BehindZero, Zenon
  <2> HIDE DEF head
  <2>11. head \in Seq(Nat) /\ Len(head) = 3
    BY <2>10, Zenon DEF ZeroThen
  <2>12. HasBody(body, head, rest, data, end)
    BY <1>1, <1>7, <2>2, <2>9, <2>11, AfterHead, Zenon DEF rest
  <2>13. /\ body \in Seq(Nat) /\ Len(body) > 3 /\ SubSeq(body, 3 + 1, Len(body)) = rest
         /\ Len(rest) = n + Len(end) /\ Len(end) \in Nat
         /\ SubSeq(rest, 1, n) = data /\ rest # <<>>
    BY <2>11, <2>12, Zenon DEF HasBody, HasParts, n
  <2>14. body # <<>> /\ Len(body) > 1 /\ ~(Len(body) < 3)
    BY <2>13
  <2>15. body[1] = 0 /\ body[2] = lc[1] /\ body[3] = lc[2]
    <3>1. \A i \in 1 .. 3 : body[i] = head[i]
      BY <2>11, <2>12, Zenon DEF HasBody, HasParts
    <3> QED BY <2>10, <3>1 DEF ZeroThen
  <2>16. SubSeq(body, 4, Len(body)) = rest
    BY <2>13, 3 + 1 = 4
  <2>17. Parse(body) = ParseExtended(body) /\ U16(body[2], body[3]) = n
    BY <1>4, <2>14, <2>15, Zenon DEF Parse
  <2>18. CASE le = NoLe
    <3>1. rest = data
      BY <1>1, <2>4, <2>18 DEF rest
    <3>2. Len(rest) = n
      BY <3>1, Zenon DEF n
    <3>3. Parse(body) = Parsed(data, le, TRUE)
      BY <2>13, <2>16, <2>17, <2>18, <3>1, <3>2, Zenon DEF ParseExtended
    <3> QED BY <3>3, Zenon DEF body
  <2>19. CASE le # NoLe
    <3>1. end = tail /\ Len(end) = 2
      BY <1>5, <2>3, <2>19, Zenon
    <3>2. Len(rest) = n + 2 /\ Len(rest) # n
      BY <1>1, <2>13, <3>1
    <3>3. rest[n + 1] = tail[1] /\ rest[n + 2] = tail[2]
      BY <2>12, <3>1, 1 \in 1 .. 2, 2 \in 1 .. 2 DEF HasBody, HasParts, n
    <3>4. U16(rest[n + 1], rest[n + 2]) = last
      BY <1>5, <2>19, <3>3, Zenon
    <3>5. Parse(body) = Parsed(data, le, TRUE)
      BY <1>2, <2>13, <2>16, <2>17, <2>19, <3>2, <3>4, Zenon DEF ParseExtended, limit
    <3> QED BY <3>5, Zenon DEF body
  <2> QED BY <2>18, <2>19, Zenon
<1> QED BY <1>6, <1>7, Zenon

(* Apdu::parse undoes what ISO 7816-4 writes, for every command there is   *)
(* a form for.                                                             *)
LEMMA ReadAsWritten ==
    ASSUME NEW data, NEW le, NEW ext, Writable(data, le, ext)
    PROVE  Parse(IsoBody(data, le, ext)) = Parsed(data, le, ext)
<1>1. ext \in BOOLEAN
  BY Zenon DEF Writable
<1>2. CASE ext = TRUE
  BY <1>2, ExtendedRead, Zenon
<1>3. CASE ext = FALSE
  BY <1>3, ShortRead, Zenon
<1> QED BY <1>1, <1>2, <1>3, Zenon
(* The messages a host has sent are messages it may send. *)
SentInv == sent \in Seq(Request)

(* Only Send changes them. *)
LEMMA SentKept == SentInv /\ [Next]_vars => SentInv'
<1> SUFFICES ASSUME SentInv, [Next]_vars PROVE SentInv'
  BY Zenon
<1>1. CASE \E r \in Request : Send(r)
  BY <1>1 DEF Send, SentInv
<1>2. CASE UNCHANGED sent
  BY <1>2, Zenon DEF SentInv
<1> QED BY <1>1, <1>2, Zenon DEF Next, Task, Cancel, Take, ReadPacket, PollNothing, PollOversized,
           PollMessage, Written, Touch, TouchDone, WriteFails, hostSide, vars

(***************************************************************************)
(* The router reads the command that the host wrote by ISO 7816-4, short   *)
(* or extended, with and without data and Le, up to the largest of each    *)
(* (Apdu::parse): for every base of a byte, so for 256.                    *)
(***************************************************************************)
THEOREM CommandsReadAsWritten == Spec => []ParsesAsMeant
<1>1. Init => SentInv
  BY DEF Init, SentInv
<1>2. SentInv => ParsesAsMeant
  <2> SUFFICES ASSUME SentInv, NEW k \in DOMAIN sent, sent[k].kind = "xfr"
               PROVE  Parse(IsoBody(sent[k].data, sent[k].le, sent[k].extended))
                        = Parsed(sent[k].data, sent[k].le, sent[k].extended)
    BY Zenon DEF ParsesAsMeant
  <2>1. sent[k] \in Request
    BY DEF SentInv
  <2>2. Writable(sent[k].data, sent[k].le, sent[k].extended)
    BY <2>1, CardAssumption, Zenon
  <2> QED BY <2>2, ReadAsWritten, Zenon
<1> QED BY <1>1, <1>2, SentKept, PTL DEF Spec

-----------------------------------------------------------------------------
Fields(c) == [of |-> c.of, len |-> c.len, delivered |-> c.delivered]

(* The inductive invariant: commands are numbered in the order they are    *)
(* handled, the one that changed the selection last among them.            *)
ChainInv ==
    /\ handled \in Nat
    /\ since \in Nat
    /\ since <= handled
    /\ chain = Fields(chain)
    /\ ResponseOfThisSelection

(* A delivery (Chainer::deliver) goes on with the response it began with. *)
LEMMA DeliverKeepsOwner ==
    ASSUME NEW c, NEW le, c = Fields(c)
    PROVE  /\ Deliver(c, le).chain = Fields(Deliver(c, le).chain)
           /\ Deliver(c, le).chain.of = c.of
<1> DEFINE n(d) == [of |-> c.of, len |-> c.len, delivered |-> d]
<1>1. \A d : [c EXCEPT !.delivered = d] = n(d)
  BY DEF Fields
<1>2. PICK d : Deliver(c, le).chain = n(d)
  <2>1. CASE c.len - c.delivered <= Limit(le)
    BY <1>1, <2>1, Zenon DEF Deliver
  <2>2. CASE ~(c.len - c.delivered <= Limit(le))
    BY <1>1, <2>2, Zenon DEF Deliver
  <2> QED BY <2>1, <2>2, Zenon
<1> QED BY <1>2 DEF Fields

(* Nothing is pending of the response that a reset leaves (Chainer::clear). *)
LEMMA NothingPending == NoChain = Fields(NoChain) /\ ~IsPending(NoChain)
BY DEF NoChain, Fields, IsPending

(* A step that drops the pending response may begin a new selection. *)
LEMMA Dropped ==
    ASSUME ChainInv, chain' = NoChain,
           handled' \in Nat, since' \in Nat, since' <= handled'
    PROVE  ChainInv'
BY NothingPending, Zenon DEF ChainInv, ResponseOfThisSelection

(* A step that leaves the router alone keeps the invariant. *)
LEMMA RouterUntouched ==
    ASSUME ChainInv, UNCHANGED <<chain, since, selected, powered>>,
           handled' = handled \/ handled' = handled + 1
    PROVE  ChainInv'
BY DEF ChainInv, ResponseOfThisSelection

(* One command of a powered card (Router::command). *)
LEMMA CommandKeeps ==
    ASSUME ChainInv, powered, handled' = handled + 1,
           NEW r, NEW seq, Command(r, seq, handled + 1)
    PROVE  ChainInv'
<1> DEFINE at == handled + 1
           le == ExpectedLen(Parse(IsoBody(r.data, r.le, r.extended)))
<1> HIDE DEF le
<1>1. CASE Refuse(seq)
  BY <1>1, RouterUntouched, Zenon DEF Refuse, router
<1>2. CASE Select(r, seq, at)
  BY <1>2, Dropped DEF Select, ChainInv
<1>3. CASE Remaining(seq, le)
  <2>1. CASE IsPending(chain)
    <3>1. chain' = Deliver(chain, le).chain
      BY <1>3, <2>1, Zenon DEF Remaining, GetResponse
    <3>2. UNCHANGED <<powered, selected, since>>
      BY <1>3, Zenon DEF Remaining
    <3>3. chain' = Fields(chain') /\ chain'.of = chain.of
      BY <3>1, DeliverKeepsOwner, Zenon DEF ChainInv
    <3> QED BY <2>1, <3>2, <3>3 DEF ChainInv, ResponseOfThisSelection, Fields
  <2>2. CASE ~IsPending(chain)
    BY <1>3, <2>2, RouterUntouched, Zenon DEF Remaining, GetResponse
  <2> QED BY <2>1, <2>2, Zenon
<1>4. CASE selected # Unknown /\ Process(seq, at, le)
  <2>1. ASSUME NEW len \in ResponseLen,
               chain' = Begin(at, len, le).chain,
               UNCHANGED <<powered, selected, since>>
        PROVE  ChainInv'
    <3>1. CASE len > ResponseBytes
      BY <2>1, <3>1, Dropped DEF Begin, ChainInv
    <3>2. CASE ~(len > ResponseBytes)
      <4> DEFINE c == [of |-> at, len |-> len, delivered |-> 0]
      <4>1. chain' = Deliver(c, le).chain
        BY <2>1, <3>2, Zenon DEF Begin
      <4>2. c = Fields(c) /\ c.of = at
        BY Zenon DEF Fields
      <4>3. chain' = Fields(chain') /\ chain'.of = at
        BY <4>1, <4>2, DeliverKeepsOwner, Zenon
      <4> QED BY <1>4, <2>1, <4>3 DEF ChainInv, ResponseOfThisSelection
    <3> QED BY <3>1, <3>2, Zenon
  <2>2. CASE Refuse(seq)
    BY <1>1, <2>2, Zenon
  <2>3. CASE UNCHANGED <<powered, router>>
    BY <2>3, RouterUntouched, Zenon DEF router
  <2> QED BY <1>4, <2>1, <2>2, <2>3, Zenon DEF Process
<1> QED BY <1>1, <1>2, <1>3, <1>4, Zenon DEF Command, le

(* One frame, of any kind (Card::handle_frame). *)
LEMMA FrameKeeps ==
    ASSUME ChainInv, handled' = handled + 1,
           NEW r, NEW seq, HandleFrame(r, seq, handled + 1)
    PROVE  ChainInv'
<1>1. CASE PowerOn(seq, handled + 1) \/ PowerOff(seq, handled + 1) \/ Abort(seq, handled + 1)
  BY <1>1, Dropped DEF PowerOn, PowerOff, Abort, RouterReset, ChainInv
<1>2. CASE AnswerOnly(seq) \/ Refuse(seq)
  BY <1>2, RouterUntouched, Zenon DEF AnswerOnly, Refuse, router
<1>3. CASE powered /\ Command(r, seq, handled + 1)
  BY <1>3, CommandKeeps, Zenon
<1> QED BY <1>1, <1>2, <1>3, Zenon DEF HandleFrame

(* Every step of host, task and applets keeps the invariant. *)
LEMMA StepKeeps == ChainInv /\ [Next]_vars => ChainInv'
<1> SUFFICES ASSUME ChainInv, [Next]_vars PROVE ChainInv'
  BY Zenon
<1>1. CASE ReadPacket
  <2>1. CASE CardReset /\ since' = handled /\ handled' = handled
    BY <2>1, Dropped DEF CardReset, ChainInv
  <2>2. CASE UNCHANGED <<powered, router, handled>>
    BY <2>2, RouterUntouched, Zenon DEF router
  <2> QED BY <1>1, <2>1, <2>2, Zenon DEF ReadPacket
<1>2. CASE PollOversized
  BY <1>2, Dropped DEF PollOversized, CardReset, ChainInv
<1>3. CASE PollMessage
  BY <1>3, FrameKeeps, Zenon DEF PollMessage
<1>4. CASE PollNothing \/ Written \/ WriteFails \/ Cancel \/ Take
  BY <1>4, RouterUntouched, Zenon DEF PollNothing, Written, WriteFails, Cancel, Take, router
<1>5. CASE \E r \in Request : Send(r)
  BY <1>5, RouterUntouched, Zenon DEF Send, router
<1>6. CASE Touch
  BY <1>6, RouterUntouched, Zenon DEF Touch, TouchDone, router
<1>7. CASE UNCHANGED vars
  BY <1>7, RouterUntouched, Zenon DEF vars
<1> QED BY <1>1, <1>2, <1>3, <1>4, <1>5, <1>6, <1>7, Zenon DEF Next, Task

(***************************************************************************)
(* A response that is still to be fetched was made by a command of this    *)
(* selection and this power session: SELECT, power events, abort and every *)
(* reset of the card drop it (router.rs, card.rs).                         *)
(***************************************************************************)
THEOREM PendingIsOfThisSelection == Spec => []ResponseOfThisSelection
<1>1. Init => ChainInv
  BY NothingPending DEF Init, ChainInv, ResponseOfThisSelection
<1>2. ChainInv => ResponseOfThisSelection
  BY Zenon DEF ChainInv
<1> QED BY <1>1, <1>2, StepKeeps, PTL DEF Spec

-----------------------------------------------------------------------------
(***************************************************************************)
(* What a host sees of an undisturbed card.                                *)
(***************************************************************************)
OutPacket(s) == {p \in [id : 1 .. Len(s), i : Nat] : p.i <= s[p.id].packets}
AnswerType == [of : Nat, from : Nat, to : Nat, sw : {"ok", "more", "failed"}]
InPacket == [seq : Nat, answer : AnswerType, len : Nat]
ChainType == [of : Nat, len : 0 .. ResponseBytes, delivered : Nat]

(* The types, which hold also when the two ends do not agree on frames: of *)
(* the messages and of the router.                                         *)
FlowTypes ==
    /\ sent \in Seq(Request) /\ Len(sent) <= MaxMessages
    /\ bulk \in Seq(OutPacket(sent))
    /\ buffer \in Seq(OutPacket(sent)) /\ Len(buffer) <= Capacity
    /\ handled \in Nat /\ faults \in Nat

RouterTypes ==
    /\ pc \in {"read", "poll", "write", "touch"}
    /\ powered \in BOOLEAN
    /\ selected \in Applet \cup {Unknown}
    /\ chain \in ChainType /\ chain.delivered <= chain.len
    /\ parked \in 0 .. MaxMessages
    /\ armed \in [Applet -> Nat]
    /\ (pc = "touch") = (parked # None)
    /\ pc = "touch" => selected \in Applet

(* Packet j of q is followed by the rest of its message, and the last one  *)
(* of a message by the next message.                                       *)
InPlace(q, s, j) ==
    /\ q[j].id \in 1 .. Len(s) /\ q[j].i \in 1 .. s[q[j].id].packets
    /\ \A m \in 0 .. (s[q[j].id].packets - q[j].i) :
          j + m <= Len(q) /\ q[j + m] = [id |-> q[j].id, i |-> q[j].i + m]
    /\ q[j].i = s[q[j].id].packets =>
          IF j = Len(q) THEN q[j].id = Len(s) ELSE q[j + 1] = [id |-> q[j].id + 1, i |-> 1]

(* The packets q that are not handled are the messages after the first h   *)
(* of s, whole and in order.                                               *)
Flow(q, s, h) ==
    /\ h \in 0 .. Len(s)
    /\ q = <<>> => h = Len(s)
    /\ q # <<>> => q[1] = [id |-> h + 1, i |-> 1]
    /\ \A j \in 1 .. Len(q) : InPlace(q, s, j)

(* An answer a to command h: new bytes are of that command, others go on   *)
(* where the host has joined them, as j says.                              *)
Continues(a, h, j) ==
    /\ a \in AnswerType /\ a.from <= a.to
    /\ a.of # 0 => a.of \in 1 .. h /\ j[a.of] = a.from /\ (a.from = 0 => a.of = h)

(* What is pending of a response goes on where the host will be once it    *)
(* has the answer a.                                                       *)
Resumes(c, h, j, a) ==
    IsPending(c) => /\ c.of \in 1 .. h
                    /\ c.delivered > 0
                    /\ c.delivered = IF c.of = a.of THEN a.to ELSE j[c.of]

(* The packets w on the wire, after those t the host has, are the answer a *)
(* to command h, whole.                                                    *)
Streams(w, t, h, a) ==
    /\ w \in Seq(InPacket) /\ t \in Seq(InPacket)
    /\ \A k \in 1 .. Len(w) : w[k].seq = h /\ w[k].answer = a
    /\ \A k \in 1 .. Len(t) : t[k].seq = h
    /\ \A k \in 1 .. Len(w) : (w[k].len = PacketUnits) = (k < Len(w))
    /\ Units(a) = (Len(t) + Len(w) - 1) * PacketUnits + w[Len(w)].len

(* The state between two answers, while a touch is awaited and while an    *)
(* answer is on the wire.                                                  *)
Between ==
    /\ wire = <<>> /\ transfer = <<>> /\ answers = handled
    /\ Resumes(chain, handled, joined, Status("none"))

Touching ==
    /\ wire = <<>> /\ transfer = <<>> /\ answers + 1 = handled
    /\ parked = handled /\ armed[selected] = handled /\ joined[handled] = 0
    /\ Resumes(chain, handled - 1, joined, Status("none"))

Sending ==
    /\ wire # <<>> /\ pc = "write" /\ answers + 1 = handled
    /\ Streams(wire, transfer, handled, wire[1].answer)
    /\ Continues(wire[1].answer, handled, joined)
    /\ Resumes(chain, handled, joined, wire[1].answer)

(* Held while the two ends agree on frames: of the messages and of their   *)
(* answers.                                                                *)
FlowInv ==
    /\ Flow(buffer \o bulk, sent, handled)
    /\ pc = "read" /\ buffer # <<>> => Len(buffer) < sent[buffer[1].id].packets

AnswerInv ==
    /\ answers \in Nat
    /\ joined \in [1 .. MaxMessages -> Nat]
    /\ \A m \in 1 .. MaxMessages : m > handled => joined[m] = 0
    /\ (pc # "touch" /\ Between) \/ (pc = "touch" /\ Touching) \/ Sending
    /\ AnswersInOrder /\ ChunksJoin

CardIInv == FlowTypes /\ RouterTypes /\ (InSync => FlowInv /\ AnswerInv)

-----------------------------------------------------------------------------
(* The places of a sequence after its first d. *)
LEMMA Dropping ==
    ASSUME NEW S, NEW x \in Seq(S), NEW d \in 0 .. Len(x)
    PROVE  LET y == SubSeq(x, d + 1, Len(x))
           IN  /\ y \in Seq(S) /\ Len(y) = Len(x) - d
               /\ \A i \in 1 .. Len(y) : y[i] = x[d + i]
<1> DEFINE y == SubSeq(x, d + 1, Len(x))
           n == Len(x)
<1>1. n \in Nat /\ d \in Int /\ n = Len(x) /\ 0 <= d /\ d <= n
  OBVIOUS
<1>2. \A i \in d + 1 .. n : x[i] \in S
  OBVIOUS
<1>3. /\ y \in Seq(S)
      /\ Len(y) = IF d + 1 <= n THEN n - (d + 1) + 1 ELSE 0
      /\ \A i \in 1 .. n - (d + 1) + 1 : y[i] = x[(d + 1) + i - 1]
  <2> HIDE DEF n
  <2> QED BY <1>1, <1>2, SubSeqProperties, SMTT(30)
<1> HIDE DEF y, n
<1>4. Len(y) = n - d
  BY <1>1, <1>3
<1>5. ASSUME NEW i \in 1 .. Len(y)
      PROVE  y[i] = x[d + i]
  <2>1. i \in 1 .. n - (d + 1) + 1 /\ (d + 1) + i - 1 = d + i
    BY <1>1, <1>4
  <2> QED BY <1>3, <2>1, Zenon
<1> QED BY <1>1, <1>3, <1>4, <1>5, Zenon DEF y

(* A packet that moves from the endpoint into the assembler stays where it *)
(* is in the flow.                                                         *)
LEMMA MovedOn ==
    ASSUME NEW S, NEW a \in Seq(S), NEW b \in Seq(S), b # <<>>
    PROVE  Append(a, b[1]) \o Tail(b) = a \o b
<1>1. b[1] \in S /\ Tail(b) \in Seq(S) /\ b = <<b[1]>> \o Tail(b)
  OBVIOUS
<1>2. Append(a, b[1]) = a \o <<b[1]>> /\ <<b[1]>> \in Seq(S)
  BY <1>1
<1>3. (a \o <<b[1]>>) \o Tail(b) = a \o (<<b[1]>> \o Tail(b))
  BY <1>1, <1>2, ConcatAssociative
<1> QED BY <1>1, <1>2, <1>3, Zenon

(* What is consumed of the assembler is the beginning of the flow. *)
LEMMA ConsumedFirst ==
    ASSUME NEW S, NEW a \in Seq(S), NEW b \in Seq(S), NEW d \in 0 .. Len(a)
    PROVE  SubSeq(a, d + 1, Len(a)) \o b = SubSeq(a \o b, d + 1, Len(a \o b))
<1> DEFINE x == a \o b
           y == SubSeq(a, d + 1, Len(a))
           u == y \o b
           v == SubSeq(x, d + 1, Len(x))
<1>1. HasParts(S, x, a, b)
  BY Parts, Zenon
<1>2. y \in Seq(S) /\ Len(y) = Len(a) - d /\ \A i \in 1 .. Len(y) : y[i] = a[d + i]
  BY Dropping, Zenon
<1> HIDE DEF y
<1>3. HasParts(S, u, y, b)
  BY <1>2, Parts, Zenon
<1> HIDE DEF x, u
<1>4. d \in 0 .. Len(x) /\ x \in Seq(S) /\ Len(x) = Len(a) + Len(b)
  BY <1>1 DEF HasParts
<1>5. v \in Seq(S) /\ Len(v) = Len(x) - d /\ \A i \in 1 .. Len(v) : v[i] = x[d + i]
  BY <1>4, Dropping, Zenon
<1> HIDE DEF v
<1>6. u \in Seq(S) /\ Len(u) = Len(v) /\ Len(a) \in Nat /\ Len(b) \in Nat
  <2>1. /\ u \in Seq(S) /\ Len(u) = Len(y) + Len(b)
        /\ Len(y) = Len(a) - d /\ Len(v) = Len(x) - d /\ Len(x) = Len(a) + Len(b)
    BY <1>2, <1>3, <1>4, <1>5, Zenon DEF HasParts
  <2>2. Len(a) \in Nat /\ Len(b) \in Nat
    BY LenProperties, Zenon
  <2> QED BY <2>1, <2>2
<1>7. Len(y) = Len(a) - d /\ Len(u) = Len(y) + Len(b) /\ Len(y) \in Nat /\ d \in Nat
  BY <1>2, <1>3 DEF HasParts
<1>8. ASSUME NEW i \in 1 .. Len(u)
      PROVE  u[i] = v[i]
  <2>1. v[i] = x[d + i] /\ i \in Int
    BY <1>5, <1>6
  <2>2. CASE i <= Len(y)
    <3>1. i \in 1 .. Len(y) /\ d + i \in 1 .. Len(a)
      BY <1>2, <1>6, <2>2
    <3> QED BY <1>1, <1>2, <1>3, <2>1, <3>1, Zenon DEF HasParts
  <2>3. CASE ~(i <= Len(y))
    <3> DEFINE k == i - Len(y)
    <3>1. k \in 1 .. Len(b) /\ Len(y) + k = i /\ Len(a) + k = d + i
      BY <1>6, <1>7, <2>3
    <3> HIDE DEF k
    <3> QED BY <1>1, <1>3, <2>1, <3>1, Zenon DEF HasParts
  <2> QED BY <2>2, <2>3, Zenon
<1>9. u = v
  BY <1>5, <1>6, <1>8, SeqEqual, Zenon
<1> QED BY <1>9, Zenon DEF u, v, x, y

(***************************************************************************)
(* The flow of packets.                                                    *)
(***************************************************************************)
(* The first message of the flow is whole, and in front. *)
LEMMA FirstIsWhole ==
    ASSUME NEW S, NEW q \in Seq(S), NEW s, NEW h, Len(s) \in Nat,
           \A k \in 1 .. Len(s) : s[k].packets \in Nat,
           Flow(q, s, h), q # <<>>
    PROVE  LET d == s[h + 1].packets
           IN  /\ h + 1 \in 1 .. Len(s)
               /\ d \in 1 .. Len(q)
               /\ \A k \in 1 .. d : q[k] = [id |-> h + 1, i |-> k]
               /\ IF d = Len(q) THEN h + 1 = Len(s) ELSE q[d + 1] = [id |-> h + 2, i |-> 1]
<1> DEFINE d == s[h + 1].packets
           n == Len(q)
<1>1. n \in Nat /\ n > 0 /\ h \in Nat
  BY DEF Flow
<1>2. 1 \in 1 .. n /\ InPlace(q, s, 1) /\ q[1] = [id |-> h + 1, i |-> 1]
  BY <1>1 DEF Flow
<1>3. q[1].id = h + 1 /\ q[1].i = 1
  BY <1>2
<1>4. h + 1 \in 1 .. Len(s) /\ d \in Nat /\ d >= 1
  BY <1>2, <1>3 DEF InPlace
<1>5. \A m \in 0 .. (d - 1) : 1 + m <= n /\ q[1 + m] = [id |-> h + 1, i |-> 1 + m]
  BY <1>2, <1>3, Zenon DEF InPlace
<1> HIDE DEF d, n
<1>6. ASSUME NEW k \in 1 .. d
      PROVE  k <= n /\ q[k] = [id |-> h + 1, i |-> k]
  <2>1. k - 1 \in 0 .. (d - 1) /\ 1 + (k - 1) = k
    BY <1>4
  <2> QED BY <1>5, <2>1, Zenon
<1>7. d \in 1 .. d
  BY <1>4
<1>8. d \in 1 .. n /\ q[d].id = h + 1 /\ q[d].i = d
  <2>1. d <= n /\ q[d] = [id |-> h + 1, i |-> d]
    BY <1>6, <1>7, Zenon
  <2> QED BY <1>1, <1>4, <2>1
<1>9. IF d = n THEN h + 1 = Len(s) ELSE q[d + 1] = [id |-> h + 2, i |-> 1]
  <2>1. InPlace(q, s, d)
    BY <1>8, Zenon DEF Flow, n
  <2>2. IF d = n THEN h + 1 = Len(s) ELSE q[d + 1] = [id |-> (h + 1) + 1, i |-> 1]
    BY <1>8, <2>1, Zenon DEF InPlace, n, d
  <2> QED BY <1>1, <2>2, (h + 1) + 1 = h + 2
<1> QED BY <1>4, <1>6, <1>8, <1>9, Zenon DEF d, n

(* Without its first message the flow is the messages after h + 1. *)
LEMMA FlowDrop ==
    ASSUME NEW S, NEW q \in Seq(S), NEW s, NEW h, Len(s) \in Nat,
           \A k \in 1 .. Len(s) : s[k].packets \in Nat,
           Flow(q, s, h), q # <<>>
    PROVE  Flow(SubSeq(q, s[h + 1].packets + 1, Len(q)), s, h + 1)
<1> DEFINE d == s[h + 1].packets
           n == Len(q)
           y == SubSeq(q, d + 1, n)
<1>1. /\ h + 1 \in 1 .. Len(s)
      /\ d \in 1 .. n
      /\ IF d = n THEN h + 1 = Len(s) ELSE q[d + 1] = [id |-> h + 2, i |-> 1]
  BY FirstIsWhole
<1>2. n \in Nat /\ h \in Nat
  BY DEF Flow
<1>3. y \in Seq(S) /\ Len(y) = n - d /\ \A j \in 1 .. Len(y) : y[j] = q[d + j]
  <2>1. d \in 0 .. Len(q)
    BY <1>1
  <2> HIDE DEF d
  <2> QED BY <2>1, Dropping, Zenon
<1>4. \A j \in 1 .. n : InPlace(q, s, j)
  BY Zenon DEF Flow
<1> HIDE DEF d, n, y
<1>5. d \in Nat /\ d <= n
  BY <1>1, <1>2
<1>6. ASSUME NEW j \in 1 .. Len(y)
      PROVE  InPlace(y, s, j)
  <2>1. d + j \in 1 .. n /\ y[j] = q[d + j] /\ j \in Nat
    BY <1>2, <1>3, <1>5
  <2>2. InPlace(q, s, d + j)
    BY <1>4, <2>1, Zenon
  <2> DEFINE p == s[y[j].id].packets
  <2>3. y[j].id \in 1 .. Len(s) /\ y[j].i \in 1 .. p /\ p \in Nat
    BY <2>1, <2>2, Zenon DEF InPlace
  <2>4. ASSUME NEW m \in 0 .. (p - y[j].i)
        PROVE  j + m <= Len(y) /\ y[j + m] = [id |-> y[j].id, i |-> y[j].i + m]
    <3>1. (d + j) + m <= n /\ q[(d + j) + m] = [id |-> y[j].id, i |-> y[j].i + m]
      BY <2>1, <2>2, Zenon DEF InPlace, n
    <3>2. m \in Nat /\ (d + j) + m = d + (j + m)
      BY <1>5, <2>1, <2>3
    <3>3. j + m \in 1 .. Len(y)
      BY <1>2, <1>3, <1>5, <2>1, <3>1, <3>2
    <3> QED BY <1>3, <3>1, <3>2, <3>3
  <2>5. ASSUME y[j].i = p
        PROVE  IF j = Len(y) THEN y[j].id = Len(s) ELSE y[j + 1] = [id |-> y[j].id + 1, i |-> 1]
    <3>1. IF d + j = n THEN y[j].id = Len(s) ELSE q[(d + j) + 1] = [id |-> y[j].id + 1, i |-> 1]
      BY <2>1, <2>2, <2>5, Zenon DEF InPlace, n
    <3>2. (d + j = n) <=> (j = Len(y))
      BY <1>2, <1>3, <1>5, <2>1
    <3>3. ASSUME j # Len(y)
          PROVE  j + 1 \in 1 .. Len(y) /\ (d + j) + 1 = d + (j + 1)
      BY <1>2, <1>3, <1>5, <2>1, <3>3, SMTT(30)
    <3> QED BY <1>3, <3>1, <3>2, <3>3, Zenon
  <2> QED BY <2>3, <2>4, <2>5, Zenon DEF InPlace
<1>7. y = <<>> => h + 1 = Len(s)
  BY <1>1, <1>2, <1>3, <1>5
<1>8. y # <<>> => y[1] = [id |-> (h + 1) + 1, i |-> 1]
  <2> SUFFICES ASSUME y # <<>>
               PROVE  y[1] = [id |-> (h + 1) + 1, i |-> 1]
    BY Zenon
  <2>1. Len(y) \in Nat /\ Len(y) # 0
    BY <1>3
  <2>2. 1 \in 1 .. Len(y) /\ d # n
    BY <1>2, <1>3, <1>5, <2>1
  <2>3. y[1] = q[d + 1]
    BY <1>3, <2>2, Zenon
  <2> QED BY <1>1, <1>2, <2>2, <2>3, (h + 1) + 1 = h + 2
<1>9. Flow(y, s, h + 1)
  BY <1>1, <1>2, <1>6, <1>7, <1>8 DEF Flow
<1> QED BY <1>9, Zenon DEF d, n, y

(* A message behind the flow goes on with it. *)
LEMMA FlowSend ==
    ASSUME NEW S, NEW q \in Seq(S), NEW R, NEW s \in Seq(R), NEW h, NEW r \in R,
           \A e \in R : e.packets \in Nat \ {0},
           Flow(q, s, h)
    PROVE  LET b == [i \in 1 .. r.packets |-> [id |-> Len(s) + 1, i |-> i]]
           IN  Flow(q \o b, Append(s, r), h)
<1> DEFINE d == r.packets
           l == Len(s)
           n == Len(q)
           b == [i \in 1 .. d |-> [id |-> l + 1, i |-> i]]
           y == q \o b
           z == Append(s, r)
           T == S \cup [id : Nat, i : Nat]
<1>1. d \in Nat /\ d > 0 /\ l \in Nat /\ n \in Nat /\ h \in 0 .. l
  BY DEF Flow
<1>2. z \in Seq(R) /\ Len(z) = l + 1 /\ z[l + 1] = r /\ \A k \in 1 .. l : z[k] = s[k]
  OBVIOUS
<1>3. \A k \in 1 .. l : s[k].packets \in Nat
  OBVIOUS
<1> HIDE DEF d, l
<1>4. b \in Seq(T) /\ Len(b) = d /\ \A i \in 1 .. d : b[i] = [id |-> l + 1, i |-> i]
  <2>1. \A i \in 1 .. d : [id |-> l + 1, i |-> i] \in T
    BY <1>1
  <2>2. b \in [1 .. d -> T]
    BY <2>1, Zenon
  <2> QED BY <1>1, <2>2
<1>5. q \in Seq(T)
  BY SeqMonotonic, Zenon
<1> HIDE DEF b
<1>6. HasParts(T, y, q, b)
  BY <1>4, <1>5, Parts, Zenon
<1> HIDE DEF n, y, z, T
<1>7. Len(y) = n + d /\ \A j \in 1 .. n : y[j] = q[j]
  BY <1>4, <1>6, Zenon DEF HasParts, n
<1>8. \A k \in 1 .. d : y[n + k] = [id |-> l + 1, i |-> k]
  BY <1>4, <1>6, SMTT(30) DEF HasParts, n
<1>9. ASSUME NEW j \in 1 .. n
      PROVE  InPlace(y, z, j)
  <2>1. InPlace(q, s, j) /\ y[j] = q[j]
    BY <1>7, Zenon DEF Flow, n
  <2> DEFINE p == s[q[j].id].packets
  <2>2. q[j].id \in 1 .. l /\ q[j].i \in 1 .. p /\ p \in Nat
    BY <1>3, <2>1, Zenon DEF InPlace, l
  <2>3. z[q[j].id].packets = p /\ q[j].id \in 1 .. l + 1
    <3>1. \A k \in 1 .. l : k \in 1 .. l + 1
      BY <1>1
    <3> QED BY <1>2, <2>2, <3>1, Zenon
  <2>4. ASSUME NEW m \in 0 .. (p - q[j].i)
        PROVE  j + m <= Len(y) /\ y[j + m] = [id |-> q[j].id, i |-> q[j].i + m]
    <3>1. j + m <= n /\ q[j + m] = [id |-> q[j].id, i |-> q[j].i + m]
      BY <2>1, Zenon DEF InPlace, n
    <3>2. m \in Nat /\ j + m \in 1 .. n
      <4>1. \A k \in Nat : \A i \in 1 .. k : \A x \in 0 .. (k - i) : x \in Nat
        OBVIOUS
      <4>2. m \in Nat
        BY <2>2, <4>1, Zenon
      <4> HIDE DEF p
      <4> QED BY <1>1, <3>1, <4>2
    <3>3. j + m <= Len(y)
      <4> HIDE DEF p
      <4> QED BY <1>1, <1>7, <3>2
    <3>4. y[j + m] = q[j + m]
      BY <1>7, <3>2, Zenon
    <3> QED BY <3>1, <3>3, <3>4, Zenon
  <2>5. ASSUME q[j].i = p
        PROVE  j # Len(y) /\ y[j + 1] = [id |-> q[j].id + 1, i |-> 1]
    <3>1. j # Len(y)
      BY <1>1, <1>7
    <3>2. CASE j = n
      <4>1. q[j].id = l
        BY <2>1, <2>5, <3>2, Zenon DEF InPlace, n, l
      <4> QED BY <1>1, <1>8, <3>1, <3>2, <4>1, 1 \in 1 .. d
    <3>3. CASE j # n
      <4>1. q[j + 1] = [id |-> q[j].id + 1, i |-> 1]
        BY <2>1, <2>5, <3>3, Zenon DEF InPlace, n
      <4>2. j + 1 \in 1 .. n
        BY <1>1, <3>3
      <4> QED BY <1>7, <3>1, <4>1, <4>2, Zenon
    <3> QED BY <3>2, <3>3, Zenon
  <2> QED BY <1>2, <2>1, <2>2, <2>3, <2>4, <2>5, Zenon DEF InPlace
<1>10. ASSUME NEW k \in 1 .. d
       PROVE  InPlace(y, z, n + k)
  <2>1. y[n + k].id = l + 1 /\ y[n + k].i = k /\ z[l + 1].packets = d /\ k \in Nat
    <3>1. y[n + k] = [id |-> l + 1, i |-> k]
      BY <1>8, Zenon
    <3>2. z[l + 1].packets = d
      BY <1>2, Zenon DEF d
    <3>3. k \in Nat
      BY <1>1
    <3> QED BY <3>1, <3>2, <3>3
  <2>2. ASSUME NEW m \in 0 .. (d - k)
        PROVE  (n + k) + m <= Len(y) /\ y[(n + k) + m] = [id |-> l + 1, i |-> k + m]
    <3>1. k + m \in 1 .. d /\ (n + k) + m = n + (k + m) /\ n + (k + m) <= n + d
      BY <1>1, <2>1, SMTT(30)
    <3> QED BY <1>7, <1>8, <3>1, Zenon
  <2>3. k = d => n + k = Len(y)
    BY <1>7, Zenon
  <2>4. l + 1 \in 1 .. Len(z) /\ l + 1 = Len(z)
    BY <1>1, <1>2
  <2> HIDE DEF d, l, n
  <2>5. y[n + k].id \in 1 .. Len(z) /\ y[n + k].i \in 1 .. z[y[n + k].id].packets
    BY <2>1, <2>4, Zenon
  <2>6. \A m \in 0 .. (z[y[n + k].id].packets - y[n + k].i) :
          (n + k) + m <= Len(y) /\ y[(n + k) + m] = [id |-> y[n + k].id, i |-> y[n + k].i + m]
    BY <2>1, <2>2, Zenon
  <2>7. y[n + k].i = z[y[n + k].id].packets => n + k = Len(y) /\ y[n + k].id = Len(z)
    BY <2>1, <2>3, <2>4, Zenon
  <2> QED BY <2>5, <2>6, <2>7, Zenon DEF InPlace
<1>11. ASSUME NEW j \in 1 .. Len(y)
       PROVE  InPlace(y, z, j)
  <2>1. CASE j <= n
    BY <1>1, <1>9, <2>1
  <2>2. CASE ~(j <= n)
    <3>1. j - n \in 1 .. d /\ n + (j - n) = j
      BY <1>1, <1>7, <2>2
    <3> QED BY <1>10, <3>1, Zenon
  <2> QED BY <2>1, <2>2, Zenon
<1>12. y # <<>>
  <2>1. Len(y) # 0
    BY <1>1, <1>7
  <2> QED BY <2>1
<1>13. y[1] = [id |-> h + 1, i |-> 1]
  <2>1. CASE q = <<>>
    <3>1. h = l /\ n = 0
      BY <2>1, Zenon DEF Flow, l, n
    <3>2. 1 \in 1 .. d /\ 0 + 1 = 1
      BY <1>1
    <3> QED BY <1>8, <3>1, <3>2, Zenon
  <2>2. CASE q # <<>>
    <3>1. 1 \in 1 .. n
      BY <1>1, <2>2 DEF n
    <3> QED BY <1>7, <2>2, <3>1, Zenon DEF Flow
  <2> QED BY <2>1, <2>2, Zenon
<1>14. h \in 0 .. Len(z)
  BY <1>1, <1>2
<1>15. Flow(y, z, h)
  BY <1>11, <1>12, <1>13, <1>14, Zenon DEF Flow
<1> QED BY <1>15, Zenon DEF b, d, l, y, z

(* A sequence without places is empty. *)
LEMMA NoPlaces ==
    ASSUME NEW S, NEW x \in Seq(S), Len(x) = 0
    PROVE  x = <<>>
OBVIOUS

(***************************************************************************)
(* The answer on the wire.                                                 *)
(***************************************************************************)
(* CcidClass::write cuts an answer into full packets and a shorter one, an *)
(* empty one where nothing is left (needs_zlp).                            *)
LEMMA CutIntoPackets ==
    ASSUME NEW h \in Nat, NEW a \in AnswerType, a.from <= a.to
    PROVE  LET w == PacketsOf(h, a)
           IN  w # <<>> /\ w[1].answer = a /\ Streams(w, <<>>, h, a)
<1> DEFINE len  == Units(a)
           q    == len \div PacketUnits
           r    == len % PacketUnits
           e(n) == [seq |-> h, answer |-> a, len |-> n]
           full == [k \in 1 .. q |-> e(PacketUnits)]
           last == <<e(r)>>
           w    == full \o last
<1>1. PacketUnits \in Nat /\ PacketUnits > 0
  BY CardAssumption
<1>2. len \in Nat
  BY DEF Units, AnswerType
<1>3. q \in Nat /\ r \in Nat /\ r < PacketUnits
  <2> HIDE DEF len
  <2> QED BY <1>1, <1>2
<1>4. len = q * PacketUnits + r
  <2> HIDE DEF len
  <2> QED BY <1>1, <1>2, <1>3, Division
<1>5. PacketsOf(h, a) = w
  <2>1. CASE r > 0
    BY <2>1, Zenon DEF PacketsOf
  <2>2. CASE ~(r > 0)
    <3>1. r = 0
      BY <1>3, <2>2
    <3>2. NeedsZlp(len)
      BY <3>1, Zenon DEF NeedsZlp
    <3> QED BY <2>2, <3>1, <3>2, Zenon DEF PacketsOf
  <2> QED BY <2>1, <2>2, Zenon
<1> HIDE DEF q, r, len
<1>6. \A n \in Nat : e(n) \in InPacket /\ e(n).seq = h /\ e(n).answer = a /\ e(n).len = n
  BY Zenon DEF InPacket
<1> HIDE DEF e
<1>7. /\ full \in Seq(InPacket) /\ Len(full) = q
      /\ \A k \in 1 .. q : full[k] = e(PacketUnits)
  <2>1. full \in [1 .. q -> InPacket]
    BY <1>1, <1>6, Zenon
  <2> QED BY <1>3, <2>1
<1>8. last \in Seq(InPacket) /\ Len(last) = 1 /\ last[1] = e(r)
  BY <1>3, <1>6
<1> HIDE DEF full, last
<1>9. HasParts(InPacket, w, full, last)
  BY <1>7, <1>8, Parts, Zenon
<1> HIDE DEF w
<1>10. w \in Seq(InPacket) /\ Len(w) = q + 1
  BY <1>7, <1>8, <1>9, Zenon DEF HasParts
<1>11. \A k \in 1 .. q : w[k] = e(PacketUnits)
  BY <1>7, <1>9, Zenon DEF HasParts
<1>12. w[q + 1] = e(r)
  BY <1>7, <1>8, <1>9, 1 \in 1 .. 1 DEF HasParts
<1>13. ASSUME NEW k \in 1 .. Len(w)
       PROVE  w[k].seq = h /\ w[k].answer = a /\ (w[k].len = PacketUnits) = (k < Len(w))
  <2>1. CASE k <= q
    <3>1. w[k] = e(PacketUnits) /\ k < Len(w)
      BY <1>3, <1>10, <1>11, <2>1
    <3> QED BY <1>1, <1>6, <3>1, Zenon
  <2>2. CASE ~(k <= q)
    <3>1. k = q + 1 /\ ~(k < Len(w)) /\ r # PacketUnits
      BY <1>1, <1>3, <1>10, <2>2
    <3> QED BY <1>3, <1>6, <1>12, <3>1
  <2> QED BY <2>1, <2>2, Zenon
<1>14. 1 \in 1 .. Len(w) /\ Len(w) # 0
  BY <1>3, <1>10
<1>15. Units(a) = (Len(<<>>) + Len(w) - 1) * PacketUnits + w[Len(w)].len
  <2>1. w[Len(w)].len = r
    BY <1>3, <1>6, <1>10, <1>12, Zenon
  <2>2. Len(<<>>) + Len(w) - 1 = q
    BY <1>3, <1>10
  <2> QED BY <1>4, <2>1, <2>2, Zenon DEF len
<1>16. <<>> \in Seq(InPacket) /\ \A k \in 1 .. Len(<<>>) : <<>>[k].seq = h
  OBVIOUS
<1>17. Streams(w, <<>>, h, a)
  BY <1>10, <1>13, <1>15, <1>16, Zenon DEF Streams
<1>18. w # <<>>
  BY <1>14
<1>19. w[1].answer = a
  BY <1>13, <1>14, Zenon
<1> QED BY <1>5, <1>17, <1>18, <1>19, Zenon

(* A full packet is not the last one: the transfer goes on. *)
LEMMA TakeFull ==
    ASSUME NEW w, NEW t, NEW h, NEW a, Streams(w, t, h, a), w # <<>>,
           w[1].len = PacketUnits
    PROVE  /\ Tail(w) # <<>> /\ Tail(w)[1].answer = a
           /\ Streams(Tail(w), Append(t, w[1]), h, a)
<1> DEFINE y == Tail(w)
           u == Append(t, w[1])
           n == Len(w)
<1>1. w \in Seq(InPacket) /\ t \in Seq(InPacket)
  BY Zenon DEF Streams
<1>2. n \in Nat /\ n > 0 /\ w[1] \in InPacket /\ Len(t) \in Nat
  BY <1>1
<1>3. 1 < n
  BY <1>2 DEF Streams
<1>4. y \in Seq(InPacket) /\ Len(y) = n - 1 /\ \A k \in 1 .. Len(y) : y[k] = w[k + 1]
  BY <1>1, HeadTailProperties, Zenon
<1>5. /\ u \in Seq(InPacket) /\ Len(u) = Len(t) + 1
      /\ \A k \in 1 .. Len(t) : u[k] = t[k]
      /\ u[Len(t) + 1] = w[1]
  BY <1>1, <1>2, AppendProperties
<1> HIDE DEF y, u
<1>6. ASSUME NEW k \in 1 .. Len(y)
      PROVE  y[k].seq = h /\ y[k].answer = a /\ (y[k].len = PacketUnits) = (k < Len(y))
  <2>1. k + 1 \in 1 .. n /\ (k + 1 < n) = (k < Len(y)) /\ y[k] = w[k + 1]
    BY <1>2, <1>4
  <2>2. /\ w[k + 1].seq = h /\ w[k + 1].answer = a
        /\ (w[k + 1].len = PacketUnits) = (k + 1 < n)
    BY <2>1, Zenon DEF Streams, n
  <2> QED BY <2>1, <2>2, Zenon
<1>7. ASSUME NEW k \in 1 .. Len(u)
      PROVE  u[k].seq = h
  <2>1. CASE k <= Len(t)
    <3>1. k \in 1 .. Len(t)
      BY <1>2, <2>1
    <3> QED BY <1>5, <3>1, Zenon DEF Streams
  <2>2. CASE ~(k <= Len(t))
    <3>1. k = Len(t) + 1
      BY <1>2, <1>5, <2>2
    <3>2. 1 \in 1 .. n
      BY <1>2
    <3> QED BY <1>5, <3>1, <3>2 DEF Streams, n
  <2> QED BY <2>1, <2>2, Zenon
<1>8. 1 \in 1 .. Len(y) /\ Len(y) # 0 /\ Len(y) \in 1 .. Len(y) /\ Len(y) + 1 = n
  BY <1>2, <1>3, <1>4
<1>9. Len(u) + Len(y) - 1 = Len(t) + n - 1
  BY <1>2, <1>5, <1>8
<1>10. y[Len(y)] = w[n]
  BY <1>4, <1>8, Zenon
<1>11. Units(a) = (Len(u) + Len(y) - 1) * PacketUnits + y[Len(y)].len
  BY <1>9, <1>10, Zenon DEF Streams, n
<1>12. Streams(y, u, h, a)
  BY <1>4, <1>5, <1>6, <1>7, <1>11, Zenon DEF Streams
<1>13. y # <<>>
  BY <1>8
<1>14. y[1].answer = a
  BY <1>6, <1>8, Zenon
<1> QED BY <1>12, <1>13, <1>14, Zenon DEF y, u

(* A shorter packet is the last one, and with it the host has the answer,  *)
(* whole and nothing else.                                                 *)
LEMMA TakeLast ==
    ASSUME NEW w, NEW t, NEW h, NEW a, Streams(w, t, h, a), w # <<>>,
           w[1].len # PacketUnits
    PROVE  LET u == Append(t, w[1])
           IN  /\ Tail(w) = <<>>
               /\ w[1].answer = a
               /\ {u[k].seq : k \in DOMAIN u} = {h}
               /\ (Len(u) - 1) * PacketUnits + w[1].len = Units(a)
<1> DEFINE u == Append(t, w[1])
           n == Len(w)
<1>1. w \in Seq(InPacket) /\ t \in Seq(InPacket)
  BY Zenon DEF Streams
<1>2. n \in Nat /\ n > 0 /\ w[1] \in InPacket /\ Len(t) \in Nat /\ 1 \in 1 .. n
  BY <1>1
<1>3. w[1].seq = h /\ w[1].answer = a
  BY <1>2, Zenon DEF Streams, n
<1>4. n = 1
  <2>1. ~(1 < n)
    BY <1>2, Zenon DEF Streams, n
  <2>2. n \in Nat /\ n > 0
    BY <1>2, Zenon
  <2> HIDE DEF n
  <2> QED BY <2>1, <2>2
<1>5. Tail(w) \in Seq(InPacket) /\ Len(Tail(w)) = 0
  BY <1>1, <1>4, HeadTailProperties
<1>6. Tail(w) = <<>>
  BY <1>5, NoPlaces, Zenon
<1>7. /\ u \in Seq(InPacket) /\ Len(u) = Len(t) + 1
      /\ \A k \in 1 .. Len(t) : u[k] = t[k]
      /\ u[Len(t) + 1] = w[1]
  BY <1>1, <1>2, AppendProperties
<1> HIDE DEF u
<1>8. DOMAIN u = 1 .. Len(t) + 1
  BY <1>7
<1>9. ASSUME NEW k \in DOMAIN u
      PROVE  u[k].seq = h
  <2>1. CASE k <= Len(t)
    <3>1. k \in 1 .. Len(t)
      BY <1>2, <1>8, <2>1
    <3> QED BY <1>7, <3>1, Zenon DEF Streams
  <2>2. CASE ~(k <= Len(t))
    <3>1. k = Len(t) + 1
      BY <1>2, <1>8, <2>2
    <3> QED BY <1>3, <1>7, <3>1, Zenon
  <2> QED BY <2>1, <2>2, Zenon
<1>10. Len(t) + 1 \in DOMAIN u
  BY <1>2, <1>8
<1>11. {u[k].seq : k \in DOMAIN u} = {h}
  BY <1>9, <1>10, Zenon
<1>12. Len(u) - 1 = Len(t) + n - 1
  BY <1>2, <1>4, <1>7
<1>13. (Len(u) - 1) * PacketUnits + w[1].len = Units(a)
  BY <1>4, <1>12, Zenon DEF Streams, n
<1> QED BY <1>3, <1>6, <1>11, <1>13, Zenon DEF u

(***************************************************************************)
(* What one command does to the response that is held, c before and c2     *)
(* after it, with the answer a to command h: nothing of it is sent, or the *)
(* beginning of a new one, or the next part of the old one.                *)
(***************************************************************************)
Outcome(c, c2, a, h) ==
    /\ c2 \in ChainType /\ c2.delivered <= c2.len
    /\ a \in AnswerType /\ a.from <= a.to
    /\ \/ a.of = 0 /\ (c2 = c \/ c2 = NoChain)
       \/ /\ a.of = h /\ a.from = 0
          /\ c2.of = h /\ c2.delivered = a.to /\ (IsPending(c2) => a.to > 0)
       \/ /\ IsPending(c) /\ a.of = c.of /\ a.from = c.delivered
          /\ c2.of = c.of /\ c2.delivered = a.to

(* A delivery goes on where the last one ended, with a byte at least where *)
(* more remains.                                                           *)
GoesOn(c, c2, a) ==
    /\ c2 \in ChainType /\ c2.delivered <= c2.len
    /\ a \in AnswerType /\ a.from <= a.to
    /\ a.of = c.of /\ a.from = c.delivered
    /\ c2.of = c.of /\ c2.delivered = a.to
    /\ IsPending(c2) => a.to > 0

(* Chainer::deliver does. *)
LEMMA Delivery ==
    ASSUME NEW c \in ChainType, c.delivered <= c.len, NEW le \in Nat
    PROVE  GoesOn(c, Deliver(c, le).chain, Deliver(c, le).answer)
<1> DEFINE l == Limit(le)
<1>1. l \in Nat /\ l > 0
  BY ApduAssumption DEF Limit
<1>2. c.of \in Nat /\ c.len \in 0 .. ResponseBytes /\ c.delivered \in Nat /\ c.len \in Nat
  BY ApduAssumption DEF ChainType
<1>3. ASSUME NEW n \in Nat, NEW s \in {"ok", "more"}, c.delivered <= n, n <= c.len,
             n < c.len => n > 0
      PROVE  GoesOn(c, [c EXCEPT !.delivered = n], Chunk(c.of, c.delivered, n, s))
  <2> DEFINE k == [c EXCEPT !.delivered = n]
             a == Chunk(c.of, c.delivered, n, s)
  <2>1. k \in ChainType /\ k.of = c.of /\ k.len = c.len /\ k.delivered = n
    BY Zenon DEF ChainType
  <2>2. a \in AnswerType /\ a.of = c.of /\ a.from = c.delivered /\ a.to = n
    BY <1>2, Zenon DEF Chunk, AnswerType
  <2> HIDE DEF k, a
  <2>3. GoesOn(c, k, a)
    BY <1>2, <1>3, <2>1, <2>2, Zenon DEF GoesOn, IsPending
  <2> QED BY <2>3, Zenon DEF k, a
<1> HIDE DEF l
<1>4. CASE c.len - c.delivered <= l
  <2>1. /\ Deliver(c, le).chain = [c EXCEPT !.delivered = c.len]
        /\ Deliver(c, le).answer = Chunk(c.of, c.delivered, c.len, "ok")
    BY <1>4, Zenon DEF Deliver, l
  <2>2. c.len <= c.len /\ ~(c.len < c.len)
    BY <1>2
  <2> QED BY <1>2, <1>3, <2>1, <2>2, Zenon
<1>5. CASE ~(c.len - c.delivered <= l)
  <2> DEFINE n == c.delivered + l
  <2>1. /\ Deliver(c, le).chain = [c EXCEPT !.delivered = n]
        /\ Deliver(c, le).answer = Chunk(c.of, c.delivered, n, "more")
    BY <1>5, Zenon DEF Deliver, l
  <2>2. n \in Nat /\ n > 0 /\ c.delivered <= n /\ n <= c.len
    BY <1>1, <1>2, <1>5
  <2> HIDE DEF n
  <2> QED BY <1>3, <2>1, <2>2, Zenon
<1> QED BY <1>4, <1>5, Zenon

(* No bytes are sent, and the response is kept or dropped. *)
LEMMA StatusOutcome ==
    ASSUME NEW c \in ChainType, c.delivered <= c.len, NEW c2, c2 = c \/ c2 = NoChain,
           NEW h, NEW sw \in {"ok", "failed"}
    PROVE  Outcome(c, c2, Status(sw), h)
<1>1. NoChain \in ChainType /\ NoChain.delivered <= NoChain.len
  BY ApduAssumption DEF NoChain, ChainType
<1>2. Status(sw) \in AnswerType /\ Status(sw).from <= Status(sw).to /\ Status(sw).of = 0
  BY DEF Status, AnswerType
<1> QED BY <1>1, <1>2, Zenon DEF Outcome

(* Chainer::begin *)
LEMMA BeginOutcome ==
    ASSUME NEW c \in ChainType, c.delivered <= c.len, NEW le \in Nat, NEW len \in Nat,
           NEW h \in Nat
    PROVE  Outcome(c, Begin(h, len, le).chain, Begin(h, len, le).answer, h)
<1>1. CASE len > ResponseBytes
  <2>1. Begin(h, len, le).chain = NoChain /\ Begin(h, len, le).answer = Status("failed")
    BY <1>1, Zenon DEF Begin
  <2> QED BY <2>1, StatusOutcome, Zenon
<1>2. CASE ~(len > ResponseBytes)
  <2> DEFINE n == [of |-> h, len |-> len, delivered |-> 0]
  <2>1. Begin(h, len, le) = Deliver(n, le)
    BY <1>2, Zenon DEF Begin
  <2>2. n \in ChainType /\ n.delivered <= n.len /\ n.of = h /\ n.delivered = 0
    BY <1>2, ApduAssumption DEF ChainType
  <2> HIDE DEF n
  <2>3. GoesOn(n, Deliver(n, le).chain, Deliver(n, le).answer)
    BY <2>2, Delivery, Zenon
  <2> QED BY <2>1, <2>2, <2>3, Zenon DEF Outcome, GoesOn
<1> QED BY <1>1, <1>2, Zenon

(* Chainer::get_response *)
LEMMA RemainingOutcome ==
    ASSUME NEW c \in ChainType, c.delivered <= c.len, NEW le \in Nat, NEW h
    PROVE  Outcome(c, GetResponse(c, le).chain, GetResponse(c, le).answer, h)
<1>1. CASE IsPending(c)
  <2>1. GetResponse(c, le) = Deliver(c, le)
    BY <1>1, Zenon DEF GetResponse
  <2>2. GoesOn(c, Deliver(c, le).chain, Deliver(c, le).answer)
    BY Delivery, Zenon
  <2> QED BY <1>1, <2>1, <2>2, Zenon DEF Outcome, GoesOn
<1>2. CASE ~IsPending(c)
  <2>1. GetResponse(c, le).chain = c /\ GetResponse(c, le).answer = Status("failed")
    BY <1>2, Zenon DEF GetResponse
  <2> QED BY <2>1, StatusOutcome, Zenon
<1> QED BY <1>1, <1>2, Zenon

(* The answer goes on where the host is, and what is then pending goes on  *)
(* where the answer ends.                                                  *)
LEMMA OutcomeJoins ==
    ASSUME NEW c \in ChainType, NEW c2, NEW a, NEW h \in Nat, NEW j,
           Outcome(c, c2, a, h + 1),
           Resumes(c, h, j, Status("none")), j[h + 1] = 0
    PROVE  Continues(a, h + 1, j) /\ Resumes(c2, h + 1, j, a)
<1>1. Status("none").of = 0
  BY Zenon DEF Status
<1>2. /\ c2 \in ChainType /\ a \in AnswerType /\ a.from <= a.to
      /\ a.of \in Nat /\ a.from \in Nat /\ a.to \in Nat /\ c.delivered \in Nat
  BY Zenon DEF Outcome, ChainType, AnswerType
<1>3. CASE a.of = 0 /\ (c2 = c \/ c2 = NoChain)
  <2>1. Continues(a, h + 1, j)
    BY <1>2, <1>3, Zenon DEF Continues
  <2>2. ~IsPending(NoChain)
    BY NothingPending, Zenon
  <2>3. CASE c2 = c
    <3>1. Resumes(c, h + 1, j, a)
      BY <1>1, <1>3 DEF Resumes
    <3> QED BY <2>1, <2>3, <3>1, Zenon
  <2>4. CASE c2 = NoChain
    BY <2>1, <2>2, <2>4, Zenon DEF Resumes
  <2> QED BY <1>3, <2>1, <2>3, <2>4, Zenon
<1>4. CASE /\ a.of = h + 1 /\ a.from = 0
           /\ c2.of = h + 1 /\ c2.delivered = a.to /\ (IsPending(c2) => a.to > 0)
  BY <1>2, <1>4 DEF Continues, Resumes
<1>5. CASE /\ IsPending(c) /\ a.of = c.of /\ a.from = c.delivered
           /\ c2.of = c.of /\ c2.delivered = a.to
  <2>1. c.of \in 1 .. h /\ c.delivered > 0 /\ c.delivered = j[c.of]
    <3>1. c.of \in 1 .. h /\ c.delivered > 0
      BY <1>5, Zenon DEF Resumes
    <3>2. c.of # 0
      BY <3>1
    <3> QED BY <1>1, <1>5, <3>1, <3>2, Zenon DEF Resumes
  <2>2. a.from > 0 /\ a.to > 0 /\ c.of \in 1 .. h + 1
    BY <1>2, <1>5, <2>1
  <2>3. Continues(a, h + 1, j)
    BY <1>2, <1>5, <2>1, <2>2 DEF Continues
  <2>4. Resumes(c2, h + 1, j, a)
    BY <1>5, <2>2, Zenon DEF Resumes
  <2> QED BY <2>3, <2>4, Zenon
<1> QED BY <1>3, <1>4, <1>5, Zenon DEF Outcome

(***************************************************************************)
(* What one frame does (Card::handle_frame): it is answered, or a touch is *)
(* awaited.                                                                *)
(***************************************************************************)
FrameAnswers(seq, at) ==
    \E a \in AnswerType :
        /\ wire' = PacketsOf(seq, a)
        /\ pc' = "write"
        /\ UNCHANGED <<parked, armed>>
        /\ Outcome(chain, chain', a, at)
        /\ powered' \in BOOLEAN
        /\ selected' \in Applet \cup {Unknown}

FrameWaits(seq, at) ==
    /\ armed' = [armed EXCEPT ![selected] = at]
    /\ parked' = seq
    /\ pc' = "touch"
    /\ UNCHANGED <<powered, selected, chain, wire>>
    /\ selected \in Applet

(* A frame that sends none of the bytes of a response. *)
LEMMA StatusEffect ==
    ASSUME RouterTypes, NEW seq, NEW at, NEW sw \in {"ok", "failed"},
           Answer(seq, Status(sw)), chain' = chain \/ chain' = NoChain, UNCHANGED armed,
           powered' \in BOOLEAN, selected' \in Applet \cup {Unknown}
    PROVE  FrameAnswers(seq, at)
<1>1. Outcome(chain, chain', Status(sw), at)
  BY StatusOutcome, Zenon DEF RouterTypes
<1>2. Status(sw) \in AnswerType
  BY <1>1, Zenon DEF Outcome
<1> QED BY <1>1, <1>2, Zenon DEF FrameAnswers, Answer

(* A refused one, which changes nothing else. *)
LEMMA RefuseEffect ==
    ASSUME RouterTypes, NEW seq, NEW at, Refuse(seq) \/ AnswerOnly(seq)
    PROVE  FrameAnswers(seq, at)
<1>1. /\ powered' \in BOOLEAN /\ selected' \in Applet \cup {Unknown}
      /\ chain' = chain /\ armed' = armed
  BY Zenon DEF Refuse, AnswerOnly, router, RouterTypes
<1>2. CASE Refuse(seq)
  BY <1>1, <1>2, StatusEffect, Zenon DEF Refuse
<1>3. CASE AnswerOnly(seq)
  BY <1>1, <1>3, StatusEffect, Zenon DEF AnswerOnly
<1> QED BY <1>2, <1>3, Zenon

(* One command of a powered card (Router::command). *)
LEMMA CommandEffect ==
    ASSUME RouterTypes, handled \in Nat, NEW seq, NEW r \in Request, r.kind = "xfr",
           Command(r, seq, handled + 1)
    PROVE  FrameAnswers(seq, handled + 1) \/ FrameWaits(seq, handled + 1)
<1> DEFINE at   == handled + 1
           apdu == Parse(IsoBody(r.data, r.le, r.extended))
           le   == ExpectedLen(apdu)
<1>1. at \in Nat
  OBVIOUS
<1>2. le \in Nat /\ r.aid \in Applet \cup {Unknown}
  <2>1. Writable(r.data, r.le, r.extended) /\ r.aid \in Applet \cup {Unknown}
    BY CardAssumption, Zenon
  <2>2. apdu = Parsed(r.data, r.le, r.extended)
    BY <2>1, ReadAsWritten, Zenon
  <2>3. apdu.le = r.le
    BY <2>2 DEF Parsed
  <2>4. r.le = NoLe \/ r.le \in Nat
    BY <2>1, ApduAssumption DEF Writable
  <2> QED BY <2>1, <2>3, <2>4, Zenon DEF ExpectedLen
<1> HIDE DEF at, apdu, le
<1>3. CASE Refuse(seq)
  BY <1>3, RefuseEffect, Zenon DEF at
<1>4. CASE Select(r, seq, at)
  <2>1. /\ chain' = NoChain /\ UNCHANGED armed
        /\ powered' \in BOOLEAN /\ selected' \in Applet \cup {Unknown}
    BY <1>2, <1>4, Zenon DEF Select, RouterTypes
  <2>2. CASE r.aid \in Applet
    <3>1. Answer(seq, Status("ok"))
      BY <1>4, <2>2, Zenon DEF Select
    <3> QED BY <2>1, <3>1, StatusEffect, Zenon
  <2>3. CASE ~(r.aid \in Applet)
    <3>1. Answer(seq, Status("failed"))
      BY <1>4, <2>3, Zenon DEF Select
    <3> QED BY <2>1, <3>1, StatusEffect, Zenon
  <2> QED BY <2>2, <2>3, Zenon
<1>5. CASE Remaining(seq, le)
  <2> DEFINE next == GetResponse(chain, le)
  <2>1. Outcome(chain, next.chain, next.answer, at)
    BY <1>2, RemainingOutcome, Zenon DEF RouterTypes
  <2>2. next.answer \in AnswerType
    BY <2>1, Zenon DEF Outcome
  <2>3. chain' = next.chain /\ Answer(seq, next.answer) /\ UNCHANGED <<powered, selected, armed>>
    BY <1>5, Zenon DEF Remaining
  <2> HIDE DEF next
  <2> QED BY <2>1, <2>2, <2>3, Zenon DEF FrameAnswers, Answer, RouterTypes, at
<1>6. CASE selected # Unknown /\ Process(seq, at, le)
  <2>1. ASSUME NEW len \in ResponseLen,
               chain' = Begin(at, len, le).chain, Answer(seq, Begin(at, len, le).answer),
               UNCHANGED <<powered, selected, armed>>
        PROVE  FrameAnswers(seq, at)
    <3> DEFINE first == Begin(at, len, le)
    <3>1. len \in Nat
      BY CardAssumption, Zenon
    <3>2. Outcome(chain, first.chain, first.answer, at)
      BY <1>1, <1>2, <3>1, BeginOutcome, Zenon DEF RouterTypes
    <3>3. first.answer \in AnswerType
      BY <3>2, Zenon DEF Outcome
    <3> HIDE DEF first
    <3>4. chain' = first.chain /\ Answer(seq, first.answer)
      BY <2>1, Zenon DEF first
    <3> QED BY <2>1, <3>2, <3>3, <3>4, Zenon DEF FrameAnswers, Answer, RouterTypes
  <2>2. CASE Refuse(seq)
    BY <1>3, <2>2, Zenon
  <2>3. CASE /\ armed' = [armed EXCEPT ![selected] = at] /\ parked' = seq /\ pc' = "touch"
             /\ UNCHANGED <<powered, router, wire>>
    <3>1. selected \in Applet
      BY <1>6, Zenon DEF RouterTypes
    <3> QED BY <2>3, <3>1, Zenon DEF FrameWaits, router, at
  <2> QED BY <1>6, <2>1, <2>2, <2>3, Zenon DEF Process, at
<1> QED BY <1>3, <1>4, <1>5, <1>6, Zenon DEF Command, at, le, apdu

(* One frame, of any kind. *)
LEMMA FrameEffect ==
    ASSUME RouterTypes, handled \in Nat, NEW seq, NEW r \in Request \cup {Garbage},
           HandleFrame(r, seq, handled + 1)
    PROVE  FrameAnswers(seq, handled + 1) \/ FrameWaits(seq, handled + 1)
<1> DEFINE at == handled + 1
<1>1. CASE PowerOn(seq, at) \/ PowerOff(seq, at) \/ Abort(seq, at)
  <2>1. /\ chain' = NoChain /\ UNCHANGED armed /\ Answer(seq, Status("ok"))
        /\ powered' \in BOOLEAN /\ selected' \in Applet \cup {Unknown}
    BY <1>1, Zenon DEF PowerOn, PowerOff, Abort, RouterReset, RouterTypes
  <2> QED BY <2>1, StatusEffect, Zenon
<1>2. CASE AnswerOnly(seq) \/ Refuse(seq)
  BY <1>2, RefuseEffect, Zenon
<1>3. CASE r.kind = "xfr" /\ Command(r, seq, at)
  <2>1. r \in Request
    BY <1>3 DEF Garbage
  <2> QED BY <1>3, <2>1, CommandEffect, Zenon
<1> QED BY <1>1, <1>2, <1>3, Zenon DEF HandleFrame

(***************************************************************************)
(* The types.                                                              *)
(***************************************************************************)
(* A packet of a message that was sent, read as the first of one, declares *)
(* a length.                                                               *)
LEMMA DeclaredIsSome ==
    ASSUME FlowTypes, NEW p \in OutPacket(sent)
    PROVE  /\ sent[p.id] \in Request
           /\ Declared(p) \in Nat /\ Declared(p) > 0
<1>1. sent[p.id] \in Request
  BY DEF FlowTypes, OutPacket
<1>2. sent[p.id].packets \in Nat \ {0} /\ sent[p.id].raw \in Nat \ {0}
  BY <1>1, CardAssumption, Zenon
<1> QED BY <1>1, <1>2 DEF Declared

(* The frame of a complete message: the beginning of the buffer. *)
LEMMA FrameOfBuffer ==
    ASSUME FlowTypes, Complete
    PROVE  /\ Len(Frame) = Declared(buffer[1]) /\ Len(Frame) \in 1 .. Len(buffer)
           /\ Frame[1] = buffer[1] /\ Frame[1].id \in 1 .. Len(sent)
           /\ Frame \in Seq(OutPacket(sent))
           /\ \A k \in 1 .. Len(Frame) : Frame[k] = buffer[k]
           /\ Readings(Frame) \subseteq Request \cup {Garbage}
<1> DEFINE d == Declared(buffer[1])
           n == Len(buffer)
           P == OutPacket(sent)
<1>1. buffer # <<>> /\ n >= d
  BY Zenon DEF Complete
<1>2. buffer \in Seq(P) /\ n \in Nat
  BY DEF FlowTypes
<1>3. buffer[1] \in P
  BY <1>1, <1>2
<1>4. d \in Nat /\ d > 0 /\ sent[buffer[1].id] \in Request
  BY <1>3, DeclaredIsSome, Zenon
<1>5. \A k \in 1 .. d : buffer[k] \in P
  <2> HIDE DEF d, P
  <2> QED BY <1>1, <1>2, <1>4
<1> HIDE DEF d, P, n
<1>6. Frame = SubSeq(buffer, 1, d)
  BY Zenon DEF Frame, d
<1>7. /\ Frame \in Seq(P)
      /\ Len(Frame) = IF 1 <= d THEN d - 1 + 1 ELSE 0
      /\ \A k \in 1 .. d - 1 + 1 : Frame[k] = buffer[1 + k - 1]
  BY <1>4, <1>5, <1>6, SubSeqProperties
<1>8. Len(Frame) = d /\ d \in 1 .. n
  BY <1>1, <1>2, <1>4, <1>7
<1>9. ASSUME NEW k \in 1 .. d
      PROVE  Frame[k] = buffer[k]
  <2>1. k \in 1 .. d - 1 + 1 /\ 1 + k - 1 = k
    BY <1>4
  <2> QED BY <1>7, <2>1, Zenon
<1>10. Frame[1] = buffer[1]
  BY <1>4, <1>9, 1 \in 1 .. d
<1>11. buffer[1].id \in 1 .. Len(sent)
  BY <1>3, Zenon DEF P, OutPacket
<1>12. Readings(Frame) \subseteq Request \cup {Garbage}
  BY <1>4, <1>10, Zenon DEF Readings
<1> QED BY <1>7, <1>8, <1>9, <1>10, <1>11, <1>12, Zenon DEF d, P, n

(* A step that leaves the messages and the packets of the host alone. *)
LEMMA FlowTypesKept ==
    ASSUME FlowTypes, UNCHANGED <<sent, bulk, buffer>>,
           handled' \in Nat, faults' \in Nat
    PROVE  FlowTypes'
BY Zenon DEF FlowTypes

(* The messages that are sent: each step keeps their types. *)
LEMMA FlowTypesStep ==
    ASSUME FlowTypes, [Next]_vars
    PROVE  FlowTypes'
<1> DEFINE P == OutPacket(sent)
<1>1. CASE \E r \in Request : Send(r)
  <2>1. PICK r \in Request : Send(r)
    BY <1>1, Zenon
  <2> DEFINE Q == OutPacket(Append(sent, r))
             b == [i \in 1 .. r.packets |-> [id |-> Len(sent) + 1, i |-> i]]
  <2>2. sent' \in Seq(Request) /\ Len(sent') = Len(sent) + 1 /\ Len(sent') <= MaxMessages
    BY <2>1, CardAssumption DEF Send, FlowTypes
  <2>3. r.packets \in Nat /\ Len(sent) \in Nat
    BY CardAssumption DEF FlowTypes
  <2>4. P \subseteq Q
    <3> SUFFICES ASSUME NEW p \in P
                 PROVE  p \in Q
      BY Zenon
    <3>1. p \in [id : 1 .. Len(sent), i : Nat] /\ p.i <= sent[p.id].packets
      BY Zenon DEF OutPacket
    <3>2. Append(sent, r)[p.id] = sent[p.id] /\ Len(Append(sent, r)) = Len(sent) + 1
      BY <3>1 DEF FlowTypes
    <3>3. p \in [id : 1 .. Len(Append(sent, r)), i : Nat]
      BY <2>3, <3>1, <3>2
    <3> QED BY <3>1, <3>2, <3>3, Zenon DEF OutPacket
  <2>5. bulk \in Seq(Q) /\ buffer \in Seq(Q)
    BY <2>4, SeqMonotonic, Zenon DEF FlowTypes
  <2>6. b \in Seq(Q)
    <3>1. Append(sent, r)[Len(sent) + 1] = r /\ Len(Append(sent, r)) = Len(sent) + 1
      BY DEF FlowTypes
    <3>2. ASSUME NEW i \in 1 .. r.packets
          PROVE  [id |-> Len(sent) + 1, i |-> i] \in Q
      <4> DEFINE p == [id |-> Len(sent) + 1, i |-> i]
      <4>1. /\ p \in [id : 1 .. Len(Append(sent, r)), i : Nat]
            /\ p.id = Len(sent) + 1 /\ p.i = i /\ i <= r.packets
        BY <2>3, <3>1
      <4> HIDE DEF p
      <4>2. p \in Q
        BY <3>1, <4>1, Zenon DEF OutPacket
      <4> QED BY <4>2, Zenon DEF p
    <3> HIDE DEF Q
    <3>3. b \in [1 .. r.packets -> Q]
      BY <3>2, Zenon
    <3> QED BY <2>3, <3>3
  <2> HIDE DEF Q, b
  <2>7. bulk \o b \in Seq(Q)
    BY <2>5, <2>6
  <2>8. bulk' = bulk \o b /\ UNCHANGED <<buffer, handled, faults>>
    BY <2>1, Zenon DEF Send, b
  <2>9. OutPacket(sent)' = Q
    BY <2>1, Zenon DEF Send, Q, OutPacket
  <2> QED BY <2>2, <2>5, <2>7, <2>8, <2>9, Zenon DEF FlowTypes
<1>2. CASE Cancel
  <2> DEFINE m == sent[bulk[1].id].packets - bulk[1].i + 2
  <2>1. bulk \in Seq(P) /\ bulk # <<>> /\ bulk[1].i > 1
    BY <1>2, Zenon DEF Cancel, FlowTypes
  <2>2. bulk[1] \in P
    BY <2>1
  <2>3. /\ sent[bulk[1].id].packets \in Nat
        /\ bulk[1].i \in Nat /\ bulk[1].i <= sent[bulk[1].id].packets
    BY <2>2, DeclaredIsSome, CardAssumption, Zenon DEF OutPacket
  <2>4. m \in Nat /\ m >= 1
    BY <2>3
  <2> HIDE DEF m, P
  <2>5. SubSeq(bulk, m, Len(bulk)) \in Seq(P)
    <3>1. \A k \in m .. Len(bulk) : bulk[k] \in P
      BY <2>1, <2>4
    <3> QED BY <2>1, <2>4, <3>1, SubSeqProperties
  <2>6. /\ bulk' = SubSeq(bulk, m, Len(bulk))
        /\ UNCHANGED <<sent, buffer, handled>> /\ faults' = faults + 1
    BY <1>2, Zenon DEF Cancel, hostSide, m
  <2>7. faults' \in Nat
    BY <2>6 DEF FlowTypes
  <2>8. OutPacket(sent)' = P
    BY <2>6, Zenon DEF OutPacket, P
  <2> QED BY <2>5, <2>6, <2>7, <2>8, Zenon DEF FlowTypes, P
<1>3. CASE ReadPacket
  <2>1. bulk \in Seq(P) /\ buffer \in Seq(P) /\ bulk # <<>> /\ Len(buffer) <= Capacity
    BY <1>3, Zenon DEF ReadPacket, FlowTypes
  <2> HIDE DEF P
  <2>2. bulk[1] \in P /\ Tail(bulk) \in Seq(P)
    BY <2>1
  <2>3. bulk' = Tail(bulk) /\ UNCHANGED <<sent, handled, faults>>
    BY <1>3, Zenon DEF ReadPacket, hostSide
  <2>4. buffer' \in Seq(P) /\ Len(buffer') <= Capacity
    <3>1. CASE Len(buffer) + 1 > Capacity
      <4>1. buffer' = <<>>
        BY <1>3, <3>1, Zenon DEF ReadPacket, CardReset
      <4> QED BY <4>1, CardAssumption
    <3>2. CASE ~(Len(buffer) + 1 > Capacity)
      <4>1. buffer' = Append(buffer, bulk[1])
        BY <1>3, <3>2, Zenon DEF ReadPacket
      <4>2. Append(buffer, bulk[1]) \in Seq(P) /\ Len(Append(buffer, bulk[1])) = Len(buffer) + 1
        BY <2>1, <2>2
      <4>3. Len(buffer) \in Nat /\ Capacity \in Nat
        BY <2>1, CardAssumption
      <4> QED BY <3>2, <4>1, <4>2, <4>3
    <3> QED BY <3>1, <3>2, Zenon
  <2> QED BY <2>2, <2>3, <2>4, Zenon DEF FlowTypes, P
<1>4. CASE PollOversized
  <2>1. buffer' = <<>> /\ UNCHANGED <<sent, bulk, handled, faults>>
    BY <1>4, Zenon DEF PollOversized, CardReset, hostSide
  <2> QED BY <2>1, CardAssumption DEF FlowTypes
<1>5. CASE PollMessage
  <2>1. Complete /\ buffer' = Consume(Len(Frame))
    BY <1>5, Zenon DEF PollMessage
  <2>2. UNCHANGED <<sent, bulk, faults>> /\ handled' = handled + 1
    BY <1>5, Zenon DEF PollMessage, hostSide
  <2>3. Len(Frame) \in 0 .. Len(buffer)
    BY <2>1, FrameOfBuffer
  <2>4. buffer \in Seq(P) /\ Len(buffer) <= Capacity
    BY Zenon DEF FlowTypes
  <2> HIDE DEF P
  <2>5. buffer' \in Seq(P) /\ Len(buffer') = Len(buffer) - Len(Frame)
    BY <2>1, <2>3, <2>4, Dropping, Zenon DEF Consume
  <2>6. Len(buffer') <= Capacity
    BY <2>3, <2>4, <2>5, CardAssumption
  <2> QED BY <2>2, <2>5, <2>6 DEF FlowTypes, P
<1>6. CASE PollNothing \/ Written \/ WriteFails \/ Take \/ Touch \/ UNCHANGED vars
  <2>1. UNCHANGED <<sent, bulk, buffer, handled>> /\ (faults' = faults \/ faults' = faults + 1)
    BY <1>6, Zenon DEF PollNothing, Written, WriteFails, Take, Touch, TouchDone, hostSide, vars
  <2> QED BY <2>1, FlowTypesKept, SMTT(30) DEF FlowTypes
<1> QED BY <1>1, <1>2, <1>3, <1>4, <1>5, <1>6, Zenon DEF Next, Task

(* The router: each step keeps its types. *)
LEMMA RouterTypesStep ==
    ASSUME FlowTypes, RouterTypes, [Next]_vars
    PROVE  RouterTypes'
<1>1. CASE (\E r \in Request : Send(r)) \/ Cancel \/ Take \/ UNCHANGED vars
  <2>1. UNCHANGED <<pc, powered, selected, chain, parked, armed>>
    BY <1>1, Zenon DEF Send, Cancel, Take, router, vars
  <2> QED BY <2>1, Zenon DEF RouterTypes
<1>2. ASSUME pc # "touch", CardReset, pc' = "read", UNCHANGED armed
      PROVE  RouterTypes'
  <2>1. chain' \in ChainType /\ chain'.delivered <= chain'.len
    BY <1>2, ApduAssumption DEF CardReset, NoChain, ChainType
  <2>2. parked' = None /\ 0 \in 0 .. MaxMessages /\ selected' = Unknown /\ powered' = FALSE
    BY <1>2, CardAssumption DEF CardReset
  <2> QED BY <1>2, <2>1, <2>2, Zenon DEF RouterTypes, None
<1>3. ASSUME pc # "touch", pc' \in {"read", "poll", "write"},
             UNCHANGED <<powered, selected, chain, parked, armed>>
      PROVE  RouterTypes'
  BY <1>3, Zenon DEF RouterTypes
<1>4. CASE ReadPacket
  BY <1>2, <1>3, <1>4, Zenon DEF ReadPacket, router
<1>5. CASE PollNothing \/ Written \/ WriteFails
  BY <1>3, <1>5, Zenon DEF PollNothing, Written, WriteFails, router
<1>6. CASE PollOversized
  BY <1>2, <1>6, Zenon DEF PollOversized
<1>7. CASE PollMessage
  <2> DEFINE seq == Frame[1].id
             at  == handled + 1
  <2>1. seq \in 1 .. MaxMessages /\ at \in Nat
    <3>1. seq \in 1 .. Len(sent) /\ Len(sent) \in Nat /\ Len(sent) <= MaxMessages
      <4>1. seq \in 1 .. Len(sent) /\ sent \in Seq(Request) /\ Len(sent) <= MaxMessages
        BY <1>7, FrameOfBuffer, Zenon DEF PollMessage, FlowTypes
      <4>2. Len(sent) \in Nat
        BY <4>1
      <4> QED BY <4>1, <4>2, Zenon
    <3> HIDE DEF seq
    <3> QED BY <3>1, CardAssumption DEF FlowTypes
  <2>2. FrameAnswers(seq, at) \/ FrameWaits(seq, at)
    <3>1. PICK r \in Readings(Frame) : HandleFrame(r, seq, at)
      BY <1>7, Zenon DEF PollMessage
    <3>2. r \in Request \cup {Garbage}
      BY <1>7, FrameOfBuffer, Zenon DEF PollMessage
    <3> QED BY <3>1, <3>2, FrameEffect, Zenon DEF FlowTypes
  <2>3. pc = "poll" /\ parked = None
    BY <1>7, Zenon DEF PollMessage
  <2> HIDE DEF seq, at
  <2>4. CASE FrameAnswers(seq, at)
    <3>1. chain' \in ChainType /\ chain'.delivered <= chain'.len
      BY <2>4, Zenon DEF FrameAnswers, Outcome
    <3>2. pc' = "write" /\ UNCHANGED <<parked, armed>> /\ powered' \in BOOLEAN
          /\ selected' \in Applet \cup {Unknown}
      BY <2>4, Zenon DEF FrameAnswers
    <3> QED BY <2>3, <3>1, <3>2, Zenon DEF RouterTypes
  <2>5. CASE FrameWaits(seq, at)
    <3>1. armed' \in [Applet -> Nat]
      BY <2>1, <2>5, Zenon DEF FrameWaits, RouterTypes
    <3>2. parked' \in 0 .. MaxMessages /\ parked' # None
      BY <2>1, <2>5, CardAssumption DEF FrameWaits, None
    <3>3. pc' = "touch" /\ UNCHANGED <<powered, selected, chain>> /\ selected \in Applet
      BY <2>5, Zenon DEF FrameWaits
    <3> QED BY <3>1, <3>2, <3>3, Zenon DEF RouterTypes
  <2> QED BY <2>2, <2>4, <2>5, Zenon
<1>8. CASE Touch
  <2>1. pc' = "write" /\ parked' = None /\ armed' = [armed EXCEPT ![selected] = None]
        /\ UNCHANGED <<powered, selected, chain>>
    BY <1>8, Zenon DEF Touch, TouchDone, router
  <2>2. armed' \in [Applet -> Nat]
    BY <2>1, Zenon DEF RouterTypes, None
  <2>3. parked' \in 0 .. MaxMessages
    BY <2>1, CardAssumption DEF None
  <2> QED BY <2>1, <2>2, <2>3, Zenon DEF RouterTypes
<1> QED BY <1>1, <1>4, <1>5, <1>6, <1>7, <1>8, Zenon DEF Next, Task

-----------------------------------------------------------------------------
(***************************************************************************)
(* The messages of an undisturbed card.                                    *)
(***************************************************************************)
(* A disturbance is for good. *)
LEMMA SyncBefore ==
    ASSUME FlowTypes, [Next]_vars, InSync'
    PROVE  InSync /\ faults' = faults
<1>1. faults' = faults \/ faults' = faults + 1
  BY Zenon DEF Next, Task, Send, Cancel, Take, ReadPacket, PollNothing, PollOversized, PollMessage,
         Written, Touch, TouchDone, WriteFails, vars
<1>2. faults' = 0 /\ faults = 0
  BY <1>1 DEF InSync, FlowTypes
<1>3. \A k \in DOMAIN sent : sent[k].packets <= Capacity
  <2>1. CASE \E r \in Request : Send(r)
    <3>1. PICK r \in Request : sent' = Append(sent, r)
      BY <2>1, Zenon DEF Send
    <3>2. \A k \in DOMAIN sent : k \in DOMAIN sent' /\ sent'[k] = sent[k]
      BY <3>1 DEF FlowTypes
    <3>3. \A k \in DOMAIN sent' : sent'[k].packets <= Capacity
      BY Zenon DEF InSync
    <3> QED BY <3>2, <3>3, Zenon
  <2>2. CASE UNCHANGED sent
    BY <2>2, Zenon DEF InSync
  <2> QED BY <2>1, <2>2, Zenon DEF Next, Task, Cancel, Take, ReadPacket, PollNothing, PollOversized,
             PollMessage, Written, Touch, TouchDone, WriteFails, hostSide, vars
<1> QED BY <1>2, <1>3, Zenon DEF InSync

(* The first packet of the assembler begins the message after those that   *)
(* were handled, which fits.                                               *)
LEMMA HeadOfBuffer ==
    ASSUME FlowTypes, InSync, FlowInv, buffer # <<>>
    PROVE  /\ buffer[1] = [id |-> handled + 1, i |-> 1]
           /\ handled + 1 \in 1 .. Len(sent)
           /\ Declared(buffer[1]) = sent[handled + 1].packets
           /\ Declared(buffer[1]) \in Nat /\ Declared(buffer[1]) <= Capacity
           /\ ~Oversized
<1> DEFINE q == buffer \o bulk
           P == OutPacket(sent)
<1>1. buffer \in Seq(P) /\ bulk \in Seq(P)
  BY Zenon DEF FlowTypes
<1>2. HasParts(P, q, buffer, bulk)
  BY <1>1, Parts, Zenon
<1>3. 1 \in 1 .. Len(buffer) /\ Len(buffer) \in Nat
  BY <1>1
<1>4. q[1] = buffer[1] /\ q \in Seq(P) /\ Len(q) > 0
  <2> HIDE DEF q, P
  <2> QED BY <1>2, <1>3 DEF HasParts
<1>5. Flow(q, sent, handled)
  BY Zenon DEF FlowInv
<1> HIDE DEF q
<1>6. q # <<>>
  BY <1>4
<1>7. buffer[1] = [id |-> handled + 1, i |-> 1]
  BY <1>4, <1>5, <1>6, Zenon DEF Flow
<1>8. 1 \in 1 .. Len(q)
  BY <1>4
<1>9. handled + 1 \in 1 .. Len(sent)
  <2>1. q[1].id \in 1 .. Len(sent)
    BY <1>5, <1>8, Zenon DEF Flow, InPlace
  <2>2. q[1].id = handled + 1
    BY <1>4, <1>7, SMTT(30)
  <2> QED BY <2>1, <2>2, Zenon
<1>10. Declared(buffer[1]) = sent[handled + 1].packets
  BY <1>7 DEF Declared
<1>11. sent[handled + 1].packets <= Capacity /\ sent[handled + 1].packets \in Nat
  BY <1>9, CardAssumption DEF InSync, FlowTypes
<1>12. ~Oversized
  BY <1>10, <1>11, CardAssumption DEF Oversized
<1> QED BY <1>7, <1>9, <1>10, <1>11, <1>12, Zenon

(* The assembler has room for what it reads. *)
LEMMA RoomForPacket ==
    ASSUME FlowTypes, InSync, FlowInv, pc = "read", bulk # <<>>
    PROVE  ~(Len(buffer) + 1 > Capacity)
<1>1. bulk \in Seq(OutPacket(sent)) /\ buffer \in Seq(OutPacket(sent))
  BY Zenon DEF FlowTypes
<1>2. CASE buffer = <<>>
  <2>1. bulk[1] \in OutPacket(sent)
    BY <1>1
  <2>2. bulk[1].id \in DOMAIN sent
    BY <2>1 DEF OutPacket, FlowTypes
  <2>3. sent[bulk[1].id].packets \in Nat \ {0} /\ sent[bulk[1].id].packets <= Capacity
    BY <2>2, CardAssumption DEF InSync, FlowTypes
  <2> QED BY <1>2, <2>3, CardAssumption, SMTT(30)
<1>3. CASE buffer # <<>>
  <2>1. Len(buffer) < sent[buffer[1].id].packets
    BY <1>3, Zenon DEF FlowInv
  <2>2. sent[buffer[1].id].packets \in Nat /\ sent[buffer[1].id].packets <= Capacity
    BY <1>3, HeadOfBuffer
  <2>3. Len(buffer) \in Nat /\ Capacity \in Nat
    BY <1>1, CardAssumption
  <2> QED BY <2>1, <2>2, <2>3, SMTT(30)
<1> QED BY <1>2, <1>3, Zenon

(* Each step keeps the flow. *)
LEMMA FlowStep ==
    ASSUME FlowTypes, RouterTypes, InSync, FlowInv, [Next]_vars, InSync'
    PROVE  FlowInv'
<1> DEFINE P == OutPacket(sent)
<1>0. faults' = faults /\ faults = 0 /\ bulk \in Seq(P) /\ buffer \in Seq(P)
  BY SyncBefore, Zenon DEF InSync, FlowTypes
<1>1. CASE \E r \in Request : Send(r)
  <2>1. PICK r \in Request : Send(r)
    BY <1>1, Zenon
  <2> DEFINE b == [i \in 1 .. r.packets |-> [id |-> Len(sent) + 1, i |-> i]]
             T == P \cup [id : Nat, i : Nat]
  <2>2. sent' = Append(sent, r) /\ bulk' = bulk \o b /\ UNCHANGED <<buffer, pc, handled>>
    BY <2>1, Zenon DEF Send
  <2>3. Flow((buffer \o bulk) \o b, Append(sent, r), handled)
    <3>1. buffer \o bulk \in Seq(P)
      BY <1>0
    <3>2. \A e \in Request : e.packets \in Nat \ {0}
      BY CardAssumption, Zenon
    <3>3. sent \in Seq(Request) /\ Flow(buffer \o bulk, sent, handled)
      BY Zenon DEF FlowTypes, FlowInv
    <3> HIDE DEF P
    <3> QED BY <3>1, <3>2, <3>3, FlowSend, Zenon
  <2>4. bulk \in Seq(T) /\ buffer \in Seq(T)
    BY <1>0, SeqMonotonic, Zenon
  <2>5. b \in Seq(T)
    <3>1. r.packets \in Nat /\ Len(sent) \in Nat
      BY CardAssumption DEF FlowTypes
    <3>2. \A i \in 1 .. r.packets : [id |-> Len(sent) + 1, i |-> i] \in T
      BY <3>1
    <3> HIDE DEF T
    <3>3. b \in [1 .. r.packets -> T]
      BY <3>2, Zenon
    <3> QED BY <3>1, <3>3
  <2> HIDE DEF b, T
  <2>6. (buffer \o bulk) \o b = buffer \o (bulk \o b)
    <3>1. \A x, y, z \in Seq(T) : (x \o y) \o z = x \o (y \o z)
      BY ConcatAssociative
    <3> QED BY <2>4, <2>5, <3>1, Zenon
  <2>7. ASSUME pc = "read", buffer # <<>>
        PROVE  Len(buffer) < sent'[buffer[1].id].packets
    <3>1. buffer[1].id \in 1 .. Len(sent)
      BY <2>7, HeadOfBuffer
    <3>2. sent'[buffer[1].id] = sent[buffer[1].id]
      BY <2>2, <3>1 DEF FlowTypes
    <3> QED BY <2>7, <3>2, Zenon DEF FlowInv
  <2> QED BY <2>2, <2>3, <2>6, <2>7, Zenon DEF FlowInv
<1>2. CASE Cancel \/ WriteFails
  BY <1>0, <1>2 DEF Cancel, WriteFails
<1>3. CASE ReadPacket
  <2>1. pc = "read" /\ bulk # <<>>
    BY <1>3, Zenon DEF ReadPacket
  <2>2. ~(Len(buffer) + 1 > Capacity)
    BY <2>1, RoomForPacket, Zenon
  <2>3. /\ buffer' = Append(buffer, bulk[1]) /\ bulk' = Tail(bulk) /\ pc' = "poll"
        /\ UNCHANGED <<sent, handled>>
    BY <1>3, <2>2, Zenon DEF ReadPacket, hostSide
  <2> HIDE DEF P
  <2>4. buffer' \o bulk' = buffer \o bulk
    BY <1>0, <2>1, <2>3, MovedOn, Zenon
  <2> QED BY <2>3, <2>4, Zenon DEF FlowInv
<1>4. CASE PollNothing
  <2>1. /\ pc = "poll" /\ (parked # None \/ ~(Oversized \/ Complete))
        /\ UNCHANGED <<sent, bulk, buffer, handled>>
    BY <1>4, Zenon DEF PollNothing, hostSide
  <2>2. parked = None
    BY <2>1, Zenon DEF RouterTypes
  <2>3. ASSUME buffer # <<>>
        PROVE  Len(buffer) < sent[buffer[1].id].packets
    <3>1. /\ buffer[1].id = handled + 1 /\ ~Oversized
          /\ Declared(buffer[1]) = sent[handled + 1].packets
          /\ Declared(buffer[1]) \in Nat
      BY <2>3, HeadOfBuffer, SMTT(30)
    <3>2. ~(Len(buffer) >= Declared(buffer[1]))
      BY <2>1, <2>2, <2>3, <3>1, Zenon DEF Complete
    <3>3. Len(buffer) \in Nat
      BY <1>0
    <3> QED BY <3>1, <3>2, <3>3
  <2> QED BY <2>1, <2>3, Zenon DEF FlowInv
<1>5. CASE PollOversized
  BY <1>5, HeadOfBuffer, Zenon DEF PollOversized, Oversized
<1>6. CASE PollMessage
  <2> DEFINE d == sent[handled + 1].packets
             q == buffer \o bulk
  <2>1. Complete /\ buffer # <<>>
    BY <1>6, Zenon DEF PollMessage, Complete
  <2>2. Len(Frame) = d /\ d \in 0 .. Len(buffer)
    BY <2>1, HeadOfBuffer, FrameOfBuffer, SMTT(30)
  <2>3. buffer' = SubSeq(buffer, d + 1, Len(buffer)) /\ UNCHANGED <<sent, bulk>>
        /\ handled' = handled + 1
    BY <1>6, <2>2, Zenon DEF PollMessage, Consume, hostSide
  <2>4. buffer' \o bulk' = SubSeq(q, d + 1, Len(q))
    <3> HIDE DEF d, P
    <3> QED BY <1>0, <2>2, <2>3, ConsumedFirst, Zenon
  <2>5. q \in Seq(P) /\ q # <<>>
    BY <1>0, <2>1
  <2>6. Flow(SubSeq(q, d + 1, Len(q)), sent, handled + 1)
    <3>1. Flow(q, sent, handled) /\ Len(sent) \in Nat
      BY DEF FlowInv, FlowTypes
    <3>2. \A k \in 1 .. Len(sent) : sent[k].packets \in Nat
      BY CardAssumption DEF FlowTypes
    <3> HIDE DEF q, P
    <3> QED BY <2>5, <3>1, <3>2, FlowDrop, Zenon
  <2>7. pc' # "read"
    <3>1. PICK r \in Readings(Frame) : HandleFrame(r, Frame[1].id, handled + 1)
      BY <1>6, Zenon DEF PollMessage
    <3>2. r \in Request \cup {Garbage}
      BY <2>1, FrameOfBuffer, Zenon
    <3>3. FrameAnswers(Frame[1].id, handled + 1) \/ FrameWaits(Frame[1].id, handled + 1)
      BY <3>1, <3>2, FrameEffect, Zenon DEF FlowTypes
    <3> QED BY <3>3, Zenon DEF FrameAnswers, FrameWaits
  <2> QED BY <2>3, <2>4, <2>6, <2>7, Zenon DEF FlowInv
<1>7. CASE Written \/ Take \/ Touch \/ UNCHANGED vars
  <2>1. UNCHANGED <<sent, bulk, buffer, handled>> /\ (pc' = pc \/ pc' # "read")
    BY <1>7, Zenon DEF Written, Take, Touch, TouchDone, hostSide, vars
  <2> QED BY <2>1, Zenon DEF FlowInv
<1> QED BY <1>1, <1>2, <1>3, <1>4, <1>5, <1>6, <1>7, Zenon DEF Next, Task

-----------------------------------------------------------------------------
(***************************************************************************)
(* The answers of an undisturbed card.                                     *)
(***************************************************************************)
(* The bytes joined with those of the answer a; and none of the messages   *)
(* after h has any.                                                        *)
JoinedWith(j, a) == [m \in DOMAIN j |-> j[m] + IF m = a.of THEN a.to - a.from ELSE 0]

JoinedUpTo(j, h) ==
    j \in [1 .. MaxMessages -> Nat] /\ \A m \in 1 .. MaxMessages : m > h => j[m] = 0

(* The host has the whole answer a: it has joined its bytes. *)
LEMMA AnswerJoined ==
    ASSUME NEW j, NEW h \in Nat, h <= MaxMessages, JoinedUpTo(j, h),
           NEW a, Continues(a, h, j), NEW c \in ChainType, Resumes(c, h, j, a)
    PROVE  /\ JoinedUpTo(JoinedWith(j, a), h)
           /\ a.of # 0 => JoinedWith(j, a)[a.of] = a.to
           /\ Resumes(c, h, JoinedWith(j, a), Status("none"))
<1> DEFINE M  == 1 .. MaxMessages
           j2 == [m \in DOMAIN j |-> j[m] + IF m = a.of THEN a.to - a.from ELSE 0]
<1> j \in [M -> Nat] /\ \A m \in M : m > h => j[m] = 0
  BY Zenon DEF JoinedUpTo
<1>1. a.of \in Nat /\ a.from \in Nat /\ a.to \in Nat /\ a.from <= a.to
  BY Zenon DEF Continues, AnswerType
<1>2. /\ DOMAIN j = M /\ DOMAIN j2 = M
      /\ \A m \in M : j2[m] = j[m] + IF m = a.of THEN a.to - a.from ELSE 0
  BY Zenon
<1>3. ASSUME NEW m \in M
      PROVE  /\ j[m] \in Nat
             /\ j2[m] = IF m = a.of THEN a.to ELSE j[m]
  <2>1. j[m] \in Nat
    BY Zenon
  <2>2. CASE m = a.of
    <3>1. a.of # 0
      BY <2>2, CardAssumption, SMTT(30)
    <3>2. j[m] = a.from
      BY <2>2, <3>1, Zenon DEF Continues
    <3> QED BY <1>1, <1>2, <2>1, <2>2, <3>2
  <2>3. CASE m # a.of
    BY <1>2, <2>1, <2>3, SMTT(30)
  <2> QED BY <2>2, <2>3, Zenon
<1> HIDE DEF j2
<1>4. j2 \in [M -> Nat]
  <2>1. j2 = [m \in M |-> j2[m]]
    BY <1>2, Zenon DEF j2
  <2>2. \A m \in M : j2[m] \in Nat
    BY <1>1, <1>3, Zenon
  <2> QED BY <2>1, <2>2, Zenon
<1>5. ASSUME NEW m \in M, m > h
      PROVE  j2[m] = 0
  <2>1. m # a.of
    BY <1>1, <1>5, CardAssumption, SMTT(30) DEF Continues
  <2> QED BY <1>3, <1>5, <2>1, Zenon
<1>6. a.of # 0 => a.of \in M /\ j2[a.of] = a.to
  <2>1. ASSUME a.of # 0
        PROVE  a.of \in M
    BY <2>1, CardAssumption DEF Continues
  <2> QED BY <1>3, <2>1, Zenon
<1>7. Resumes(c, h, j2, Status("none"))
  <2> SUFFICES ASSUME IsPending(c)
               PROVE  c.of \in 1 .. h /\ c.delivered > 0 /\ c.of # 0 /\ c.delivered = j2[c.of]
    BY Zenon DEF Resumes, Status
  <2>1. /\ c.of \in 1 .. h /\ c.delivered > 0
        /\ c.delivered = IF c.of = a.of THEN a.to ELSE j[c.of]
    BY Zenon DEF Resumes
  <2>2. c.of \in M /\ c.of # 0
    BY <2>1, CardAssumption
  <2> QED BY <1>3, <2>1, <2>2, Zenon
<1> QED BY <1>4, <1>5, <1>6, <1>7, Zenon DEF j2, JoinedWith, JoinedUpTo

(* No more messages are handled than were sent. *)
LEMMA HandledBound ==
    ASSUME FlowTypes, FlowInv
    PROVE  handled <= MaxMessages
<1>1. handled \in 0 .. Len(sent) /\ Len(sent) \in Nat /\ Len(sent) <= MaxMessages
  <2>1. handled \in 0 .. Len(sent) /\ sent \in Seq(Request) /\ Len(sent) <= MaxMessages
    BY Zenon DEF FlowInv, Flow, FlowTypes
  <2>2. Len(sent) \in Nat
    BY <2>1
  <2> QED BY <2>1, <2>2, Zenon
<1> QED BY <1>1, CardAssumption

(* A step that leaves the answers alone keeps what is said of them. *)
LEMMA AnswersKept ==
    ASSUME AnswerInv, InSync, UNCHANGED <<wire, transfer, joined, got, answers, handled, chain,
                                          parked, armed, selected>>,
           \/ pc' = pc
           \/ pc # "touch" /\ pc' # "touch" /\ (pc # "write" \/ wire = <<>>)
    PROVE  AnswerInv'
<1>1. AnswersInOrder' /\ ChunksJoin'
  BY Zenon DEF AnswerInv, AnswersInOrder, ChunksJoin
<1>2. Between => Between'
  BY Zenon DEF Between
<1>3. Touching => Touching'
  BY Zenon DEF Touching
<1>4. Sending /\ pc' = pc => Sending'
  BY Zenon DEF Sending
<1>5. Sending => pc = "write" /\ wire # <<>>
  BY Zenon DEF Sending
<1>6. (pc' # "touch" /\ Between') \/ (pc' = "touch" /\ Touching') \/ Sending'
  BY <1>2, <1>3, <1>4, <1>5, Zenon DEF AnswerInv
<1> QED BY <1>1, <1>6, Zenon DEF AnswerInv

(* Take: the host takes a packet of the answer. *)
LEMMA TakeStep ==
    ASSUME FlowTypes, RouterTypes, InSync, FlowInv, AnswerInv, Take
    PROVE  AnswerInv'
<1> DEFINE a == wire[1].answer
<1>1. wire # <<>> /\ wire' = Tail(wire)
  BY Zenon DEF Take
<1>2. UNCHANGED <<pc, handled, chain>>
  BY Zenon DEF Take, router
<1>3. /\ pc = "write" /\ answers + 1 = handled /\ answers \in Nat
      /\ Streams(wire, transfer, handled, a)
      /\ Continues(a, handled, joined)
      /\ Resumes(chain, handled, joined, a)
  BY <1>1, Zenon DEF AnswerInv, Between, Touching, Sending
<1>4. CASE wire[1].len = PacketUnits
  <2>1. transfer' = Append(transfer, wire[1]) /\ UNCHANGED <<joined, got, answers>>
    BY <1>4, Zenon DEF Take
  <2>2. /\ wire' # <<>> /\ wire'[1].answer = a
        /\ Streams(wire', transfer', handled, a)
    BY <1>1, <1>3, <1>4, <2>1, TakeFull, Zenon
  <2>3. Sending'
    BY <1>2, <1>3, <2>1, <2>2, Zenon DEF Sending
  <2>4. AnswersInOrder' /\ ChunksJoin'
    BY <2>1, Zenon DEF AnswerInv, AnswersInOrder, ChunksJoin
  <2> QED BY <1>2, <2>1, <2>3, <2>4, Zenon DEF AnswerInv
<1>5. CASE wire[1].len # PacketUnits
  <2> DEFINE u == Append(transfer, wire[1])
  <2>1. /\ transfer' = <<>> /\ answers' = answers + 1
        /\ joined' = [m \in DOMAIN joined |->
                        joined[m] + IF m = a.of THEN a.to - a.from ELSE 0]
        /\ got' = [seqs   |-> {u[k].seq : k \in DOMAIN u},
                   units  |-> (Len(u) - 1) * PacketUnits + wire[1].len,
                   answer |-> a]
    BY <1>5, Zenon DEF Take
  <2>2. /\ wire' = <<>>
        /\ {u[k].seq : k \in DOMAIN u} = {handled}
        /\ (Len(u) - 1) * PacketUnits + wire[1].len = Units(a)
    BY <1>1, <1>3, <1>5, TakeLast, Zenon
  <2>3. /\ joined' \in [1 .. MaxMessages -> Nat]
        /\ \A m \in 1 .. MaxMessages : m > handled => joined'[m] = 0
        /\ a.of # 0 => joined'[a.of] = a.to
        /\ Resumes(chain, handled, joined', Status("none"))
    <3>1. /\ joined \in [1 .. MaxMessages -> Nat]
          /\ \A m \in 1 .. MaxMessages : m > handled => joined[m] = 0
      BY Zenon DEF AnswerInv
    <3>2. handled \in Nat /\ handled <= MaxMessages /\ chain \in ChainType
      BY HandledBound, Zenon DEF FlowTypes, RouterTypes
    <3>3. JoinedUpTo(joined, handled)
      BY <3>1, Zenon DEF JoinedUpTo
    <3>4. joined' = JoinedWith(joined, a)
      BY <2>1, Zenon DEF JoinedWith
    <3> HIDE DEF a
    <3>5. JoinedUpTo(joined', handled)
      BY <1>3, <3>2, <3>3, <3>4, AnswerJoined, Zenon
    <3>6. /\ a.of # 0 => joined'[a.of] = a.to
          /\ Resumes(chain, handled, joined', Status("none"))
      BY <1>3, <3>2, <3>3, <3>4, AnswerJoined, Zenon
    <3> QED BY <3>5, <3>6, Zenon DEF JoinedUpTo
  <2>4. got'.seqs = {handled} /\ got'.units = Units(a) /\ got'.answer = a
    <3> HIDE DEF a, u
    <3> QED BY <2>1, <2>2, Zenon
  <2>5. a.of # 0 /\ a.from = 0 => a.of = handled
    BY <1>3, Zenon DEF Continues
  <2>6. answers' = handled /\ answers' \in Nat
    BY <1>3, <2>1, SMTT(30)
  <2> HIDE DEF a, u
  <2>7. AnswersInOrder'
    BY <2>4, <2>5, <2>6, Zenon DEF AnswersInOrder, Units
  <2>8. ChunksJoin'
    BY <2>3, <2>4, Zenon DEF ChunksJoin
  <2>9. Between'
    BY <1>2, <2>1, <2>2, <2>3, <2>6, Zenon DEF Between
  <2> QED BY <1>2, <1>3, <2>3, <2>6, <2>7, <2>8, <2>9, Zenon DEF AnswerInv
<1> QED BY <1>4, <1>5, Zenon

(* An answer is put on the wire. *)
LEMMA AnswerSent ==
    ASSUME NEW a \in AnswerType, handled' \in Nat, wire' = PacketsOf(handled', a), pc' = "write",
           transfer' = <<>>, answers' + 1 = handled',
           Continues(a, handled', joined'), Resumes(chain', handled', joined', a)
    PROVE  Sending'
<1>1. a.from <= a.to
  BY Zenon DEF Continues
<1>2. wire' # <<>> /\ wire'[1].answer = a /\ Streams(wire', <<>>, handled', a)
  BY <1>1, CutIntoPackets, Zenon
<1> QED BY <1>2, Zenon DEF Sending

(* Card::poll with a complete message. *)
LEMMA PollStep ==
    ASSUME FlowTypes, RouterTypes, InSync, FlowInv, AnswerInv, PollMessage
    PROVE  AnswerInv'
<1> DEFINE h == handled + 1
<1>1. pc = "poll" /\ Complete /\ buffer # <<>> /\ handled' = h
  BY Zenon DEF PollMessage, Complete
<1>2. /\ Between
      /\ UNCHANGED <<transfer, joined, got, answers>>
  BY <1>1, Zenon DEF PollMessage, AnswerInv, Sending, hostSide
<1>3. Frame[1].id = h /\ h \in 1 .. Len(sent)
  BY <1>1, HeadOfBuffer, FrameOfBuffer, SMTT(30)
<1>4. h \in 1 .. MaxMessages /\ h \in Nat /\ h > handled
  BY <1>3, CardAssumption, SMTT(30) DEF FlowTypes
<1>5. joined[h] = 0
  BY <1>4, Zenon DEF AnswerInv
<1>6. FrameAnswers(h, h) \/ FrameWaits(h, h)
  <2>1. PICK r \in Readings(Frame) : HandleFrame(r, h, h)
    BY <1>3, Zenon DEF PollMessage
  <2>2. r \in Request \cup {Garbage}
    BY <1>1, FrameOfBuffer, Zenon
  <2> QED BY <2>1, <2>2, FrameEffect, Zenon DEF FlowTypes
<1>7. AnswersInOrder' /\ ChunksJoin'
  BY <1>2, Zenon DEF AnswerInv, AnswersInOrder, ChunksJoin
<1>8. \A m \in 1 .. MaxMessages : m > handled' => joined'[m] = 0
  BY <1>1, <1>2, CardAssumption DEF AnswerInv, FlowTypes
<1>9. CASE FrameAnswers(h, h)
  <2>1. PICK a \in AnswerType : /\ wire' = PacketsOf(h, a)
                                /\ pc' = "write"
                                /\ Outcome(chain, chain', a, h)
    BY <1>9, Zenon DEF FrameAnswers
  <2>2. Continues(a, h, joined) /\ Resumes(chain', h, joined, a)
    BY <1>2, <1>5, <2>1, OutcomeJoins, Zenon DEF Between, FlowTypes, RouterTypes
  <2>3. transfer' = <<>> /\ answers' + 1 = handled'
    BY <1>1, <1>2, Zenon DEF Between
  <2>4. Sending'
    BY <1>1, <1>2, <1>4, <2>1, <2>2, <2>3, AnswerSent, Zenon
  <2> QED BY <1>2, <1>7, <1>8, <2>4, Zenon DEF AnswerInv
<1>10. CASE FrameWaits(h, h)
  <2>1. /\ parked' = h /\ pc' = "touch" /\ UNCHANGED <<selected, chain, wire>>
        /\ armed' = [armed EXCEPT ![selected] = h] /\ selected \in Applet
    BY <1>10, Zenon DEF FrameWaits
  <2>2. armed'[selected'] = h
    BY <2>1, Zenon DEF RouterTypes
  <2>3. handled' - 1 = handled /\ answers' + 1 = handled'
    BY <1>1, <1>2 DEF Between, FlowTypes
  <2>4. Touching'
    BY <1>1, <1>2, <1>5, <2>1, <2>2, <2>3, Zenon DEF Touching, Between
  <2> QED BY <1>2, <1>7, <1>8, <2>1, <2>4, Zenon DEF AnswerInv
<1> QED BY <1>6, <1>9, <1>10, Zenon

(* The touch, or the end of the wait for it. *)
LEMMA TouchStep ==
    ASSUME FlowTypes, RouterTypes, InSync, FlowInv, AnswerInv, Touch
    PROVE  AnswerInv'
<1>1. pc = "touch" /\ Touching
  BY Zenon DEF Touch, AnswerInv, Sending
<1>2. UNCHANGED <<transfer, joined, got, answers, handled, chain>> /\ pc' = "write"
  BY Zenon DEF Touch, TouchDone, hostSide, router
<1>3. answers \in Nat /\ handled \in Nat /\ answers + 1 = handled /\ joined[handled] = 0
  BY <1>1, Zenon DEF AnswerInv, FlowTypes, Touching
<1>4. AnswersInOrder' /\ ChunksJoin'
  BY <1>2, Zenon DEF AnswerInv, AnswersInOrder, ChunksJoin
<1>5. ASSUME NEW a \in AnswerType, a.from = 0, a.of \in {0, handled},
             wire' = PacketsOf(handled, a)
      PROVE  AnswerInv'
  <2>1. a.to \in Nat /\ a.from <= a.to
    BY <1>5 DEF AnswerType
  <2>2. Continues(a, handled, joined)
    BY <1>3, <1>5, <2>1 DEF Continues
  <2>3. Resumes(chain, handled, joined, a)
    <3>1. Resumes(chain, handled - 1, joined, Status("none")) /\ Status("none").of = 0
      BY <1>1, Zenon DEF Touching, Status
    <3>2. ASSUME IsPending(chain)
          PROVE  /\ chain.of \in 1 .. handled /\ chain.of # 0 /\ chain.of # handled
                 /\ chain.delivered > 0 /\ chain.delivered = joined[chain.of]
      BY <1>3, <3>1, <3>2, SMTT(30) DEF Resumes
    <3> QED BY <1>5, <3>2, Zenon DEF Resumes
  <2>4. Sending'
    BY <1>1, <1>2, <1>3, <1>5, <2>2, <2>3, AnswerSent, Zenon DEF Touching
  <2> QED BY <1>2, <1>4, <2>4, Zenon DEF AnswerInv
<1>6. parked = handled /\ armed[selected] = handled
  BY <1>1, Zenon DEF Touching
<1>7. CASE TouchDone(Status("failed"))
  <2>1. /\ Status("failed") \in AnswerType
        /\ Status("failed").from = 0 /\ Status("failed").of = 0
    BY Zenon DEF Status, AnswerType
  <2> QED BY <1>5, <1>6, <1>7, <2>1, Zenon DEF TouchDone
<1>8. ASSUME NEW len \in ResponseLen, TouchDone(Chunk(armed[selected], 0, len, "ok"))
      PROVE  AnswerInv'
  <2> DEFINE a == Chunk(handled, 0, len, "ok")
  <2>1. a \in AnswerType /\ a.from = 0 /\ a.of = handled
    BY <1>3, CardAssumption, Zenon DEF Chunk, AnswerType
  <2> QED BY <1>5, <1>6, <1>8, <2>1, Zenon DEF TouchDone
<1> QED BY <1>7, <1>8, Zenon DEF Touch

(* Each step keeps what is said of the answers. *)
LEMMA AnswerStep ==
    ASSUME FlowTypes, RouterTypes, InSync, FlowInv, AnswerInv, [Next]_vars, InSync'
    PROVE  AnswerInv'
<1>1. CASE (\E r \in Request : Send(r)) \/ UNCHANGED vars
  <2>1. UNCHANGED <<wire, transfer, joined, got, answers, handled, chain, parked, armed, selected,
                    pc>>
    BY <1>1, Zenon DEF Send, router, vars
  <2> QED BY <2>1, AnswersKept, Zenon
<1>2. CASE Cancel \/ WriteFails
  BY <1>2, SMTT(30) DEF Cancel, WriteFails, InSync
<1>3. CASE Take
  BY <1>3, TakeStep, Zenon
<1>4. CASE ReadPacket
  <2>1. ~(Len(buffer) + 1 > Capacity)
    BY <1>4, RoomForPacket, Zenon DEF ReadPacket
  <2>2. /\ UNCHANGED <<wire, transfer, joined, got, answers, handled, chain, parked, armed,
                       selected>>
        /\ pc = "read" /\ pc' = "poll"
    BY <1>4, <2>1, Zenon DEF ReadPacket, hostSide, router
  <2> QED BY <2>2, AnswersKept, Zenon
<1>5. CASE PollNothing \/ Written
  <2>1. /\ UNCHANGED <<wire, transfer, joined, got, answers, handled, chain, parked, armed,
                       selected>>
        /\ pc # "touch" /\ pc' # "touch" /\ (pc # "write" \/ wire = <<>>)
    BY <1>5, Zenon DEF PollNothing, Written, hostSide, router
  <2> QED BY <2>1, AnswersKept, Zenon
<1>6. CASE PollOversized
  BY <1>6, HeadOfBuffer, Zenon DEF PollOversized, Oversized
<1>7. CASE PollMessage
  BY <1>7, PollStep, Zenon
<1>8. CASE Touch
  BY <1>8, TouchStep, Zenon
<1> QED BY <1>1, <1>2, <1>3, <1>4, <1>5, <1>6, <1>7, <1>8, Zenon DEF Next, Task

(***************************************************************************)
(* A host that is not disturbed has the k-th message's answer as its k-th  *)
(* transfer, whole, and the chunks of a response join without a byte       *)
(* missing or twice; and a sequence number is parked exactly while a touch *)
(* is awaited (card.rs, router.rs, board ccid.rs).                         *)
(***************************************************************************)
THEOREM WholeAnswersInOrder == Spec => []CardInv
<1>1. Init => CardIInv
  <2> SUFFICES ASSUME Init
               PROVE  CardIInv
    BY Zenon
  <2>1. FlowTypes
    BY CardAssumption, SMTT(30) DEF Init, FlowTypes
  <2>2. RouterTypes
    <3>1. NoChain \in ChainType /\ NoChain.delivered <= NoChain.len
      BY ApduAssumption, SMTT(30) DEF NoChain, ChainType
    <3>2. (pc = "touch") = (parked # None) /\ parked \in 0 .. MaxMessages
      BY CardAssumption, SMTT(30) DEF Init, None
    <3>3. armed \in [Applet -> Nat]
      BY Zenon DEF Init, None
    <3> QED BY <3>1, <3>2, <3>3, Zenon DEF Init, RouterTypes
  <2>3. FlowInv
    <3>1. buffer \o bulk = <<>> /\ sent = <<>> /\ handled = 0 /\ buffer = <<>>
      BY SMTT(30) DEF Init
    <3> QED BY <3>1, SMTT(30) DEF FlowInv, Flow
  <2>4. AnswerInv
    <3>1. Between
      BY NothingPending, Zenon DEF Init, Between, Resumes
    <3>2. ChunksJoin
      BY Zenon DEF Init, ChunksJoin, Status
    <3>3. joined \in [1 .. MaxMessages -> Nat] /\ \A m \in 1 .. MaxMessages : joined[m] = 0
      BY Zenon DEF Init
    <3> QED BY <3>1, <3>2, <3>3, SMTT(30) DEF Init, AnswerInv, AnswersInOrder
  <2> QED BY <2>1, <2>2, <2>3, <2>4, Zenon DEF CardIInv
<1>2. CardIInv /\ [Next]_vars => CardIInv'
  BY FlowTypesStep, RouterTypesStep, SyncBefore, FlowStep, AnswerStep, Zenon DEF CardIInv
<1>3. CardIInv => CardInv
  <2> SUFFICES ASSUME CardIInv
               PROVE  CardInv
    BY Zenon
  <2>1. TypeOK
    <3>1. \A k \in DOMAIN sent : sent[k] \in Request
      BY DEF CardIInv, FlowTypes
    <3>2. 0 <= chain.delivered /\ chain.delivered <= chain.len /\ chain.len <= ResponseBytes
      BY ApduAssumption DEF CardIInv, RouterTypes, ChainType
    <3> QED BY <3>1, <3>2, Zenon DEF CardIInv, FlowTypes, RouterTypes, TypeOK
  <2>2. AnswersInOrder
    BY Zenon DEF CardIInv, AnswerInv, AnswersInOrder
  <2>3. ChunksJoin
    BY Zenon DEF CardIInv, AnswerInv, ChunksJoin
  <2> QED BY <2>1, <2>2, <2>3, Zenon DEF CardInv
<1> QED BY <1>1, <1>2, <1>3, PTL DEF Spec
=============================================================================

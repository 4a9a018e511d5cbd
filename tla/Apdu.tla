-------------------------------- MODULE Apdu --------------------------------
(***************************************************************************)
(* Command APDUs and response chaining: aegis-applets/src/apdu.rs.         *)
(*                                                                         *)
(* A frame is its four-byte header, kept as one value, and its body, a     *)
(* sequence of bytes.  A byte is a digit in base ByteBase (256), so that   *)
(* the boundaries of the length fields are met on short bodies.            *)
(***************************************************************************)
EXTENDS Integers, Sequences

CONSTANTS
    ByteBase,       \* values of a byte, and SHORT_RESPONSE_LIMIT
    ResponseBytes   \* N: the largest response the card can buffer

ASSUME ApduAssumption ==
    /\ ByteBase \in Nat \ {0, 1}
    /\ ResponseBytes \in Nat

Byte == 0 .. (ByteBase - 1)
NoLe == -1
WrongLength == [data |-> <<>>, le |-> NoLe, extended |-> FALSE, error |-> TRUE]

U16(hi, lo) == hi * ByteBase + lo
Parsed(data, le, ext) == [data |-> data, le |-> le, extended |-> ext, error |-> FALSE]

(* Faulty: an Le of zero asks for no bytes. *)
ZeroMeansNone(value, zeroMeans) == value

(* normalise: an Le of zero stands for the largest one. *)
Normalise(value, zeroMeans) == IF value = 0 THEN zeroMeans ELSE value

(***************************************************************************)
(* Apdu::parse of the body, by the ISO 7816 case it is.                    *)
(***************************************************************************)
ParseExtended(body) ==
    LET first == U16(body[2], body[3])
        rest  == SubSeq(body, 4, Len(body))
    IN  IF rest = <<>>
        THEN Parsed(<<>>, Normalise(first, ByteBase * ByteBase), TRUE)
        ELSE IF Len(rest) = first
        THEN Parsed(rest, NoLe, TRUE)
        ELSE IF Len(rest) = first + 2
        THEN Parsed(SubSeq(rest, 1, first),
                    Normalise(U16(rest[first + 1], rest[first + 2]), ByteBase * ByteBase),
                    TRUE)
        ELSE WrongLength

ParseShort(body) ==
    LET lc   == body[1]
        rest == Tail(body)
    IN  IF rest = <<>>
        THEN Parsed(<<>>, Normalise(lc, ByteBase), FALSE)
        ELSE IF Len(rest) = lc
        THEN Parsed(rest, NoLe, FALSE)
        ELSE IF Len(rest) = lc + 1
        THEN Parsed(SubSeq(rest, 1, lc), Normalise(rest[lc + 1], ByteBase), FALSE)
        ELSE WrongLength

Parse(body) ==
    IF body = <<>>
    THEN Parsed(<<>>, NoLe, FALSE)
    ELSE IF body[1] = 0 /\ Len(body) > 1
    THEN IF Len(body) < 3 THEN WrongLength ELSE ParseExtended(body)
    ELSE ParseShort(body)

ExpectedLen(apdu) == IF apdu.le = NoLe THEN 0 ELSE apdu.le

(***************************************************************************)
(* The reference: how ISO 7816-4 writes a command with this data and Le.   *)
(* Le is written modulo its field, so the largest one is written as zero.  *)
(***************************************************************************)
Field16(n) == <<n \div ByteBase, n % ByteBase>>

(* The data and the Le there is a short, or an extended, form for.  A      *)
(* command with neither has no extended form.                              *)
Writable(data, le, ext) ==
    LET limit == IF ext THEN ByteBase * ByteBase ELSE ByteBase
    IN  /\ ext \in BOOLEAN
        /\ data \in Seq(Byte)
        /\ Len(data) < limit
        /\ le \in {NoLe} \cup 1 .. limit
        /\ ext => data # <<>> \/ le # NoLe

IsoBody(data, le, ext) ==
    LET lc  == IF data = <<>> THEN <<>> ELSE IF ext THEN Field16(Len(data)) ELSE <<Len(data)>>
        end == IF le = NoLe THEN <<>>
               ELSE IF ext THEN Field16(le % (ByteBase * ByteBase)) ELSE <<le % ByteBase>>
        body == lc \o data \o end
    IN  IF ext /\ body # <<>> THEN <<0>> \o body ELSE body

(***************************************************************************)
(* The chainer: a response held for GET RESPONSE.  of names the response,  *)
(* so that a property can tell whose bytes are served.                     *)
(***************************************************************************)
NoChain == [of |-> 0, len |-> 0, delivered |-> 0]

IsPending(chain) == chain.delivered < chain.len

(* A chunk: bytes from + 1 .. to of the response of; more is 61xx. *)
Chunk(of, from, to, more) == [of |-> of, from |-> from, to |-> to, sw |-> more]
Status(sw) == [of |-> 0, from |-> 0, to |-> 0, sw |-> sw]

Limit(le) == IF le = 0 THEN ByteBase ELSE le

(* deliver: the next chunk and the chain after it. *)
Deliver(chain, le) ==
    IF chain.len - chain.delivered <= Limit(le)
    THEN [chain |-> [chain EXCEPT !.delivered = chain.len],
          answer |-> Chunk(chain.of, chain.delivered, chain.len, "ok")]
    ELSE [chain |-> [chain EXCEPT !.delivered = @ + Limit(le)],
          answer |-> Chunk(chain.of, chain.delivered, chain.delivered + Limit(le), "more")]

(* begin: a new response replaces the old one, or fails closed. *)
Begin(of, len, le) ==
    IF len > ResponseBytes
    THEN [chain |-> NoChain, answer |-> Status("failed")]
    ELSE Deliver([of |-> of, len |-> len, delivered |-> 0], le)

(* get_response *)
GetResponse(chain, le) ==
    IF IsPending(chain)
    THEN Deliver(chain, le)
    ELSE [chain |-> chain, answer |-> Status("failed")]
=============================================================================

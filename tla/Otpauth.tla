------------------------------ MODULE Otpauth ------------------------------
(***************************************************************************)
(* What `oath add` makes of an otpauth:// URI, and the credential name that*)
(* carries the period (aegistoken-host/src/oath_cmd.rs).  Text is a        *)
(* sequence of character codes; the URI is split into its parts, whose     *)
(* query parameters keep their values, Missing or Invalid.                 *)
(***************************************************************************)
EXTENDS Integers, Sequences

Missing == -1
Invalid == -2

TypeHotp == 16
TypeTotp == 32

InRange(c, first, last) == first <= c /\ c <= last
Slash == 47

(* base32_value: 'A'..'Z', 'a'..'z', '2'..'7' *)
Base32Value(c) ==
    IF InRange(c, 65, 90) THEN c - 65
    ELSE IF InRange(c, 97, 122) THEN c - 97
    ELSE IF InRange(c, 50, 55) THEN c - 50 + 26
    ELSE Invalid

(* The characters that are neither white space nor '='. *)
Clean(text) == SelectSeq(text, LAMBDA c : c \notin {9, 10, 13, 32, 61})

(* The loop of base32_decode: bits holds the count bits not yet written. *)
RECURSIVE Base32Bytes(_, _, _)
Base32Bytes(text, bits, count) ==
    IF text = <<>>
    THEN <<>>
    ELSE LET all == bits * 32 + Base32Value(text[1])
             n   == count + 5
         IN  IF n >= 8
             THEN <<all \div 2 ^ (n - 8)>>
                    \o Base32Bytes(Tail(text), all % 2 ^ (n - 8), n - 8)
             ELSE Base32Bytes(Tail(text), all, n)

(***************************************************************************)
(* RFC 4648: the characters are the digits of one number in base 32, the   *)
(* bytes its whole octets from the top.                                    *)
(***************************************************************************)
RECURSIVE Base32Number(_)
Base32Number(text) ==
    IF text = <<>> THEN 0
    ELSE 32 * Base32Number(SubSeq(text, 1, Len(text) - 1)) + Base32Value(text[Len(text)])

Rfc4648(text) ==
    [i \in 1 .. ((5 * Len(text)) \div 8) |->
        (Base32Number(text) \div 2 ^ (5 * Len(text) - 8 * i)) % 256]

(* hex_digit *)
HexDigit(c) ==
    IF InRange(c, 48, 57) THEN c - 48
    ELSE IF InRange(c, 97, 102) THEN c - 87
    ELSE IF InRange(c, 65, 70) THEN c - 55
    ELSE Invalid

(***************************************************************************)
(* percent_decode: an escape is the two characters after the '%', consumed *)
(* also when they are not digits.                                          *)
(***************************************************************************)
First(text, chars) ==
    LET at == {i \in DOMAIN text : text[i] \in chars}
    IN  IF at = {} THEN 0 ELSE CHOOSE i \in at : \A k \in at : i <= k

RECURSIVE PercentDecode(_)
PercentDecode(text) ==
    LET at    == First(text, {37})
        plain == [i \in 1 .. (IF at = 0 THEN Len(text) ELSE at - 1) |->
                    IF text[i] = 43 THEN 32 ELSE text[i]]
        hi    == IF at + 1 <= Len(text) THEN HexDigit(text[at + 1]) ELSE Invalid
        lo    == IF at + 2 <= Len(text) THEN HexDigit(text[at + 2]) ELSE Invalid
    IN  IF at = 0
        THEN plain
        ELSE plain \o <<IF Invalid \in {hi, lo} THEN 37 ELSE 16 * hi + lo>>
                   \o PercentDecode(SubSeq(text, at + 3, Len(text)))

(* String::as_bytes of characters below 256 *)
RECURSIVE Utf8(_)
Utf8(text) ==
    LET at == First(text, 128 .. 255)
    IN  IF at = 0
        THEN text
        ELSE SubSeq(text, 1, at - 1) \o <<192 + (text[at] \div 64), 128 + (text[at] % 64)>>
               \o Utf8(SubSeq(text, at + 1, Len(text)))

Lower(text) == [i \in DOMAIN text |-> IF InRange(text[i], 65, 90) THEN text[i] + 32 ELSE text[i]]

RECURSIVE Decimal(_)
Decimal(n) == (IF n < 10 THEN <<>> ELSE Decimal(n \div 10)) \o <<48 + (n % 10)>>

(* The name under which a credential is stored: period/issuer:account. *)
Label(uri) ==
    LET label  == PercentDecode(uri.label)
        prefix == PercentDecode(uri.issuer) \o <<58>>
        named  == Len(label) >= Len(prefix)
                    /\ Lower(SubSeq(label, 1, Len(prefix))) = Lower(prefix)
        shown  == IF uri.issuer = <<>> \/ named THEN label ELSE prefix \o label
    IN  Utf8(IF uri.kind = TypeTotp
             THEN Decimal(IF uri.period = Missing THEN 30 ELSE uri.period) \o <<Slash>> \o shown
             ELSE shown)

Or(value, default) == IF value = Missing THEN default ELSE value

(* parse_otpauth_uri: the checks, in the order of the code *)
UriOk(uri) ==
    /\ uri.kind \in {TypeTotp, TypeHotp}
    /\ uri.secret # <<>>
    /\ Clean(uri.secret) # <<>>
    /\ \A i \in DOMAIN Clean(uri.secret) : Base32Value(Clean(uri.secret)[i]) # Invalid
    /\ Base32Bytes(Clean(uri.secret), 0, 0) # <<>>
    /\ Or(uri.algorithm, 1) \in 1 .. 3
    /\ Or(uri.digits, 6) \in 6 .. 8
    /\ Or(uri.period, 30) > 0
    /\ uri.counter # Invalid

(* parse_otpauth_uri: the credential *)
Credential(uri) ==
    [name      |-> Label(uri),
     kind      |-> uri.kind,
     algorithm |-> Or(uri.algorithm, 1),
     digits    |-> Or(uri.digits, 6),
     secret    |-> Base32Bytes(Clean(uri.secret), 0, 0),
     counter   |-> IF uri.kind = TypeHotp THEN Or(uri.counter, 0) ELSE 0]

(***************************************************************************)
(* credential_period of the tool: the decimal number before the first '/', *)
(* which parse::<u32> also accepts after a '+'.                            *)
(***************************************************************************)
RECURSIVE Number(_)
Number(digits) ==
    IF digits = <<>> THEN 0
    ELSE 10 * Number(SubSeq(digits, 1, Len(digits) - 1)) + digits[Len(digits)] - 48

CredentialPeriod(name) ==
    LET slash  == First(name, {Slash})
        signed == SubSeq(name, 1, slash - 1)
        digits == IF signed # <<>> /\ signed[1] = 43 THEN Tail(signed) ELSE signed
        number == IF digits # <<>> /\ \A i \in DOMAIN digits : InRange(digits[i], 48, 57)
                   THEN Number(digits) ELSE 0
    IN  IF slash = 0 \/ number = 0 THEN 30 ELSE number
=============================================================================

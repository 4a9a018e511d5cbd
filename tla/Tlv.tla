-------------------------------- MODULE Tlv --------------------------------
(***************************************************************************)
(* BER-TLV data objects: the writer and the reader of the applets          *)
(* (aegis-applets/src/tlv.rs) and those of the host tool (oath_cmd.rs,     *)
(* piv_cmd.rs).  A tag is the sequence of its bytes; lengths stay below    *)
(* ByteBase^2.  The tool reads tags of one byte only.                      *)
(***************************************************************************)
EXTENDS Apdu
LOCAL INSTANCE SequencesExt

High == ByteBase \div 2             \* 0x80
TagMore == ByteBase \div 8          \* 0x20: the low five bits of a tag

NotFound == [found |-> FALSE, value |-> <<>>]
Found(value) == [found |-> TRUE, value |-> value]

(* write_length, append_tlv and encode_tlv_length *)
LengthBytes(n) ==
    IF n < High THEN <<n>>
    ELSE IF n < ByteBase THEN <<High + 1, n>>
    ELSE <<High + 2>> \o Field16(n)

(* write *)
Encode(tag, value) == tag \o LengthBytes(Len(value)) \o value

Malformed == [ok |-> FALSE, tag |-> <<>>, value |-> <<>>, rest |-> <<>>]

(* The object whose header is the first tag and size bytes of bytes. *)
Object(bytes, tag, size, length) ==
    LET start == Len(tag) + size
    IN  IF start + length > Len(bytes)
        THEN Malformed
        ELSE [ok    |-> TRUE,
              tag   |-> tag,
              value |-> SubSeq(bytes, start + 1, start + length),
              rest  |-> SubSeq(bytes, start + length + 1, Len(bytes))]

(* read_tag: up to four bytes; <<>> when there is no tag. *)
ReadTag(bytes) ==
    IF bytes = <<>>
    THEN <<>>
    ELSE IF bytes[1] % TagMore # TagMore - 1
    THEN <<bytes[1]>>
    ELSE LET ends == {k \in 2 .. 4 : k <= Len(bytes) /\ bytes[k] < High}
         IN  IF ends = {} THEN <<>>
             ELSE SubSeq(bytes, 1, CHOOSE k \in ends : \A m \in ends : k <= m)

(* read_length: the length and how many bytes it takes; no indefinite form. *)
ReadLength(bytes) ==
    IF bytes = <<>>
    THEN [ok |-> FALSE]
    ELSE IF bytes[1] < High
    THEN [ok |-> TRUE, length |-> bytes[1], size |-> 1]
    ELSE LET count == bytes[1] - High
         IN  IF count \notin 1 .. 3 \/ Len(bytes) < 1 + count
             THEN [ok |-> FALSE]
             ELSE [ok     |-> TRUE,
                   length |-> FoldLeft(U16, 0, SubSeq(bytes, 2, 1 + count)),
                   size   |-> 1 + count]

(* Reader::next: the tag, then the length after it *)
Headed(bytes, tag, len) ==
    IF tag = <<>> \/ ~len.ok THEN Malformed ELSE Object(bytes, tag, len.size, len.length)
Tagged(bytes, tag) == Headed(bytes, tag, ReadLength(SubSeq(bytes, Len(tag) + 1, Len(bytes))))
Next1(bytes) == Tagged(bytes, ReadTag(bytes))

(* find: object is the one just read *)
RECURSIVE Search(_, _)
Search(object, tag) ==
    IF ~object.ok THEN NotFound
    ELSE IF object.tag = tag THEN Found(object.value)
    ELSE Search(Next1(object.rest), tag)
Find(bytes, tag) == Search(Next1(bytes), tag)

-----------------------------------------------------------------------------
(***************************************************************************)
(* The readers of the host tool.                                           *)
(***************************************************************************)
(* Faulty: a length of one more byte is taken for the length. *)
HostLengthShort(bytes) ==
    IF bytes = <<>> THEN [ok |-> FALSE] ELSE [ok |-> TRUE, length |-> bytes[1], size |-> 1]

(* tlv_read_length: at most two more bytes *)
HostLength(bytes) ==
    IF bytes = <<>>
    THEN [ok |-> FALSE]
    ELSE IF bytes[1] < High
    THEN [ok |-> TRUE, length |-> bytes[1], size |-> 1]
    ELSE IF bytes[1] = High + 1 /\ Len(bytes) >= 2
    THEN [ok |-> TRUE, length |-> bytes[2], size |-> 2]
    ELSE IF bytes[1] = High + 2 /\ Len(bytes) >= 3
    THEN [ok |-> TRUE, length |-> U16(bytes[2], bytes[3]), size |-> 3]
    ELSE [ok |-> FALSE]

(* One round of tlv_find, extract_tlv and TlvIter::next *)
HostNext(bytes) ==
    IF bytes = <<>> THEN Malformed ELSE Headed(bytes, <<bytes[1]>>, HostLength(Tail(bytes)))

(* tlv_find and extract_tlv *)
RECURSIVE HostSearch(_, _)
HostSearch(object, tag) ==
    IF ~object.ok THEN NotFound
    ELSE IF object.tag = tag THEN Found(object.value)
    ELSE HostSearch(HostNext(object.rest), tag)
HostFind(bytes, tag) == HostSearch(HostNext(bytes), tag)

(* tlv_iter: the objects up to the first malformed one *)
RECURSIVE ObjectsFrom(_)
ObjectsFrom(object) ==
    IF ~object.ok THEN <<>> ELSE <<object>> \o ObjectsFrom(HostNext(object.rest))
HostObjects(bytes) == ObjectsFrom(HostNext(bytes))
=============================================================================

---------------------------- MODULE UpdateSession ----------------------------
(***************************************************************************)
(* The firmware-update session of aegis-core/src/update.rs and its handler *)
(* in main.rs: BEGIN checks a header and erases the staging region, WRITE  *)
(* appends a chunk, FINISH reads the region back and verifies it.  Every   *)
(* flash operation can fail part of the way.                               *)
(*                                                                         *)
(* The unit of flash is one value; a cell programmed twice without an      *)
(* erase holds the AND of the two, written Mixed.  Offsets and lengths are *)
(* machine words: the arithmetic of a release build wraps.  A hash is      *)
(* compared by the image it is the hash of.                                *)
(***************************************************************************)
EXTENDS Integers, Sequences

CONSTANTS
    Header,          \* package headers, as BEGIN receives them
    Chunk,           \* the payloads of WRITE: sequences of units
    Erased, Mixed,   \* contents of a cell that are no unit
    NoSession,
    StagingBase,     \* staging runs from here to the end of the flash
    FlashEnd,
    EraseSize,
    Word,            \* 2^32
    InstalledRollback

ASSUME UpdateAssumption ==
    /\ StagingBase \in Nat /\ FlashEnd \in Nat /\ EraseSize \in Nat \ {0}
    /\ StagingBase < FlashEnd /\ FlashEnd < Word

VARIABLES
    session,     \* UpdateHandler::session
    staging,     \* the cells of the staging region
    verified     \* history: the header of the last FINISH that said ok, while staged

updateVars == <<session, staging, verified>>

Cell == StagingBase .. (FlashEnd - 1)

UpdateInit ==
    /\ session = NoSession
    /\ staging = [a \in Cell |-> Erased]
    /\ verified = NoSession

Programmed(old, new) == IF old \in {Erased, new} THEN new ELSE Mixed

(***************************************************************************)
(* BEGIN                                                                   *)
(***************************************************************************)

(* PackageHeader::parse and the rollback floor. *)
Admissible(header) == header.wellFormed /\ header.rollback >= InstalledRollback

EraseEnd(header) ==
    LET blocks == (header.len + EraseSize - 1) \div EraseSize
        length == (blocks * EraseSize) % Word
    IN  (StagingBase + length) % Word

(* FlashStorage::erase refuses a range that is reversed or too long. *)
Erasable(header) == EraseEnd(header) \in StagingBase .. FlashEnd

ErasedTo(end) == [a \in Cell |-> IF a < end THEN Erased ELSE staging[a]]

(* The session before stays when the new one cannot begin. *)
BeginUpdate(header, status) ==
    \/ /\ Admissible(header) /\ Erasable(header)
       /\ status = "ok"
       /\ staging' = ErasedTo(EraseEnd(header))
       /\ session' = [header |-> header, received |-> 0]
       /\ verified' = NoSession
    \/ /\ ~(Admissible(header) /\ Erasable(header))
       /\ status = "error"
       /\ UNCHANGED updateVars

(* The erase fails after some of the region. *)
BeginUpdateFails(header) ==
    /\ Admissible(header) /\ Erasable(header)
    /\ \E end \in StagingBase .. EraseEnd(header) : staging' = ErasedTo(end)
    /\ verified' = NoSession
    /\ UNCHANGED session

(***************************************************************************)
(* WRITE                                                                   *)
(***************************************************************************)
Fits(chunk) ==
    /\ session # NoSession
    /\ session.received + Len(chunk) <= session.header.len

InFlash(chunk) == StagingBase + session.received + Len(chunk) <= FlashEnd

(* The region after the first n units of the chunk have been programmed. *)
After(chunk, n) ==
    LET at == StagingBase + session.received
    IN  [a \in Cell |-> IF a \in at .. (at + n - 1)
                        THEN Programmed(staging[a], chunk[a - at + 1]) ELSE staging[a]]

WriteUpdate(chunk, status) ==
    \/ /\ Fits(chunk) /\ InFlash(chunk)
       /\ status = "ok"
       /\ staging' = After(chunk, Len(chunk))
       /\ session' = [session EXCEPT !.received = @ + Len(chunk)]
       /\ UNCHANGED verified
    \/ /\ ~(Fits(chunk) /\ InFlash(chunk))
       /\ status = "error"
       /\ UNCHANGED updateVars

(* The write fails after some of the chunk; `received` is not advanced. *)
WriteUpdateFails(chunk) ==
    /\ Fits(chunk) /\ InFlash(chunk)
    /\ \E n \in 0 .. Len(chunk) : staging' = After(chunk, n)
    /\ UNCHANGED <<session, verified>>

(***************************************************************************)
(* FINISH and ABORT                                                        *)
(***************************************************************************)

(* Faulty: the image is taken to be what was written, and not read back. *)
TrustsWrites(header) == header.signed

(* The hash of what the region holds, and the signature over it. *)
ReadsBack(header) ==
    /\ header.len <= FlashEnd - StagingBase
    /\ Len(header.image) = header.len
    /\ \A i \in 1 .. header.len : staging[StagingBase + i - 1] = header.image[i]
    /\ header.signed

Verifies ==
    /\ session # NoSession
    /\ session.received = session.header.len
    /\ session.header.rollback >= InstalledRollback
    /\ ReadsBack(session.header)

(* The session is taken whatever comes of it. *)
FinishUpdate(status) ==
    /\ session' = NoSession
    /\ \/ /\ Verifies
          /\ status = "ok"
          /\ verified' = session.header
       \/ /\ ~Verifies
          /\ status = "error"
          /\ UNCHANGED verified
    /\ UNCHANGED staging

(* A read of the region fails. *)
FinishUpdateFails ==
    /\ session # NoSession
    /\ session' = NoSession
    /\ UNCHANGED <<staging, verified>>

AbortUpdate(status) ==
    /\ status = "ok"
    /\ session' = NoSession
    /\ UNCHANGED <<staging, verified>>

-----------------------------------------------------------------------------
(* What FINISH reported verified is what the staging region holds, bit for *)
(* bit, until the next BEGIN: a session overtaken by a BEGIN that failed   *)
(* after erasing, a chunk written twice or a length that wraps never gets  *)
(* a different image through (update.rs, finish).                          *)
VerifiedImageStaged ==
    verified # NoSession =>
        /\ verified.signed
        /\ verified.rollback >= InstalledRollback
        /\ \A i \in 1 .. Len(verified.image) :
              staging[StagingBase + i - 1] = verified.image[i]
==============================================================================

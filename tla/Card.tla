-------------------------------- MODULE Card --------------------------------
(***************************************************************************)
(* The smart-card front end: the CCID bulk endpoints (board ccid.rs), the  *)
(* task that serves them (run_card in main.rs), the card (card.rs, ccid.rs)*)
(* and the applet router (router.rs).  The applets are abstract: a command *)
(* succeeds with some number of bytes, fails, or asks for a touch.         *)
(*                                                                         *)
(* The host may send the next message before it has the answer to the last *)
(* one.  A message is a number of bulk packets; its first packet carries   *)
(* the CCID header, so the assembler reads the declared length there.  A   *)
(* transfer the host cancels leaves the assembler with packets that are    *)
(* then read as parts of something else: raw is the length such a packet   *)
(* declares when it is taken for a header, and what it asks is arbitrary.  *)
(***************************************************************************)
EXTENDS Apdu, FiniteSets

CONSTANTS
    Applet,        \* the applets of the router
    Request,       \* the messages a host sends
    Workload(_),   \* the sequences of messages a host sends
    ResponseLen,   \* lengths of the responses of an applet
    Capacity,      \* N of the assembler, in packets
    PacketUnits,   \* MAX_PACKET_SIZE of the IN endpoint, in response units
    MaxMessages,   \* bound: messages of a behaviour
    Pipelined,     \* bound: messages sent and not answered
    MaxFaults      \* bound: cancelled transfers and failed writes

None == 0
Unknown == "unknown"
Garbage == [id |-> 0, kind |-> "bad", ins |-> "op", aid |-> Unknown, packets |-> 1, raw |-> 1,
            data |-> <<>>, le |-> NoLe, extended |-> FALSE]

(* A message has a header, so it takes a packet, and a transfer carries a  *)
(* command that ISO 7816-4 can write.                                      *)
ASSUME CardAssumption ==
    /\ \A r \in Request :
          /\ r.packets \in Nat \ {0} /\ r.raw \in Nat \ {0}
          /\ r.aid \in Applet \cup {Unknown}
          /\ r.kind = "xfr" => Writable(r.data, r.le, r.extended)
    /\ ResponseLen \subseteq Nat
    /\ Capacity \in Nat /\ MaxMessages \in Nat
    /\ PacketUnits \in Nat \ {0}

VARIABLES
    sent,      \* the messages of the host, by identity, which is their bSeq
    bulk,      \* packets on the OUT endpoint, not yet read
    buffer,    \* Assembler.buffer
    pc,        \* where run_card is: read, poll, write or touch
    powered,
    selected,  \* Router.selected, an applet or Unknown
    chain,     \* Router.chain
    parked,    \* Card.pending_sequence
    armed,     \* applets: the command waiting for a touch
    wire,      \* packets of the answer on the IN endpoint
    transfer,  \* host: packets of the transfer it is receiving
    joined,    \* history: per response, the bytes the host has joined
    got,       \* history: the last transfer the host completed
    answers,   \* history: transfers the host completed
    handled,   \* history: frames handled, the identity of a command
    since,     \* history: the last command that changed the selection
    faults     \* history: cancelled transfers and failed writes

vars == <<sent, bulk, buffer, pc, powered, selected, chain, parked, armed, wire,
          transfer, joined, got, answers, handled, since, faults>>
router == <<selected, chain, since>>
hostSide == <<sent, transfer, joined, got, answers>>

(***************************************************************************)
(* The answer to message seq on the IN endpoint: a header unit and the     *)
(* bytes of the chunk, cut into packets.                                   *)
(***************************************************************************)
Units(answer) == 1 + answer.to - answer.from

(* Faulty: a transfer that fills its last packet is left open. *)
NeverZlp(len) == FALSE

(* needs_zlp *)
NeedsZlp(len) == len % PacketUnits = 0

(* CcidClass::write *)
PacketsOf(seq, answer) ==
    LET len  == Units(answer)
        full == [k \in 1 .. (len \div PacketUnits) |->
                    [seq |-> seq, answer |-> answer, len |-> PacketUnits]]
        rest == len % PacketUnits
    IN  full \o (IF rest > 0 THEN <<[seq |-> seq, answer |-> answer, len |-> rest]>>
                 ELSE IF NeedsZlp(len) THEN <<[seq |-> seq, answer |-> answer, len |-> 0]>>
                 ELSE <<>>)

Init ==
    /\ sent = <<>> /\ bulk = <<>> /\ buffer = <<>>
    /\ pc = "read" /\ powered = FALSE
    /\ selected = Unknown /\ chain = NoChain /\ parked = None
    /\ armed = [a \in Applet |-> None]
    /\ wire = <<>> /\ transfer = <<>>
    /\ joined = [m \in 1 .. MaxMessages |-> 0]
    /\ got = [seqs |-> {}, units |-> 0, answer |-> Status("none")]
    /\ answers = 0 /\ handled = 0 /\ since = 0 /\ faults = 0

-----------------------------------------------------------------------------
(***************************************************************************)
(* The host.                                                               *)
(***************************************************************************)
Send(r) ==
    /\ Len(sent) < MaxMessages
    /\ Len(sent) - answers < Pipelined
    /\ Workload(Append(sent, r))
    /\ sent' = Append(sent, r)
    /\ bulk' = bulk \o [i \in 1 .. r.packets |-> [id |-> Len(sent) + 1, i |-> i]]
    /\ UNCHANGED <<buffer, pc, powered, router, parked, armed, wire, transfer, joined, got,
                   answers, handled, faults>>

(* The host takes the rest of a transfer back (a timeout, a USB reset). *)
Cancel ==
    /\ faults < MaxFaults
    /\ bulk # <<>>
    /\ bulk[1].i > 1
    /\ bulk' = SubSeq(bulk, sent[bulk[1].id].packets - bulk[1].i + 2, Len(bulk))
    /\ faults' = faults + 1
    /\ UNCHANGED <<buffer, pc, powered, router, parked, armed, wire, hostSide, handled>>

(***************************************************************************)
(* The host takes a packet of the IN endpoint.  A packet shorter than the  *)
(* endpoint ends the transfer; the host appends its bytes to what it has   *)
(* of that response.                                                       *)
(***************************************************************************)
Take ==
    /\ wire # <<>>
    /\ wire' = Tail(wire)
    /\ LET p     == wire[1]
           whole == Append(transfer, p)
       IN  IF p.len = PacketUnits
           THEN transfer' = whole /\ UNCHANGED <<joined, got, answers>>
           ELSE /\ transfer' = <<>>
                /\ answers' = answers + 1
                /\ joined' = [m \in DOMAIN joined |->
                                joined[m] + IF m = p.answer.of
                                            THEN p.answer.to - p.answer.from ELSE 0]
                /\ got' = [seqs   |-> {whole[k].seq : k \in DOMAIN whole},
                           units  |-> (Len(whole) - 1) * PacketUnits + p.len,
                           answer |-> p.answer]
    /\ UNCHANGED <<sent, bulk, buffer, pc, powered, router, parked, armed, handled, faults>>

-----------------------------------------------------------------------------
(***************************************************************************)
(* The assembler.                                                          *)
(***************************************************************************)
Declared(p) == IF p.i = 1 THEN sent[p.id].packets ELSE sent[p.id].raw

Oversized == buffer # <<>> /\ Declared(buffer[1]) > Capacity
Complete == buffer # <<>> /\ ~Oversized /\ Len(buffer) >= Declared(buffer[1])
Frame == SubSeq(buffer, 1, Declared(buffer[1]))

(* Assembler::consume *)
Consume(n) == SubSeq(buffer, n + 1, Len(buffer))

Whole(frame) == \A k \in DOMAIN frame : frame[k] = [id |-> frame[1].id, i |-> k]

(* What Request::parse makes of a frame: mixed bytes may ask anything. *)
Readings(frame) == IF Whole(frame) THEN {sent[frame[1].id]} ELSE Request \cup {Garbage}

(* Card::reset.  The applets keep what they hold. *)
CardReset ==
    /\ selected' = Unknown /\ chain' = NoChain
    /\ buffer' = <<>> /\ powered' = FALSE /\ parked' = None

-----------------------------------------------------------------------------
(***************************************************************************)
(* run_card: read one packet, then serve every complete message.           *)
(***************************************************************************)
ReadPacket ==
    /\ pc = "read"
    /\ bulk # <<>>
    /\ bulk' = Tail(bulk)
    /\ IF Len(buffer) + 1 > Capacity
       THEN /\ CardReset
            /\ since' = handled
            /\ pc' = "read"
       ELSE /\ buffer' = Append(buffer, bulk[1])
            /\ pc' = "poll"
            /\ UNCHANGED <<powered, router, parked>>
    /\ UNCHANGED <<hostSide, armed, wire, handled, faults>>

(* Card::poll with no complete message: wait for the next packet. *)
PollNothing ==
    /\ pc = "poll"
    /\ parked # None \/ ~(Oversized \/ Complete)
    /\ pc' = "read"
    /\ UNCHANGED <<hostSide, bulk, buffer, powered, router, parked, armed, wire, handled, faults>>

(* Card::poll with a declared length the buffer cannot hold. *)
PollOversized ==
    /\ pc = "poll"
    /\ parked = None
    /\ Oversized
    /\ CardReset
    /\ since' = handled
    /\ pc' = "read"
    /\ UNCHANGED <<hostSide, bulk, armed, wire, handled, faults>>

Answer(seq, answer) ==
    /\ wire' = PacketsOf(seq, answer)
    /\ pc' = "write"
    /\ UNCHANGED parked

(***************************************************************************)
(* handle_frame, by the kind of the request; seq is its bSeq and at the    *)
(* number of the command.                                                  *)
(***************************************************************************)
RouterReset(at) ==
    /\ selected' = Unknown
    /\ chain' = NoChain
    /\ since' = at

PowerOn(seq, at) ==
    /\ RouterReset(at)
    /\ powered' = TRUE
    /\ Answer(seq, Status("ok"))
    /\ UNCHANGED armed

PowerOff(seq, at) ==
    /\ RouterReset(at)
    /\ powered' = FALSE
    /\ Answer(seq, Status("ok"))
    /\ UNCHANGED armed

(* Faulty: the abort is answered and the router is left as it is. *)
AbortKeepsRouter(seq, at) ==
    /\ since' = at
    /\ Answer(seq, Status("ok"))
    /\ UNCHANGED <<powered, armed, selected, chain>>

Abort(seq, at) ==
    /\ RouterReset(at)
    /\ Answer(seq, Status("ok"))
    /\ UNCHANGED <<powered, armed>>

(* Slot status, parameters, data rate, escape; and every refused frame. *)
AnswerOnly(seq) ==
    /\ Answer(seq, Status("ok"))
    /\ UNCHANGED <<powered, router, armed>>

Refuse(seq) ==
    /\ Answer(seq, Status("failed"))
    /\ UNCHANGED <<powered, router, armed>>

(* Faulty: a new selection leaves the response of the old one to be read. *)
SelectKeepsChain(r, seq, at) ==
    /\ selected' = r.aid
    /\ since' = at
    /\ UNCHANGED <<powered, chain, armed>>
    /\ Answer(seq, Status(IF r.aid \in Applet THEN "ok" ELSE "failed"))

(* SELECT by DF name: the first applet whose AID starts the data, or none. *)
Select(r, seq, at) ==
    /\ selected' = r.aid
    /\ chain' = NoChain
    /\ since' = at
    /\ UNCHANGED <<powered, armed>>
    /\ Answer(seq, Status(IF r.aid \in Applet THEN "ok" ELSE "failed"))

(* GET RESPONSE and SEND REMAINING *)
Remaining(seq, le) ==
    LET next == GetResponse(chain, le)
    IN  /\ chain' = next.chain
        /\ Answer(seq, next.answer)
        /\ UNCHANGED <<powered, selected, since, armed>>

(* Applet::process succeeds with some bytes, fails, or asks for a touch. *)
Process(seq, at, le) ==
    \/ \E len \in ResponseLen :
          LET first == Begin(at, len, le)
          IN  /\ chain' = first.chain
              /\ Answer(seq, first.answer)
              /\ UNCHANGED <<powered, selected, since, armed>>
    \/ Refuse(seq)
    \/ /\ armed' = [armed EXCEPT ![selected] = at]
       /\ parked' = seq
       /\ pc' = "touch"
       /\ UNCHANGED <<powered, router, wire>>

(* Router::command *)
Command(r, seq, at) ==
    LET apdu == Parse(IsoBody(r.data, r.le, r.extended))
        le   == ExpectedLen(apdu)
    IN  IF apdu.error \/ r.ins = "foreign"
        THEN Refuse(seq)
        ELSE IF r.ins = "select"
        THEN Select(r, seq, at)
        ELSE IF r.ins = "get" \/ (r.ins = "remaining" /\ IsPending(chain))
        THEN Remaining(seq, le)
        ELSE IF selected = Unknown
        THEN Refuse(seq)
        ELSE Process(seq, at, le)

HandleFrame(r, seq, at) ==
    \/ r.kind = "on" /\ PowerOn(seq, at)
    \/ r.kind = "off" /\ PowerOff(seq, at)
    \/ r.kind = "abort" /\ Abort(seq, at)
    \/ r.kind = "query" /\ AnswerOnly(seq)
    \/ r.kind = "bad" /\ Refuse(seq)
    \/ r.kind = "xfr" /\ ~powered /\ Refuse(seq)
    \/ r.kind = "xfr" /\ powered /\ Command(r, seq, at)

(* Card::poll with a complete message: handled and consumed. *)
PollMessage ==
    /\ pc = "poll"
    /\ parked = None
    /\ Complete
    /\ \E r \in Readings(Frame) : HandleFrame(r, Frame[1].id, handled + 1)
    /\ handled' = handled + 1
    /\ buffer' = Consume(Len(Frame))
    /\ UNCHANGED <<hostSide, bulk, faults>>

(* Faulty: the parked sequence is left in place. *)
TouchKeepsParked(a) ==
    /\ pc = "touch"
    /\ parked # None
    /\ wire' = PacketsOf(parked, a)
    /\ pc' = "write"
    /\ armed' = [armed EXCEPT ![selected] = None]
    /\ UNCHANGED <<hostSide, bulk, buffer, powered, router, parked, handled, faults>>

(***************************************************************************)
(* The touch arrives, or the wait ends without one: complete_presence.     *)
(* What the applet then answers is not chained.                            *)
(***************************************************************************)
TouchDone(a) ==
    /\ pc = "touch"
    /\ parked # None
    /\ wire' = PacketsOf(parked, a)
    /\ pc' = "write"
    /\ parked' = None
    /\ armed' = [armed EXCEPT ![selected] = None]
    /\ UNCHANGED <<hostSide, bulk, buffer, powered, router, handled, faults>>

Touch ==
    /\ pc = "touch"
    /\ \/ TouchDone(Status("failed"))
       \/ \E len \in {n \in ResponseLen : n <= ResponseBytes} :
             TouchDone(Chunk(armed[selected], 0, len, "ok"))

(* The answer is out: look for the next complete message. *)
Written ==
    /\ pc = "write"
    /\ wire = <<>>
    /\ pc' = "poll"
    /\ UNCHANGED <<hostSide, bulk, buffer, powered, router, parked, armed, wire, handled, faults>>

(* The write fails: the rest of the answer is dropped, the card is not reset. *)
WriteFails ==
    /\ pc = "write"
    /\ wire # <<>>
    /\ faults < MaxFaults
    /\ faults' = faults + 1
    /\ wire' = <<>>
    /\ pc' = "read"
    /\ UNCHANGED <<hostSide, bulk, buffer, powered, router, parked, armed, handled>>

Task == ReadPacket \/ PollNothing \/ PollOversized \/ PollMessage \/ Written

Next == (\E r \in Request : Send(r)) \/ Cancel \/ Take \/ Task \/ Touch \/ WriteFails

Spec == Init /\ [][Next]_vars /\ WF_vars(Task) /\ WF_vars(Touch) /\ WF_vars(Take)

-----------------------------------------------------------------------------
(* The types; and a sequence number is parked exactly while a touch is     *)
(* awaited (card.rs, poll and complete_presence).                          *)
TypeOK ==
    /\ \A k \in DOMAIN sent : sent[k] \in Request
    /\ Len(buffer) <= Capacity
    /\ pc \in {"read", "poll", "write", "touch"}
    /\ powered \in BOOLEAN
    /\ selected \in Applet \cup {Unknown}
    /\ 0 <= chain.delivered /\ chain.delivered <= chain.len /\ chain.len <= ResponseBytes
    /\ parked \in 0 .. MaxMessages
    /\ armed \in [Applet -> Nat]
    /\ (pc = "touch") = (parked # None)

(* Nothing was cancelled, lost or too long: the two ends agree on frames. *)
InSync == faults = 0 /\ \A k \in DOMAIN sent : sent[k].packets <= Capacity

(***************************************************************************)
(* The k-th transfer a host completes is the k-th message's answer, whole  *)
(* and nothing else: answers keep their bSeq, keep the order of the        *)
(* messages though touches delay some of them, and one transfer never runs *)
(* into the next.  New data in it was made by that command.                *)
(***************************************************************************)
AnswersInOrder ==
    InSync /\ answers > 0 =>
        /\ got.seqs = {answers}
        /\ got.units = Units(got.answer)
        /\ got.answer.of # 0 /\ got.answer.from = 0 => got.answer.of = answers

(***************************************************************************)
(* A host that joins the chunks of a response (61xx, GET RESPONSE) has a   *)
(* prefix of it, with no byte missing or twice, whatever it sends between. *)
(***************************************************************************)
ChunksJoin ==
    InSync /\ got.answer.of # 0 => joined[got.answer.of] = got.answer.to

(***************************************************************************)
(* A response that is still to be fetched was made under the selection and *)
(* the power session of now: SELECT, power on and off, abort and a reset   *)
(* of the card drop it, also when the two ends do not agree on frames.     *)
(***************************************************************************)
ResponseOfThisSelection ==
    IsPending(chain) => powered /\ selected # Unknown /\ chain.of > since

(***************************************************************************)
(* The command the router reads is the one the host wrote by ISO 7816-4,   *)
(* in short and in extended form, at the limits of the length fields.      *)
(***************************************************************************)
ParsesAsMeant ==
    \A k \in DOMAIN sent :
        LET r == sent[k]
        IN  r.kind = "xfr" =>
              Parse(IsoBody(r.data, r.le, r.extended)) = Parsed(r.data, r.le, r.extended)

(***************************************************************************)
(* Every message is answered, the ones sent while a touch is awaited too.  *)
(***************************************************************************)
EveryMessageAnswered ==
    \A n \in 1 .. MaxMessages : (Len(sent) >= n) ~> (answers >= n \/ ~InSync)
(***************************************************************************)
(* What a host sees of an undisturbed card: whole answers, in the order of *)
(* the messages, whose chunks join up (card.rs, router.rs, board ccid.rs). *)
(***************************************************************************)
CardInv == TypeOK /\ AnswersInOrder /\ ChunksJoin
=============================================================================

------------------------------- MODULE CtapHid -------------------------------
(***************************************************************************)
(* The FIDO transport: CTAPHID framing and channels (ctaphid.rs), the HID  *)
(* endpoints (board hid.rs), the task that serves them (run_fido and what  *)
(* it calls in main.rs), and the presence source, which that task and the  *)
(* card task lock in turn.  A wait for presence is what Presence shows of  *)
(* it: polls, the last of them confirming or timing out.                   *)
(*                                                                         *)
(* Several applications on the host use the interface, each with a channel *)
(* of its own; their reports interleave on the one OUT endpoint.  An       *)
(* application gives a request up at any time (a timeout, a user who       *)
(* cancels) and then resynchronises its channel with INIT, as CTAPHID asks *)
(* of it.  What a request does is abstract: it is answered at once, or it  *)
(* waits for a touch first.                                                *)
(***************************************************************************)
EXTENDS Integers, Sequences

CONSTANTS
    App,             \* applications of the host
    Request,         \* per application, [cmd, packets, up]: its messages
    MaxPackets,      \* MAX_MESSAGE_BYTES, in reports
    Broadcast,       \* BROADCAST_CHANNEL, the largest channel
    MaxPolls,        \* timeout_ms: polls of a wait
    KeepaliveEvery,  \* KEEPALIVE_INTERVAL_MS
    MaxRequests,     \* bound: per application, its requests
    MaxDropped       \* bound: reports read with an error or short

Command == {"init", "ping", "wink", "cbor", "msg", "other"}

ASSUME HidAssumption ==
    /\ \A a \in App : Request[a] \subseteq [cmd : Command, packets : Nat \ {0}, up : BOOLEAN]
    /\ Broadcast \in Nat \ {0}
    /\ MaxPolls \in Nat

Nothing == [chan |-> 0]
InitReq == [cmd |-> "init", packets |-> 1, up |-> FALSE]

VARIABLES
    app,          \* per application: chan, phase, req, k (reports sent), n
    out,          \* the report in the OUT endpoint
    current,      \* Assembler.current
    next_channel,
    job,          \* the message handle_ctaphid serves
    task,         \* where run_fido is
    wire,         \* reports of the IN endpoint
    holder,       \* who holds the presence source
    card,         \* the card task: idle or wanting presence
    elapsed,      \* polls of the wait
    dropped       \* history: reports lost on the way in

device == <<current, next_channel, job, task>>
lock == <<holder, card, elapsed>>
vars == <<app, out, device, wire, lock, dropped>>

Init ==
    /\ app = [a \in App |-> [chan |-> 0, phase |-> "closed", req |-> InitReq, k |-> 0, n |-> 0]]
    /\ out = Nothing /\ current = Nothing /\ job = Nothing
    /\ next_channel = 1
    /\ task = "read" /\ wire = <<>>
    /\ holder = "none" /\ card = "idle" /\ elapsed = 0
    /\ dropped = 0

-----------------------------------------------------------------------------
(***************************************************************************)
(* Reports: init_report and cont_report.  from names the application and   *)
(* its request, for the properties; to the device it is the nonce of an    *)
(* INIT and the payload of the rest.                                       *)
(***************************************************************************)
Report(chan, req, i, from) ==
    [chan |-> chan, first |-> i = 0, cmd |-> req.cmd, length |-> req.packets,
     sequence |-> i - 1, up |-> req.up, from |-> from]

(* send_ctaphid: an answer of that many reports. *)
Answer(chan, kind, packets, from, assigned) ==
    [i \in 1 .. packets |-> [chan |-> chan, kind |-> kind, last |-> i = packets,
                             from |-> from, assigned |-> assigned]]

ErrorReport(chan, from) == Answer(chan, "error", 1, from, 0)

(* allocated_channel *)
Allocated(chan) == chan # 0 /\ chan < next_channel /\ chan # Broadcast

(***************************************************************************)
(* Assembler::accept: the message in progress and the completed message,   *)
(* or an error, after a report.  parts are the reports it is made of.      *)
(***************************************************************************)
Rejected == [now |-> Nothing, message |-> Nothing, error |-> TRUE]
Progress(m) ==
    IF Len(m.parts) >= m.expected
    THEN [now |-> Nothing, message |-> m, error |-> FALSE]
    ELSE [now |-> m, message |-> Nothing, error |-> FALSE]

AcceptInit(p) ==
    IF p.length > MaxPackets
    THEN Rejected
    ELSE Progress([chan |-> p.chan, cmd |-> p.cmd, expected |-> p.length, up |-> p.up,
                   next |-> 0, parts |-> <<p.from>>])

(* Faulty: a continuation is taken whatever channel it is of. *)
AcceptContOfAny(p) ==
    IF current = Nothing \/ p.sequence # current.next
    THEN Rejected
    ELSE Progress([current EXCEPT !.next = @ + 1, !.parts = Append(@, p.from)])

AcceptCont(p) ==
    IF current = Nothing \/ p.chan # current.chan \/ p.sequence # current.next
    THEN Rejected
    ELSE Progress([current EXCEPT !.next = @ + 1, !.parts = Append(@, p.from)])

Accept(p) == IF p.first THEN AcceptInit(p) ELSE AcceptCont(p)

-----------------------------------------------------------------------------
(***************************************************************************)
(* The applications.                                                       *)
(***************************************************************************)
Begin(a, req) == app' = [app EXCEPT ![a].phase = "sending", ![a].req = req, ![a].k = 0,
                                    ![a].n = @ + 1]

(* INIT: for a channel on the broadcast channel, or to resynchronise. *)
Open(a) ==
    /\ app[a].phase \in {"closed", "failed"}
    /\ app[a].n < MaxRequests[a]
    /\ Begin(a, InitReq)
    /\ UNCHANGED <<out, device, wire, lock, dropped>>

Ask(a, req) ==
    /\ app[a].phase = "idle"
    /\ app[a].n < MaxRequests[a]
    /\ Begin(a, req)
    /\ UNCHANGED <<out, device, wire, lock, dropped>>

ChannelOf(a) == IF app[a].chan = 0 THEN Broadcast ELSE app[a].chan

SendReport(a) ==
    /\ app[a].phase = "sending"
    /\ out = Nothing
    /\ out' = Report(ChannelOf(a), app[a].req, app[a].k, <<a, app[a].n>>)
    /\ app' = [app EXCEPT ![a].k = @ + 1,
                          ![a].phase = IF app[a].k + 1 = app[a].req.packets
                                       THEN "waiting" ELSE "sending"]
    /\ UNCHANGED <<device, wire, lock, dropped>>

GiveUp(a) ==
    /\ app[a].phase \in {"sending", "waiting"}
    /\ app' = [app EXCEPT ![a].phase = "failed", ![a].k = 0]
    /\ UNCHANGED <<out, device, wire, lock, dropped>>

(***************************************************************************)
(* An application sees every report of the IN endpoint and takes the ones  *)
(* of its channel.  While it opens, it takes only the INIT answer with its *)
(* nonce, and an error on that channel.                                    *)
(***************************************************************************)
Opening(a) == app[a].req.cmd = "init"

Sees(a, r) ==
    /\ app[a].phase \in {"sending", "waiting"}
    /\ r.chan = ChannelOf(a)
    /\ r.kind # "keepalive"
    /\ r.last
    /\ Opening(a) => r.kind = "error" \/ (r.kind = "init" /\ r.from = <<a, app[a].n>>)
    /\ r.kind = "init" => Opening(a)

AfterReport(a, r) ==
    IF ~Sees(a, r)
    THEN app[a]
    ELSE IF r.kind = "error"
    THEN [app[a] EXCEPT !.phase = "failed", !.k = 0]
    ELSE [app[a] EXCEPT !.phase = "idle", !.k = 0,
                        !.chan = IF r.kind = "init" THEN r.assigned ELSE @]

TakeReport ==
    /\ wire # <<>>
    /\ wire' = Tail(wire)
    /\ app' = [a \in App |-> AfterReport(a, wire[1])]
    /\ UNCHANGED <<out, device, lock, dropped>>

-----------------------------------------------------------------------------
(***************************************************************************)
(* run_fido.                                                               *)
(***************************************************************************)
Write(reports) == wire' = reports /\ task' = "write"

(* A report that cannot be read, or is not of the report size. *)
DropReport ==
    /\ task = "read"
    /\ out # Nothing
    /\ dropped < MaxDropped
    /\ dropped' = dropped + 1
    /\ out' = Nothing
    /\ UNCHANGED <<app, device, wire, lock>>

(* Faulty: a report that does not fit the message in progress is ignored. *)
AcceptedSilently(p) ==
    LET r == Accept(p)
    IN  /\ current' = r.now
        /\ job' = r.message
        /\ task' = IF r.message # Nothing THEN "handle" ELSE "read"
        /\ UNCHANGED wire

(* The outcome of accept: a message to handle, more to read, or an error. *)
Accepted(p) ==
    LET r == Accept(p)
    IN  /\ current' = r.now
        /\ job' = r.message
        /\ IF r.error
           THEN Write(ErrorReport(p.chan, p.from))
           ELSE /\ task' = IF r.message # Nothing THEN "handle" ELSE "read"
                /\ UNCHANGED wire

ReadReport ==
    /\ task = "read"
    /\ out # Nothing
    /\ out' = Nothing
    /\ IF ~(out.first /\ out.cmd = "init") /\ ~Allocated(out.chan)
       THEN /\ Write(ErrorReport(out.chan, out.from))
            /\ UNCHANGED <<current, job>>
       ELSE Accepted(out)
    /\ UNCHANGED <<app, next_channel, lock, dropped>>

Asker == job.parts[1]

(* init_response; a nonce that is not of eight bytes is one of two reports. *)
InitResponse ==
    IF job.expected # 1
    THEN Write(ErrorReport(job.chan, Asker)) /\ UNCHANGED next_channel
    ELSE IF job.chan = Broadcast
    THEN IF next_channel \in {0, Broadcast}
         THEN Write(ErrorReport(Broadcast, Asker)) /\ UNCHANGED next_channel
         ELSE /\ Write(Answer(Broadcast, "init", 1, Asker, next_channel))
              /\ next_channel' = next_channel + 1
    ELSE IF Allocated(job.chan)
    THEN Write(Answer(job.chan, "init", 1, Asker, job.chan)) /\ UNCHANGED next_channel
    ELSE Write(ErrorReport(job.chan, Asker)) /\ UNCHANGED next_channel

(***************************************************************************)
(* handle_ctaphid.  PING echoes its payload; a CBOR or MSG request that    *)
(* needs the user waits for the presence source; every other command is    *)
(* answered at once, an unknown one with an error.                         *)
(***************************************************************************)
HandleMessage ==
    /\ task = "handle"
    /\ \/ job.cmd = "init" /\ InitResponse
       \/ /\ job.cmd \in {"ping", "wink"}
          /\ Write(Answer(job.chan, job.cmd, IF job.cmd = "ping" THEN job.expected ELSE 1,
                          Asker, 0))
          /\ UNCHANGED next_channel
       \/ /\ job.cmd \in {"cbor", "msg"}
          /\ IF job.up
             THEN task' = "lock" /\ UNCHANGED wire
             ELSE Write(Answer(job.chan, job.cmd, 1, Asker, 0))
          /\ UNCHANGED next_channel
       \/ /\ job.cmd = "other"
          /\ Write(ErrorReport(job.chan, Asker))
          /\ UNCHANGED next_channel
    /\ UNCHANGED <<app, out, current, job, lock, dropped>>

(* The reports are out: read on, or go on waiting after a keepalive. *)
Written ==
    /\ wire = <<>>
    /\ task \in {"write", "keepalive"}
    /\ task' = IF task = "write" THEN "read" ELSE "presence"
    /\ job' = IF task = "write" THEN Nothing ELSE job
    /\ UNCHANGED <<app, out, current, next_channel, wire, lock, dropped>>

(***************************************************************************)
(* The presence source is a mutex; wait_presence_notifying and             *)
(* wait_presence hold it until the wait ends.                              *)
(***************************************************************************)
FidoLock ==
    /\ task = "lock"
    /\ holder = "none"
    /\ holder' = "fido"
    /\ elapsed' = 0
    /\ task' = "presence"
    /\ UNCHANGED <<app, out, current, next_channel, job, wire, card, dropped>>

CardWants ==
    /\ card = "idle"
    /\ card' = "wants"
    /\ UNCHANGED <<app, out, device, wire, holder, elapsed, dropped>>

CardLock ==
    /\ card = "wants"
    /\ holder = "none"
    /\ holder' = "card"
    /\ elapsed' = 0
    /\ UNCHANGED <<app, out, device, wire, card, dropped>>

(* A poll ends the wait, with a touch or the timeout, or is not the last. *)
WaitOver(over) ==
    /\ elapsed = MaxPolls => over
    /\ elapsed' = IF over THEN 0 ELSE elapsed + 1
    /\ holder' = IF over THEN "none" ELSE holder

CardPoll(over) ==
    /\ holder = "card"
    /\ WaitOver(over)
    /\ card' = IF over THEN "idle" ELSE card
    /\ UNCHANGED <<app, out, device, wire, dropped>>

(* The end of the wait answers the request; a keepalive goes out between. *)
FidoPoll(over) ==
    /\ holder = "fido"
    /\ task = "presence"
    /\ WaitOver(over)
    /\ IF over
       THEN Write(Answer(job.chan, job.cmd, 1, Asker, 0))
       ELSE IF elapsed' % KeepaliveEvery = 0
       THEN /\ wire' = Answer(job.chan, "keepalive", 1, Asker, 0)
            /\ task' = "keepalive"
       ELSE UNCHANGED <<task, wire>>
    /\ UNCHANGED <<app, out, current, next_channel, job, card, dropped>>

Polls == \E over \in BOOLEAN : FidoPoll(over) \/ CardPoll(over)

Application(a) == Open(a) \/ (\E req \in Request[a] : Ask(a, req)) \/ SendReport(a) \/ GiveUp(a)

Next ==
    \/ \E a \in App : Application(a)
    \/ TakeReport \/ DropReport \/ ReadReport \/ HandleMessage \/ Written
    \/ FidoLock \/ CardWants \/ CardLock \/ Polls

(***************************************************************************)
(* The tasks run, the timer of a wait fires, and the host's driver takes   *)
(* the reports of the IN endpoint.  A task that waits for the mutex is     *)
(* woken when it is released and gets it before the card task, which first *)
(* answers its command, asks again.                                        *)
(***************************************************************************)
Spec ==
    /\ Init /\ [][Next]_vars
    /\ WF_vars(TakeReport) /\ WF_vars(ReadReport) /\ WF_vars(HandleMessage)
    /\ WF_vars(Written) /\ WF_vars(Polls)
    /\ SF_vars(FidoLock)

-----------------------------------------------------------------------------
(* The types; and the presence source is held by the FIDO task exactly     *)
(* while it waits, and no longer than the timeout (main.rs, run_fido).     *)
TypeOK ==
    /\ \A a \in App : /\ app[a].phase \in {"closed", "idle", "sending", "waiting", "failed"}
                      /\ app[a].chan \in 0 .. (Broadcast - 1)
                      /\ app[a].k <= app[a].req.packets
    /\ next_channel \in 1 .. Broadcast
    /\ task \in {"read", "handle", "lock", "presence", "keepalive", "write"}
    /\ holder \in {"none", "fido", "card"}
    /\ (holder = "fido") = (task \in {"presence", "keepalive"})
    /\ elapsed \in 0 .. MaxPolls

(***************************************************************************)
(* A message that is handled was sent as one message by one application:   *)
(* reports of several channels interleave, are lost and are given up in    *)
(* the middle, and never end up in one payload.                            *)
(***************************************************************************)
MessageIsOfOneRequest ==
    job # Nothing => \A k \in DOMAIN job.parts : job.parts[k] = Asker

(***************************************************************************)
(* The reply an application takes is the one to the request it has open,   *)
(* although it gave up earlier ones whose answers still come, and although *)
(* every application sees every report.                                    *)
(***************************************************************************)
ReplyIsOfRequest ==
    wire # <<>> /\ wire[1].kind # "error" =>
        \A a \in App : Sees(a, wire[1]) => wire[1].from = <<a, app[a].n>>

(***************************************************************************)
(* A request whose reports arrive ends: it is answered, or refused with an *)
(* error because another application's report came in between, also while  *)
(* the card waits for touches of its own.                                  *)
(***************************************************************************)
RequestEnds ==
    \A a \in App : app[a].phase = "waiting" ~> (app[a].phase # "waiting" \/ dropped > 0)
(***************************************************************************)
(* No payload and no reply is ever mixed up between requests (ctaphid.rs,  *)
(* handle_ctaphid in main.rs).                                             *)
(***************************************************************************)
HidInv == TypeOK /\ MessageIsOfOneRequest /\ ReplyIsOfRequest
==============================================================================

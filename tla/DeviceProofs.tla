---------------------------- MODULE DeviceProofs -----------------------------
(***************************************************************************)
(* Proofs about the management channel and the device behind it: the       *)
(* reports of the provisioning tool and of the housekeeping loop are never *)
(* mixed up, whatever is given up, detached or reset; the two-slot store,  *)
(* for every set of payloads and every bound on the sequence numbers below *)
(* the width of the counter; then, of the whole, that every board stays    *)
(* within its profile, that what was committed is loaded again, that the   *)
(* identity is fixed once commissioned, that a verified image is the       *)
(* staged one.                                                             *)
(***************************************************************************)
EXTENDS Housekeeping, TLAPS

(***************************************************************************)
(* The channel.  The invariant says where the reports of a request and of  *)
(* its answer can be: the shapes hold whatever is given up, detached or    *)
(* reset; OneInFlight, as long as nothing was given up, follows the one    *)
(* request through the firmware and back.                                  *)
(***************************************************************************)

(* A report of a request that may be asked, or of its answer. *)
Request == UNION {m.asks : m \in Menu}
Report ==
    [of : Nat, req : Request, kind : {"init", "cont"}, total : 1 .. 2, seq : 1 .. 2]

IsReport(x) == x \in Report /\ (x.kind = "init" <=> x.seq = 1)

Buffer(buf) == buf = Nothing \/ (buf = <<buf[1]>> /\ IsReport(buf[1]))

(* A continuation, and the initialization report it belongs to. *)
Begins(x) == x.kind = "init" /\ x.total = 2
Follows(x, y) == Begins(x) /\ y.kind = "cont" /\ y.of = x.of /\ y.req = x.req

ToolShape ==
    /\ menu \in Menu
    /\ asked \in Nat
    /\ faults \in [givenUp : Nat, flash : Nat, resets : Nat]
    /\ host \in {"idle", "writing", "reading"}
    /\ host # "writing" => sent = 0
    /\ host = "writing" => wish \in Request /\ sent \in 0 .. (RequestReports(wish) - 1)
    /\ host # "idle" => attached

(* The request on its way to the loop: a continuation in the endpoint      *)
(* finds its initialization report in the assembler, whether or not the    *)
(* tool is still there.                                                    *)
RequestShape ==
    /\ Buffer(out) /\ Buffer(current)
    /\ current # Nothing => Begins(current[1])
    /\ out # Nothing /\ out[1].kind = "cont" => current # Nothing /\ Follows(current[1], out[1])
    /\ host = "writing" /\ sent = 1 =>
          \/ /\ out # Nothing
             /\ Begins(out[1]) /\ out[1].of = asked /\ out[1].req = wish
          \/ /\ out = Nothing /\ current # Nothing
             /\ current[1].of = asked /\ current[1].req = wish

ReplyOf(buf) ==
    \/ buf = <<buf[1]>> /\ IsReport(buf[1]) /\ ~Begins(buf[1])
    \/ buf = <<buf[1], buf[2]>> /\ IsReport(buf[1]) /\ IsReport(buf[2]) /\ Follows(buf[1], buf[2])

(* The answer on its way to the tool: what the tool has of it is continued *)
(* by the next report in the endpoint or, failing that, of the loop.       *)
ReplyShape ==
    /\ Buffer(in) /\ Buffer(joined)
    /\ task \in {"reading", "persisting", "replying"}
    /\ task = "reading" => reply = Nothing
    /\ task # "reading" => ReplyOf(reply)
    /\ task = "persisting" => reply[1].kind = "init"
    /\ joined # Nothing =>
          /\ Begins(joined[1])
          /\ \/ in # Nothing /\ Follows(joined[1], in[1])
             \/ in = Nothing /\ task = "replying" /\ Follows(joined[1], reply[1])
    /\ in # Nothing /\ Begins(in[1]) => task = "replying" /\ Follows(in[1], reply[1])

Quiet ==
    /\ out = Nothing /\ in = Nothing /\ current = Nothing /\ joined = Nothing
    /\ task = "reading"

OffShape == phase # "serving" => host = "idle" /\ Quiet /\ ~attached

(* A request written whole and not yet run, ... *)
Underway ==
    /\ out # Nothing /\ out[1].of = asked /\ ~Begins(out[1])
    /\ in = Nothing /\ joined = Nothing /\ task = "reading"
(* ... run, its answer not yet begun, ... *)
Answering ==
    /\ out = Nothing /\ current = Nothing /\ in = Nothing /\ joined = Nothing
    /\ task # "reading" /\ reply[1].kind = "init" /\ reply[1].of = asked
(* ... or with its answer in the endpoint, or half taken from it. *)
Answered ==
    /\ out = Nothing /\ current = Nothing
    /\ \/ /\ in # Nothing /\ in[1].of = asked
          /\ ~Begins(in[1]) => task = "reading"
          /\ in[1].kind = "cont" => joined # Nothing
       \/ /\ in = Nothing /\ joined # Nothing /\ joined[1].of = asked /\ task = "replying"

(* As long as nothing is given up, one request at a time is on the way.    *)
OneInFlight ==
    faults.givenUp = 0 /\ attached =>
        /\ host = "idle" => Quiet
        /\ host = "writing" =>
              /\ in = Nothing /\ joined = Nothing /\ task = "reading"
              /\ sent = 0 => Quiet
        /\ host = "reading" => Underway \/ Answering \/ Answered

(* What the provers need to know of a report, ... *)
LEMMA Reports ==
    \A x : IsReport(x) =>
        /\ x.of \in Nat /\ x.req \in Request /\ x.total \in 1 .. 2
        /\ x.kind = "init" \/ (x.kind = "cont" /\ x.seq = 2)
BY DEF IsReport, Report

(* ... and of the buffers that hold one. *)
LEMMA Buffers ==
    /\ Buffer(Nothing)
    /\ \A x : <<x>> # Nothing /\ <<x>>[1] = x
    /\ \A x : IsReport(x) => Buffer(<<x>>)
    /\ \A buf : Buffer(buf) /\ buf # Nothing => IsReport(buf[1]) /\ buf = <<buf[1]>>
BY Zenon DEF Buffer, Nothing

(* What accept makes of a report, for messages of at most two of them. *)
LEMMA AcceptCases ==
    ASSUME NEW parts, Buffer(parts), NEW x, IsReport(x)
    PROVE  /\ x.kind = "init" => Accept(parts, x) = <<x>>
           /\ x.kind = "cont" /\ parts = Nothing => Accept(parts, x) = Nothing
           /\ parts # Nothing /\ Follows(parts[1], x)
                => Accept(parts, x) = Append(<<parts[1]>>, x)
<1>1. x.kind = "init" => Accept(parts, x) = <<x>>
  BY Zenon DEF Accept
<1>2. x.kind = "cont" /\ parts = Nothing => Accept(parts, x) = Nothing
  BY Zenon DEF Accept
<1>3. ASSUME parts # Nothing, Follows(parts[1], x)
      PROVE  Accept(parts, x) = Append(<<parts[1]>>, x)
  <2>1. x.kind = "cont" /\ parts[1].req = x.req
    BY <1>3, Zenon DEF Follows
  <2>2. parts = <<parts[1]>>
    BY <1>3, Buffers, Zenon
  <2>3. x.seq = 2
    BY <2>1, Reports, Zenon
  <2>4. Len(parts) = 1
    BY <2>2
  <2>5. x.seq = Len(parts) + 1 /\ x.kind # "init"
    BY <2>1, <2>3, <2>4
  <2>6. Accept(parts, x) = Append(parts, x)
    BY <1>3, <2>1, <2>5, Zenon DEF Accept
  <2> QED BY <2>2, <2>6, Zenon
<1> QED BY <1>1, <1>2, <1>3, Zenon

(* Which messages of at most two reports are complete, ... *)
LEMMA CompleteCases ==
    /\ ~Complete(Nothing)
    /\ \A x : Complete(<<x>>) <=> x.total = 1
    /\ \A x, y : Complete(Append(<<x>>, y)) <=> x.total = 2
BY DEF Complete, Nothing

(* ... and which are of one request. *)
LEMMA WholeCases ==
    /\ Whole(Nothing)
    /\ \A x : Whole(<<x>>)
    /\ \A x, y : x.of = y.of => Whole(Append(<<x>>, y))
<1>1. Whole(Nothing)
  BY DEF Whole, Nothing
<1>2. ASSUME NEW x PROVE Whole(<<x>>)
  BY DEF Whole
<1>3. ASSUME NEW x, NEW y, x.of = y.of PROVE Whole(Append(<<x>>, y))
  <2>1. DOMAIN Append(<<x>>, y) = 1 .. 2
    OBVIOUS
  <2>2. Append(<<x>>, y)[1] = x /\ Append(<<x>>, y)[2] = y
    OBVIOUS
  <2> QED BY <1>3, <2>1, <2>2 DEF Whole
<1> QED BY <1>1, <1>2, <1>3, Zenon

(* So a report that begins a message of two leaves it incomplete, and any  *)
(* other completes a message or is dropped.                                *)
LEMMA Joining ==
    ASSUME NEW parts, Buffer(parts), NEW x, IsReport(x),
           parts # Nothing => Begins(parts[1]),
           x.kind = "cont" /\ parts # Nothing => Follows(parts[1], x)
    PROVE  LET joint == Accept(parts, x)
           IN  /\ Begins(x) => joint = <<x>> /\ ~Complete(joint)
               /\ ~Begins(x) /\ (x.kind = "cont" => parts # Nothing) =>
                     /\ Complete(joint)
                     /\ joint[1].of = x.of /\ joint[1].req = x.req
               /\ x.kind = "cont" /\ parts = Nothing => joint = Nothing
               /\ Whole(joint)
<1> DEFINE joint == Accept(parts, x)
<1>1. CASE x.kind = "init"
  <2>1. joint = <<x>>
    BY <1>1, AcceptCases, Zenon
  <2> HIDE DEF joint
  <2>2. Complete(joint) <=> x.total = 1
    BY <2>1, CompleteCases, Zenon
  <2>3. Begins(x) <=> x.total = 2
    BY <1>1, Zenon DEF Begins
  <2>4. x.total \in 1 .. 2
    BY Reports, Zenon
  <2>5. joint[1] = x /\ Whole(joint)
    BY <2>1, WholeCases, Buffers, Zenon
  <2> QED BY <1>1, <2>1, <2>2, <2>3, <2>4, <2>5 DEF joint
<1>2. CASE x.kind = "cont" /\ parts = Nothing
  <2>1. joint = Nothing
    BY <1>2, AcceptCases, Zenon
  <2> HIDE DEF joint
  <2> QED BY <1>2, <2>1, WholeCases, Zenon DEF joint, Begins
<1>3. CASE x.kind = "cont" /\ parts # Nothing
  <2>1. Follows(parts[1], x) /\ Begins(parts[1])
    BY <1>3, Zenon
  <2>2. joint = Append(<<parts[1]>>, x)
    BY <1>3, <2>1, AcceptCases, Zenon
  <2> HIDE DEF joint
  <2>3. parts[1].total = 2 /\ parts[1].of = x.of /\ parts[1].req = x.req
    BY <2>1, Zenon DEF Begins, Follows
  <2>4. joint[1] = parts[1]
    BY <2>2
  <2>5. Complete(joint) /\ Whole(joint)
    BY <2>2, <2>3, CompleteCases, WholeCases, Zenon
  <2> QED BY <1>3, <2>3, <2>4, <2>5, Zenon DEF joint, Begins
<1> QED BY <1>1, <1>2, <1>3, Reports, Zenon

(* The reports of a message of one report, or of two. *)
LEMMA ReportsAre ==
    ASSUME NEW n \in Nat, NEW r \in Request, NEW total \in 1 .. 2
    PROVE  LET reports == ReportsOf(n, r, total)
           IN  /\ ReplyOf(reports) /\ Len(reports) = total
               /\ reports[1].kind = "init" /\ reports[1].of = n /\ reports[1].req = r
               /\ reports[1].total = total /\ IsReport(reports[1])
               /\ total = 2 => Follows(reports[1], reports[2]) /\ IsReport(reports[2])
<1> DEFINE x == [of |-> n, req |-> r, kind |-> "init", total |-> total, seq |-> 1]
           y == [of |-> n, req |-> r, kind |-> "cont", total |-> total, seq |-> 2]
<1>1. CASE total = 1
  <2>1. ReportsOf(n, r, total) = <<x>>
    BY <1>1 DEF ReportsOf
  <2>2. IsReport(x) /\ ~Begins(x)
    BY <1>1 DEF IsReport, Report, Begins
  <2> QED BY <1>1, <2>1, <2>2 DEF ReplyOf
<1>2. CASE total = 2
  <2>1. ReportsOf(n, r, total) = <<x, y>>
    BY <1>2 DEF ReportsOf
  <2>2. IsReport(x) /\ IsReport(y) /\ Follows(x, y)
    BY <1>2 DEF IsReport, Report, Begins, Follows
  <2> QED BY <1>2, <2>1, <2>2 DEF ReplyOf
<1> QED BY <1>1, <1>2

(* The answer to a request begins with an initialization report. *)
LEMMA ReplyIs ==
    \A n \in Nat, r \in Request : \A buf, status :
        buf = ReportsOf(n, r, ReplyReports(r, status)) =>
            ReplyOf(buf) /\ buf[1].kind = "init" /\ buf[1].of = n
<1> SUFFICES ASSUME NEW n \in Nat, NEW r \in Request, NEW status
             PROVE  LET buf == ReportsOf(n, r, ReplyReports(r, status))
                    IN  ReplyOf(buf) /\ buf[1].kind = "init" /\ buf[1].of = n
  OBVIOUS
<1>1. ReplyReports(r, status) \in 1 .. 2
  BY DEF ReplyReports
<1> QED BY <1>1, ReportsAre

(* The inductive invariant. *)
ChannelOK == ToolShape /\ RequestShape /\ ReplyShape /\ OffShape /\ OneInFlight

(* A step that leaves the direction of the requests alone, or cuts it off, *)
(* keeps its shape; ...                                                    *)
LEMMA RequestFrame ==
    ASSUME RequestShape, current' = current,
           \/ UNCHANGED <<asked, wish, host, sent, out>>
           \/ host' # "writing" /\ out' \in {out, Nothing}
    PROVE  RequestShape'
BY Buffers, Zenon DEF RequestShape

(* ... and so for the direction of the answers. *)
LEMMA ReplyFrame ==
    ASSUME ReplyShape, UNCHANGED <<task, reply>>,
           \/ UNCHANGED <<in, joined>>
           \/ joined' = Nothing /\ in' \in {in, Nothing}
    PROVE  ReplyShape'
BY Buffers, Zenon DEF ReplyShape

(* The tool is not writing any more, or still at the same report. *)
LEMMA ToolFrame ==
    ASSUME ToolShape, UNCHANGED <<menu, asked>>,
           faults' \in [givenUp : Nat, flash : Nat, resets : Nat],
           \/ UNCHANGED <<wish, host, sent, attached>>
           \/ host' = "idle" /\ sent' = 0
           \/ host' = "reading" /\ sent' = 0 /\ attached'
    PROVE  ToolShape'
BY Zenon DEF ToolShape

(* Nothing is on the way when a device is switched on. *)
LEMMA ChannelInit == HousekeepingInit => ChannelOK
<1> SUFFICES ASSUME HousekeepingInit PROVE ChannelOK
  BY Zenon
<1>1. /\ Quiet /\ reply = Nothing /\ host = "idle" /\ ~attached /\ sent = 0
      /\ menu \in Menu /\ asked = 0 /\ faults = [givenUp |-> 0, flash |-> 0, resets |-> 0]
  BY Zenon DEF HousekeepingInit, DeviceInit, Quiet
<1>2. ToolShape
  BY <1>1, Zenon DEF ToolShape
<1>3. RequestShape
  BY <1>1, Buffers, Zenon DEF Quiet, RequestShape
<1>4. ReplyShape
  BY <1>1, Buffers, Zenon DEF Quiet, ReplyShape
<1> QED BY <1>1, <1>2, <1>3, <1>4, Zenon DEF ChannelOK, OffShape, OneInFlight

(* The tool asks when its last request has ended, and with nothing given   *)
(* up the channel is then quiet.                                           *)
LEMMA AskKeeps ==
    ASSUME ChannelOK, NEW r \in menu.asks, Ask(r)
    PROVE  ChannelOK'
<1>1. /\ host = "idle" /\ attached
      /\ asked' = asked + 1 /\ wish' = r /\ host' = "writing"
      /\ UNCHANGED <<menu, sent, joined, out, in, current, task, reply, phase, attached, faults>>
  BY Zenon DEF Ask, device, deviceVars
<1>2. ToolShape /\ RequestShape /\ ReplyShape /\ OffShape /\ OneInFlight
  BY Zenon DEF ChannelOK
<1>3. sent = 0 /\ menu \in Menu /\ r \in Request
  BY <1>1, <1>2, Zenon DEF ToolShape, Request
<1>4. ToolShape'
  BY <1>1, <1>2, <1>3 DEF ToolShape, RequestReports
<1>5. RequestShape'
  BY <1>1, <1>2, <1>3 DEF RequestShape
<1>6. ReplyShape'
  BY <1>1, <1>2, ReplyFrame, Zenon
<1>7. OffShape'
  BY <1>1, <1>2, Zenon DEF OffShape
<1>8. OneInFlight'
  BY <1>1, <1>2, Zenon DEF OneInFlight, Quiet
<1> QED BY <1>4, <1>5, <1>6, <1>7, <1>8, Zenon DEF ChannelOK

(* ManagementDevice::request writes its reports in order: a continuation   *)
(* finds the initialization report it belongs to in the firmware's         *)
(* assembler.                                                              *)
LEMMA WriteReportKeeps ==
    ASSUME ChannelOK, WriteReport
    PROVE  ChannelOK'
<1> DEFINE total == RequestReports(wish)
           reports == ReportsOf(asked, wish, total)
           x == reports[sent + 1]
<1>1. /\ host = "writing" /\ attached /\ out = Nothing /\ out' = <<x>>
      /\ UNCHANGED <<menu, asked, joined, in, current, task, reply, phase, attached, faults>>
  BY Zenon DEF WriteReport, device, deviceVars
<1>2. IF sent + 1 = Len(reports)
      THEN host' = "reading" /\ sent' = 0
      ELSE sent' = sent + 1 /\ UNCHANGED <<host, wish>>
  BY Zenon DEF WriteReport
<1>3. ToolShape /\ RequestShape /\ ReplyShape /\ OffShape /\ OneInFlight
  BY Zenon DEF ChannelOK
<1>4. /\ total \in 1 .. 2 /\ sent \in 0 .. (total - 1)
      /\ wish \in Request /\ asked \in Nat
  BY <1>1, <1>3 DEF ToolShape, RequestReports
<1> HIDE DEF total
<1>5. Len(reports) = total
  BY <1>4 DEF ReportsOf
<1>6. /\ reports[1].kind = "init" /\ reports[1].of = asked
      /\ reports[1].req = wish /\ reports[1].total = total /\ IsReport(reports[1])
      /\ total = 2 => Follows(reports[1], reports[2]) /\ IsReport(reports[2])
  <2>1. total \in 1 .. 2 /\ wish \in Request /\ asked \in Nat
    BY <1>4, Zenon
  <2> QED BY <2>1, ReportsAre
<1> HIDE DEF reports
<1>7. IsReport(x)
  BY <1>4, <1>6
<1> HIDE DEF x
<1>8. out' # Nothing /\ out'[1] = x /\ Buffer(out')
  BY <1>1, <1>7, Buffers, Zenon
<1>9. ReplyShape' /\ OffShape'
  BY <1>1, <1>3, ReplyFrame, Zenon DEF OffShape
<1>10. CASE sent + 1 = total
  <2>1. host' = "reading" /\ sent' = 0
    BY <1>2, <1>5, <1>10, Zenon
  <2>2. ToolShape'
    BY <1>1, <1>3, <2>1, ToolFrame, Zenon DEF ToolShape
  <2>3. /\ x.of = asked /\ ~Begins(x)
        /\ x.kind = "cont" => current # Nothing /\ Follows(current[1], x)
    <3>1. CASE sent = 0
      <4>1. x = reports[1] /\ total = 1
        BY <1>4, <1>10, <3>1 DEF x
      <4> QED BY <1>6, <4>1 DEF Begins
    <3>2. CASE sent = 1
      <4>1. x = reports[2] /\ total = 2
        BY <1>4, <1>10, <3>2 DEF x
      <4>2. x.kind = "cont" /\ x.of = asked /\ x.req = wish
        BY <1>6, <4>1, Zenon DEF Follows
      <4>3. /\ current # Nothing /\ Begins(current[1])
            /\ current[1].of = asked /\ current[1].req = wish
        BY <1>1, <1>3, <3>2, Zenon DEF RequestShape
      <4> QED BY <4>2, <4>3, Zenon DEF Begins, Follows
    <3> QED BY <1>4, <3>1, <3>2
  <2>4. RequestShape'
    BY <1>1, <1>3, <1>8, <2>1, <2>3, Zenon DEF RequestShape
  <2>5. OneInFlight'
    BY <1>1, <1>3, <1>8, <2>1, <2>3, Zenon DEF OneInFlight, Underway
  <2> QED BY <1>9, <2>2, <2>4, <2>5, Zenon DEF ChannelOK
<1>11. CASE sent = 0 /\ total = 2
  <2>1. sent' = 1 /\ UNCHANGED <<host, wish>> /\ x = reports[1]
    BY <1>2, <1>5, <1>11 DEF x
  <2>2. ToolShape'
    BY <1>1, <1>3, <1>4, <1>11, <2>1 DEF ToolShape, total
  <2>3. Begins(x) /\ x.of = asked /\ x.req = wish /\ x.kind = "init"
    BY <1>6, <1>11, <2>1, Zenon DEF Begins
  <2>4. RequestShape'
    BY <1>1, <1>3, <1>8, <2>1, <2>3, Zenon DEF RequestShape
  <2>5. OneInFlight'
    BY <1>1, <1>3, <2>1 DEF OneInFlight
  <2> QED BY <1>9, <2>2, <2>4, <2>5, Zenon DEF ChannelOK
<1> QED BY <1>4, <1>10, <1>11

(* The tool keeps a report that begins an answer of two; any other ends    *)
(* the request.                                                            *)
LEMMA ReadReportKeeps ==
    ASSUME ChannelOK, ReadReport
    PROVE  ChannelOK'
<1> DEFINE x == in[1]
           joint == Accept(joined, x)
<1>1. /\ host = "reading" /\ attached /\ in # Nothing /\ in' = Nothing
      /\ UNCHANGED <<menu, asked, wish, sent, out, current, task, reply, phase,
                     attached, faults>>
  BY Zenon DEF ReadReport, device, deviceVars
<1>2. IF joint = Nothing \/ Complete(joint)
      THEN host' = "idle" /\ joined' = Nothing
      ELSE joined' = joint /\ UNCHANGED host
  BY Zenon DEF ReadReport, Taken
<1>3. ToolShape /\ RequestShape /\ ReplyShape /\ OffShape /\ OneInFlight
  BY Zenon DEF ChannelOK
<1>4. /\ IsReport(x) /\ Buffer(joined)
      /\ joined # Nothing => Begins(joined[1]) /\ Follows(joined[1], x)
  BY <1>1, <1>3, Buffers, Zenon DEF ReplyShape
<1>5. /\ Begins(x) => joint = <<x>> /\ ~Complete(joint)
      /\ ~Begins(x) => joint = Nothing \/ Complete(joint)
  <2>1. x.kind = "init" \/ x.kind = "cont"
    BY <1>4, Reports, Zenon
  <2>2. Begins(x) => joint = <<x>> /\ ~Complete(joint)
    BY <1>4, Joining, Zenon
  <2>3. ~Begins(x) /\ (x.kind = "cont" => joined # Nothing) => Complete(joint)
    BY <1>4, Joining, Zenon
  <2>4. x.kind = "cont" /\ joined = Nothing => joint = Nothing
    BY <1>4, Joining, Zenon
  <2> QED BY <2>1, <2>2, <2>3, <2>4, Zenon
<1> HIDE DEF joint
<1>6. Begins(x) => joined' # Nothing /\ joined'[1] = x /\ Buffer(joined') /\ host' = host
  BY <1>2, <1>4, <1>5, Buffers
<1>7. ~Begins(x) => joined' = Nothing /\ host' = "idle"
  BY <1>2, <1>5, Zenon
<1>8. ToolShape'
  BY <1>1, <1>3, <1>6, <1>7, Zenon DEF ToolShape
<1>9. RequestShape' /\ OffShape'
  BY <1>1, <1>3, <1>6, <1>7, RequestFrame, Zenon DEF OffShape
<1>10. ReplyShape'
  <2>1. CASE ~Begins(x)
    BY <1>1, <1>3, <1>7, <2>1, ReplyFrame, Zenon
  <2>2. CASE Begins(x)
    <3>1. task = "replying" /\ Follows(x, reply[1])
      BY <1>1, <1>3, <2>2, Zenon DEF ReplyShape
    <3> QED BY <1>1, <1>3, <1>6, <2>2, <3>1, Buffers, Zenon DEF ReplyShape
  <2> QED BY <2>1, <2>2, Zenon
<1>11. OneInFlight'
  <2> SUFFICES ASSUME faults.givenUp = 0
               PROVE  (Begins(x) => Answered') /\ (~Begins(x) => Quiet')
    BY <1>1, <1>6, <1>7, Zenon DEF OneInFlight
  <2>1. Answered
    BY <1>1, <1>3, Zenon DEF OneInFlight, Underway, Answering
  <2>2. CASE Begins(x)
    <3>1. task = "replying"
      BY <1>1, <1>3, <2>2, Zenon DEF ReplyShape
    <3> QED BY <1>1, <1>6, <2>1, <2>2, <3>1, Zenon DEF Answered
  <2>3. CASE ~Begins(x)
    BY <1>1, <1>7, <2>1, <2>3, Zenon DEF Answered, Quiet
  <2> QED BY <2>2, <2>3, Zenon
<1> QED BY <1>8, <1>9, <1>10, <1>11, Zenon DEF ChannelOK

(* A request that is given up leaves its reports where they are. *)
LEMMA GiveUpKeeps ==
    ASSUME ChannelOK, GiveUp
    PROVE  ChannelOK'
<1>1. /\ host # "idle" /\ host' = "idle" /\ sent' = 0 /\ joined' = Nothing
      /\ UNCHANGED <<menu, asked, out, in, current, task, reply, phase, attached>>
      /\ faults' = [faults EXCEPT !.givenUp = @ + 1]
  BY Zenon DEF GiveUp, HandleLost, device, deviceVars
<1>2. ToolShape /\ RequestShape /\ ReplyShape /\ OffShape
  BY Zenon DEF ChannelOK
<1>3. /\ faults' \in [givenUp : Nat, flash : Nat, resets : Nat]
      /\ faults'.givenUp # 0
  BY <1>1, <1>2 DEF ToolShape
<1>4. ToolShape' /\ RequestShape' /\ ReplyShape'
  BY <1>1, <1>2, <1>3, ToolFrame, RequestFrame, ReplyFrame, Zenon
<1>5. OffShape' /\ OneInFlight'
  BY <1>1, <1>2, <1>3, Zenon DEF OffShape, OneInFlight
<1> QED BY <1>4, <1>5, Zenon DEF ChannelOK

(* The commands of handle_update and of the service leave the channel, the *)
(* phase and the bus alone.                                                *)
LEMMA HandlersStay ==
    ASSUME ToolShape, NEW r, NEW status
    PROVE  /\ HandleUpdate(r, status) =>
                  faults' \in [givenUp : Nat, flash : Nat, resets : Nat]
                  /\ faults'.givenUp = faults.givenUp
           /\ HandleService(r, status) => UNCHANGED <<phase, attached>>
           /\ CommitConfiguration \/ RefuseCommit => UNCHANGED <<phase, attached>>
<1>1. /\ faults \in [givenUp : Nat, flash : Nat, resets : Nat]
  BY Zenon DEF ToolShape
<1>2. HandleUpdate(r, status) =>
          faults' = faults \/ faults' = [faults EXCEPT !.flash = @ + 1]
  BY Zenon DEF HandleUpdate
<1>3. HandleService(r, status) => UNCHANGED <<phase, attached>>
  BY Zenon DEF HandleService, SetConfiguration, ChangeLifecycle, Reporting, deviceVars
<1>4. CommitConfiguration \/ RefuseCommit => UNCHANGED <<phase, attached>>
  BY Zenon DEF CommitConfiguration, RefuseCommit, deviceVars
<1> QED BY <1>1, <1>2, <1>3, <1>4

(* The loop keeps a report that begins a request of two; any other         *)
(* completes the request it is of, which is run and answered.              *)
LEMMA TakeReportShape ==
    ASSUME ToolShape, RequestShape, TakeReport
    PROVE  /\ Begins(out[1]) => current' = <<out[1]>> /\ UNCHANGED <<task, reply, phase, attached>>
           /\ ~Begins(out[1]) =>
                  /\ current' = Nothing /\ task' \in {"persisting", "replying"}
                  /\ ReplyOf(reply') /\ reply'[1].kind = "init" /\ reply'[1].of = out[1].of
                  /\ UNCHANGED <<phase, attached>>
           /\ faults' \in [givenUp : Nat, flash : Nat, resets : Nat]
           /\ faults'.givenUp = faults.givenUp
           /\ Complete(Accept(current, out[1])) => Accept(current, out[1])[1].req \in Request
<1> DEFINE x == out[1]
           parts == Accept(current, x)
           n == parts[1].of
           r == parts[1].req
<1>1. /\ IsReport(x) /\ Buffer(current)
      /\ current # Nothing => Begins(current[1])
      /\ x.kind = "cont" => current # Nothing /\ Follows(current[1], x)
  BY Buffers, Zenon DEF RequestShape, TakeReport
<1>2. faults \in [givenUp : Nat, flash : Nat, resets : Nat]
  BY Zenon DEF ToolShape
<1>3. CASE Begins(x)
  <2>1. parts = <<x>> /\ ~Complete(parts)
    BY <1>1, <1>3, Joining, Zenon
  <2>2. current' = parts /\ UNCHANGED <<deviceVars, task, reply, faults>>
    BY <2>1, Zenon DEF TakeReport
  <2> HIDE DEF parts
  <2>3. parts = Accept(current, x)
    BY Zenon DEF parts
  <2> QED BY <1>2, <1>3, <2>1, <2>2, <2>3, Zenon DEF deviceVars
<1>4. CASE ~Begins(x)
  <2>0. /\ x.kind = "cont" => current # Nothing
        /\ x.kind = "cont" /\ current # Nothing => Follows(current[1], x)
    BY <1>1, Zenon
  <2>1. Complete(parts) /\ n = x.of /\ r = x.req
    <3>1. Complete(parts)
      BY <1>1, <1>4, <2>0, Joining, Zenon
    <3>2. parts[1].of = x.of
      BY <1>1, <1>4, <2>0, Joining, Zenon
    <3>3. parts[1].req = x.req
      BY <1>1, <1>4, <2>0, Joining, Zenon
    <3> QED BY <3>1, <3>2, <3>3, Zenon
  <2>2. n \in Nat /\ r \in Request
    BY <1>1, <2>1, Reports, Zenon
  <2> HIDE DEF parts
  <2>3. \E status : reply' = ReportsOf(n, r, ReplyReports(r, status))
    BY <2>1, Zenon DEF TakeReport, Replying, parts
  <2>4. ReplyOf(reply') /\ reply'[1].kind = "init" /\ reply'[1].of = x.of
    BY <2>1, <2>2, <2>3, ReplyIs
  <2>5. current' = Nothing /\ task' \in {"persisting", "replying"}
    BY <2>1, Zenon DEF TakeReport, Replying, parts
  <2>6. \/ UNCHANGED faults /\ UNCHANGED <<phase, attached>>
        \/ UNCHANGED <<phase, attached>> /\ \E status : HandleUpdate(r, status)
    BY <2>1, HandlersStay, Zenon DEF TakeReport, parts, deviceVars
  <2>7. parts = Accept(current, x)
    BY Zenon DEF parts
  <2> QED BY <1>2, <1>4, <2>2, <2>4, <2>5, <2>6, <2>7, HandlersStay, Zenon
<1> QED BY <1>3, <1>4, Zenon

(* With nothing given up, a report the loop takes is of the one request on *)
(* the way.                                                                *)
LEMMA TakeReportKeeps ==
    ASSUME ChannelOK, TakeReport
    PROVE  ChannelOK'
<1> DEFINE x == out[1]
<1>1. /\ out # Nothing /\ out' = Nothing /\ task = "reading" /\ phase = "serving"
      /\ UNCHANGED <<menu, asked, wish, host, sent, joined, in>>
  BY Zenon DEF TakeReport, tool
<1>2. ToolShape /\ RequestShape /\ ReplyShape /\ OffShape /\ OneInFlight
  BY Zenon DEF ChannelOK
<1>3. /\ Begins(x) => current' = <<x>> /\ UNCHANGED <<task, reply>>
      /\ ~Begins(x) =>
             /\ current' = Nothing /\ task' \in {"persisting", "replying"}
             /\ ReplyOf(reply') /\ reply'[1].kind = "init" /\ reply'[1].of = x.of
      /\ UNCHANGED <<phase, attached>>
      /\ faults' \in [givenUp : Nat, flash : Nat, resets : Nat]
      /\ faults'.givenUp = faults.givenUp
  BY <1>2, TakeReportShape, Zenon
<1>4. ToolShape' /\ OffShape'
  BY <1>1, <1>2, <1>3, ToolFrame, Zenon DEF OffShape
<1>5. IsReport(x)
  BY <1>1, <1>2, Buffers, Zenon DEF RequestShape
<1>6. CASE Begins(x)
  <2>1. current' # Nothing /\ current'[1] = x /\ Buffer(current')
    BY <1>3, <1>5, <1>6, Buffers
  <2>2. RequestShape'
    BY <1>1, <1>2, <1>6, <2>1, Buffers, Zenon DEF RequestShape
  <2>3. ReplyShape'
    BY <1>1, <1>2, <1>3, <1>6, ReplyFrame, Zenon
  <2>4. faults.givenUp = 0 /\ attached =>
            host = "writing" /\ sent # 0 /\ in = Nothing /\ joined = Nothing
    BY <1>1, <1>2, <1>6, Zenon DEF OneInFlight, Quiet, ToolShape, Underway, Answering, Answered
  <2>5. OneInFlight'
    BY <1>1, <1>3, <1>6, <2>4, Zenon DEF OneInFlight
  <2> QED BY <1>4, <2>2, <2>3, <2>5, Zenon DEF ChannelOK
<1>7. CASE ~Begins(x)
  <2>1. ~(host = "writing" /\ sent = 1)
    BY <1>1, <1>2, <1>7, Zenon DEF RequestShape
  <2>2. RequestShape'
    BY <1>1, <1>3, <1>7, <2>1, Buffers, Zenon DEF RequestShape
  <2>3. /\ joined # Nothing => Begins(joined[1]) /\ in # Nothing /\ Follows(joined[1], in[1])
        /\ Buffer(in) /\ Buffer(joined) /\ (in # Nothing => ~Begins(in[1]))
    BY <1>1, <1>2, Zenon DEF ReplyShape
  <2>4. ReplyShape'
    BY <1>1, <1>3, <1>7, <2>3, Zenon DEF ReplyShape
  <2>5. host = "writing" => sent = 0
    BY <1>2, <2>1 DEF ToolShape, RequestReports
  <2>6. faults.givenUp = 0 /\ attached => host = "reading" /\ Underway
    BY <1>1, <1>2, <2>5, Zenon DEF OneInFlight, Quiet, ToolShape, Answering, Answered
  <2>7. faults.givenUp = 0 /\ attached => host = "reading" /\ Answering'
    BY <1>1, <1>3, <1>7, <2>6, Zenon DEF Underway, Answering
  <2>8. OneInFlight'
    BY <1>1, <1>3, <2>7, Zenon DEF OneInFlight
  <2> QED BY <1>4, <2>2, <2>4, <2>8, Zenon DEF ChannelOK
<1> QED BY <1>6, <1>7, Zenon

(* The flash operations of a commit come between a request and its answer. *)
LEMMA PersistKeeps ==
    ASSUME ChannelOK, Persist
    PROVE  ChannelOK'
<1>1. /\ task = "persisting" /\ task' \in {"replying", "persisting"}
      /\ UNCHANGED <<menu, asked, wish, host, sent, joined, out, in, current, reply,
                     phase, attached>>
      /\ faults' = faults \/ faults' = [faults EXCEPT !.flash = @ + 1]
  BY Zenon DEF Persist, deviceVars, tool
<1>2. ToolShape /\ RequestShape /\ ReplyShape /\ OffShape /\ OneInFlight
  BY Zenon DEF ChannelOK
<1>3. /\ faults' \in [givenUp : Nat, flash : Nat, resets : Nat]
      /\ faults'.givenUp = faults.givenUp
  BY <1>1, <1>2 DEF ToolShape
<1>4. ToolShape' /\ RequestShape'
  BY <1>1, <1>2, <1>3, ToolFrame, RequestFrame, Zenon
<1>5. OffShape'
  BY <1>1, <1>2, Zenon DEF OffShape, Quiet
<1>6. ReplyShape'
  BY <1>1, <1>2, Zenon DEF ReplyShape
<1>7. faults.givenUp = 0 /\ attached => host = "reading" /\ Answering
  BY <1>1, <1>2, Zenon DEF OneInFlight, Quiet, Underway, Answered, ToolShape, ReplyShape, Begins
<1>8. OneInFlight'
  BY <1>1, <1>3, <1>7, Zenon DEF OneInFlight, Answering
<1> QED BY <1>4, <1>5, <1>6, <1>8, Zenon DEF ChannelOK

(* The loop sends the reports of its answer one by one. *)
LEMMA SendReportKeeps ==
    ASSUME ChannelOK, SendReport
    PROVE  ChannelOK'
<1> DEFINE x == reply[1]
           y == reply[2]
<1>1. ToolShape /\ RequestShape /\ ReplyShape /\ OffShape /\ OneInFlight
  BY Zenon DEF ChannelOK
<1>2. /\ phase = "serving" /\ task = "replying" /\ in = Nothing /\ attached
      /\ in' = <<Head(reply)>> /\ reply' = Tail(reply)
      /\ task' = IF reply' = Nothing THEN "reading" ELSE task
      /\ UNCHANGED <<menu, asked, wish, host, sent, joined, out, current, phase, attached,
                     faults>>
  BY Zenon DEF SendReport, deviceVars, tool
<1>3. /\ ReplyOf(reply)
      /\ joined # Nothing => Begins(joined[1]) /\ Follows(joined[1], x)
      /\ Buffer(joined)
  BY <1>1, <1>2, Zenon DEF ReplyShape
<1>4. ToolShape' /\ OffShape' /\ RequestShape'
  BY <1>1, <1>2, ToolFrame, RequestFrame, Zenon DEF OffShape, ToolShape
<1>6. faults.givenUp = 0 =>
          host = "reading" /\ out = Nothing /\ current = Nothing /\ (Answering \/ Answered)
  BY <1>1, <1>2, Zenon DEF OneInFlight, Quiet, Underway, ToolShape, Answering, Answered
<1>7. CASE reply = <<x>> /\ IsReport(x) /\ ~Begins(x)
  <2> HIDE DEF x
  <2>1. in' = <<x>> /\ reply' = Nothing /\ task' = "reading"
    BY <1>2, <1>7 DEF Nothing
  <2>2. in' # Nothing /\ in'[1] = x /\ Buffer(in')
    BY <1>7, <2>1, Buffers, Zenon
  <2>3. ReplyShape'
    BY <1>2, <1>3, <1>7, <2>1, <2>2, Zenon DEF ReplyShape
  <2>4. faults.givenUp = 0 => x.of = asked /\ (x.kind = "cont" => joined # Nothing)
    BY <1>2, <1>3, <1>6, Zenon DEF Answering, Answered, Follows, x
  <2>5. OneInFlight'
    BY <1>2, <1>6, <2>1, <2>2, <2>4, Zenon DEF OneInFlight, Answered
  <2> QED BY <1>4, <2>3, <2>5, Zenon DEF ChannelOK
<1>8. CASE reply = <<x, y>> /\ IsReport(x) /\ IsReport(y) /\ Follows(x, y)
  <2> HIDE DEF x, y
  <2>1. in' = <<x>> /\ reply' = <<y>> /\ task' = "replying"
    BY <1>2, <1>8 DEF Nothing
  <2>2. in' # Nothing /\ in'[1] = x /\ Buffer(in') /\ reply'[1] = y
    BY <1>8, <2>1, Buffers, Zenon
  <2>3. joined = Nothing /\ Begins(x) /\ ~Begins(y) /\ x.kind = "init"
    BY <1>3, <1>8, Zenon DEF Follows, Begins
  <2>4. ReplyOf(reply')
    BY <1>8, <2>1, <2>2, <2>3, Zenon DEF ReplyOf
  <2>5. ReplyShape'
    BY <1>2, <1>3, <1>8, <2>1, <2>2, <2>3, <2>4, Zenon DEF ReplyShape
  <2>6. faults.givenUp = 0 => x.of = asked
    BY <1>2, <1>6, <2>3, Zenon DEF Answering, Answered, x
  <2>7. OneInFlight'
    BY <1>2, <1>6, <2>1, <2>2, <2>3, <2>6, Zenon DEF OneInFlight, Answered
  <2> QED BY <1>4, <2>5, <2>7, Zenon DEF ChannelOK
<1> QED BY <1>3, <1>7, <1>8, Zenon DEF ReplyOf

(* Leaving the bus empties the endpoints and fails the tool's transfer;    *)
(* the loop keeps its assembler and its answer.                            *)
LEMMA DetachKeeps ==
    ASSUME ChannelOK, Detach
    PROVE  ChannelOK'
<1>1. ToolShape /\ RequestShape /\ ReplyShape
  BY Zenon DEF ChannelOK
<1>2. /\ phase = "serving" /\ ~attached' /\ in' = Nothing /\ out' = Nothing
      /\ host' = "idle" /\ sent' = 0 /\ joined' = Nothing
      /\ UNCHANGED <<menu, asked, phase, current, task, reply, faults>>
  BY Zenon DEF Detach, HandleLost
<1>3. faults' \in [givenUp : Nat, flash : Nat, resets : Nat]
  BY <1>1, <1>2, Zenon DEF ToolShape
<1>4. ToolShape' /\ RequestShape' /\ ReplyShape'
  BY <1>1, <1>2, <1>3, ToolFrame, RequestFrame, ReplyFrame, Zenon
<1>5. OffShape' /\ OneInFlight'
  BY <1>2, Zenon DEF OffShape, OneInFlight
<1> QED BY <1>4, <1>5, Zenon DEF ChannelOK

(* A device that boots comes on the bus with a quiet channel. *)
LEMMA BootKeeps ==
    ASSUME ChannelOK, Boot
    PROVE  ChannelOK'
<1>1. ToolShape /\ RequestShape /\ ReplyShape /\ OffShape
  BY Zenon DEF ChannelOK
<1>2. /\ phase # "serving"
      /\ phase' = "serving" \/ (phase' = "identified" /\ UNCHANGED attached)
      /\ UNCHANGED <<menu, asked, wish, host, sent, joined, out, in, current, task, reply>>
      /\ faults' = faults \/ faults' = [faults EXCEPT !.flash = @ + 1]
  BY Zenon DEF Boot, Identify, Serve, channelVars
<1>3. host = "idle" /\ Quiet /\ Quiet' /\ ~attached /\ sent = 0
  BY <1>1, <1>2, Zenon DEF OffShape, Quiet, ToolShape
<1>4. faults' \in [givenUp : Nat, flash : Nat, resets : Nat]
  BY <1>1, <1>2 DEF ToolShape
<1>5. ToolShape' /\ RequestShape' /\ ReplyShape'
  BY <1>1, <1>2, <1>3, <1>4, ToolFrame, RequestFrame, ReplyFrame, Zenon
<1>6. OffShape' /\ OneInFlight'
  BY <1>2, <1>3 DEF OffShape, OneInFlight
<1> QED BY <1>5, <1>6, Zenon DEF ChannelOK

(* A reset loses what both ends had of a message. *)
LEMMA LosePowerKeeps ==
    ASSUME ChannelOK, LosePower
    PROVE  ChannelOK'
<1>1. ToolShape
  BY Zenon DEF ChannelOK
<1>2. /\ ~attached' /\ Quiet' /\ host' = "idle" /\ sent' = 0 /\ reply' = Nothing
      /\ UNCHANGED <<menu, asked>>
      /\ faults' = [faults EXCEPT !.resets = @ + 1]
  BY Zenon DEF LosePower, Reset, HandleLost, Quiet
<1>3. faults' \in [givenUp : Nat, flash : Nat, resets : Nat]
  BY <1>1, <1>2 DEF ToolShape
<1>4. ToolShape' /\ OffShape' /\ OneInFlight'
  BY <1>1, <1>2, <1>3, ToolFrame, Zenon DEF OffShape, OneInFlight
<1>5. RequestShape' /\ ReplyShape'
  BY <1>2, Buffers, Zenon DEF Quiet, RequestShape, ReplyShape
<1> QED BY <1>4, <1>5, Zenon DEF ChannelOK

(* Every step keeps the invariant of the channel. *)
LEMMA ChannelStep == ChannelOK /\ [HousekeepingNext]_allVars => ChannelOK'
<1> SUFFICES ASSUME ChannelOK, [HousekeepingNext]_allVars PROVE ChannelOK'
  BY Zenon
<1>1. CASE UNCHANGED allVars
  <2>1. UNCHANGED <<menu, asked, wish, host, sent, joined, out, in, current, task, reply, phase,
                    attached, faults>>
    BY <1>1, Zenon DEF allVars, channelVars, deviceVars
  <2>2. ToolShape' /\ RequestShape' /\ ReplyShape'
    BY <2>1, ToolFrame, RequestFrame, ReplyFrame, Zenon DEF ChannelOK, ToolShape
  <2>3. OffShape' /\ OneInFlight'
    BY <2>1, Zenon DEF ChannelOK, OffShape, OneInFlight, Quiet, Underway, Answering, Answered
  <2> QED BY <2>2, <2>3, Zenon DEF ChannelOK
<1>2. ASSUME NEW r \in menu.asks, Ask(r) PROVE ChannelOK'
  BY <1>2, AskKeeps, Zenon
<1> QED BY <1>1, <1>2, WriteReportKeeps, ReadReportKeeps, GiveUpKeeps, TakeReportKeeps,
           PersistKeeps, SendReportKeeps, DetachKeeps, BootKeeps, LosePowerKeeps, Zenon
        DEF HousekeepingNext

(* It holds of every behaviour. *)
LEMMA ChannelAlways == HousekeepingSpec => []ChannelOK
BY ChannelInit, ChannelStep, PTL DEF HousekeepingSpec

(* Whatever is given up, detached or reset, neither end joins reports of   *)
(* two messages; and as long as nothing was given up, the tool takes the   *)
(* answer to its own request (framing.rs, management.rs, transport.rs).    *)
THEOREM RequestsNotMixed == HousekeepingSpec => []ChannelInv
<1>1. ChannelOK => ChannelInv
  <2> SUFFICES ASSUME ChannelOK PROVE ChannelInv
    BY Zenon
  <2>1. ToolShape /\ RequestShape /\ ReplyShape /\ OneInFlight
    BY Zenon DEF ChannelOK
  <2>2. ASSUME out # Nothing PROVE Whole(Accept(current, out[1]))
    <3>1. /\ IsReport(out[1]) /\ Buffer(current)
          /\ current # Nothing => Begins(current[1])
          /\ out[1].kind = "cont" /\ current # Nothing => Follows(current[1], out[1])
      BY <2>1, <2>2, Buffers, Zenon DEF RequestShape
    <3> QED BY <3>1, Joining, Zenon
  <2>3. ASSUME in # Nothing PROVE Whole(Accept(joined, in[1]))
    <3>1. /\ IsReport(in[1]) /\ Buffer(joined)
          /\ joined # Nothing => Begins(joined[1])
          /\ in[1].kind = "cont" /\ joined # Nothing => Follows(joined[1], in[1])
      BY <2>1, <2>3, Buffers, Zenon DEF ReplyShape
    <3> QED BY <3>1, Joining, Zenon
  <2>4. AnswerIsOfRequest
    BY <2>1, Zenon DEF AnswerIsOfRequest, OneInFlight, Underway, Answering, Answered, ToolShape
  <2> QED BY <2>2, <2>3, <2>4, Zenon DEF ChannelInv, RequestsAreWhole
<1> QED BY <1>1, ChannelAlways, PTL

-----------------------------------------------------------------------------
(* What is staged is a configuration that was asked for. *)
StagedListed == staged \in Payload \cup {Blank}

(* Only SET CONFIGURATION stages anything, and stages what was asked. *)
LEMMA StagedStep ==
    ASSUME ChannelOK, StagedListed, [HousekeepingNext]_allVars
    PROVE  StagedListed'
<1>1. CASE TakeReport
  <2> DEFINE parts == Accept(current, out[1])
             r == parts[1].req
  <2>1. Complete(parts) => r \in Request
    BY <1>1, TakeReportShape, Zenon DEF ChannelOK
  <2>2. Complete(parts) /\ r.op = "set" => r.config \in Payload
    BY <2>1, MenuAssumption, Zenon DEF Request
  <2> HIDE DEF parts
  <2>3. \/ UNCHANGED deviceVars
        \/ Complete(parts) /\ \E status \in {"ok", "error"} : HandleService(r, status)
        \/ CommitConfiguration
    BY <1>1, Zenon DEF TakeReport, RefuseCommit, parts
  <2>4. ASSUME NEW status, Complete(parts), HandleService(r, status) PROVE StagedListed'
    BY <2>2, <2>4, Zenon DEF HandleService, SetConfiguration, ChangeLifecycle, Reporting,
       StagedListed, deviceVars
  <2>5. CASE CommitConfiguration
    BY <2>5, Zenon DEF CommitConfiguration, StagedListed
  <2> QED BY <2>3, <2>4, <2>5, Zenon DEF StagedListed, deviceVars
<1>2. CASE Boot
  BY <1>2, Zenon DEF Boot, Identify, Serve, StagedListed
<1>3. CASE LosePower
  BY <1>3, Zenon DEF LosePower, Reset, StagedListed
<1>4. CASE ~TakeReport /\ ~Boot /\ ~LosePower
  <2>1. staged' = staged
    BY <1>4, Zenon
       DEF HousekeepingNext, Ask, WriteReport, ReadReport, GiveUp, Persist, SendReport, Detach,
       device, deviceVars, allVars
  <2> QED BY <2>1, Zenon DEF StagedListed
<1> QED BY <1>1, <1>2, <1>3, <1>4, Zenon

(* It holds of every behaviour. *)
LEMMA StagedAlways == HousekeepingSpec => []StagedListed
<1>1. HousekeepingInit => StagedListed
  BY Zenon DEF HousekeepingInit, DeviceInit, StagedListed
<1> QED BY <1>1, StagedStep, ChannelAlways, PTL DEF HousekeepingSpec

-----------------------------------------------------------------------------
(***************************************************************************)
(* The two-slot store.                                                     *)
(***************************************************************************)
USE DEF SlotIndex, Sequence

(* What a store may leave in the slot it rewrites is a slot's contents,    *)
(* and is readable only as it was before or as the finished record.        *)
LEMMA TornContents ==
    ASSUME IInv, pc # "idle", NEW torn \in Torn
    PROVE  /\ torn \in SlotContents
           /\ torn = slots[target] \/ torn.area # "record" \/ (torn = FullRecord /\ pc = "payload")
<1> USE DEF SlotContents, ErasedSlot, HeaderOnly, FullRecord
<1>1. slots[target] \in SlotContents
  BY Zenon DEF IInv, TypeOK
<1>2. ErasedSlot \in SlotContents
  BY ConstantsAssumption
<1>3. HeaderOnly \in SlotContents /\ FullRecord \in SlotContents
  BY Zenon DEF IInv, TypeOK
<1>4. CASE pc = "erase"
  BY <1>1, <1>2, <1>4, Zenon DEF Torn
<1>5. CASE pc = "header"
  BY <1>1, <1>3, <1>5, Zenon DEF Torn
<1>6. CASE pc = "payload"
  BY <1>1, <1>3, <1>6, Zenon DEF Torn
<1> QED
  BY <1>4, <1>5, <1>6, Zenon DEF IInv, TypeOK

(* A load finds the readable slot whose sequence number is the greater. *)
LEMMA NewerSlotIsFound ==
    ASSUME NEW ss, NEW i \in SlotIndex, Readable(ss, i),
           Readable(ss, 1 - i) =>
              ss[i].seq \in Nat /\ ss[1 - i].seq \in Nat /\ ss[1 - i].seq < ss[i].seq
    PROVE  Newest(ss) = ss[i].data
<1>1. CASE i = 0
  <2>1. 1 - i = 1
    BY <1>1
  <2>2. Readable(ss, 1) => ss[0].seq \in Nat /\ ss[1].seq \in Nat /\ ss[1].seq < ss[0].seq
    BY <1>1, <2>1, Zenon
  <2>3. BestSlot(ss) = 0
    BY <1>1, <2>2 DEF BestSlot
  <2> QED BY <1>1, <2>3, Zenon DEF Newest, AnyReadable
<1>2. CASE i = 1
  <2>1. 1 - i = 0
    BY <1>2
  <2>2. BestSlot(ss) = 1
    BY <1>2, <2>1 DEF BestSlot
  <2> QED BY <1>2, <2>2, Zenon DEF Newest, AnyReadable
<1> QED BY <1>1, <1>2, Zenon

(* Whatever becomes of the slot a store rewrites, the record a load finds  *)
(* is the one it found before or, once the payload is complete, the one    *)
(* being stored.                                                           *)
LEMMA NewestAfterTear ==
    ASSUME IInv, pc # "idle", NEW torn \in Torn,
           slots' = [slots EXCEPT ![target] = torn]
    PROVE  /\ DistinctSequences'
           /\ Newest(slots') \in {Newest(slots), request}
           /\ torn = FullRecord => Newest(slots') = request
           /\ torn # FullRecord => Newest(slots') = Newest(slots)
<1>1. /\ slots \in [SlotIndex -> SlotContents] /\ target \in SlotIndex
      /\ nextSeq \in Sequence /\ DistinctSequences /\ StoreInProgress
  BY Zenon DEF IInv, TypeOK
<1> DEFINE other == 1 - target
<1>2. /\ other \in SlotIndex /\ other # target /\ 1 - other = target
      /\ (target = 0 /\ other = 1) \/ (target = 1 /\ other = 0)
  BY <1>1
<1> HIDE DEF other
<1>3. slots'[target] = torn /\ slots'[other] = slots[other]
  BY <1>1, <1>2, Zenon
<1>4. slots[target].seq \in Nat /\ slots[other].seq \in Nat /\ nextSeq \in Nat
  <2>1. \A i \in SlotIndex : slots[i].seq \in Sequence
    BY <1>1, Zenon DEF SlotContents
  <2> QED BY <1>1, <1>2, <2>1, ConstantsAssumption
<1>5. \/ /\ Readable(slots, other) /\ slots[other].seq < nextSeq
         /\ Readable(slots, target) => slots[target].seq < slots[other].seq
      \/ ~Readable(slots, other) /\ ~Readable(slots, target)
  BY <1>1, <1>2, Zenon DEF StoreInProgress, AnyReadable, other
<1>6. /\ Readable(slots', other) = Readable(slots, other)
      /\ FullRecord.area = "record" /\ FullRecord.seq = nextSeq /\ FullRecord.data = request
  BY <1>3, Zenon DEF Readable, FullRecord
<1>7. CASE torn = slots[target]
  <2>1. slots' = slots
    BY <1>1, <1>7, Zenon
  <2>2. torn # FullRecord
    <3>1. torn = FullRecord => Readable(slots, target) /\ slots[target].seq = nextSeq
      BY <1>6, <1>7, Zenon DEF Readable
    <3> QED BY <1>4, <1>5, <3>1
  <2>3. DistinctSequences'
    BY <1>1, <2>1, Zenon DEF DistinctSequences, Readable
  <2> QED BY <2>1, <2>2, <2>3, Zenon
<1>8. CASE torn.area # "record"
  <2>1. torn # FullRecord /\ ~Readable(slots', target)
    BY <1>3, <1>6, <1>8, Zenon DEF Readable
  <2>2. DistinctSequences'
    BY <1>1, <1>2, <2>1, Zenon DEF DistinctSequences, Readable
  <2>3. CASE Readable(slots, other)
    <3>1. Newest(slots) = slots[other].data
      BY <1>2, <1>4, <1>5, <2>3, NewerSlotIsFound, Zenon
    <3>2. Newest(slots') = slots'[other].data
      BY <1>2, <1>6, <2>1, <2>3, NewerSlotIsFound, Zenon
    <3> QED BY <1>3, <2>1, <2>2, <3>1, <3>2, Zenon
  <2>4. CASE ~Readable(slots, other)
    <3>1. Newest(slots) = Blank /\ Newest(slots') = Blank
      BY <1>2, <1>5, <1>6, <2>1, <2>4, Zenon DEF Newest, AnyReadable
    <3> QED BY <2>1, <2>2, <3>1, Zenon
  <2> QED BY <2>3, <2>4, Zenon
<1>9. CASE torn = FullRecord
  <2>1. Readable(slots', target) /\ slots'[target].seq = nextSeq /\ slots'[target].data = request
    BY <1>3, <1>6, <1>9, Zenon DEF Readable
  <2>2. Readable(slots', other) =>
           /\ slots'[target].seq \in Nat /\ slots'[other].seq \in Nat
           /\ slots'[other].seq < slots'[target].seq
    BY <1>3, <1>4, <1>5, <1>6, <2>1, Zenon
  <2>3. Newest(slots') = request
    BY <1>2, <2>1, <2>2, NewerSlotIsFound, Zenon DEF other
  <2>4. Readable(slots', other) => slots'[other].seq # slots'[target].seq
    BY <1>3, <1>4, <2>1, <2>2
  <2>5. DistinctSequences'
    BY <1>2, <2>4, Zenon DEF DistinctSequences, Readable
  <2> QED BY <1>9, <2>3, <2>5, Zenon
<1> QED BY TornContents, <1>7, <1>8, <1>9, Zenon

-----------------------------------------------------------------------------

(* The initial region, erased, satisfies the inductive invariant. *)
LEMMA InitInvariant == Init => IInv
<1> SUFFICES ASSUME Init PROVE IInv
  BY Zenon
<1>1. TypeOK
  BY ConstantsAssumption DEF Init, TypeOK, SlotContents, ErasedSlot
<1>2. DistinctSequences /\ StoreInProgress /\ (pc = "idle" => request = Blank)
  BY Zenon DEF Init, DistinctSequences, StoreInProgress, Readable, ErasedSlot
<1> QED BY <1>1, <1>2, Zenon DEF IInv

(* A store aims at the slot that is not the newest, with a sequence number *)
(* above the newest one: the increment does not wrap below MaxSequence.    *)
LEMMA BeginStoreInvariant ==
    ASSUME IInv, NEW p \in Payload, BeginStore(p)
    PROVE  IInv'
<1> USE DEF AnyReadable, BestSlot, Readable
<1>1. /\ slots \in [SlotIndex -> SlotContents] /\ slots' = slots /\ pc' = "erase"
      /\ request' = p /\ answer' = "busy" /\ DistinctSequences
      /\ target' = InactiveSlot(slots) /\ nextSeq' = NextSequence(slots)
  BY Zenon DEF IInv, TypeOK, BeginStore
<1>2. slots[0].seq \in 0 .. (SeqModulus - 1) /\ slots[1].seq \in 0 .. (SeqModulus - 1)
  BY <1>1, Zenon DEF SlotContents
<1>3. CASE AnyReadable(slots)
  <2> DEFINE b == BestSlot(slots)
  <2>1. b \in SlotIndex /\ Readable(slots, b)
    BY <1>3, Zenon
  <2>2. slots[b].seq < MaxSequence
    BY <1>3, Zenon DEF BeginStore
  <2>3. NextSequence(slots) = slots[b].seq + 1
    <3>1. slots[b].seq + 1 \in 0 .. (SeqModulus - 1)
      BY <1>2, <2>1, <2>2, ConstantsAssumption
    <3>2. (slots[b].seq + 1) % SeqModulus = slots[b].seq + 1
      BY <3>1, ConstantsAssumption
    <3> QED BY <1>3, <3>2, Zenon DEF NextSequence
  <2>4. nextSeq' \in Sequence
    BY <1>1, <1>2, <2>1, <2>2, <2>3, ConstantsAssumption
  <2>5. target' = 1 - b /\ 1 - target' = b
    BY <1>1, <1>3, <2>1 DEF InactiveSlot
  <2>6. Readable(slots, 1 - b) => slots[1 - b].seq < slots[b].seq
    BY <1>1, <1>2, <2>1 DEF DistinctSequences
  <2>7. TypeOK'
    BY <1>1, <2>1, <2>4, <2>5, ConstantsAssumption, SMTT(30) DEF IInv, TypeOK, BeginStore
  <2>8. slots[b].seq < nextSeq'
    BY <1>1, <1>2, <2>1, <2>3
  <2>9. StoreInProgress'
    BY <1>1, <2>1, <2>5, <2>6, <2>8, Zenon DEF StoreInProgress
  <2>10. DistinctSequences'
    BY <1>1, Zenon DEF DistinctSequences
  <2> QED BY <1>1, <2>7, <2>9, <2>10, Zenon DEF IInv
<1>4. CASE ~AnyReadable(slots)
  <2>1. target' = 0 /\ nextSeq' = 1
    BY <1>1, <1>4, Zenon DEF InactiveSlot, NextSequence
  <2>2. TypeOK'
    BY <1>1, <2>1, ConstantsAssumption DEF IInv, TypeOK, BeginStore
  <2> QED
    BY <1>1, <1>4, <2>1, <2>2, Zenon DEF IInv, StoreInProgress, DistinctSequences
<1> QED BY <1>3, <1>4, Zenon

(* Each step keeps the inductive invariant. *)
LEMMA NextInvariant == IInv /\ [Next]_vars => IInv'
<1> SUFFICES ASSUME IInv, [Next]_vars PROVE IInv'
  BY Zenon
<1> USE DEF IInv
<1>1. CASE \E p \in Payload : BeginStore(p)
  BY <1>1, BeginStoreInvariant, Zenon
<1>2. CASE RefuseStore
  BY <1>2, Zenon DEF RefuseStore, TypeOK, DistinctSequences, StoreInProgress, Readable, AnyReadable
<1>3. CASE EraseSlot
  <2>1. ErasedSlot \in Torn /\ ErasedSlot \in SlotContents
    BY <1>3, ConstantsAssumption DEF EraseSlot, Torn, SlotContents, ErasedSlot
  <2>2. TypeOK'
    BY <1>3, <2>1, Zenon DEF EraseSlot, TypeOK
  <2>3. DistinctSequences'
    BY <1>3, <2>1, NewestAfterTear, Zenon DEF EraseSlot
  <2>4. StoreInProgress'
    BY <1>3 DEF EraseSlot, TypeOK, StoreInProgress, Readable, AnyReadable, ErasedSlot
  <2> QED BY <1>3, <2>2, <2>3, <2>4, Zenon DEF EraseSlot
<1>4. CASE WriteHeader
  <2>1. HeaderOnly \in Torn /\ HeaderOnly \in SlotContents
    BY <1>4, Zenon DEF WriteHeader, Torn, SlotContents, HeaderOnly, TypeOK
  <2>2. TypeOK'
    BY <1>4, <2>1, Zenon DEF WriteHeader, TypeOK
  <2>3. DistinctSequences'
    BY <1>4, <2>1, NewestAfterTear, Zenon DEF WriteHeader
  <2>4. StoreInProgress'
    BY <1>4, SMTT(30) DEF WriteHeader, TypeOK, StoreInProgress, Readable, AnyReadable, HeaderOnly
  <2> QED BY <1>4, <2>2, <2>3, <2>4, Zenon DEF WriteHeader
<1>5. CASE WritePayload
  <2>1. FullRecord \in Torn /\ FullRecord \in SlotContents
    BY <1>5, Zenon DEF WritePayload, Torn, SlotContents, FullRecord, TypeOK
  <2>2. TypeOK'
    BY <1>5, <2>1, Zenon DEF WritePayload, TypeOK
  <2>3. DistinctSequences'
    BY <1>5, <2>1, NewestAfterTear, Zenon DEF WritePayload
  <2> QED BY <1>5, <2>2, <2>3, Zenon DEF WritePayload, StoreInProgress
<1>6. CASE FlashError
  <2>1. PICK torn \in Torn : slots' = [slots EXCEPT ![target] = torn]
    BY <1>6, Zenon DEF FlashError
  <2>2. TypeOK'
    BY <1>6, <2>1, TornContents, Zenon DEF FlashError, TypeOK
  <2>3. DistinctSequences'
    BY <1>6, <2>1, NewestAfterTear, Zenon DEF FlashError
  <2> QED BY <1>6, <2>2, <2>3, Zenon DEF FlashError, StoreInProgress
<1>7. CASE PowerLoss
  <2>1. CASE pc = "idle"
    BY <1>7, <2>1, ConstantsAssumption, SMTT(30)
       DEF PowerLoss, TypeOK, DistinctSequences, StoreInProgress, Readable
  <2>2. CASE pc # "idle"
    <3>1. PICK torn \in Torn : slots' = [slots EXCEPT ![target] = torn]
      BY <1>7, <2>2, Zenon DEF PowerLoss
    <3>2. TypeOK'
      BY <1>7, <2>2, <3>1, TornContents, ConstantsAssumption, SMTT(30) DEF PowerLoss, TypeOK
    <3>3. DistinctSequences'
      BY <1>7, <2>2, <3>1, NewestAfterTear, Zenon DEF PowerLoss
    <3> QED BY <1>7, <3>2, <3>3, Zenon DEF PowerLoss, StoreInProgress
  <2> QED BY <2>1, <2>2, Zenon
<1>8. CASE Load
  <2>1. loaded' \in Payload \cup {Blank, Fault}
    BY <1>8, Zenon DEF Load, Newest, BestSlot, TypeOK, SlotContents
  <2> QED
    BY <1>8, <2>1, Zenon DEF Load, TypeOK, DistinctSequences, StoreInProgress, Readable, AnyReadable
<1>9. CASE UNCHANGED vars
  BY <1>9, SMTT(30) DEF vars, TypeOK, DistinctSequences, StoreInProgress, Readable, AnyReadable
<1> QED
  BY <1>1, <1>2, <1>3, <1>4, <1>5, <1>6, <1>7, <1>8, <1>9, Zenon DEF Next

(* The store's state is well formed at every point, no two readable slots  *)
(* share a sequence number, and a store in progress aims past the newest   *)
(* record, whatever fails or is interrupted.                               *)
THEOREM StoreInvariance == Spec => []IInv
<1>1. Init => IInv
  BY InitInvariant, Zenon
<1>2. IInv /\ [Next]_vars => IInv'
  BY NextInvariant, Zenon
<1> QED BY <1>1, <1>2, PTL DEF Spec

(* "The active slot is never touched": the slot a store rewrites is never  *)
(* the one a load would return.                                            *)
THEOREM ActiveSlotSafe == Spec => []ActiveSlotUntouched
<1>1. IInv => ActiveSlotUntouched
  <2> SUFFICES ASSUME IInv, pc # "idle", AnyReadable(slots)
               PROVE  target # BestSlot(slots)
    BY Zenon DEF ActiveSlotUntouched
  <2>1. slots[0].seq \in Int /\ slots[1].seq \in Int
    BY DEF IInv, TypeOK, SlotContents
  <2> QED BY <2>1 DEF IInv, TypeOK, StoreInProgress, AnyReadable, BestSlot, Readable
<1> QED BY <1>1, StoreInvariance, PTL

(* Every step of the store is a step of the atomic record, or leaves what  *)
(* its clients see unchanged.                                              *)
LEMMA StepRefinement == IInv /\ [Next]_vars => [Atomic!Next]_(Atomic!vars)
<1> SUFFICES ASSUME IInv, [Next]_vars
             PROVE  Atomic!Next \/ UNCHANGED Atomic!vars
  BY Zenon
<1> USE DEF Atomic!Next, Atomic!vars
<1>1. CASE \E p \in Payload : BeginStore(p)
  <2>1. PICK p \in Payload : BeginStore(p)
    BY <1>1, Zenon
  <2>2. Atomic!Begin(p)
    BY <2>1, Zenon DEF IInv, BeginStore, Atomic!Begin
  <2> QED BY <2>2, Zenon
<1>2. CASE RefuseStore
  <2>1. Atomic!Refuse
    BY <1>2, Zenon DEF IInv, RefuseStore, Atomic!Refuse
  <2> QED BY <2>1, Zenon
<1>3. CASE EraseSlot
  <2>1. ErasedSlot \in Torn /\ ErasedSlot # FullRecord
    BY <1>3, Zenon DEF EraseSlot, Torn, ErasedSlot, FullRecord
  <2>2. Newest(slots') = Newest(slots)
    BY <1>3, <2>1, NewestAfterTear, Zenon DEF EraseSlot
  <2> QED BY <1>3, <2>2, Zenon DEF EraseSlot
<1>4. CASE WriteHeader
  <2>1. HeaderOnly \in Torn /\ HeaderOnly # FullRecord
    BY <1>4, Zenon DEF WriteHeader, Torn, HeaderOnly, FullRecord
  <2>2. Newest(slots') = Newest(slots)
    BY <1>4, <2>1, NewestAfterTear, Zenon DEF WriteHeader
  <2> QED BY <1>4, <2>2, Zenon DEF WriteHeader
<1>5. CASE WritePayload
  <2>1. FullRecord \in Torn
    BY <1>5, Zenon DEF WritePayload, Torn
  <2>2. Newest(slots') = request
    BY <1>5, <2>1, NewestAfterTear, Zenon DEF WritePayload
  <2>3. Atomic!Land
    BY <1>5, <2>2, ConstantsAssumption, Zenon DEF WritePayload, Atomic!Land, IInv, StoreInProgress
  <2> QED BY <2>3, Zenon
<1>6. CASE FlashError
  <2>1. PICK torn \in Torn : slots' = [slots EXCEPT ![target] = torn]
    BY <1>6, Zenon DEF FlashError
  <2>2. Newest(slots') \in {Newest(slots), request}
    BY <1>6, <2>1, NewestAfterTear, Zenon DEF FlashError
  <2>3. Atomic!Fail
    BY <1>6, <2>2, ConstantsAssumption, Zenon DEF FlashError, Atomic!Fail, IInv, StoreInProgress
  <2> QED BY <2>3, Zenon
<1>7. CASE PowerLoss
  <2>1. CASE pc = "idle"
    <3>1. Atomic!PowerLoss
      BY <1>7, <2>1, Zenon DEF PowerLoss, Atomic!PowerLoss
    <3> QED BY <3>1, Zenon
  <2>2. CASE pc # "idle"
    <3>1. PICK torn \in Torn : slots' = [slots EXCEPT ![target] = torn]
      BY <1>7, <2>2, Zenon DEF PowerLoss
    <3>2. Newest(slots') \in {Newest(slots), request} /\ request # Blank
      BY <2>2, <3>1, NewestAfterTear, ConstantsAssumption, Zenon DEF IInv, StoreInProgress
    <3>3. Atomic!PowerLoss
      BY <1>7, <3>2, Zenon DEF PowerLoss, Atomic!PowerLoss
    <3> QED BY <3>3, Zenon
  <2> QED BY <2>1, <2>2, Zenon
<1>8. CASE Load
  <2>1. Atomic!Load
    BY <1>8, Zenon DEF IInv, Load, Atomic!Load
  <2> QED BY <2>1, Zenon
<1>9. CASE UNCHANGED vars
  BY <1>9, Zenon DEF vars
<1> QED BY <1>1, <1>2, <1>3, <1>4, <1>5, <1>6, <1>7, <1>8, <1>9, Zenon DEF Next

(* The two-slot store implements the atomic record: every step of it is a  *)
(* step of AtomicRecord, or leaves what its clients see unchanged.         *)
THEOREM Refinement == Spec => ImplementsAtomicRecord
<1>1. Init => Atomic!Init
  BY DEF Init, Atomic!Init, Newest, AnyReadable, Readable, ErasedSlot
<1> QED BY <1>1, StepRefinement, StoreInvariance, PTL DEF Spec, ImplementsAtomicRecord, Atomic!Spec

HIDE DEF SlotIndex, Sequence

-----------------------------------------------------------------------------
(***************************************************************************)
(* What holds of every board the build accepts: the factory configuration  *)
(* validates, and the LED driver stays on the pins the board declares for  *)
(* it.  The invariant ties the LED pin and the identity to the profile and *)
(* says nothing of the flash, the channel or the update session, which     *)
(* change neither.                                                         *)
(***************************************************************************)

(* A board the build accepts. *)
Accepted(p) == Constructed(p) /\ ProfileInvariants(p) /\ FitsPackage(p)

(* for_board validates against the capabilities derive_capabilities gives  *)
(* the same board, whatever the identity.                                  *)
LEMMA ForBoardValidates ==
    ASSUME NEW p, Accepted(p), NEW id, id # BadIdentity
    PROVE  ValidConfig(ForBoard(id, Capabilities(p)), Capabilities(p), "factory", id)
<1> DEFINE c == Capabilities(p)
           f == ForBoard(id, c)
<1>t. p \in BuiltProfile
  BY Zenon DEF Accepted, Constructed
<1>1. c.available => p.driver = "gpio" /\ p.gpio \in Nat
  BY <1>t, Zenon DEF Capabilities, LedAvailable, BuiltProfile, NoDriver, NoPin
<1>g. c.available => f.led.gpio = p.gpio
  <2>1. c.gpio = p.gpio
    BY Zenon DEF Capabilities
  <2>2. f.led.gpio = IF c.gpio = NoPin THEN 0 ELSE c.gpio
    BY Zenon DEF ForBoard
  <2> HIDE DEF c, f
  <2> QED
    BY <1>1, <2>1, <2>2, SMTT(30) DEF NoPin
<1>2. ValidLed(f.led, c)
  <2>1. f.led.enabled = c.available
    BY Zenon DEF ForBoard
  <2> SUFFICES ASSUME c.available PROVE ValidLed(f.led, c)
    BY <2>1, Zenon DEF ValidLed
  <2>2. f.led.gpio = p.gpio /\ f.led.bright = "default"
    BY <1>g, Zenon DEF ForBoard
  <2>3. c.drivers = {"gpio"}
    BY <1>1, Zenon DEF Capabilities, Driver
  <2>4. f.led.driver = "gpio"
    BY <2>3, Zenon DEF ForBoard, PreferredDriver
  <2>5. p.gpio < GpioCount
    BY Zenon DEF Accepted, FitsPackage
  <2>6. IF c.configurable THEN p.gpio \in c.candidates ELSE p.gpio = c.gpio
    BY Zenon DEF Accepted, ProfileInvariants, Capabilities
  <2> QED
    BY <2>2, <2>3, <2>4, <2>5, <2>6, Zenon DEF ValidLed
<1>3. ValidPresence(f.presence, c)
  <2>1. f.presence.debounce = 1 /\ f.presence.timeout = 2
    BY Zenon DEF ForBoard
  <2>2. 1 \in 1 .. MaxTime /\ 2 \in 1 .. MaxTime
    BY ConfigurationAssumption
  <2>3. CASE p.source = "bootsel"
    <3>1. f.presence.source = "bootsel" /\ c.bootsel
      BY <2>3, Zenon DEF ForBoard, Capabilities
    <3> QED
      BY <2>1, <2>2, <3>1, SMTT(30) DEF ValidPresence
  <2>4. CASE p.source = "button"
    <3>1. f.presence.source = "button" /\ c.external /\ c.button = p.button
      BY <2>4, <1>t, Zenon DEF ForBoard, Capabilities, Accepted, Constructed, BuiltProfile, NoPin
    <3>2. p.button < GpioCount
      BY Zenon DEF Accepted, FitsPackage
    <3> QED
      BY <2>1, <2>2, <3>1, <3>2, SMTT(30) DEF ValidPresence
  <2> QED
    BY <1>t, <2>3, <2>4, Zenon DEF BuiltProfile
<1>4. ~(f.presence.source = "button" /\ f.led.enabled /\ c.button # NoPin /\ f.led.gpio = c.button)
  <2> SUFFICES ASSUME f.led.enabled, c.button # NoPin PROVE f.led.gpio # c.button
    BY Zenon
  <2>1. c.available
    BY Zenon DEF ForBoard
  <2>2. f.led.gpio = p.gpio
    BY <1>g, <2>1, Zenon
  <2>3. p.source = "button" /\ c.button = p.button
    BY Zenon DEF Capabilities
  <2> QED
    BY <2>2, <2>3, Zenon DEF Accepted, ProfileInvariants
<1>5. f.version = CONFIG_VERSION /\ f.usb = id
  BY Zenon DEF ForBoard
<1> HIDE DEF c, f
<1> QED
  BY <1>2, <1>3, <1>4, <1>5, Zenon
     DEF ValidConfig, AllowsConfigChange, AllowsIdentityProvisioning, c, f

(***************************************************************************)
(* The inductive invariant.                                                *)
(***************************************************************************)
BoardInv ==
    /\ profile \in Profile
    /\ identity # BadIdentity
    /\ led # NoPin => led \in {profile.gpio} \cup profile.candidates
    /\ led # NoPin => LedAvailable(profile)

(* What a configured LED holds. *)
LEMMA ConfigureStays ==
    ASSUME BoardInv, NEW new
    PROVE  LET pin == Configure(led, new)
           IN  pin # NoPin =>
                  /\ pin \in {profile.gpio} \cup profile.candidates
                  /\ LedAvailable(profile)
BY Zenon DEF BoardInv, Configure

(* A device that is off holds no LED and presents the identity of its board. *)
LEMMA BoardInit == HousekeepingInit => BoardInv
BY DeviceAssumption, ConfigurationAssumption, Zenon DEF HousekeepingInit, DeviceInit, BoardInv

(* The steps that leave the board, the identity and the LED alone. *)
LEMMA BoardUntouched ==
    BoardInv /\ UNCHANGED <<profile, identity, led>> => BoardInv'
BY Zenon DEF BoardInv, LedAvailable

(* The commands of the service: the preview of SET CONFIGURATION goes      *)
(* through GpioLed::configure, the others leave the LED alone.             *)
LEMMA ServiceStep ==
    ASSUME BoardInv, NEW r, NEW status, HandleService(r, status)
    PROVE  BoardInv'
<1>1. CASE SetConfiguration(r.config, status)
  <2>1. CASE UNCHANGED <<profile, identity>> /\ led' = Configure(led, r.config.led)
    BY <2>1, ConfigureStays, Zenon DEF BoardInv, LedAvailable
  <2>2. CASE UNCHANGED deviceVars
    BY <2>2, BoardUntouched, Zenon DEF deviceVars
  <2> QED
    BY <1>1, <2>1, <2>2, Zenon DEF SetConfiguration
<1>2. CASE ChangeLifecycle(r.op, status)
  BY <1>2, BoardUntouched, Zenon DEF ChangeLifecycle, deviceVars
<1>3. CASE Reporting(r, status)
  BY <1>3, BoardUntouched, Zenon DEF Reporting, deviceVars
<1> QED
  BY <1>1, <1>2, <1>3, Zenon DEF HandleService

(* Every step of the tool, the channel, the loop and the boot keeps it. *)
LEMMA BoardStep == BoardInv /\ [HousekeepingNext]_allVars => BoardInv'
<1> SUFFICES ASSUME BoardInv, [HousekeepingNext]_allVars PROVE BoardInv'
  BY Zenon
<1>1. CASE \E r \in menu.asks : Ask(r)
  BY <1>1, BoardUntouched, Zenon DEF Ask, device, deviceVars
<1>2. CASE WriteReport
  BY <1>2, BoardUntouched, Zenon DEF WriteReport, device, deviceVars
<1>3. CASE ReadReport
  BY <1>3, BoardUntouched, Zenon DEF ReadReport, device, deviceVars
<1>4. CASE GiveUp
  BY <1>4, BoardUntouched, Zenon DEF GiveUp, device, deviceVars
<1>5. CASE TakeReport
  <2> DEFINE parts == Accept(current, out[1])
             r == parts[1].req
  <2>1. \/ UNCHANGED deviceVars
        \/ \E status \in {"ok", "error"} : HandleService(r, status)
        \/ CommitConfiguration
    BY <1>5, Zenon DEF TakeReport, RefuseCommit
  <2>2. CASE CommitConfiguration
    <3>1. UNCHANGED <<profile, identity>> /\ led' = Configure(led, staged.led)
      BY <2>2, Zenon DEF CommitConfiguration
    <3> QED
      BY <3>1, ConfigureStays, Zenon DEF BoardInv, LedAvailable
  <2> QED
    BY <2>1, <2>2, ServiceStep, BoardUntouched, Zenon DEF deviceVars
<1>6. CASE Persist
  BY <1>6, BoardUntouched, Zenon DEF Persist, deviceVars
<1>7. CASE SendReport
  BY <1>7, BoardUntouched, Zenon DEF SendReport, deviceVars
<1>8. CASE Detach
  BY <1>8, BoardUntouched, Zenon DEF Detach
<1>9. CASE Boot
  <2>1. CASE Identify
    <3>1. profile' = profile /\ identity' = IdentityOf(loaded')
      BY <2>1, Zenon DEF Identify
    <3>2. led' = IF LedAvailable(profile) THEN profile.gpio ELSE NoPin
      BY <2>1, Zenon DEF Identify
    <3>3. identity' # BadIdentity
      BY <3>1, DeviceAssumption, ConfigurationAssumption, Zenon DEF IdentityOf
    <3> QED
      BY <3>1, <3>2, <3>3, Zenon DEF BoardInv, LedAvailable
  <2>2. CASE Serve
    <3>1. UNCHANGED <<profile, identity>> /\ led' = Configure(led, config'.led)
      BY <2>2, Zenon DEF Serve
    <3> QED
      BY <3>1, ConfigureStays, Zenon DEF BoardInv, LedAvailable
  <2> QED
    BY <1>9, <2>1, <2>2, Zenon DEF Boot
<1>10. CASE LosePower
  <2>1. profile' = profile /\ identity' = BoardIdentity /\ led' = NoPin
    BY <1>10, Zenon DEF LosePower, Reset
  <2> QED
    BY <2>1, DeviceAssumption, ConfigurationAssumption, Zenon DEF BoardInv
<1>11. CASE UNCHANGED allVars
  BY <1>11, BoardUntouched, Zenon DEF allVars, deviceVars
<1> QED
  BY <1>1, <1>2, <1>3, <1>4, <1>5, <1>6, <1>7, <1>8, <1>9, <1>10, <1>11, Zenon DEF HousekeepingNext

(* The invariant holds of every behaviour. *)
LEMMA BoardAlways == HousekeepingSpec => []BoardInv
<1> QED
  BY BoardInit, BoardStep, PTL DEF HousekeepingSpec

(* On every board, with every identity it can be given, the defaults the   *)
(* device falls back to are valid (configuration.rs, for_board).           *)
THEOREM DefaultsAlwaysValid == HousekeepingSpec => []DefaultsAreValid
<1>1. BoardInv => DefaultsAreValid
  BY ForBoardValidates, DeviceAssumption, Zenon DEF BoardInv, DefaultsAreValid, Accepted, caps
<1> QED
  BY <1>1, BoardAlways, PTL

(* On every board, whatever configurations are previewed, committed,       *)
(* loaded or refused, the LED driver claims none of the flash's pins, nor  *)
(* the button's (led.rs, build).                                           *)
THEOREM LedAlwaysOnDeclaredPin == HousekeepingSpec => []LedOnDeclaredPin
<1>1. BoardInv => LedOnDeclaredPin
  <2> SUFFICES ASSUME BoardInv, led # NoPin PROVE LedOnDeclaredPin
    BY Zenon DEF LedOnDeclaredPin
  <2>1. Constructed(profile) /\ ProfileInvariants(profile)
    BY DeviceAssumption, Zenon DEF BoardInv
  <2>2. led \in {profile.gpio} \cup profile.candidates /\ LedAvailable(profile)
    BY Zenon DEF BoardInv
  <2>3. led >= FirstPin
    BY <2>1, <2>2, Zenon DEF Constructed, ProfileInvariants, LedAvailable
  <2>4. profile.source = "button" => led # profile.button
    BY <2>1, <2>2, Zenon DEF ProfileInvariants
  <2> QED
    BY <2>2, <2>3, <2>4, Zenon DEF LedOnDeclaredPin
<1> QED
  BY <1>1, BoardAlways, PTL

(* On every board both hold in every behaviour of the management channel:  *)
(* nothing that is configured takes a board out of its profile.            *)
THEOREM BoardAlwaysSafe == HousekeepingSpec => []BoardIsSafe
<1>1. DefaultsAreValid /\ LedOnDeclaredPin => BoardIsSafe
  BY Zenon DEF BoardIsSafe
<1> QED
  BY <1>1, DefaultsAlwaysValid, LedAlwaysOnDeclaredPin, PTL
-----------------------------------------------------------------------------
(***************************************************************************)
(* The store behind the service.  What is staged was asked for, so every   *)
(* step of the channel, the loop and the boot is a step of the store or    *)
(* leaves it alone: what was proved of the store by itself holds of it in  *)
(* the device.                                                             *)
(***************************************************************************)
(* Every step of the device is a step of the store, or leaves it alone. *)
LEMMA StoreStep ==
    ASSUME StagedListed, [HousekeepingNext]_allVars
    PROVE  [Next]_vars
<1>1. CASE TakeReport
  <2>1. \/ UNCHANGED vars
        \/ \E r, status : HandleService(r, status)
        \/ CommitConfiguration
    BY <1>1, Zenon DEF TakeReport, RefuseCommit
  <2>2. ASSUME NEW r, NEW status, HandleService(r, status) PROVE UNCHANGED vars
    BY <2>2, Zenon DEF HandleService, SetConfiguration, ChangeLifecycle, Reporting
  <2>3. CASE CommitConfiguration
    BY <2>3, Zenon DEF CommitConfiguration, CanCommit, StagedListed, Next
  <2> QED BY <2>1, <2>2, <2>3, Zenon
<1>2. CASE Persist
  BY <1>2, Zenon DEF Persist, Next
<1>3. CASE Boot
  BY <1>3, Zenon DEF Boot, Identify, Serve, Next
<1>4. CASE LosePower
  BY <1>4, Zenon DEF LosePower, Reset, Next
<1>5. CASE ~TakeReport /\ ~Persist /\ ~Boot /\ ~LosePower
  BY <1>5, Zenon DEF HousekeepingNext, Ask, WriteReport, ReadReport, GiveUp, SendReport, Detach,
     device, allVars
<1> QED BY <1>1, <1>2, <1>3, <1>4, <1>5, Zenon

(* A device is shipped with one good record, or with none. *)
LEMMA ShippedStore ==
    ASSUME HousekeepingInit
    PROVE  /\ IInv /\ StagedListed /\ Newest(slots) = Shipped(profile)
           /\ pc = "idle" /\ request = Blank /\ answer = "none" /\ loaded = Blank
           /\ Shipped(profile) \in Payload \cup {Blank}
<1>1. /\ profile \in Profile /\ slots = StoredBefore(Shipped(profile))
      /\ pc = "idle" /\ target = 0 /\ nextSeq = 0 /\ staged = Blank
      /\ request = Blank /\ answer = "none" /\ loaded = Blank
  BY Zenon DEF HousekeepingInit, DeviceInit
<1>2. Shipped(profile) \in Payload \cup {Blank}
  BY <1>1, DeviceAssumption, Zenon
<1>3. /\ slots \in [SlotIndex -> SlotContents]
  BY <1>1, <1>2, ConstantsAssumption
     DEF StoredBefore, SlotIndex, SlotContents, ErasedSlot, Sequence
<1>4. ~Readable(slots, 1) /\ (Readable(slots, 0) <=> Shipped(profile) # Blank)
  BY <1>1 DEF StoredBefore, SlotIndex, ErasedSlot, Readable
<1>5. Shipped(profile) # Blank => slots[0].data = Shipped(profile)
  BY <1>1, Zenon DEF StoredBefore, SlotIndex
<1>6. Newest(slots) = Shipped(profile)
  BY <1>4, <1>5, Zenon DEF Newest, AnyReadable, BestSlot
<1>7. IInv
  BY <1>1, <1>3, <1>4, ConstantsAssumption
     DEF IInv, TypeOK, DistinctSequences, StoreInProgress, SlotIndex, Sequence
<1> QED BY <1>1, <1>2, <1>6, <1>7, Zenon DEF StagedListed

(* So its invariant holds of the store in the device. *)
LEMMA StoreAlways == HousekeepingSpec => [](StagedListed /\ IInv)
<1>1. HousekeepingInit => IInv
  BY ShippedStore, Zenon
<1>2. StagedListed /\ IInv /\ [HousekeepingNext]_allVars => IInv'
  BY StoreStep, NextInvariant, Zenon
<1> QED BY <1>1, <1>2, StagedAlways, PTL DEF HousekeepingSpec

(* In the device too the store is an atomic record, shipped blank or with  *)
(* a configuration: a commit replaces it in one step or not at all, and a  *)
(* boot loads it or is told that it could not (main.rs, persist_config and *)
(* load_config).                                                           *)
THEOREM DeviceRefinement == HousekeepingSpec => ImplementsAtomicRecord
<1>1. HousekeepingInit => Atomic!Init
  BY ShippedStore, Zenon DEF Atomic!Init
<1>2. StagedListed /\ IInv /\ [HousekeepingNext]_allVars
        => [Atomic!Next]_(Atomic!vars)
  BY StoreStep, StepRefinement, Zenon
<1> QED BY <1>1, <1>2, StoreAlways, PTL DEF HousekeepingSpec, ImplementsAtomicRecord, Atomic!Spec

-----------------------------------------------------------------------------
(***************************************************************************)
(* The configuration.  A commit is persisted before anything else is       *)
(* taken; what was persisted last is the newest record and validates on    *)
(* this board in the factory state, which is the one every boot starts in. *)
(***************************************************************************)
Bootable(c) == ValidConfig(c, caps, "factory", BoardIdentity)

CommitInv ==
    /\ told # Blank =>
          pc = "idle" /\ told \in Payload /\ Newest(slots) = told /\ Bootable(told)
    /\ pc # "idle" => task = "persisting" /\ request = config /\ Bootable(config)
    /\ phase # "serving" => lifecycle = "factory"

(* In the factory state validation does not depend on the identity, and    *)
(* what is accepted in another state is accepted in this one.              *)
LEMMA AcceptedIsBootable ==
    ASSUME BoardInv, NEW c, NEW state, NEW id, ValidConfig(c, caps, state, id), id # BadIdentity
    PROVE  \A other : ValidConfig(c, caps, "factory", other)
BY Zenon DEF ValidConfig, AllowsConfigChange, AllowsIdentityProvisioning

(* The steps that leave the store and the history of commits alone. *)
LEMMA CommitUntouched ==
    ASSUME CommitInv, UNCHANGED <<slots, pc, request, told, profile>>,
           phase' # "serving" => lifecycle' = "factory",
           pc # "idle" => UNCHANGED <<task, config>>
    PROVE  CommitInv'
BY Zenon DEF CommitInv, Bootable, caps

(* A device is shipped with a configuration that boots, or with none. *)
LEMMA CommitInit == HousekeepingInit => CommitInv
<1> SUFFICES ASSUME HousekeepingInit PROVE CommitInv
  BY Zenon
<1>1. /\ profile \in Profile /\ told = Shipped(profile) /\ lifecycle = "factory"
  BY Zenon DEF HousekeepingInit, DeviceInit
<1>2. /\ Newest(slots) = told /\ pc = "idle" /\ told \in Payload \cup {Blank}
  BY <1>1, ShippedStore, Zenon
<1>3. told # Blank => Bootable(told)
  BY <1>1, DeviceAssumption, Zenon DEF Bootable, caps
<1> QED BY <1>1, <1>2, <1>3, Zenon DEF CommitInv

(* The service: only a commit touches the store, and it forgets what was   *)
(* persisted before.                                                       *)
LEMMA CommitTakeReport ==
    ASSUME BoardInv, IInv, CommitInv, TakeReport
    PROVE  CommitInv'
<1>1. phase = "serving" /\ task = "reading" /\ pc = "idle"
  BY Zenon DEF TakeReport, CommitInv
<1>2. \/ UNCHANGED <<vars, deviceVars, told>>
      \/ (\E r, status : HandleService(r, status)) /\ told' = told
      \/ /\ CommitConfiguration /\ told' = Blank
         /\ task' = IF pc' = "idle" THEN "replying" ELSE "persisting"
  BY Zenon DEF TakeReport, RefuseCommit
<1>3. CASE UNCHANGED <<vars, deviceVars, told>>
  BY <1>1, <1>3, CommitUntouched, Zenon DEF vars, deviceVars
<1>4. ASSUME NEW r, NEW status, HandleService(r, status), told' = told PROVE CommitInv'
  <2>1. UNCHANGED <<vars, phase, profile>>
    BY <1>4, Zenon DEF HandleService, SetConfiguration, ChangeLifecycle, Reporting, deviceVars
  <2> QED BY <1>1, <1>4, <2>1, CommitUntouched, Zenon DEF vars
<1>5. CASE /\ CommitConfiguration /\ told' = Blank
           /\ task' = IF pc' = "idle" THEN "replying" ELSE "persisting"
  <2>1. /\ Accepts(staged) /\ config' = staged /\ UNCHANGED <<phase, profile>>
        /\ pc' # "idle" => request' = staged
    BY <1>1, <1>5, Zenon DEF CommitConfiguration, CanCommit, BeginStore, RefuseStore
  <2>2. Bootable(staged)
    BY <2>1, AcceptedIsBootable, Zenon DEF Accepts, Bootable, BoardInv
  <2>3. Bootable(config)'
    BY <2>1, <2>2, Zenon DEF Bootable, caps
  <2> QED BY <1>1, <1>5, <2>1, <2>3, Zenon DEF CommitInv
<1> QED BY <1>2, <1>3, <1>4, <1>5, Zenon

(* persist_config: what the store says it has stored is the newest record. *)
LEMMA CommitPersist ==
    ASSUME BoardInv, IInv, CommitInv, Persist
    PROVE  CommitInv'
<1>1. /\ pc # "idle" /\ UNCHANGED <<profile, phase, lifecycle, config>>
      /\ task' = IF pc' = "idle" THEN "replying" ELSE "persisting"
      /\ told' = IF answer' = "ok" THEN config ELSE told
  BY Zenon DEF Persist, EraseSlot, WriteHeader, WritePayload, FlashError, deviceVars
<1>2. /\ told = Blank /\ request = config /\ Bootable(config) /\ request \in Payload
      /\ answer = "busy"
  BY <1>1, Zenon DEF CommitInv, IInv, StoreInProgress
<1>3. Bootable(config)'
  BY <1>1, <1>2, Zenon DEF Bootable, caps
<1>4. CASE EraseSlot \/ WriteHeader
  <2>1. answer' = "busy" /\ request' = request
    BY <1>2, <1>4, Zenon DEF EraseSlot, WriteHeader
  <2> QED BY <1>1, <1>2, <1>3, <2>1, Zenon DEF CommitInv
<1>5. CASE FlashError
  <2>1. answer' = "error" /\ pc' = "idle"
    BY <1>5, Zenon DEF FlashError
  <2> QED BY <1>1, <1>2, <1>3, <2>1, Zenon DEF CommitInv
<1>6. CASE WritePayload
  <2>1. answer' = "ok" /\ pc' = "idle" /\ slots' = [slots EXCEPT ![target] = FullRecord]
    BY <1>6, Zenon DEF WritePayload
  <2>2. FullRecord \in Torn
    BY <1>6, Zenon DEF WritePayload, Torn
  <2>3. Newest(slots') = request
    BY <1>1, <2>1, <2>2, NewestAfterTear, Zenon
  <2>4. told' = config /\ Newest(slots)' = config /\ config' = config
    BY <1>1, <1>2, <2>1, <2>3, Zenon DEF Newest, AnyReadable, Readable, BestSlot
  <2>5. Bootable(told)'
    BY <1>1, <1>2, <2>4, Zenon DEF Bootable, caps
  <2> QED BY <1>1, <1>2, <2>1, <2>4, <2>5, Zenon DEF CommitInv
<1> QED BY <1>4, <1>5, <1>6, Zenon DEF Persist

(* Every step keeps the invariant of the configuration. *)
LEMMA CommitStep ==
    ASSUME BoardInv, IInv, CommitInv, [HousekeepingNext]_allVars
    PROVE  CommitInv'
<1>1. CASE TakeReport
  BY <1>1, CommitTakeReport, Zenon
<1>2. CASE Persist
  BY <1>2, CommitPersist, Zenon
<1>3. CASE Boot
  <2>1. pc = "idle" /\ phase # "serving"
    BY <1>3, Zenon DEF Boot, Identify, Serve, Load
  <2>2. UNCHANGED <<slots, pc, request, told, profile>>
    BY <1>3, Zenon DEF Boot, Identify, Serve, Load
  <2>3. phase' # "serving" => lifecycle' = "factory"
    BY <1>3, Zenon DEF Boot, Identify, Serve, CommitInv
  <2> QED BY <2>1, <2>2, <2>3, CommitUntouched, Zenon
<1>4. CASE LosePower
  <2>1. /\ pc' = "idle" /\ lifecycle' = "factory" /\ UNCHANGED <<profile, told>>
        /\ pc = "idle" => slots' = slots
    BY <1>4, Zenon DEF LosePower, Reset, PowerLoss
  <2> QED BY <2>1, Zenon DEF CommitInv, Bootable, caps
<1>5. CASE SendReport
  <2>1. pc = "idle"
    BY <1>5, Zenon DEF SendReport, CommitInv
  <2> QED BY <1>5, <2>1, CommitUntouched, Zenon DEF SendReport, CommitInv, vars, deviceVars
<1>6. CASE ~TakeReport /\ ~Persist /\ ~Boot /\ ~LosePower /\ ~SendReport
  <2>1. UNCHANGED <<slots, pc, request, told, profile, phase, lifecycle, task, config>>
    BY <1>6, Zenon DEF HousekeepingNext, Ask, WriteReport, ReadReport, GiveUp, Detach,
       device, deviceVars, vars, allVars, channelVars
  <2> QED BY <2>1, CommitUntouched, Zenon DEF CommitInv
<1> QED BY <1>1, <1>2, <1>3, <1>4, <1>5, <1>6, Zenon

(* It holds of every behaviour. *)
LEMMA CommitAlways == HousekeepingSpec => []CommitInv
BY CommitInit, CommitStep, BoardAlways, StoreAlways, PTL DEF HousekeepingSpec

(* Whatever was lost, detached, refused or reset since, a device boots     *)
(* with the configuration it last persisted, unless its record cannot be   *)
(* read (main.rs, load_config).                                            *)
THEOREM CommittedIsLoaded == HousekeepingSpec => CommittedSurvives
<1>1. ASSUME BoardInv, CommitInv, Serve, told # Blank, loaded' # Fault
      PROVE  config' = told
  <2>1. loaded' = told /\ told \in Payload /\ Bootable(told) /\ config' = LoadConfig(loaded')
    BY <1>1, Zenon DEF Serve, Load, CommitInv
  <2>2. told \notin {Blank, Fault}
    BY <2>1, ConstantsAssumption, Zenon
  <2>3. ValidConfig(told, caps, "factory", identity)
    BY <1>1, <2>1, AcceptedIsBootable, DeviceAssumption, ConfigurationAssumption, Zenon DEF Bootable
  <2> QED BY <2>1, <2>2, <2>3, Zenon DEF LoadConfig
<1> QED BY <1>1, BoardAlways, CommitAlways, PTL DEF HousekeepingSpec, CommittedSurvives

(* Until the next boot, which is in the factory state again, a device that *)
(* has left it gets no other identity by a commit, however it was staged   *)
(* (configuration.rs, validate).                                           *)
THEOREM IdentityIsFixed == HousekeepingSpec => IdentitySetOnlyInFactory
<1>1. ASSUME CommitInv, [HousekeepingNext]_allVars, lifecycle # "factory", phase' # "off",
             config' # config
      PROVE  config'.usb = identity
  <2>1. phase = "serving"
    BY <1>1, Zenon DEF CommitInv
  <2>2. TakeReport
    BY <1>1, <2>1, Zenon
       DEF HousekeepingNext, Ask, WriteReport, ReadReport, GiveUp, Persist, SendReport,
       Detach, Boot, Identify, Serve, LosePower, Reset, device, deviceVars, allVars
  <2>3. \/ CommitConfiguration
        \/ \E r, status : HandleService(r, status)
    BY <1>1, <2>2, Zenon DEF TakeReport, RefuseCommit, deviceVars
  <2>4. CASE CommitConfiguration
    <3>1. Accepts(staged) /\ config' = staged
      BY <2>4, Zenon DEF CommitConfiguration, CanCommit
    <3> QED BY <1>1, <3>1, Zenon DEF Accepts, ValidConfig, AllowsIdentityProvisioning
  <2>5. ASSUME NEW r, NEW status, HandleService(r, status) PROVE config'.usb = identity
    <3>1. config' = ForBoard(identity, caps)
      BY <1>1, <2>5, Zenon
         DEF HandleService, SetConfiguration, ChangeLifecycle, Reporting, deviceVars
    <3> QED BY <3>1, Zenon DEF ForBoard
  <2> QED BY <2>3, <2>4, <2>5, Zenon
<1> QED BY <1>1, CommitAlways, PTL DEF HousekeepingSpec, IdentitySetOnlyInFactory

-----------------------------------------------------------------------------
(***************************************************************************)
(* The update session.  While a session is open nothing is verified, so    *)
(* what BEGIN erases and WRITE programs is never a verified image.         *)
(***************************************************************************)
UpdateInv == VerifiedImageStaged /\ (session # NoSession => verified = NoSession)

(* A flash error in BEGIN or WRITE, and a reset, keep it too: the region a *)
(* session has begun to change is not a verified one.                      *)
LEMMA UpdateStep ==
    ASSUME UpdateInv, [HousekeepingNext]_allVars
    PROVE  UpdateInv'
<1>1. \/ UNCHANGED updateVars
      \/ session' = NoSession /\ UNCHANGED <<staging, verified>>
      \/ \E r, status : HandleUpdate(r, status)
  BY Zenon
     DEF HousekeepingNext, Ask, WriteReport, ReadReport, GiveUp, TakeReport, Persist, SendReport,
     Detach, Boot, LosePower, device, allVars
<1>2. ASSUME UNCHANGED <<staging, verified>>, session' \in {session, NoSession} PROVE UpdateInv'
  BY <1>2, Zenon DEF UpdateInv, VerifiedImageStaged
<1>3. ASSUME verified' = NoSession PROVE UpdateInv'
  BY <1>3, Zenon DEF UpdateInv, VerifiedImageStaged
<1>4. ASSUME NEW header, NEW status, BeginUpdate(header, status) \/ BeginUpdateFails(header)
      PROVE  UpdateInv'
  BY <1>2, <1>3, <1>4, Zenon DEF BeginUpdate, BeginUpdateFails, updateVars
<1>5. ASSUME NEW chunk, NEW status, WriteUpdate(chunk, status) \/ WriteUpdateFails(chunk)
      PROVE  UpdateInv'
  <2>1. CASE Fits(chunk)
    <3>1. verified' = NoSession
      BY <1>5, <2>1, Zenon DEF WriteUpdate, WriteUpdateFails, Fits, UpdateInv, updateVars
    <3> QED BY <3>1, <1>3, Zenon
  <2>2. CASE ~Fits(chunk)
    BY <1>2, <1>5, <2>2, Zenon DEF WriteUpdate, WriteUpdateFails, updateVars
  <2> QED BY <2>1, <2>2, Zenon
<1>6. ASSUME NEW status, FinishUpdate(status) \/ FinishUpdateFails PROVE UpdateInv'
  <2>1. CASE FinishUpdate(status) /\ Verifies
    <3>1. session' = NoSession /\ verified' = session.header /\ staging' = staging
      BY <2>1, Zenon DEF FinishUpdate
    <3>2. /\ session.header.rollback >= InstalledRollback /\ session.header.signed
          /\ Len(session.header.image) = session.header.len
          /\ \A i \in 1 .. session.header.len :
                staging[StagingBase + i - 1] = session.header.image[i]
      BY <2>1, Zenon DEF Verifies, ReadsBack
    <3> QED BY <3>1, <3>2, Zenon DEF UpdateInv, VerifiedImageStaged
  <2>2. CASE ~(FinishUpdate(status) /\ Verifies)
    BY <1>2, <1>6, <2>2, Zenon DEF FinishUpdate, FinishUpdateFails
  <2> QED BY <2>1, <2>2, Zenon
<1>7. ASSUME NEW status, AbortUpdate(status) PROVE UpdateInv'
  BY <1>2, <1>7, Zenon DEF AbortUpdate
<1>8. ASSUME NEW r, NEW status, HandleUpdate(r, status) PROVE UpdateInv'
  BY <1>4, <1>5, <1>6, <1>7, <1>8, Zenon DEF HandleUpdate
<1> QED BY <1>1, <1>2, <1>8, Zenon DEF updateVars

(* For every header, chunk and flash geometry, with the arithmetic of the  *)
(* build wrapping where it does: what FINISH reported verified is what the *)
(* staging region holds (update.rs, finish).                               *)
THEOREM VerifiedIsStaged == HousekeepingSpec => []VerifiedImageStaged
<1>1. HousekeepingInit => UpdateInv
  BY Zenon DEF HousekeepingInit, UpdateInit, UpdateInv, VerifiedImageStaged
<1>2. UpdateInv => VerifiedImageStaged
  BY Zenon DEF UpdateInv
<1> QED BY <1>1, <1>2, UpdateStep, PTL DEF HousekeepingSpec
==============================================================================

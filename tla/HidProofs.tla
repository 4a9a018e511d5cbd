------------------------------ MODULE HidProofs -----------------------------
(***************************************************************************)
(* Proofs about the FIDO transport: the user presence it waits for         *)
(* (Presence), for every debounce window and timeout, and the CTAPHID      *)
(* channels (CtapHid), for every number of applications, whatever they     *)
(* ask, give up and lose on the way.                                       *)
(***************************************************************************)
EXTENDS CtapHid, Presence, TLAPS

-----------------------------------------------------------------------------
(***************************************************************************)
(* User presence.                                                          *)
(***************************************************************************)
PresenceTypeOK ==
    /\ button \in BOOLEAN /\ waiting \in BOOLEAN /\ armed \in BOOLEAN
    /\ raw \in BOOLEAN /\ debounced \in BOOLEAN /\ awaiting \in BOOLEAN
    /\ change \in Nat /\ now \in Nat /\ downs \in Nat
    /\ fresh \in BOOLEAN

(* The inductive invariant.  A button that stayed down since it confirmed  *)
(* is debounced, so that it cannot go down again.  An operation that       *)
(* awaits no release started with the button up, so that a press it has    *)
(* seen was seen from the start: the count of samples is their age.        *)
PresenceInv ==
    /\ PresenceTypeOK
    /\ ~fresh /\ button => debounced
    /\ armed /\ ~awaiting => ~debounced
    /\ armed /\ ~raw => downs = 0
    /\ armed /\ ~awaiting /\ raw =>
          /\ change < now
          /\ downs > Debounce \/ downs = now - change

(* The clock of a poll. *)
LEMMA ClockType ==
    ASSUME PresenceInv
    PROVE  Clock \in Nat /\ ChangeAfter \in Nat /\ (armed => Clock = now) /\ (~armed => Clock = 0)
BY Zenon DEF PresenceInv, PresenceTypeOK, Clock, ChangeAfter

(* Only a button that went down since the last confirmation confirms. *)
LEMMA ConfirmsFresh == ASSUME PresenceInv, Confirms PROVE fresh
BY Zenon DEF PresenceInv, PresenceTypeOK, Confirms, Settles

(* A poll that confirms is the last of a whole window of samples. *)
LEMMA ConfirmsDebounced == ASSUME PresenceInv, Poll, Confirms PROVE downs' > Debounce
<1>1. /\ Clock \in Nat /\ ChangeAfter \in Nat /\ (armed => Clock = now) /\ (~armed => Clock = 0)
  BY ClockType, Zenon
<1>2. /\ button = TRUE /\ ~debounced /\ ~AwaitingAtArm
      /\ (IF Clock < ChangeAfter THEN 0 ELSE Clock - ChangeAfter) >= Debounce
  BY Zenon DEF Confirms, Settles, PresenceInv, PresenceTypeOK
<1>3. downs' = Capped(IF armed THEN downs ELSE 0)
  BY <1>2, Zenon DEF Poll, Observe
<1>4. Debounce \in Nat /\ downs \in Nat
  BY WindowAssumption, Zenon DEF PresenceInv, PresenceTypeOK
<1>5. CASE Debounce = 0
  BY <1>3, <1>4, <1>5 DEF Capped
<1>6. CASE Debounce # 0
  <2>1. ~(Clock < ChangeAfter) /\ Clock - ChangeAfter >= Debounce
    BY <1>1, <1>2, <1>4, <1>6
  <2>2. armed
    BY <1>1, <1>4, <1>6, <2>1
  <2>3. raw /\ ChangeAfter = change
    <3>1. button = raw
      BY <1>1, <1>4, <1>6, <2>1 DEF ChangeAfter
    <3> QED BY <1>2, <3>1, Zenon DEF ChangeAfter
  <2>4. downs > Debounce \/ downs = now - change
    BY <1>2, <2>2, <2>3, Zenon DEF PresenceInv, AwaitingAtArm
  <2>5. now - change >= Debounce
    BY <1>1, <2>1, <2>2, <2>3, Zenon
  <2> QED BY <1>3, <1>4, <2>2, <2>4, <2>5 DEF Capped
<1> QED BY <1>5, <1>6, Zenon

(* A poll keeps the invariant. *)
LEMMA PollKeeps == ASSUME PresenceInv, Poll PROVE PresenceInv'
<1>1. /\ Clock \in Nat /\ ChangeAfter \in Nat /\ (armed => Clock = now) /\ (~armed => Clock = 0)
  BY ClockType, Zenon
<1>2. /\ raw' = button /\ change' = ChangeAfter /\ now' = Clock + 1 /\ button' = button
      /\ debounced' = IF Settles THEN button ELSE debounced
      /\ armed' = ~(Confirms \/ Expires) /\ waiting' = armed'
      /\ awaiting' = (AwaitingAtArm /\ ~(Settles /\ ~button) /\ ~Expires)
      /\ downs' = IF button THEN Capped(IF armed THEN downs ELSE 0) ELSE 0
      /\ fresh' = (fresh /\ ~Confirms)
  BY Zenon DEF Poll, Observe
<1>3. /\ Debounce \in Nat /\ downs \in Nat /\ change \in Nat /\ now \in Nat
      /\ button \in BOOLEAN /\ raw \in BOOLEAN /\ debounced \in BOOLEAN
  BY WindowAssumption, Zenon DEF PresenceInv, PresenceTypeOK
<1>4. PresenceTypeOK'
  <2>1. downs' \in Nat
    BY <1>2, <1>3 DEF Capped
  <2>2. change' \in Nat /\ now' \in Nat
    BY <1>1, <1>2
  <2>3. /\ button' \in BOOLEAN /\ waiting' \in BOOLEAN /\ armed' \in BOOLEAN
        /\ raw' \in BOOLEAN /\ debounced' \in BOOLEAN /\ awaiting' \in BOOLEAN
        /\ fresh' \in BOOLEAN
    BY <1>2, <1>3, Zenon
  <2> QED BY <2>1, <2>2, <2>3, Zenon DEF PresenceTypeOK
<1>5. ~fresh' /\ button' => debounced'
  <2>1. CASE Confirms
    BY <1>2, <2>1, Zenon DEF Confirms
  <2>2. CASE ~Confirms
    <3>1. fresh' = fresh
      BY <1>2, <2>2, Zenon DEF PresenceInv, PresenceTypeOK
    <3> QED BY <1>2, <3>1 DEF PresenceInv
  <2> QED BY <2>1, <2>2, Zenon
<1>6. ASSUME armed', ~awaiting' PROVE ~debounced'
  <2>1. ~Confirms /\ ~Expires
    BY <1>2, <1>6, Zenon
  <2>2. ~AwaitingAtArm \/ (Settles /\ ~button)
    BY <1>2, <1>6, <2>1, Zenon
  <2>3. CASE Settles /\ ~button
    BY <1>2, <2>3, Zenon
  <2>4. CASE ~AwaitingAtArm /\ ~(Settles /\ ~button)
    <3>1. ~Settles
      BY <1>3, <2>1, <2>4, Zenon DEF Confirms
    <3>2. ~debounced
      BY <2>4, Zenon DEF AwaitingAtArm, PresenceInv
    <3> QED BY <1>2, <3>1, <3>2, Zenon
  <2> QED BY <2>2, <2>3, <2>4, Zenon
<1>7. ASSUME armed', ~awaiting', raw'
      PROVE  /\ change' < now'
             /\ downs' > Debounce \/ downs' = now' - change'
  <2>1. button /\ ~Confirms /\ ~Expires
    BY <1>2, <1>7, Zenon
  <2>2. ~AwaitingAtArm
    BY <1>2, <1>7, <2>1, Zenon
  <2>3. CASE button # raw
    <3>1. change' = Clock /\ now' = Clock + 1
      BY <1>2, <2>3, Zenon DEF ChangeAfter
    <3>2. armed => downs = 0
      BY <1>3, <2>1, <2>3, Zenon DEF PresenceInv
    <3>3. downs' = 1
      BY <1>2, <1>3, <2>1, <3>2 DEF Capped
    <3> QED BY <1>1, <3>1, <3>3
  <2>4. CASE button = raw
    <3>1. armed /\ ~awaiting
      BY <2>1, <2>2, <2>4, Zenon DEF AwaitingAtArm
    <3>2. /\ change < now /\ (downs > Debounce \/ downs = now - change)
      BY <2>1, <2>4, <3>1, Zenon DEF PresenceInv
    <3>3. change' = change /\ now' = now + 1 /\ downs' = Capped(downs)
      BY <1>1, <1>2, <2>1, <2>4, <3>1, Zenon DEF ChangeAfter
    <3> QED BY <1>3, <3>2, <3>3 DEF Capped
  <2> QED BY <2>3, <2>4, Zenon
<1>8. ~raw' => downs' = 0
  BY <1>2, Zenon
<1> QED BY <1>4, <1>5, <1>6, <1>7, <1>8, Zenon DEF PresenceInv

(* Every step keeps the invariant; the user, the host and the start of a   *)
(* wait leave the controller alone.                                        *)
LEMMA PresenceStep == PresenceInv /\ [PresenceNext]_presenceVars => PresenceInv'
<1> SUFFICES ASSUME PresenceInv, [PresenceNext]_presenceVars PROVE PresenceInv'
  BY Zenon
<1>1. CASE Press
  BY <1>1, Zenon DEF Press, holding, controller, PresenceInv, PresenceTypeOK
<1>2. CASE Release
  BY <1>2, Zenon DEF Release, holding, controller, history, PresenceInv, PresenceTypeOK
<1>3. ASSUME NEW notifying \in BOOLEAN, StartWait(notifying) PROVE PresenceInv'
  BY <1>3, Zenon DEF StartWait, controller, history, PresenceInv, PresenceTypeOK
<1>4. CASE Poll
  BY <1>4, PollKeeps, Zenon
<1>5. CASE UNCHANGED presenceVars
  BY <1>5, Zenon DEF presenceVars, holding, controller, history, PresenceInv, PresenceTypeOK
<1>6. CASE TakeKeepalive
  BY <1>6, Zenon DEF TakeKeepalive, controller, history, PresenceInv, PresenceTypeOK
<1> QED BY <1>1, <1>2, <1>3, <1>4, <1>5, <1>6, Zenon DEF PresenceNext

(* The inductive invariant holds of every wait. *)
LEMMA PresenceInvariance == PresenceSpec => []PresenceInv
<1>1. PresenceInit => PresenceInv
  <2>1. 0 \in Nat
    BY Zenon
  <2> QED BY <2>1, Zenon DEF PresenceInit, PresenceInv, PresenceTypeOK
<1> QED BY <1>1, PresenceStep, PTL DEF PresenceSpec

(* PresenceController: for every debounce window and timeout, two          *)
(* confirmations are separated by a physical press, although the button is *)
(* not sampled between two operations.                                     *)
THEOREM OnePressPerConfirmation == PresenceSpec => PressConfirmsOnce
<1>1. PresenceInv /\ [PresenceNext]_presenceVars => [Confirmed => fresh]_presenceVars
  <2> SUFFICES ASSUME PresenceInv, PresenceNext, Confirmed PROVE fresh
    BY Zenon
  <2>1. Poll /\ Confirms
    BY Zenon DEF PresenceNext, Press, Release, TakeKeepalive, StartWait, Poll, Confirmed
  <2> QED BY <2>1, ConfirmsFresh, Zenon
<1> QED BY <1>1, PresenceInvariance, PTL DEF PresenceSpec, PressConfirmsOnce

(* settle: for every debounce window and timeout, a confirmation follows a *)
(* whole window of samples of the operation it confirms, although the      *)
(* clock starts again with every operation and the level's does not.       *)
THEOREM WholeWindow == PresenceSpec => ConfirmationIsDebounced
<1>1. PresenceInv /\ [PresenceNext]_presenceVars
         => [Confirmed => downs' > Debounce]_presenceVars
  <2> SUFFICES ASSUME PresenceInv, PresenceNext, Confirmed PROVE downs' > Debounce
    BY Zenon
  <2>1. Poll /\ Confirms
    BY Zenon DEF PresenceNext, Press, Release, TakeKeepalive, StartWait, Poll, Confirmed
  <2> QED BY <2>1, ConfirmsDebounced, Zenon
<1> QED BY <1>1, PresenceInvariance, PTL DEF PresenceSpec, ConfirmationIsDebounced

-----------------------------------------------------------------------------
(***************************************************************************)
(* CTAPHID.                                                                *)
(***************************************************************************)
Requests == [cmd : Command, packets : Nat \ {0}, up : BOOLEAN]
Phases == {"closed", "idle", "sending", "waiting", "failed"}
Sender == App \X Nat
Kinds == Command \cup {"error", "keepalive"}

AppState == [chan : 0 .. (Broadcast - 1), phase : Phases, req : Requests, k : Nat, n : Nat]
OutReport == [chan : 1 .. Broadcast, first : BOOLEAN, cmd : Command, length : Nat \ {0},
              sequence : Int, up : BOOLEAN, from : Sender]
Message == [chan : 1 .. Broadcast, cmd : Command, expected : Nat \ {0}, up : BOOLEAN,
            next : Nat, parts : Seq(Sender)]
Reply == [chan : 1 .. Broadcast, kind : Kinds, last : BOOLEAN, from : Sender,
          assigned : 0 .. (Broadcast - 1)]

HidTypes ==
    /\ app \in [App -> AppState]
    /\ out \in OutReport \cup {Nothing}
    /\ current \in Message \cup {Nothing}
    /\ job \in Message \cup {Nothing}
    /\ wire \in Seq(Reply)
    /\ next_channel \in 1 .. Broadcast

(***************************************************************************)
(* The inductive invariant.  It speaks of an application by its state x,   *)
(* and of a report or a message by its sender s = <<application, number of *)
(* the request>>.                                                          *)
(***************************************************************************)
Busy(x) == x.phase \in {"sending", "waiting"}

(* Nothing of an earlier request is under way any more: it was answered,   *)
(* or an INIT after it was.                                                *)
Synced(x) == x.phase = "idle" \/ (Busy(x) /\ x.req # InitReq)

(* s is the open request of its application or, until that is              *)
(* synchronised, an earlier one.                                           *)
SentBy(s, x) ==
    /\ s[2] <= x.n
    /\ Synced(x) => s[2] = x.n /\ x.phase # "idle"

IsOpen(s, x) == Busy(x) /\ s[2] = x.n

Chan(x) == IF x.chan = 0 THEN Broadcast ELSE x.chan

AppOK(x) ==
    /\ x.phase = "sending" => x.k < x.req.packets
    /\ x.phase = "waiting" => x.k = x.req.packets
    /\ ~Busy(x) => x.k = 0
    /\ Synced(x) => x.chan # 0

(* Each application has a channel of its own. *)
AppInv ==
    /\ \A a \in App : AppOK(app[a]) /\ app[a].chan < next_channel
    /\ \A a, b \in App : app[a].chan # 0 /\ app[a].chan = app[b].chan => a = b

(* The report o on its way in is the last one its application sent. *)
OutOK(o, x) ==
    /\ SentBy(o.from, x)
    /\ o.chan = Chan(x)
    /\ ~o.first => x.chan # 0
    /\ Busy(x) /\ x.k > 0 => o.from[2] = x.n
    /\ IsOpen(o.from, x) =>
          /\ o.length = x.req.packets
          /\ x.k > 0
          /\ o.sequence = x.k - 2
          /\ o.first = (x.k = 1)

OutInv == out # Nothing => OutOK(out, app[out.from[1]])

(* The parts of the message m are of one request. *)
OfOne(m) ==
    /\ Len(m.parts) > 0
    /\ \A i \in DOMAIN m.parts : m.parts[i] = m.parts[1]

(* The message c is in progress: a report o that continues it is of its    *)
(* request, and it has no more parts than were sent.                       *)
CurrentOK(c, x, o) ==
    /\ OfOne(c)
    /\ SentBy(c.parts[1], x)
    /\ c.chan = Chan(x)
    /\ c.next = Len(c.parts) - 1
    /\ o # Nothing /\ ~o.first /\ o.from[1] = c.parts[1][1] => o.from = c.parts[1]
    /\ IsOpen(c.parts[1], x) =>
          /\ c.expected = x.req.packets
          /\ Len(c.parts) <= x.k
          /\ o # Nothing /\ o.from = c.parts[1] => Len(c.parts) < x.k

CurrentInv == current # Nothing => CurrentOK(current, app[current.parts[1][1]], out)

(* The message j is complete: all its reports were sent. *)
JobOK(j, x, o) ==
    /\ SentBy(j.parts[1], x)
    /\ j.chan = Chan(x)
    /\ IsOpen(j.parts[1], x) =>
          /\ x.k = x.req.packets
          /\ o # Nothing => o.from[1] # j.parts[1][1]

(* The answer to job is still to be given or to be taken. *)
Unanswered == job # Nothing /\ (task = "write" => wire # <<>>)

JobInv ==
    /\ job # Nothing => OfOne(job) /\ current = Nothing
    /\ Unanswered => JobOK(job, app[Asker[1]], out)

(* Where the task is. *)
TaskInv ==
    /\ task \in {"read", "handle", "lock", "presence", "keepalive", "write"}
    /\ task = "read" => job = Nothing
    /\ task \in {"handle", "lock", "presence", "keepalive"} => job # Nothing
    /\ task \in {"lock", "presence", "keepalive"} => job.cmd \in {"cbor", "msg"}
    /\ task \notin {"write", "keepalive"} => wire = <<>>

(* The report r on the way out is an error or answers job. *)
ReplyOK(r) ==
    r.kind # "error" =>
        /\ job # Nothing
        /\ r.from = Asker
        /\ r.chan = job.chan
        /\ r.kind # "keepalive" => task = "write"

(* An INIT answer assigns a channel nobody has, or the one it came on. *)
AssignsOK(r) ==
    r.kind = "init" =>
        IF r.chan = Broadcast
        THEN /\ r.assigned \in 1 .. (next_channel - 1)
             /\ \A b \in App : app[b].chan # r.assigned
        ELSE r.assigned = r.chan

WireInv ==
    \A i \in DOMAIN wire :
        /\ wire[i].last = (i = Len(wire))
        /\ ReplyOK(wire[i])
        /\ AssignsOK(wire[i])

LockInv ==
    /\ holder \in {"none", "fido", "card"}
    /\ (holder = "fido") = (task \in {"presence", "keepalive"})
    /\ elapsed \in 0 .. MaxPolls

HidIInv ==
    /\ HidTypes
    /\ AppInv
    /\ OutInv
    /\ CurrentInv
    /\ JobInv
    /\ TaskInv
    /\ WireInv
    /\ LockInv

(* The application gives up or is told an error, or begins a request: an   *)
(* INIT, or any other one when it is idle.                                 *)
Quiet(x, y) ==
    /\ y.chan = x.chan
    /\ y.k = 0
    /\ \/ y.phase = "failed" /\ y.n = x.n
       \/ /\ y.phase = "sending"
          /\ y.n = x.n + 1
          /\ y.req = InitReq \/ x.phase = "idle"

(* What is under way then is of an earlier request. *)
LEMMA QuietOutdates ==
    ASSUME NEW x \in AppState, NEW y \in AppState, AppOK(x), Quiet(x, y),
           NEW s \in Sender, SentBy(s, x)
    PROVE  SentBy(s, y) /\ ~IsOpen(s, y)
<1>1. x.n \in Nat /\ y.n \in Nat /\ s[2] \in Nat
  BY Zenon DEF AppState, Sender
<1>2. CASE y.phase = "failed" /\ y.n = x.n
  BY <1>1, <1>2, Zenon DEF SentBy, Synced, IsOpen, Busy
<1>3. CASE /\ y.phase = "sending" /\ y.n = x.n + 1
           /\ y.req = InitReq \/ x.phase = "idle"
  BY <1>1, <1>3 DEF SentBy, Synced, IsOpen, Busy
<1> QED BY <1>2, <1>3, Zenon DEF Quiet

(* So the state of the application stays sound, and so does everything     *)
(* that is under way.                                                      *)
LEMMA QuietKeeps ==
    ASSUME NEW x \in AppState, NEW y \in AppState, AppOK(x), Quiet(x, y)
    PROVE  /\ AppOK(y)
           /\ \A o \in OutReport : OutOK(o, x) => OutOK(o, y)
           /\ \A c \in Message, o \in OutReport \cup {Nothing} :
                 /\ CurrentOK(c, x, o) => CurrentOK(c, y, o)
                 /\ OfOne(c) /\ JobOK(c, x, o) => JobOK(c, y, o)
<1>1. y.req.packets > 0 /\ y.k = 0 /\ y.chan = x.chan
  BY DEF AppState, Requests, Quiet
<1>2. AppOK(y)
  <2>1. CASE y.phase = "failed"
    BY <1>1, <2>1, Zenon DEF AppOK, Busy, Synced
  <2>2. CASE y.phase = "sending" /\ (y.req = InitReq \/ x.phase = "idle")
    <3>1. Synced(y) => Synced(x)
      BY <2>2, Zenon DEF Synced, Busy
    <3> QED BY <1>1, <2>2, <3>1, Zenon DEF AppOK, Busy
  <2> QED BY <2>1, <2>2, Zenon DEF Quiet
<1>3. Chan(y) = Chan(x) /\ ~(y.k > 0)
  BY <1>1 DEF Chan
<1>4. ASSUME NEW o \in OutReport, OutOK(o, x) PROVE OutOK(o, y)
  <2>1. SentBy(o.from, y) /\ ~IsOpen(o.from, y)
    BY <1>4, QuietOutdates, Zenon DEF OutOK, OutReport
  <2> QED BY <1>1, <1>3, <1>4, <2>1, Zenon DEF OutOK
<1>5. ASSUME NEW c \in Message, OfOne(c) PROVE c.parts[1] \in Sender
  BY <1>5 DEF OfOne, Message
<1>6. ASSUME NEW c \in Message, NEW o, CurrentOK(c, x, o) PROVE CurrentOK(c, y, o)
  <2>1. SentBy(c.parts[1], y) /\ ~IsOpen(c.parts[1], y)
    BY <1>5, <1>6, QuietOutdates, Zenon DEF CurrentOK
  <2> QED BY <1>3, <1>6, <2>1, Zenon DEF CurrentOK
<1>7. ASSUME NEW c \in Message, NEW o, OfOne(c), JobOK(c, x, o) PROVE JobOK(c, y, o)
  <2>1. SentBy(c.parts[1], y) /\ ~IsOpen(c.parts[1], y)
    BY <1>5, <1>7, QuietOutdates, Zenon DEF JobOK
  <2> QED BY <1>3, <1>7, <2>1, Zenon DEF JobOK
<1> QED BY <1>2, <1>4, <1>6, <1>7, Zenon

(* Who sent what is under way. *)
LEMMA Senders ==
    ASSUME HidIInv
    PROVE  /\ out # Nothing => out \in OutReport /\ out.from \in Sender /\ out.from[1] \in App
           /\ current # Nothing => /\ current \in Message /\ OfOne(current)
                                  /\ current.parts[1] \in Sender
                                  /\ current.parts[1][1] \in App
           /\ job # Nothing => /\ job \in Message /\ OfOne(job)
                              /\ Asker \in Sender /\ Asker[1] \in App
<1>1. out # Nothing => out \in OutReport /\ out.from \in Sender /\ out.from[1] \in App
  BY Zenon DEF HidIInv, HidTypes, OutReport, Sender
<1>2. ASSUME NEW m \in Message, OfOne(m) PROVE m.parts[1] \in Sender /\ m.parts[1][1] \in App
  BY <1>2 DEF Message, OfOne, Sender
<1>3. current # Nothing => current \in Message /\ OfOne(current)
  BY Zenon DEF HidIInv, HidTypes, CurrentInv, CurrentOK
<1>4. job # Nothing => job \in Message /\ OfOne(job)
  BY Zenon DEF HidIInv, HidTypes, JobInv
<1> QED BY <1>1, <1>2, <1>3, <1>4, Zenon DEF Asker

(* What is left of the reports on the way out, while nobody changes his    *)
(* channel.                                                                *)
LEMMA WireKept ==
    ASSUME HidIInv, \A a \in App : app'[a].chan = app[a].chan,
           UNCHANGED <<job, task, next_channel>>,
           wire' = wire \/ (wire # <<>> /\ wire' = Tail(wire))
    PROVE  WireInv' /\ wire' \in Seq(Reply) /\ (wire' # <<>> => wire # <<>>)
<1>1. wire \in Seq(Reply) /\ WireInv
  BY Zenon DEF HidIInv, HidTypes
<1>2. ASSUME NEW r PROVE (ReplyOK(r) => ReplyOK(r)') /\ (AssignsOK(r) => AssignsOK(r)')
  BY Zenon DEF ReplyOK, AssignsOK, Asker
<1>3. CASE wire' = wire
  <2>1. ASSUME NEW i \in DOMAIN wire'
        PROVE /\ wire'[i].last = (i = Len(wire')) /\ ReplyOK(wire[i])' /\ AssignsOK(wire[i])'
    BY <1>1, <1>2, <1>3, <2>1, Zenon DEF WireInv
  <2> QED BY <1>1, <1>3, <2>1, Zenon DEF WireInv
<1>4. CASE wire # <<>> /\ wire' = Tail(wire)
  <2>1. /\ wire' \in Seq(Reply) /\ Len(wire') = Len(wire) - 1 /\ Len(wire) \in Nat
        /\ \A i \in DOMAIN wire' : i + 1 \in DOMAIN wire /\ wire'[i] = wire[i + 1]
        /\ DOMAIN wire' \subseteq Nat
    BY <1>1, <1>4
  <2>2. ASSUME NEW i \in DOMAIN wire'
        PROVE  /\ wire'[i].last = (i = Len(wire')) /\ ReplyOK(wire[i])' /\ AssignsOK(wire[i])'
    <3> DEFINE r == wire[i + 1]
    <3>1. r.last = (i + 1 = Len(wire)) /\ ReplyOK(r) /\ AssignsOK(r) /\ wire'[i] = r
      BY <1>1, <2>1, <2>2, Zenon DEF WireInv
    <3>2. wire'[i].last = (i = Len(wire'))
      BY <2>1, <3>1
    <3> HIDE DEF r
    <3>3. ReplyOK(wire[i])' /\ AssignsOK(wire[i])'
      BY <3>1, Zenon DEF ReplyOK, AssignsOK, Asker
    <3> QED BY <3>2, <3>3, Zenon
  <2>3. wire' # <<>> => wire # <<>>
    BY <1>4, Zenon
  <2> QED BY <2>1, <2>2, <2>3, Zenon DEF WireInv
<1> QED BY <1>3, <1>4, Zenon

(* Applications that only give up or begin leave everything sound. *)
LEMMA QuietStep ==
    ASSUME HidIInv, app' \in [App -> AppState],
           \A a \in App : app'[a] = app[a] \/ Quiet(app[a], app'[a]),
           UNCHANGED <<out, device, holder, elapsed>>,
           wire' = wire \/ (wire # <<>> /\ wire' = Tail(wire))
    PROVE  HidIInv'
<1>1. HidTypes /\ AppInv /\ OutInv /\ CurrentInv /\ JobInv /\ TaskInv /\ LockInv
  BY Zenon DEF HidIInv
<1>2. UNCHANGED <<out, current, next_channel, job, task, holder, elapsed>>
  BY Zenon DEF device
<1>3. \A a \in App : /\ app[a] \in AppState /\ app'[a] \in AppState /\ AppOK(app[a])
                     /\ app'[a].chan = app[a].chan
  BY <1>1, Zenon DEF HidTypes, AppInv, Quiet
<1>4. \A a \in App :
         /\ AppOK(app'[a])
         /\ \A o \in OutReport : OutOK(o, app[a]) => OutOK(o, app'[a])
         /\ \A c \in Message, o \in OutReport \cup {Nothing} :
               /\ CurrentOK(c, app[a], o) => CurrentOK(c, app'[a], o)
               /\ OfOne(c) /\ JobOK(c, app[a], o) => JobOK(c, app'[a], o)
  BY <1>3, QuietKeeps, Zenon
<1>5. /\ out # Nothing => out \in OutReport /\ out.from[1] \in App
      /\ current # Nothing => current \in Message /\ current.parts[1][1] \in App
      /\ job # Nothing => job \in Message /\ OfOne(job) /\ Asker[1] \in App
      /\ out \in OutReport \cup {Nothing}
  BY <1>1, Senders, Zenon DEF HidTypes
<1>6. WireInv' /\ wire' \in Seq(Reply) /\ (wire' # <<>> => wire # <<>>)
  BY <1>2, <1>3, WireKept, Zenon
<1>7. HidTypes'
  BY <1>1, <1>2, <1>6, Zenon DEF HidTypes
<1>8. AppInv'
  <2>1. \A a \in App : AppOK(app'[a]) /\ app'[a].chan < next_channel'
    BY <1>1, <1>2, <1>3, <1>4, Zenon DEF AppInv
  <2>2. \A a, b \in App : app'[a].chan # 0 /\ app'[a].chan = app'[b].chan => a = b
    BY <1>1, <1>3, Zenon DEF AppInv
  <2> QED BY <2>1, <2>2, Zenon DEF AppInv
<1>9. OutInv'
  BY <1>1, <1>2, <1>4, <1>5, Zenon DEF OutInv
<1>10. CurrentInv'
  BY <1>1, <1>2, <1>4, <1>5, Zenon DEF CurrentInv
<1>11. JobInv'
  <2>1. job' # Nothing => OfOne(job)' /\ current' = Nothing
    BY <1>1, <1>2, Zenon DEF JobInv, OfOne
  <2>2. Unanswered' => Unanswered
    BY <1>2, <1>6, Zenon DEF Unanswered
  <2>3. Unanswered => JobOK(job, app'[Asker[1]], out)
    BY <1>1, <1>4, <1>5, Zenon DEF JobInv, Unanswered
  <2>4. Asker' = Asker
    BY <1>2, Zenon DEF Asker
  <2> QED BY <1>2, <2>1, <2>2, <2>3, <2>4, Zenon DEF JobInv
<1>12. TaskInv'
  BY <1>1, <1>2, <1>6, Zenon DEF TaskInv
<1>13. LockInv'
  BY <1>1, <1>2, Zenon DEF LockInv
<1> QED BY <1>6, <1>7, <1>8, <1>9, <1>10, <1>11, <1>12, <1>13, Zenon DEF HidIInv

(* An application gives up, opens or asks. *)
LEMMA BeginStep ==
    ASSUME HidIInv, NEW a \in App,
           GiveUp(a) \/ Open(a) \/ \E req \in Request[a] : Ask(a, req)
    PROVE  HidIInv'
<1>1. app \in [App -> AppState] /\ app[a] \in AppState
  BY Zenon DEF HidIInv, HidTypes
<1>2. InitReq \in Requests /\ Request[a] \subseteq Requests
  BY HidAssumption DEF InitReq, Requests, Command
<1>3. UNCHANGED <<out, device, holder, elapsed, wire>>
  BY Zenon DEF GiveUp, Open, Ask, lock
<1>4. ASSUME NEW y \in AppState, app' = [app EXCEPT ![a] = y], Quiet(app[a], y)
      PROVE  HidIInv'
  <2>1. app' \in [App -> AppState]
    BY <1>1, <1>4, Zenon
  <2>2. \A b \in App : app'[b] = app[b] \/ Quiet(app[b], app'[b])
    BY <1>1, <1>4, Zenon
  <2> QED BY <1>3, <2>1, <2>2, QuietStep, Zenon
<1>5. CASE GiveUp(a)
  <2> DEFINE y == [app[a] EXCEPT !.phase = "failed", !.k = 0]
  <2>1. app' = [app EXCEPT ![a] = y]
    BY <1>1, <1>5, Zenon DEF GiveUp
  <2>2. y \in AppState /\ Quiet(app[a], y)
    BY <1>1, Zenon DEF AppState, Phases, Quiet
  <2> QED BY <1>4, <2>1, <2>2, Zenon
<1>6. ASSUME NEW req \in Requests, Begin(a, req), req = InitReq \/ app[a].phase = "idle"
      PROVE  HidIInv'
  <2> DEFINE y == [app[a] EXCEPT !.phase = "sending", !.req = req, !.k = 0, !.n = @ + 1]
  <2>1. app' = [app EXCEPT ![a] = y]
    BY <1>1, <1>6, Zenon DEF Begin
  <2>2. y \in AppState
    <3>1. app[a].n + 1 \in Nat
      BY <1>1 DEF AppState
    <3>2. ASSUME NEW z \in AppState, NEW n \in Nat
          PROVE  [z EXCEPT !.phase = "sending", !.req = req, !.k = 0, !.n = n] \in AppState
      BY Zenon DEF AppState, Phases
    <3> QED BY <1>1, <3>1, <3>2, Zenon
  <2>3. Quiet(app[a], y)
    BY <1>1, <1>6, Zenon DEF AppState, Quiet
  <2> QED BY <1>4, <2>1, <2>2, <2>3, Zenon
<1> QED BY <1>2, <1>5, <1>6, Zenon DEF Open, Ask

(* The next report o of the open request: it continues only a message of   *)
(* this request, and a request with reports to send has no complete        *)
(* message.                                                                *)
LEMMA SendKeeps ==
    ASSUME NEW a \in App, NEW x \in AppState, NEW y \in AppState, NEW o \in OutReport,
           AppOK(x), x.phase = "sending",
           y.chan = x.chan, y.n = x.n, y.req = x.req, y.k = x.k + 1,
           y.phase = IF x.k + 1 = x.req.packets THEN "waiting" ELSE "sending",
           o.chan = Chan(x), o.first = (x.k = 0), o.length = x.req.packets,
           o.sequence = x.k - 1, o.from = <<a, x.n>>
    PROVE  /\ AppOK(y)
           /\ OutOK(o, y)
           /\ \A c \in Message :
                 /\ CurrentOK(c, x, Nothing) /\ c.parts[1][1] = a => CurrentOK(c, y, o)
                 /\ JobOK(c, x, Nothing) => JobOK(c, y, o)
<1>1. /\ x.k \in Nat /\ x.n \in Nat /\ x.req.packets \in Nat /\ x.k < x.req.packets
      /\ y.phase \in {"sending", "waiting"}
  BY Zenon DEF AppState, Requests, AppOK
<1>2. Busy(x) /\ Busy(y) /\ Chan(y) = Chan(x) /\ Synced(y) = Synced(x)
  BY <1>1, Zenon DEF Busy, Chan, Synced
<1>3. x.k # 0 => Synced(x) /\ x.chan # 0
  BY <1>1, <1>2 DEF Synced, AppOK, InitReq
<1>4. AppOK(y)
  BY <1>1, <1>2 DEF AppOK
<1>5. OutOK(o, y)
  <2>1. SentBy(o.from, y)
    BY <1>1 DEF SentBy
  <2>2. ~o.first => y.chan # 0
    BY <1>3, Zenon
  <2> QED BY <1>1, <1>2, <2>1, <2>2 DEF OutOK
<1>6. ASSUME NEW s, SentBy(s, x) PROVE SentBy(s, y) /\ IsOpen(s, y) = IsOpen(s, x)
  BY <1>1, <1>2, <1>6, Zenon DEF SentBy, IsOpen
<1>7. ASSUME NEW c \in Message, CurrentOK(c, x, Nothing), c.parts[1][1] = a
      PROVE  CurrentOK(c, y, o)
  <2>1. c.parts[1] \in Sender /\ Len(c.parts) \in Nat
    BY <1>7 DEF CurrentOK, OfOne, Message
  <2>2. ~o.first => o.from = c.parts[1]
    <3>1. c.parts[1] = <<c.parts[1][1], c.parts[1][2]>>
      BY <2>1 DEF Sender
    <3>2. x.k # 0 => c.parts[1][2] = x.n
      BY <1>3, <1>7, Zenon DEF CurrentOK, SentBy
    <3> QED BY <1>7, <3>1, <3>2, Zenon
  <2>3. IsOpen(c.parts[1], y) => c.expected = y.req.packets /\ Len(c.parts) < y.k
    BY <1>1, <1>6, <1>7, <2>1 DEF CurrentOK
  <2> QED BY <1>1, <1>2, <1>6, <1>7, <2>1, <2>2, <2>3, SMTT(30) DEF CurrentOK
<1>8. ASSUME NEW c \in Message, JobOK(c, x, Nothing) PROVE JobOK(c, y, o)
  BY <1>1, <1>2, <1>6, <1>8 DEF JobOK
<1> QED BY <1>4, <1>5, <1>7, <1>8, Zenon

(* An application sends a report. *)
LEMMA SendStep ==
    ASSUME HidIInv, NEW a \in App, SendReport(a)
    PROVE  HidIInv'
<1>1. HidTypes /\ AppInv /\ OutInv /\ CurrentInv /\ JobInv /\ TaskInv /\ LockInv
  BY Zenon DEF HidIInv
<1>2. UNCHANGED <<current, next_channel, job, task, wire, holder, elapsed>> /\ out = Nothing
  BY Zenon DEF SendReport, device, lock
<1> DEFINE x == app[a]
           y == [x EXCEPT !.k = @ + 1,
                          !.phase = IF x.k + 1 = x.req.packets THEN "waiting" ELSE "sending"]
           o == out'
<1>3. x \in AppState /\ AppOK(x) /\ x.phase = "sending" /\ Broadcast \in Nat \ {0}
  BY <1>1, HidAssumption, Zenon DEF HidTypes, AppInv, SendReport
<1>4. app' = [app EXCEPT ![a] = y]
  BY <1>1, Zenon DEF SendReport, HidTypes
<1>5. /\ y.chan = x.chan /\ y.n = x.n /\ y.req = x.req /\ y.k = x.k + 1
      /\ y.phase = IF x.k + 1 = x.req.packets THEN "waiting" ELSE "sending"
  BY <1>3, Zenon DEF AppState
<1>6. y \in AppState
  <2>1. x.k + 1 \in Nat
    BY <1>3 DEF AppState
  <2>2. ASSUME NEW z \in AppState, NEW p \in Phases, NEW k \in Nat
        PROVE  [z EXCEPT !.k = k, !.phase = p] \in AppState
    BY Zenon DEF AppState
  <2>3. (IF x.k + 1 = x.req.packets THEN "waiting" ELSE "sending") \in Phases
    BY Zenon DEF Phases
  <2> HIDE DEF x
  <2> QED BY <1>3, <2>1, <2>2, <2>3, Zenon
<1>7. /\ o = [chan |-> Chan(x), first |-> x.k = 0, cmd |-> x.req.cmd, length |-> x.req.packets,
              sequence |-> x.k - 1, up |-> x.req.up, from |-> <<a, x.n>>]
      /\ Chan(x) \in 1 .. Broadcast
  BY <1>3 DEF SendReport, Report, ChannelOf, Chan, AppState
<1>8. o \in OutReport
  BY <1>3, <1>7, SMTT(30) DEF OutReport, AppState, Requests, Sender
<1>9. o # Nothing
  BY <1>7, HidAssumption, SMTT(30) DEF Nothing
<1> HIDE DEF x, y, o
<1>10. /\ AppOK(y) /\ OutOK(o, y)
       /\ \A c \in Message :
             /\ CurrentOK(c, x, Nothing) /\ c.parts[1][1] = a => CurrentOK(c, y, o)
             /\ JobOK(c, x, Nothing) => JobOK(c, y, o)
  BY <1>3, <1>5, <1>6, <1>7, <1>8, SendKeeps
<1>11. app' \in [App -> AppState] /\ app'[a] = y /\ \A b \in App \ {a} : app'[b] = app[b]
  BY <1>1, <1>4, <1>6, Zenon DEF HidTypes
<1>12. \A b \in App : app'[b].chan = app[b].chan
  BY <1>5, <1>11, Zenon DEF x
<1>13. WireInv'
  BY <1>2, <1>12, WireKept, Zenon
<1>14. HidTypes'
  BY <1>1, <1>2, <1>8, <1>11, Zenon DEF HidTypes, o
<1>15. AppInv'
  <2>1. \A b \in App : AppOK(app'[b])
    BY <1>1, <1>10, <1>11, Zenon DEF AppInv
  <2> QED BY <1>1, <1>2, <1>12, <2>1, Zenon DEF AppInv
<1>16. OutInv'
  BY <1>7, <1>10, <1>11, Zenon DEF OutInv, o
<1>17. CurrentInv'
  <2> SUFFICES ASSUME current # Nothing
               PROVE  CurrentOK(current, app'[current.parts[1][1]], o)
    BY <1>2, Zenon DEF CurrentInv, o
  <2>1. /\ current \in Message /\ current.parts[1][1] \in App
        /\ CurrentOK(current, app[current.parts[1][1]], Nothing)
    BY <1>1, <1>2, Senders, Zenon DEF CurrentInv
  <2>2. CASE current.parts[1][1] = a
    BY <1>10, <1>11, <2>1, <2>2, Zenon DEF x
  <2>3. CASE current.parts[1][1] # a
    <3>1. o.from[1] # current.parts[1][1]
      BY <1>7, <2>3, Zenon
    <3> QED BY <1>11, <2>1, <2>3, <3>1, Zenon DEF CurrentOK
  <2> QED BY <2>2, <2>3, Zenon
<1>18. JobInv'
  <2>1. job' # Nothing => OfOne(job)' /\ current' = Nothing
    BY <1>1, <1>2, Zenon DEF JobInv, OfOne
  <2>2. Unanswered' = Unanswered /\ Asker' = Asker
    BY <1>2, Zenon DEF Unanswered, Asker
  <2>3. ASSUME Unanswered PROVE JobOK(job, app'[Asker[1]], o)
    <3>1. job \in Message /\ Asker[1] \in App /\ JobOK(job, app[Asker[1]], Nothing)
      BY <1>1, <1>2, <2>3, Senders, Zenon DEF JobInv, Unanswered
    <3>2. CASE Asker[1] = a
      BY <1>10, <1>11, <3>1, <3>2, Zenon DEF x
    <3>3. CASE Asker[1] # a
      <4>1. o.from[1] # job.parts[1][1]
        BY <1>7, <3>3, Zenon DEF Asker
      <4> QED BY <1>11, <3>1, <3>3, <4>1, Zenon DEF JobOK
    <3> QED BY <3>2, <3>3, Zenon
  <2> QED BY <1>2, <2>1, <2>2, <2>3, Zenon DEF JobInv, o
<1>19. TaskInv' /\ LockInv'
  BY <1>1, <1>2, Zenon DEF TaskInv, LockInv
<1> QED BY <1>13, <1>14, <1>15, <1>16, <1>17, <1>18, <1>19, Zenon DEF HidIInv

(* The answer an application takes is to the request it has open: the      *)
(* channel tells the application, and its synchronised state the request.  *)
LEMMA TakenIsOwn ==
    ASSUME HidIInv, wire # <<>>, wire[1].kind # "error", NEW a \in App, Sees(a, wire[1])
    PROVE  /\ wire[1].from = <<a, app[a].n>> /\ wire[1].chan = Chan(app[a])
           /\ job # Nothing /\ Asker = <<a, app[a].n>> /\ task = "write"
           /\ Opening(a) \/ Synced(app[a])
<1> DEFINE r == wire[1]
<1>1. 1 \in DOMAIN wire /\ r \in Reply
  BY DEF HidIInv, HidTypes
<1>2. job # Nothing /\ r.from = Asker /\ r.chan = job.chan /\ task = "write"
  BY <1>1, Zenon DEF HidIInv, WireInv, ReplyOK, Sees
<1>3. JobOK(job, app[Asker[1]], out) /\ Asker \in Sender /\ Asker[1] \in App
  BY <1>2, Senders, Zenon DEF HidIInv, JobInv, Unanswered
<1>4. r.chan = Chan(app[a]) /\ Busy(app[a])
  BY Zenon DEF Sees, ChannelOf, Chan, Busy
<1>5. CASE Opening(a)
  BY <1>2, <1>4, <1>5, Zenon DEF Sees
<1>6. CASE ~Opening(a)
  <2>1. Synced(app[a])
    BY <1>4, <1>6 DEF Opening, Synced, InitReq
  <2>2. \A b \in App : app[b] \in AppState /\ app[b].chan \in 0 .. (Broadcast - 1)
    BY Zenon DEF HidIInv, HidTypes, AppState
  <2>3. app[a].chan # 0 /\ Broadcast \in Nat
    BY <2>1, HidAssumption, Zenon DEF HidIInv, AppInv, AppOK
  <2>4. Chan(app[Asker[1]]) = Chan(app[a])
    BY <1>2, <1>3, <1>4, Zenon DEF JobOK, Asker
  <2>5. app[Asker[1]].chan = app[a].chan
    BY <1>3, <2>2, <2>3, <2>4 DEF Chan
  <2>6. Asker[1] = a
    BY <1>3, <2>3, <2>5, Zenon DEF HidIInv, AppInv
  <2>7. Asker[2] = app[a].n
    BY <1>3, <2>1, <2>6, Zenon DEF JobOK, SentBy, Asker
  <2>8. Asker = <<Asker[1], Asker[2]>>
    BY <1>3 DEF Sender
  <2> QED BY <1>2, <1>4, <2>1, <2>6, <2>7, <2>8, Zenon
<1> QED BY <1>5, <1>6, Zenon

(* An application takes the answer to its request. *)
LEMMA AnswerStep ==
    ASSUME HidIInv, TakeReport, wire[1].kind # "error", NEW a \in App, Sees(a, wire[1])
    PROVE  HidIInv'
<1> DEFINE r == wire[1]
           x == app[a]
           y == [x EXCEPT !.phase = "idle", !.k = 0,
                          !.chan = IF r.kind = "init" THEN r.assigned ELSE @]
<1>1. HidTypes /\ AppInv /\ OutInv /\ CurrentInv /\ JobInv /\ TaskInv /\ LockInv
  BY Zenon DEF HidIInv
<1>2. /\ UNCHANGED <<out, current, next_channel, job, task, holder, elapsed>>
      /\ wire # <<>> /\ wire' = Tail(wire)
  BY Zenon DEF TakeReport, device, lock
<1>3. /\ r.from = <<a, x.n>> /\ r.chan = Chan(x) /\ job # Nothing /\ Asker = <<a, x.n>>
      /\ task = "write"
      /\ Opening(a) \/ Synced(x)
  BY <1>2, TakenIsOwn, Zenon
<1>4. 1 \in DOMAIN wire /\ r \in Reply /\ wire \in Seq(Reply)
  BY <1>1, <1>2 DEF HidTypes
<1>5. r.last = (1 = Len(wire)) /\ AssignsOK(r)
  BY <1>4, Zenon DEF HidIInv, WireInv
<1>6. wire' = <<>>
  <2>1. Len(wire) = 1
    BY <1>5, Zenon DEF Sees
  <2>2. Tail(wire) \in Seq(Reply) /\ Len(Tail(wire)) = 0
    BY <1>2, <1>4, <2>1
  <2> QED BY <1>2, <2>2
<1>7. /\ app' \in [App -> AppState] /\ app'[a] = y
      /\ \A b \in App \ {a} : app'[b] = app[b]
  <2>1. ASSUME NEW b \in App, Sees(b, r) PROVE b = a
    BY <1>2, <1>3, <2>1, TakenIsOwn, Zenon
  <2>2. \A b \in App \ {a} : AfterReport(b, r) = app[b]
    BY <2>1, Zenon DEF AfterReport
  <2>3. AfterReport(a, r) = y
    BY Zenon DEF AfterReport
  <2>4. x \in AppState /\ r.assigned \in 0 .. (Broadcast - 1)
    BY <1>1, <1>4, Zenon DEF HidTypes, Reply
  <2>5. ASSUME NEW z \in AppState, NEW c \in 0 .. (Broadcast - 1)
        PROVE  [z EXCEPT !.phase = "idle", !.k = 0, !.chan = c] \in AppState
    BY Zenon DEF AppState, Phases
  <2>6. (IF r.kind = "init" THEN r.assigned ELSE x.chan) \in 0 .. (Broadcast - 1)
    BY <2>4, Zenon DEF AppState
  <2>7. y \in AppState
    <3> HIDE DEF x, r
    <3> QED BY <2>4, <2>5, <2>6, Zenon
  <2>8. app' = [b \in App |-> AfterReport(b, r)]
    BY Zenon DEF TakeReport
  <2> HIDE DEF y
  <2> QED BY <1>1, <2>2, <2>3, <2>7, <2>8, Zenon DEF HidTypes
<1>8. /\ y.phase = "idle" /\ y.k = 0 /\ y.n = x.n
      /\ y.chan = IF r.kind = "init" THEN r.assigned ELSE x.chan
  BY <1>1, Zenon DEF HidTypes, AppState
<1>9. /\ x.chan \in 0 .. (Broadcast - 1) /\ Broadcast \in Nat \ {0} /\ r.chan \in 1 .. Broadcast
      /\ next_channel \in 1 .. Broadcast
  BY <1>1, <1>4, HidAssumption, Zenon DEF HidTypes, AppState, Reply
<1>10. \/ y.chan = x.chan /\ x.chan # 0
       \/ y.chan \in 1 .. (next_channel - 1) /\ \A b \in App : app[b].chan # y.chan
  <2>1. CASE r.kind # "init"
    BY <1>1, <1>3, <1>8, <2>1, Zenon DEF AppInv, AppOK, Sees
  <2>2. CASE r.kind = "init" /\ r.chan = Broadcast
    BY <1>5, <1>8, <2>2, Zenon DEF AssignsOK
  <2>3. CASE r.kind = "init" /\ r.chan # Broadcast
    BY <1>3, <1>5, <1>8, <1>9, <2>3, Zenon DEF AssignsOK, Chan
  <2> QED BY <2>1, <2>2, <2>3, Zenon
<1> HIDE DEF y
<1>11. AppInv'
  <2>1. AppOK(y) /\ y.chan < next_channel
    BY <1>1, <1>8, <1>9, <1>10 DEF AppInv, AppOK, Busy
  <2>2. \A b \in App : AppOK(app'[b]) /\ app'[b].chan < next_channel'
    BY <1>1, <1>2, <1>7, <2>1, Zenon DEF AppInv
  <2>3. \A b, c \in App : app'[b].chan # 0 /\ app'[b].chan = app'[c].chan => b = c
    BY <1>1, <1>7, <1>10 DEF AppInv
  <2> QED BY <2>2, <2>3, Zenon DEF AppInv
<1>12. OutInv'
  <2> SUFFICES ASSUME out # Nothing PROVE OutOK(out, app'[out.from[1]])
    BY <1>2, Zenon DEF OutInv
  <2>1. JobOK(job, x, out)
    BY <1>1, <1>2, <1>3, Zenon DEF JobInv, Unanswered
  <2>2. IsOpen(Asker, x)
    BY <1>3, Zenon DEF IsOpen, Busy, Sees
  <2>3. out.from[1] # a
    BY <1>3, <2>1, <2>2 DEF JobOK, Asker
  <2> QED BY <1>1, <1>7, <2>3, Senders, Zenon DEF OutInv
<1>13. CurrentInv' /\ JobInv'
  <2>1. OfOne(job) /\ current = Nothing
    BY <1>1, <1>3, Zenon DEF JobInv
  <2>2. OfOne(job)' /\ current' = Nothing
    BY <1>2, <2>1, Zenon DEF OfOne
  <2>3. ~Unanswered'
    BY <1>2, <1>3, <1>6, Zenon DEF Unanswered
  <2> QED BY <2>2, <2>3, Zenon DEF CurrentInv, JobInv
<1>14. HidTypes'
  BY <1>1, <1>2, <1>6, <1>7 DEF HidTypes
<1>15. TaskInv' /\ LockInv'
  BY <1>1, <1>2, <1>3, Zenon DEF TaskInv, LockInv
<1>16. WireInv'
  BY <1>6 DEF WireInv
<1> QED BY <1>11, <1>12, <1>13, <1>14, <1>15, <1>16, Zenon DEF HidIInv

(* An application takes an error, or none takes the report. *)
LEMMA TakeStep ==
    ASSUME HidIInv, TakeReport
    PROVE  HidIInv'
<1>1. CASE wire[1].kind # "error" /\ \E a \in App : Sees(a, wire[1])
  BY <1>1, AnswerStep, Zenon
<1>2. CASE wire[1].kind = "error" \/ \A a \in App : ~Sees(a, wire[1])
  <2>1. ASSUME NEW a \in App
        PROVE  /\ AfterReport(a, wire[1]) \in AppState
               /\ \/ AfterReport(a, wire[1]) = app[a]
                  \/ Quiet(app[a], AfterReport(a, wire[1]))
    <3>1. app[a] \in AppState
      BY Zenon DEF HidIInv, HidTypes
    <3>2. [app[a] EXCEPT !.phase = "failed", !.k = 0] \in AppState
      BY <3>1, Zenon DEF AppState, Phases
    <3>3. Quiet(app[a], [app[a] EXCEPT !.phase = "failed", !.k = 0])
      BY <3>1, Zenon DEF AppState, Quiet
    <3> QED BY <1>2, <3>1, <3>2, <3>3, Zenon DEF AfterReport
  <2>2. /\ app' = [a \in App |-> AfterReport(a, wire[1])]
        /\ UNCHANGED <<out, device, holder, elapsed>> /\ wire # <<>> /\ wire' = Tail(wire)
    BY Zenon DEF TakeReport, lock
  <2>3. app' \in [App -> AppState] /\ \A a \in App : app'[a] = app[a] \/ Quiet(app[a], app'[a])
    BY <2>1, <2>2, Zenon
  <2> QED BY <2>2, <2>3, QuietStep, Zenon
<1> QED BY <1>1, <1>2, Zenon

(***************************************************************************)
(* The device.  A step of it leaves the applications alone.                *)
(***************************************************************************)

(* An error report, or an answer to the request whose message is job.      *)
LEMMA AnswerIsSound ==
    ASSUME NEW chan \in 1 .. Broadcast, NEW kind \in Kinds, NEW n \in Nat \ {0},
           NEW s \in Sender, NEW c \in 0 .. (Broadcast - 1),
           wire' = Answer(chan, kind, n, s, c),
           kind # "error" => /\ job' # Nothing /\ s = Asker' /\ chan = job'.chan
                             /\ kind # "keepalive" => task' = "write",
           kind = "init" =>
              IF chan = Broadcast
              THEN /\ c \in 1 .. (next_channel' - 1)
                   /\ \A b \in App : app'[b].chan # c
              ELSE c = chan
    PROVE  wire' \in Seq(Reply) /\ WireInv' /\ wire' # <<>>
<1> DEFINE R(i) == [chan |-> chan, kind |-> kind, last |-> i = n, from |-> s, assigned |-> c]
<1>1. wire' = [i \in 1 .. n |-> R(i)] /\ \A i \in 1 .. n : R(i) \in Reply
  BY Zenon DEF Answer, Reply
<1> HIDE DEF R
<1>2. wire' \in Seq(Reply) /\ Len(wire') = n /\ DOMAIN wire' = 1 .. n
      /\ \A i \in 1 .. n : wire'[i] = R(i)
  BY <1>1
<1>3. wire' # <<>>
  BY <1>2, Zenon
<1>4. ASSUME NEW i \in DOMAIN wire'
      PROVE  /\ wire'[i].last = (i = Len(wire')) /\ ReplyOK(wire[i])' /\ AssignsOK(wire[i])'
  <2>1. /\ wire'[i].chan = chan /\ wire'[i].kind = kind /\ wire'[i].last = (i = n)
        /\ wire'[i].from = s /\ wire'[i].assigned = c
    BY <1>2 DEF R
  <2>2. ReplyOK(wire[i])'
    BY <2>1, Zenon DEF ReplyOK
  <2>3. AssignsOK(wire[i])'
    BY <2>1, Zenon DEF AssignsOK
  <2> QED BY <1>2, <2>1, <2>2, <2>3, Zenon
<1> QED BY <1>2, <1>3, <1>4, Zenon DEF WireInv

(* In particular an error report.                                          *)
LEMMA ErrorIsSound ==
    ASSUME NEW chan \in 1 .. Broadcast, NEW s \in Sender, wire' = Answer(chan, "error", 1, s, 0)
    PROVE  wire' \in Seq(Reply) /\ WireInv' /\ wire' # <<>>
<1>1. "error" \in Kinds /\ 1 \in Nat \ {0} /\ 0 \in 0 .. (Broadcast - 1)
  BY HidAssumption DEF Kinds
<1>2. "error" # "init"
  BY Zenon
<1> QED BY <1>1, <1>2, AnswerIsSound, Zenon

(* The device drops a report. *)
LEMMA DropStep ==
    ASSUME HidIInv, DropReport
    PROVE  HidIInv'
<1>1. HidTypes /\ AppInv /\ CurrentInv /\ JobInv /\ TaskInv /\ WireInv /\ LockInv
  BY Zenon DEF HidIInv
<1>2. /\ UNCHANGED <<app, current, next_channel, job, task, wire, holder, elapsed>>
      /\ out' = Nothing
  BY Zenon DEF DropReport, device, lock
<1>3. HidTypes' /\ AppInv' /\ OutInv' /\ TaskInv' /\ LockInv'
  BY <1>1, <1>2, Zenon DEF HidTypes, AppInv, OutInv, TaskInv, LockInv
<1>4. CurrentInv'
  <2>1. ASSUME NEW c, NEW x, NEW o, CurrentOK(c, x, o) PROVE CurrentOK(c, x, Nothing)
    BY <2>1, Zenon DEF CurrentOK
  <2> QED BY <1>1, <1>2, <2>1, Zenon DEF CurrentInv
<1>5. JobInv'
  <2>1. job' # Nothing => OfOne(job)' /\ current' = Nothing
    BY <1>1, <1>2, Zenon DEF JobInv, OfOne
  <2>2. Unanswered' = Unanswered /\ Asker' = Asker
    BY <1>2, Zenon DEF Unanswered, Asker
  <2>3. Unanswered => JobOK(job, app[Asker[1]], Nothing)
    BY <1>1, Zenon DEF JobInv, JobOK
  <2> QED BY <1>2, <2>1, <2>2, <2>3, Zenon DEF JobInv
<1>6. WireInv'
  BY <1>2, WireKept, Zenon
<1> QED BY <1>3, <1>4, <1>5, <1>6, Zenon DEF HidIInv

(* A message with all the reports it declares has all its request sent. *)
LEMMA CompleteIsSound ==
    ASSUME NEW x \in AppState, AppOK(x), NEW m \in Message, CurrentOK(m, x, Nothing),
           Len(m.parts) >= m.expected
    PROVE  OfOne(m) /\ JobOK(m, x, Nothing)
<1>1. x.k \in Nat /\ x.req.packets \in Nat /\ m.expected \in Nat /\ Len(m.parts) \in Nat
  BY DEF AppState, Requests, Message
<1>2. Busy(x) => x.k <= x.req.packets
  BY <1>1 DEF AppOK, Busy
<1>3. IsOpen(m.parts[1], x) => x.k = x.req.packets
  BY <1>1, <1>2 DEF CurrentOK, IsOpen
<1> QED BY <1>3, Zenon DEF CurrentOK, JobOK

(* A message of one report, the first of a request. *)
LEMMA FirstIsSound ==
    ASSUME NEW x \in AppState, NEW o \in OutReport, OutOK(o, x), NEW m \in Message,
           m.parts = <<o.from>>, m.chan = o.chan, m.next = 0, m.expected = o.length
    PROVE  CurrentOK(m, x, Nothing)
<1>1. m.parts[1] = o.from /\ Len(m.parts) = 1 /\ DOMAIN m.parts = {1}
  OBVIOUS
<1>2. OfOne(m)
  BY <1>1 DEF OfOne
<1>3. x.k \in Nat
  BY Zenon DEF AppState
<1>4. IsOpen(m.parts[1], x) => m.expected = x.req.packets /\ Len(m.parts) <= x.k
  BY <1>1, <1>3 DEF OutOK
<1>5. SentBy(m.parts[1], x) /\ m.chan = Chan(x) /\ m.next = Len(m.parts) - 1
  BY <1>1 DEF OutOK
<1> QED BY <1>2, <1>4, <1>5, Zenon DEF CurrentOK

(* The message m, made of the reports of one request, is in progress or,   *)
(* when it has all its reports, is to be handled.                          *)
LEMMA ProgressStep ==
    ASSUME HidIInv, job = Nothing, out' = Nothing, wire = <<>>, wire' = <<>>,
           UNCHANGED <<app, next_channel, holder, elapsed>>, holder # "fido",
           NEW m \in Message, m.parts[1][1] \in App,
           CurrentOK(m, app[m.parts[1][1]], Nothing),
           current' = Progress(m).now, job' = Progress(m).message,
           task' = IF Progress(m).message # Nothing THEN "handle" ELSE "read"
    PROVE  HidIInv'
<1>1. HidTypes /\ AppInv /\ LockInv
  BY Zenon DEF HidIInv
<1>2. m # Nothing /\ Len(m.parts) \in Nat /\ m.expected \in Nat
  BY DEF Message, Nothing
<1>3. AppInv' /\ OutInv' /\ WireInv'
  BY <1>1, SMTT(30) DEF AppInv, OutInv, WireInv
<1>4. LockInv'
  BY <1>1, <1>2, SMTT(30) DEF LockInv, Progress
<1>5. CASE Len(m.parts) >= m.expected
  <2>1. current' = Nothing /\ job' = m /\ task' = "handle"
    BY <1>2, <1>5, Zenon DEF Progress
  <2>2. HidTypes'
    BY <1>1, <2>1, Zenon DEF HidTypes
  <2>3. TaskInv' /\ CurrentInv'
    BY <1>2, <2>1, Zenon DEF TaskInv, CurrentInv
  <2>4. JobInv'
    <3>1. Asker' = m.parts[1]
      BY <2>1, Zenon DEF Asker
    <3>2. OfOne(m) /\ JobOK(m, app[m.parts[1][1]], Nothing)
      <4>1. app[m.parts[1][1]] \in AppState /\ AppOK(app[m.parts[1][1]])
        BY <1>1, Zenon DEF HidTypes, AppInv
      <4> QED BY <1>5, <4>1, CompleteIsSound, Zenon
    <3> QED BY <2>1, <3>1, <3>2, Zenon DEF JobInv
  <2> QED BY <1>3, <1>4, <2>2, <2>3, <2>4, Zenon DEF HidIInv
<1>6. CASE ~(Len(m.parts) >= m.expected)
  <2>1. current' = m /\ job' = Nothing /\ task' = "read"
    BY <1>2, <1>6, Zenon DEF Progress
  <2>2. HidTypes'
    BY <1>1, <2>1, Zenon DEF HidTypes
  <2>3. TaskInv' /\ CurrentInv' /\ JobInv'
    BY <2>1, Zenon DEF TaskInv, CurrentInv, JobInv, Unanswered
  <2> QED BY <1>3, <1>4, <2>2, <2>3, Zenon DEF HidIInv
<1> QED BY <1>5, <1>6, Zenon

(* The device refuses a report: the message in progress is kept (another   *)
(* channel) or dropped.                                                    *)
LEMMA RefuseStep ==
    ASSUME HidIInv, task = "read", out # Nothing, out' = Nothing, wire = <<>>,
           UNCHANGED <<app, next_channel, holder, elapsed>>,
           Write(ErrorReport(out.chan, out.from)),
           current' = current \/ current' = Nothing, job' = Nothing
    PROVE  HidIInv'
<1>1. HidTypes /\ AppInv /\ CurrentInv /\ LockInv
  BY Zenon DEF HidIInv
<1>2. out.chan \in 1 .. Broadcast /\ out.from \in Sender /\ Broadcast \in Nat \ {0}
  BY Senders, HidAssumption, Zenon DEF OutReport
<1>3. wire' = Answer(out.chan, "error", 1, out.from, 0) /\ task' = "write"
  BY Zenon DEF Write, ErrorReport
<1>4. wire' \in Seq(Reply) /\ WireInv' /\ wire' # <<>>
  BY <1>2, <1>3, ErrorIsSound, Zenon
<1>5. HidTypes'
  BY <1>1, <1>4, Zenon DEF HidTypes
<1>6. AppInv' /\ OutInv' /\ JobInv' /\ TaskInv'
  BY <1>1, <1>3, SMTT(30) DEF AppInv, OutInv, JobInv, Unanswered, TaskInv
<1>7. LockInv'
  BY <1>1, <1>3 DEF LockInv
<1>8. CurrentInv'
  BY <1>1, Zenon DEF CurrentInv, CurrentOK
<1> QED BY <1>4, <1>5, <1>6, <1>7, <1>8, Zenon DEF HidIInv

(* A first report starts a message of its own. *)
LEMMA FirstReport ==
    ASSUME HidIInv, out # Nothing, out.first,
           NEW m, m = [chan |-> out.chan, cmd |-> out.cmd, expected |-> out.length,
                       up |-> out.up, next |-> 0, parts |-> <<out.from>>]
    PROVE  /\ m \in Message /\ m.parts[1][1] \in App
           /\ CurrentOK(m, app[m.parts[1][1]], Nothing)
<1>1. out \in OutReport /\ out.from \in Sender /\ out.from[1] \in App
      /\ OutOK(out, app[out.from[1]])
  BY Senders, Zenon DEF HidIInv, OutInv
<1>2. m \in Message
  BY <1>1, SMTT(30) DEF OutReport, Message
<1>3. /\ m.parts = <<out.from>> /\ m.chan = out.chan /\ m.next = 0 /\ m.expected = out.length
      /\ m.parts[1][1] = out.from[1]
  BY Zenon
<1>4. app[out.from[1]] \in AppState
  BY <1>1, Zenon DEF HidIInv, HidTypes
<1>5. CurrentOK(m, app[out.from[1]], Nothing)
  BY <1>1, <1>2, <1>3, <1>4, FirstIsSound, Zenon
<1> QED BY <1>1, <1>2, <1>3, <1>5, Zenon

(* A further report is of the request whose message is in progress: they   *)
(* came on one channel.                                                    *)
LEMMA FurtherReport ==
    ASSUME HidIInv, out # Nothing, ~out.first, current # Nothing,
           out.chan = current.chan, out.sequence = current.next,
           NEW m, m = [current EXCEPT !.next = @ + 1, !.parts = Append(@, out.from)]
    PROVE  /\ m \in Message /\ m.parts[1][1] \in App
           /\ CurrentOK(m, app[m.parts[1][1]], Nothing)
<1> DEFINE a == out.from[1]
           b == current.parts[1][1]
<1>1. /\ out \in OutReport /\ out.from \in Sender /\ a \in App /\ OutOK(out, app[a])
      /\ current \in Message /\ b \in App /\ CurrentOK(current, app[b], out)
      /\ AppInv
  BY Senders, Zenon DEF HidIInv, OutInv, CurrentInv
<1>2. \A c \in App : app[c] \in AppState /\ app[c].chan \in 0 .. (Broadcast - 1)
  BY Zenon DEF HidIInv, HidTypes, AppState
<1>3. a = b
  <2>1. app[a].chan # 0 /\ Chan(app[a]) = Chan(app[b])
    BY <1>1, Zenon DEF OutOK, CurrentOK
  <2>2. app[a].chan = app[b].chan
    BY <1>1, <1>2, <2>1, HidAssumption DEF Chan
  <2> QED BY <1>1, <2>1, <2>2, Zenon DEF AppInv
<1>4. out.from = current.parts[1]
  BY <1>1, <1>3, Zenon DEF CurrentOK
<1>5. current.parts \in Seq(Sender) /\ OfOne(current) /\ Len(current.parts) \in Nat
      /\ current.next = Len(current.parts) - 1 /\ current.next \in Nat
  BY <1>1 DEF CurrentOK, Message
<1>6. /\ m.chan = current.chan /\ m.expected = current.expected
      /\ m.next = current.next + 1 /\ m.parts = Append(current.parts, out.from)
  BY <1>1, Zenon DEF Message
<1>7. m \in Message
  <2>1. Append(current.parts, out.from) \in Seq(Sender) /\ current.next + 1 \in Nat
    BY <1>1, <1>5
  <2>2. ASSUME NEW c \in Message, NEW n \in Nat, NEW p \in Seq(Sender)
        PROVE  [c EXCEPT !.next = n, !.parts = p] \in Message
    BY Zenon DEF Message
  <2> QED BY <1>1, <2>1, <2>2, Zenon
<1>8. Len(m.parts) = Len(current.parts) + 1 /\ m.parts[1] = current.parts[1]
  BY <1>1, <1>5, <1>6 DEF OfOne
<1>9. OfOne(m)
  BY <1>1, <1>4, <1>5, <1>6 DEF OfOne
<1>10. app[b].k \in Nat
  BY <1>1, <1>2, Zenon DEF AppState
<1>11. IsOpen(m.parts[1], app[b]) =>
          m.expected = app[b].req.packets /\ Len(m.parts) <= app[b].k
  <2>1. IsOpen(current.parts[1], app[b]) =>
           current.expected = app[b].req.packets /\ Len(current.parts) < app[b].k
    BY <1>1, <1>4, Zenon DEF CurrentOK
  <2>2. Len(current.parts) < app[b].k => Len(m.parts) <= app[b].k
    BY <1>5, <1>8, <1>10
  <2> QED BY <1>6, <1>8, <2>1, <2>2, Zenon
<1>12. m.parts[1][1] = b /\ m.next = Len(m.parts) - 1
  BY <1>5, <1>6, <1>8
<1>13. CurrentOK(m, app[b], Nothing)
  BY <1>1, <1>6, <1>8, <1>9, <1>11, <1>12, Zenon DEF CurrentOK
<1> QED BY <1>1, <1>7, <1>12, <1>13, Zenon

(* The device reads a report. *)
LEMMA ReadStep ==
    ASSUME HidIInv, ReadReport
    PROVE  HidIInv'
<1>1. /\ task = "read" /\ out # Nothing /\ out' = Nothing
      /\ UNCHANGED <<app, next_channel, holder, elapsed>>
  BY Zenon DEF ReadReport, lock
<1>2. job = Nothing /\ wire = <<>> /\ holder # "fido"
  BY <1>1, Zenon DEF HidIInv, TaskInv, LockInv
<1>3. CASE Write(ErrorReport(out.chan, out.from)) /\ UNCHANGED <<current, job>>
  BY <1>1, <1>2, <1>3, RefuseStep, Zenon
<1>4. CASE Accepted(out)
  <2>1. CASE Accept(out) = Rejected
    <3>1. Write(ErrorReport(out.chan, out.from)) /\ current' = Nothing /\ job' = Nothing
      BY <1>4, <2>1 DEF Accepted, Rejected
    <3> QED BY <1>1, <1>2, <3>1, RefuseStep, Zenon
  <2>2. ASSUME NEW m, Accept(out) = Progress(m), m \in Message, m.parts[1][1] \in App,
               CurrentOK(m, app[m.parts[1][1]], Nothing)
        PROVE  HidIInv'
    <3>1. ~Progress(m).error
      BY Zenon DEF Progress
    <3>2. /\ current' = Progress(m).now /\ job' = Progress(m).message /\ wire' = wire
          /\ task' = IF Progress(m).message # Nothing THEN "handle" ELSE "read"
      BY <1>4, <2>2, <3>1, Zenon DEF Accepted
    <3> QED BY <1>1, <1>2, <2>2, <3>2, ProgressStep, Zenon
  <2>3. CASE out.first
    <3>1. Accept(out) = AcceptInit(out)
      BY <2>3, Zenon DEF Accept
    <3>2. CASE out.length > MaxPackets
      BY <2>1, <3>1, <3>2, Zenon DEF AcceptInit
    <3>3. CASE ~(out.length > MaxPackets)
      BY <1>1, <2>2, <2>3, <3>1, <3>3, FirstReport, SMTT(30) DEF AcceptInit
    <3> QED BY <3>2, <3>3, Zenon
  <2>4. CASE ~out.first
    <3>1. Accept(out) = AcceptCont(out)
      BY <2>4, Zenon DEF Accept
    <3> QED BY <1>1, <2>1, <2>2, <2>4, <3>1, FurtherReport, Zenon DEF AcceptCont
  <2> QED BY <2>3, <2>4, Zenon
<1> QED BY <1>3, <1>4, Zenon DEF ReadReport

(* The device answers the request it serves. *)
LEMMA ReplyStep ==
    ASSUME HidIInv, job # Nothing, Unanswered, UNCHANGED <<app, out, current, job>>,
           wire' \in Seq(Reply), WireInv', wire' # <<>>, task' = "write",
           next_channel' \in 1 .. Broadcast, next_channel' >= next_channel,
           holder' \in {"none", "card"}, elapsed' \in 0 .. MaxPolls
    PROVE  HidIInv'
<1>1. HidTypes /\ AppInv /\ OutInv /\ CurrentInv /\ JobInv
  BY Zenon DEF HidIInv
<1>2. HidTypes'
  BY <1>1, Zenon DEF HidTypes
<1>3. AppInv'
  <2>1. \A a \in App : app[a].chan \in Nat /\ next_channel \in Nat
    BY <1>1, HidAssumption DEF HidTypes, AppState
  <2>2. \A a \in App : app[a].chan < next_channel'
    BY <1>1, <2>1 DEF AppInv
  <2> QED BY <1>1, <2>2, Zenon DEF AppInv
<1>4. OutInv' /\ CurrentInv'
  BY <1>1, Zenon DEF OutInv, CurrentInv
<1>5. JobInv'
  <2>1. OfOne(job)' /\ current' = Nothing
    BY <1>1, Zenon DEF JobInv, OfOne
  <2>2. JobOK(job, app[Asker[1]], out) /\ Asker' = Asker
    BY <1>1, Zenon DEF JobInv, Asker
  <2> QED BY <2>1, <2>2, Zenon DEF JobInv
<1>6. TaskInv' /\ LockInv'
  BY DEF TaskInv, LockInv
<1> QED BY <1>2, <1>3, <1>4, <1>5, <1>6, Zenon DEF HidIInv

(* A step that only moves the task or the lock. *)
LEMMA MoveStep ==
    ASSUME HidIInv, UNCHANGED <<app, out, current, next_channel>>,
           job' = job \/ job' = Nothing, Unanswered' => Unanswered,
           wire' \in Seq(Reply), WireInv', TaskInv', LockInv'
    PROVE  HidIInv'
<1>1. HidTypes /\ AppInv /\ OutInv /\ CurrentInv /\ JobInv
  BY Zenon DEF HidIInv
<1>2. HidTypes' /\ AppInv' /\ OutInv' /\ CurrentInv'
  BY <1>1, Zenon DEF HidTypes, AppInv, OutInv, CurrentInv
<1>3. JobInv'
  <2>1. CASE job' = Nothing
    BY <2>1, Zenon DEF JobInv, Unanswered
  <2>2. CASE job' = job
    <3>1. job # Nothing => OfOne(job)' /\ current' = Nothing
      BY <1>1, <2>2, Zenon DEF JobInv, OfOne
    <3>2. Unanswered => JobOK(job, app[Asker[1]], out)
      BY <1>1, Zenon DEF JobInv
    <3>3. Asker' = Asker
      BY <2>2, Zenon DEF Asker
    <3> QED BY <2>2, <3>1, <3>2, <3>3, Zenon DEF JobInv
  <2> QED BY <2>1, <2>2, Zenon
<1> QED BY <1>2, <1>3, Zenon DEF HidIInv

(* handle_ctaphid: INIT assigns a channel that no application has. *)
LEMMA HandleStep ==
    ASSUME HidIInv, HandleMessage
    PROVE  HidIInv'
<1>1. HidTypes /\ AppInv /\ JobInv /\ TaskInv /\ LockInv
  BY Zenon DEF HidIInv
<1>2. /\ task = "handle" /\ UNCHANGED <<app, out, current, job, holder, elapsed>>
      /\ job # Nothing /\ wire = <<>>
  BY <1>1, Zenon DEF HandleMessage, lock, TaskInv
<1>3. Unanswered /\ Asker' = Asker
  BY <1>2, Zenon DEF Unanswered, Asker
<1>4. /\ job \in Message /\ Asker \in Sender /\ job.chan \in 1 .. Broadcast
      /\ job.expected \in Nat \ {0}
      /\ next_channel \in 1 .. Broadcast /\ Broadcast \in Nat \ {0}
      /\ \A b \in App : app[b].chan \in Nat /\ app[b].chan < next_channel
  <2>1. job \in Message /\ Asker \in Sender
    BY <1>2, Senders, Zenon
  <2>2. job.chan \in 1 .. Broadcast /\ job.expected \in Nat \ {0}
    BY <2>1, Zenon DEF Message
  <2>3. \A b \in App : app[b].chan \in Nat /\ app[b].chan < next_channel
    BY <1>1 DEF HidTypes, AppInv, AppState
  <2> QED BY <1>1, <2>1, <2>2, <2>3, HidAssumption, Zenon DEF HidTypes
<1>5. holder' \in {"none", "card"} /\ elapsed' \in 0 .. MaxPolls
  BY <1>1, <1>2, Zenon DEF LockInv
<1>6. ASSUME wire' \in Seq(Reply), WireInv', wire' # <<>>, task' = "write",
             next_channel' \in 1 .. Broadcast, next_channel' >= next_channel
      PROVE  HidIInv'
  BY <1>2, <1>3, <1>5, <1>6, ReplyStep, Zenon
<1>7. ASSUME NEW chan \in 1 .. Broadcast, Write(ErrorReport(chan, Asker)), UNCHANGED next_channel
      PROVE  HidIInv'
  <2>1. wire' = Answer(chan, "error", 1, Asker, 0) /\ task' = "write"
    BY <1>7, Zenon DEF Write, ErrorReport
  <2>2. wire' \in Seq(Reply) /\ WireInv' /\ wire' # <<>>
    BY <1>4, <2>1, ErrorIsSound, Zenon
  <2> QED BY <1>4, <1>6, <1>7, <2>1, <2>2
<1>8. ASSUME NEW kind \in {"ping", "wink", "cbor", "msg"}, NEW n \in Nat \ {0},
             Write(Answer(job.chan, kind, n, Asker, 0)), UNCHANGED next_channel
      PROVE  HidIInv'
  <2>1. wire' = Answer(job.chan, kind, n, Asker, 0) /\ task' = "write"
    BY <1>8, Zenon DEF Write
  <2>2. kind \in Kinds /\ kind # "init" /\ 0 \in 0 .. (Broadcast - 1)
    BY <1>4 DEF Kinds, Command
  <2>3. wire' \in Seq(Reply) /\ WireInv' /\ wire' # <<>>
    BY <1>2, <1>3, <1>4, <2>1, <2>2, AnswerIsSound, Zenon
  <2> QED BY <1>4, <1>6, <1>8, <2>1, <2>3
<1>9. CASE InitResponse
  <2>1. "init" \in Kinds /\ 1 \in Nat \ {0}
    BY DEF Kinds, Command
  <2>2. CASE /\ job.chan = Broadcast /\ next_channel \notin {0, Broadcast}
             /\ Write(Answer(Broadcast, "init", 1, Asker, next_channel))
             /\ next_channel' = next_channel + 1
    <3>1. wire' = Answer(Broadcast, "init", 1, Asker, next_channel) /\ task' = "write"
      BY <2>2, Zenon DEF Write
    <3>2. /\ next_channel \in 0 .. (Broadcast - 1) /\ next_channel \in 1 .. (next_channel' - 1)
          /\ next_channel' \in 1 .. Broadcast /\ next_channel' >= next_channel
          /\ \A b \in App : app'[b].chan # next_channel
      BY <1>2, <1>4, <2>2
    <3>3. wire' \in Seq(Reply) /\ WireInv' /\ wire' # <<>>
      BY <1>2, <1>3, <1>4, <2>1, <2>2, <3>1, <3>2, AnswerIsSound, Zenon
    <3> QED BY <1>6, <3>1, <3>2, <3>3, Zenon
  <2>3. CASE /\ job.chan # Broadcast /\ UNCHANGED next_channel
             /\ Write(Answer(job.chan, "init", 1, Asker, job.chan))
    <3>1. wire' = Answer(job.chan, "init", 1, Asker, job.chan) /\ task' = "write"
      BY <2>3, Zenon DEF Write
    <3>2. job.chan \in 0 .. (Broadcast - 1)
      BY <1>4, <2>3
    <3>3. wire' \in Seq(Reply) /\ WireInv' /\ wire' # <<>>
      BY <1>2, <1>3, <1>4, <2>1, <2>3, <3>1, <3>2, AnswerIsSound, Zenon
    <3> QED BY <1>4, <1>6, <2>3, <3>1, <3>3
  <2>4. CASE /\ UNCHANGED next_channel
             /\ Write(ErrorReport(job.chan, Asker))
    BY <1>4, <1>7, <2>4, Zenon
  <2> QED BY <1>9, <2>2, <2>3, <2>4, Zenon DEF InitResponse
<1>10. CASE task' = "lock" /\ job.cmd \in {"cbor", "msg"} /\ UNCHANGED <<wire, next_channel>>
  <2>1. wire' \in Seq(Reply) /\ WireInv'
    BY <1>2, <1>10 DEF WireInv
  <2>2. TaskInv'
    BY <1>2, <1>10, Zenon DEF TaskInv
  <2>3. LockInv'
    BY <1>1, <1>2, <1>10 DEF LockInv
  <2>4. Unanswered' => Unanswered
    BY <1>3, Zenon
  <2> QED BY <1>2, <1>10, <2>1, <2>2, <2>3, <2>4, MoveStep, Zenon
<1> QED
  <2>1. CASE job.cmd = "init" /\ InitResponse
    BY <1>9, <2>1, Zenon
  <2>2. CASE /\ job.cmd \in {"ping", "wink"}
             /\ Write(Answer(job.chan, job.cmd, IF job.cmd = "ping" THEN job.expected ELSE 1,
                             Asker, 0))
             /\ UNCHANGED next_channel
    <3>1. (IF job.cmd = "ping" THEN job.expected ELSE 1) \in Nat \ {0}
      BY <1>4
    <3>2. job.cmd \in {"ping", "wink", "cbor", "msg"}
      BY <2>2, Zenon
    <3> QED BY <1>8, <2>2, <3>1, <3>2, Zenon
  <2>3. CASE /\ job.cmd \in {"cbor", "msg"}
             /\ IF job.up THEN task' = "lock" /\ UNCHANGED wire
                ELSE Write(Answer(job.chan, job.cmd, 1, Asker, 0))
             /\ UNCHANGED next_channel
    <3>1. job.cmd \in {"ping", "wink", "cbor", "msg"} /\ 1 \in Nat \ {0}
      BY <2>3
    <3> QED BY <1>8, <1>10, <2>3, <3>1, Zenon
  <2>4. CASE Write(ErrorReport(job.chan, Asker)) /\ UNCHANGED next_channel
    BY <1>4, <1>7, <2>4, Zenon
  <2> QED BY <2>1, <2>2, <2>3, <2>4, Zenon DEF HandleMessage

(* The reports of an answer or a keepalive are out. *)
LEMMA WrittenStep ==
    ASSUME HidIInv, Written
    PROVE  HidIInv'
<1>1. HidTypes /\ TaskInv /\ LockInv
  BY Zenon DEF HidIInv
<1>2. /\ UNCHANGED <<app, out, current, next_channel, wire, holder, elapsed>> /\ wire = <<>>
      /\ task \in {"write", "keepalive"}
      /\ task' = IF task = "write" THEN "read" ELSE "presence"
      /\ job' = IF task = "write" THEN Nothing ELSE job
  BY Zenon DEF Written, lock
<1>3. wire' \in Seq(Reply) /\ WireInv'
  BY <1>2 DEF WireInv
<1>4. TaskInv' /\ LockInv'
  BY <1>1, <1>2 DEF TaskInv, LockInv
<1>5. Unanswered' => Unanswered
  BY <1>2, Zenon DEF Unanswered
<1>6. job' = job \/ job' = Nothing
  BY <1>2, Zenon
<1> QED BY <1>2, <1>3, <1>4, <1>5, <1>6, MoveStep, Zenon

(* The two tasks take and poll the presence source. *)
LEMMA LockStep ==
    ASSUME HidIInv, FidoLock \/ CardWants \/ CardLock \/ \E over \in BOOLEAN : CardPoll(over)
    PROVE  HidIInv'
<1>1. HidTypes /\ TaskInv /\ LockInv /\ MaxPolls \in Nat
  BY HidAssumption, Zenon DEF HidIInv
<1>2. UNCHANGED <<app, out, current, next_channel, job, wire>>
  BY Zenon DEF FidoLock, CardWants, CardLock, CardPoll, device
<1>3. WireInv'
  <2>1. ASSUME NEW r PROVE (ReplyOK(r) => ReplyOK(r)') /\ (AssignsOK(r) => AssignsOK(r)')
    <3>1. task = "write" => task' = "write"
      BY Zenon DEF FidoLock, CardWants, CardLock, CardPoll, device
    <3> QED BY <1>2, <3>1, Zenon DEF ReplyOK, AssignsOK, Asker
  <2>2. ASSUME NEW i \in DOMAIN wire'
        PROVE  /\ wire'[i].last = (i = Len(wire')) /\ ReplyOK(wire[i])' /\ AssignsOK(wire[i])'
    BY <1>2, <2>1, Zenon DEF HidIInv, WireInv
  <2> QED BY <2>2, Zenon DEF WireInv
<1>4. TaskInv'
  BY <1>1, <1>2, Zenon DEF TaskInv, FidoLock, CardWants, CardLock, CardPoll, device
<1>5. LockInv'
  BY <1>1 DEF LockInv, FidoLock, CardWants, CardLock, CardPoll, WaitOver, device
<1>6. Unanswered' => Unanswered
  <2>1. task = "write" => task' = "write"
    BY Zenon DEF FidoLock, CardWants, CardLock, CardPoll, device
  <2> QED BY <1>2, <2>1, Zenon DEF Unanswered
<1>7. wire' \in Seq(Reply)
  BY <1>1, <1>2, Zenon DEF HidTypes
<1> QED BY <1>2, <1>3, <1>4, <1>5, <1>6, <1>7, MoveStep, Zenon

(* The FIDO task polls: it goes on, sends a keepalive or answers. *)
LEMMA PollStep ==
    ASSUME HidIInv, NEW over \in BOOLEAN, FidoPoll(over)
    PROVE  HidIInv'
<1>1. HidTypes /\ TaskInv /\ LockInv /\ MaxPolls \in Nat
  BY HidAssumption, Zenon DEF HidIInv
<1>2. /\ UNCHANGED <<app, out, current, next_channel, job>>
      /\ task = "presence" /\ holder = "fido" /\ WaitOver(over)
  BY Zenon DEF FidoPoll
<1>3. job # Nothing /\ job.cmd \in {"cbor", "msg"} /\ wire = <<>>
  BY <1>1, <1>2, Zenon DEF TaskInv
<1>4. Unanswered /\ Asker' = Asker
  BY <1>2, <1>3, Zenon DEF Unanswered, Asker
<1>5. /\ Asker \in Sender /\ job.chan \in 1 .. Broadcast /\ next_channel \in 1 .. Broadcast
      /\ 1 \in Nat \ {0} /\ 0 \in 0 .. (Broadcast - 1) /\ Broadcast \in Nat
  BY <1>1, <1>3, Senders, HidAssumption DEF Message, HidTypes
<1>6. CASE over
  <2>1. wire' = Answer(job.chan, job.cmd, 1, Asker, 0) /\ task' = "write"
    BY <1>6, Zenon DEF FidoPoll, Write
  <2>2. job.cmd \in Kinds /\ job.cmd # "init"
    BY <1>3, Zenon DEF Kinds, Command
  <2>3. wire' \in Seq(Reply) /\ WireInv' /\ wire' # <<>>
    BY <1>2, <1>3, <1>4, <1>5, <2>1, <2>2, AnswerIsSound, Zenon
  <2>4. holder' \in {"none", "card"} /\ elapsed' \in 0 .. MaxPolls
    BY <1>1, <1>2, <1>6 DEF WaitOver
  <2>5. next_channel' \in 1 .. Broadcast /\ next_channel' >= next_channel
    BY <1>2, <1>5
  <2> QED BY <1>2, <1>3, <1>4, <2>1, <2>3, <2>4, <2>5, ReplyStep, Zenon
<1>7. CASE ~over
  <2>1. elapsed' \in 0 .. MaxPolls /\ holder' = "fido"
    BY <1>1, <1>2, <1>7 DEF WaitOver, LockInv
  <2>2. CASE wire' = Answer(job.chan, "keepalive", 1, Asker, 0) /\ task' = "keepalive"
    <3>1. "keepalive" \in Kinds /\ "keepalive" # "init"
      BY Zenon DEF Kinds
    <3>2. wire' \in Seq(Reply) /\ WireInv' /\ wire' # <<>>
      BY <1>2, <1>3, <1>4, <1>5, <2>2, <3>1, AnswerIsSound, Zenon
    <3>3. TaskInv' /\ LockInv'
      BY <1>2, <1>3, <2>1, <2>2, Zenon DEF TaskInv, LockInv
    <3> QED BY <1>2, <1>4, <3>2, <3>3, MoveStep, Zenon
  <2>3. CASE UNCHANGED <<task, wire>>
    <3>1. TaskInv' /\ LockInv'
      BY <1>1, <1>2, <2>1, <2>3, Zenon DEF TaskInv, LockInv
    <3>2. wire' \in Seq(Reply) /\ WireInv'
      BY <1>3, <2>3 DEF WireInv
    <3> QED BY <1>2, <1>4, <3>1, <3>2, MoveStep, Zenon
  <2> QED BY <1>7, <2>2, <2>3, Zenon DEF FidoPoll
<1> QED BY <1>6, <1>7, Zenon

(* Every reachable state satisfies the inductive invariant. *)
LEMMA HidInvariance == Spec => []HidIInv
<1>1. Init => HidIInv
  <2> SUFFICES ASSUME Init PROVE HidIInv
    BY Zenon
  <2>1. InitReq \in Requests /\ Broadcast \in Nat \ {0} /\ MaxPolls \in Nat
    BY HidAssumption DEF InitReq, Requests, Command
  <2>2. HidTypes
    BY <2>1 DEF Init, HidTypes, AppState, Phases
  <2>3. AppInv
    BY <2>1 DEF Init, AppInv, AppOK, Busy, Synced
  <2>4. OutInv /\ CurrentInv /\ JobInv /\ TaskInv /\ WireInv
    BY DEF Init, OutInv, CurrentInv, JobInv, Unanswered, TaskInv, WireInv
  <2>5. LockInv
    BY <2>1 DEF Init, LockInv
  <2> QED BY <2>2, <2>3, <2>4, <2>5, Zenon DEF HidIInv
<1>2. HidIInv /\ [Next]_vars => HidIInv'
  <2> SUFFICES ASSUME HidIInv, [Next]_vars PROVE HidIInv'
    BY Zenon
  <2>1. CASE UNCHANGED vars
    BY <2>1, QuietStep, Zenon DEF vars, device, lock, HidIInv, HidTypes
  <2>2. ASSUME NEW a \in App, Application(a) PROVE HidIInv'
    BY <2>2, BeginStep, SendStep, Zenon DEF Application
  <2>3. CASE Polls
    BY <2>3, PollStep, LockStep, Zenon DEF Polls
  <2>4. CASE TakeReport \/ DropReport \/ ReadReport \/ HandleMessage \/ Written
    BY <2>4, TakeStep, DropStep, ReadStep, HandleStep, WrittenStep, Zenon
  <2>5. CASE FidoLock \/ CardWants \/ CardLock
    BY <2>5, LockStep, Zenon
  <2> QED BY <2>1, <2>2, <2>3, <2>4, <2>5, Zenon DEF Next
<1> QED BY <1>1, <1>2, PTL DEF Spec

(* ctaphid.rs, run_fido: for any number of applications with requests of   *)
(* any length, however their reports interleave, are lost and are given    *)
(* up, a message handled is of one request and the reply an application    *)
(* takes is to the request it has open.                                    *)
THEOREM NothingMixedUp == Spec => []HidInv
<1>1. ASSUME HidIInv PROVE HidInv
  <2>1. TypeOK
    <3>1. ASSUME NEW a \in App
          PROVE  /\ app[a].phase \in {"closed", "idle", "sending", "waiting", "failed"}
                 /\ app[a].chan \in 0 .. (Broadcast - 1)
                 /\ app[a].k <= app[a].req.packets
      BY <1>1 DEF HidIInv, HidTypes, AppInv, AppOK, AppState, Requests, Phases, Busy
    <3> QED BY <1>1, <3>1, Zenon DEF TypeOK, HidIInv, HidTypes, TaskInv, LockInv
  <2>2. MessageIsOfOneRequest
    BY <1>1, Zenon DEF MessageIsOfOneRequest, HidIInv, JobInv, OfOne, Asker
  <2>3. ReplyIsOfRequest
    BY <1>1, TakenIsOwn, Zenon DEF ReplyIsOfRequest
  <2> QED BY <2>1, <2>2, <2>3, Zenon DEF HidInv
<1> QED BY <1>1, HidInvariance, PTL
=============================================================================

---------------------------- MODULE Housekeeping -----------------------------
(***************************************************************************)
(* The Management HID channel: the desktop tool's ManagementDevice         *)
(* (aegistoken-host transport.rs, framing.rs), the two endpoint buffers,   *)
(* and the firmware's housekeeping loop (main.rs) with its assembler       *)
(* (management.rs), the service of Device and the UpdateSession.           *)
(*                                                                         *)
(* A message is one report or an initialization report and one             *)
(* continuation; a report is told by the request or answer it is part of.  *)
(* Each endpoint buffers one report.  The tool may give a request up (its  *)
(* USB timeout, or the process ends), flash operations may fail, and power *)
(* may be lost, a bounded number of times each.                            *)
(***************************************************************************)
EXTENDS Device, UpdateSession

CONSTANTS
    Menu,             \* requests and how many of them a behaviour may ask
    MaxGivenUp, MaxFaults, MaxResets

ASSUME MenuAssumption ==
    \A m \in Menu : \A r \in m.asks : r.op = "set" => r.config \in Payload

VARIABLES
    menu,      \* the requests of this behaviour (asks), and their bound (most)
    asked,     \* the number of requests so far
    wish,      \* the one being written
    host,      \* "idle", "writing" or "reading"
    sent,      \* the reports of the request that have been written
    joined,    \* the tool's ResponseAssembler
    out,       \* the OUT endpoint
    in,        \* the IN endpoint
    current,   \* the assembler of the housekeeping loop
    task,      \* "reading", "persisting" or "replying"
    reply,     \* the reports of its answer still to be written
    detach,    \* "no", "after" (soft_detach) or "signalled" (DETACH)
    told,      \* history: the configuration last persisted, or Blank
    faults     \* history: requests given up, flash errors, resets

channelVars ==
    <<menu, asked, wish, host, sent, joined, out, in, current, task, reply, detach>>
allVars == <<vars, deviceVars, updateVars, channelVars, told, faults>>

Nothing == <<>>

(* encode and send_management: the reports of a message. *)
ReportsOf(n, r, total) ==
    [i \in 1 .. total |->
        [of |-> n, req |-> r, kind |-> IF i = 1 THEN "init" ELSE "cont",
         total |-> total, seq |-> i]]

RequestReports(r) == IF r.op \in {"set", "validate", "write"} THEN 2 ELSE 1
ReplyReports(r, status) == IF r.op = "get" /\ status = "ok" THEN 2 ELSE 1

(* Assembler::accept: the message so far, or Nothing where the code drops  *)
(* it and returns an error.                                                *)
Accept(parts, report) ==
    IF report.kind = "init" THEN <<report>>
    ELSE IF /\ parts # Nothing
            /\ parts[1].req.op = report.req.op
            /\ report.seq = Len(parts) + 1
         THEN Append(parts, report) ELSE Nothing

(* Faulty: the initialization report is taken for the whole message. *)
FirstReportSuffices(parts) == parts # Nothing

Complete(parts) == parts # Nothing /\ Len(parts) = parts[1].total

HousekeepingInit ==
    /\ DeviceInit
    /\ UpdateInit
    /\ menu \in Menu
    /\ asked = 0 /\ wish = Nothing
    /\ host = "idle" /\ sent = 0 /\ joined = Nothing
    /\ out = Nothing /\ in = Nothing
    /\ current = Nothing /\ task = "reading" /\ reply = Nothing
    /\ detach = "no"
    /\ told = Shipped(profile)
    /\ faults = [givenUp |-> 0, flash |-> 0, resets |-> 0]

(***************************************************************************)
(* The tool: ManagementDevice::request.                                    *)
(***************************************************************************)
device == <<vars, deviceVars, updateVars, current, task, reply, detach, told>>

Ask(r) ==
    /\ host = "idle" /\ attached
    /\ asked < menu.most
    /\ asked' = asked + 1
    /\ wish' = r
    /\ host' = "writing"
    /\ UNCHANGED <<device, menu, sent, joined, out, in, faults>>

WriteReport ==
    /\ host = "writing" /\ attached
    /\ out = Nothing
    /\ LET reports == ReportsOf(asked, wish, RequestReports(wish))
       IN  /\ out' = <<reports[sent + 1]>>
           /\ IF sent + 1 = Len(reports)
              THEN host' = "reading" /\ wish' = Nothing /\ sent' = 0
              ELSE sent' = sent + 1 /\ UNCHANGED <<host, wish>>
    /\ UNCHANGED <<device, menu, asked, joined, in, faults>>

Taken == Accept(joined, in[1])

(* A report that does not fit ends the request with an error; a complete   *)
(* message is taken for the answer.                                        *)
ReadReport ==
    /\ host = "reading" /\ attached
    /\ in # Nothing
    /\ in' = Nothing
    /\ IF Taken = Nothing \/ Complete(Taken)
       THEN host' = "idle" /\ joined' = Nothing
       ELSE joined' = Taken /\ UNCHANGED host
    /\ UNCHANGED <<device, menu, asked, wish, sent, out, faults>>

(* The request ends with the error of a transfer. *)
HandleLost ==
    /\ host' = "idle" /\ wish' = Nothing /\ sent' = 0 /\ joined' = Nothing
    /\ UNCHANGED <<menu, asked>>

(* The USB timeout, or the end of the process. *)
GiveUp ==
    /\ host # "idle"
    /\ faults.givenUp < MaxGivenUp
    /\ faults' = [faults EXCEPT !.givenUp = @ + 1]
    /\ HandleLost
    /\ UNCHANGED <<device, out, in>>

(***************************************************************************)
(* The firmware: housekeeping.                                             *)
(***************************************************************************)
tool == <<menu, asked, wish, host, sent, joined>>

Replying(n, r, status) ==
    /\ reply' = ReportsOf(n, r, ReplyReports(r, status))
    /\ task' = "replying"

(* The commands of handle_update; the flash may fail in each. *)
HandleUpdate(r, status) ==
    \/ /\ r.op = "begin" /\ BeginUpdate(r.header, status)
       /\ UNCHANGED faults
    \/ /\ r.op = "write" /\ WriteUpdate(r.chunk, status)
       /\ UNCHANGED faults
    \/ /\ r.op = "finish" /\ FinishUpdate(status)
       /\ UNCHANGED faults
    \/ /\ r.op = "abort" /\ AbortUpdate(status)
       /\ UNCHANGED faults
    \/ /\ faults.flash < MaxFaults
       /\ faults' = [faults EXCEPT !.flash = @ + 1]
       /\ status = "error"
       /\ \/ r.op = "begin" /\ BeginUpdateFails(r.header)
          \/ r.op = "write" /\ WriteUpdateFails(r.chunk)
          \/ r.op = "finish" /\ FinishUpdateFails

(* The commands of ManagementService::handle but the commit. *)
HandleService(r, status) ==
    \/ r.op = "set" /\ SetConfiguration(r.config, status)
    \/ r.op \in {"commission", "decommission", "reset"} /\ ChangeLifecycle(r.op, status)
    \/ r.op \in {"get", "validate", "detach"} /\ Reporting(r, status)

SoftDetach(r) == IF r.op = "detach" THEN "after" ELSE "no"

(* DETACH is a signal: once it is raised, a later command does not take    *)
(* it back.                                                                *)
Raised(soft) == IF detach = "signalled" THEN detach ELSE soft

(* A report arrives; the last of a message runs its command under the      *)
(* storage lock.                                                           *)
TakeReport ==
    /\ phase = "serving" /\ "management" \in Paths(plan)
    /\ task = "reading"
    /\ out # Nothing
    /\ out' = Nothing
    /\ LET parts == Accept(current, out[1])
           n == parts[1].of
           r == parts[1].req
       IN  \/ /\ ~Complete(parts)
              /\ current' = parts
              /\ UNCHANGED <<vars, deviceVars, updateVars, task, reply, detach,
                             told, faults>>
           \/ /\ Complete(parts)
              /\ current' = Nothing
              /\ \/ \E status \in {"ok", "error"} :
                       /\ HandleUpdate(r, status)
                       /\ Replying(n, r, status)
                       /\ detach' = Raised("no")
                       /\ UNCHANGED <<vars, deviceVars, told>>
                 \/ \E status \in {"ok", "error"} :
                       /\ HandleService(r, status)
                       /\ Replying(n, r, status)
                       /\ detach' = Raised(SoftDetach(r))
                       /\ UNCHANGED <<updateVars, told, faults>>
                 \/ /\ r.op = "commit"
                    /\ CommitConfiguration
                    /\ reply' = ReportsOf(n, r, ReplyReports(r, "ok"))
                    /\ task' = IF pc' = "idle" THEN "replying" ELSE "persisting"
                    /\ detach' = Raised(IF config'.usb # identity THEN "after" ELSE "no")
                    /\ told' = Blank
                    /\ UNCHANGED <<updateVars, faults>>
                 \/ /\ r.op = "commit"
                    /\ RefuseCommit
                    /\ Replying(n, r, "error")
                    /\ detach' = Raised("no")
                    /\ UNCHANGED <<updateVars, told, faults>>
    /\ UNCHANGED <<tool, in>>

(* persist_config: the flash operations of the store, to its end. *)
Persist ==
    /\ task = "persisting"
    /\ \/ (EraseSlot \/ WriteHeader \/ WritePayload) /\ UNCHANGED faults
       \/ /\ faults.flash < MaxFaults
          /\ FlashError
          /\ faults' = [faults EXCEPT !.flash = @ + 1]
    /\ task' = IF pc' = "idle" THEN "replying" ELSE "persisting"
    /\ told' = IF answer' = "ok" THEN config ELSE told
    /\ UNCHANGED <<deviceVars, updateVars, tool, out, in, current, reply, detach>>

(* send_management, then DETACH.signal. *)
SendReport ==
    /\ phase = "serving"
    /\ task = "replying"
    /\ in = Nothing
    /\ attached
    /\ in' = <<Head(reply)>>
    /\ reply' = Tail(reply)
    /\ IF reply' = Nothing
       THEN /\ task' = "reading"
            /\ detach' = IF detach = "after" THEN "signalled" ELSE detach
       ELSE UNCHANGED <<task, detach>>
    /\ UNCHANGED <<vars, deviceVars, updateVars, tool, out, current, told, faults>>

(* usb_supervisor: the device leaves the bus until it is plugged again. *)
Detach ==
    /\ phase = "serving"
    /\ detach = "signalled"
    /\ attached
    /\ attached' = FALSE
    /\ in' = Nothing /\ out' = Nothing
    /\ HandleLost
    /\ UNCHANGED <<vars, profile, phase, plan, identity, config, staged, lifecycle, led,
                   updateVars, current, task, reply, detach, told, faults>>

(* main up to the tasks; a load of the configuration may fail. *)
Boot ==
    /\ Identify \/ Serve
    /\ \/ loaded' # Fault /\ UNCHANGED faults
       \/ /\ loaded' = Fault
          /\ faults.flash < MaxFaults
          /\ faults' = [faults EXCEPT !.flash = @ + 1]
    /\ UNCHANGED <<updateVars, channelVars, told>>

(* Power is lost, or the watchdog fires: only the flash is left. *)
LosePower ==
    /\ faults.resets < MaxResets
    /\ faults' = [faults EXCEPT !.resets = @ + 1]
    /\ Reset
    /\ HandleLost
    /\ session' = NoSession
    /\ in' = Nothing /\ out' = Nothing
    /\ current' = Nothing /\ task' = "reading" /\ reply' = Nothing
    /\ detach' = "no"
    /\ UNCHANGED <<staging, verified, told>>

Firmware == TakeReport \/ Persist \/ SendReport \/ Detach \/ Boot
Tool == WriteReport \/ ReadReport

HousekeepingNext ==
    \/ \E r \in menu.asks : Ask(r)
    \/ WriteReport
    \/ ReadReport
    \/ GiveUp
    \/ TakeReport
    \/ Persist
    \/ SendReport
    \/ Detach
    \/ Boot
    \/ LosePower

(* The executor polls the loop when an endpoint is ready, and the tool is  *)
(* a blocking call.                                                        *)
HousekeepingSpec ==
    /\ HousekeepingInit
    /\ [][HousekeepingNext]_allVars
    /\ WF_allVars(Firmware)
    /\ WF_allVars(Tool)

-----------------------------------------------------------------------------
Whole(parts) == \A i \in DOMAIN parts : parts[i].of = parts[1].of

(* The command the firmware runs is one request of the tool, whole: a      *)
(* request that was given up halfway is never finished by the next one,    *)
(* although an assembler keeps what it has; and so for the answers.        *)
RequestsAreWhole ==
    /\ out # Nothing => Whole(Accept(current, out[1]))
    /\ in # Nothing => Whole(Accept(joined, in[1]))

(* As long as no request was given up, the tool takes for the answer the   *)
(* answer to what it asked; transport.rs does not compare the command.     *)
AnswerIsOfRequest ==
    (faults.givenUp = 0 /\ host = "reading" /\ in # Nothing)
        => in[1].of = asked

(* A configuration that was committed and persisted is the one the device  *)
(* boots with, whatever was lost, detached or reset since, unless its      *)
(* record cannot be read.                                                  *)
CommittedSurvives ==
    [][(Serve /\ told # Blank /\ loaded' # Fault) => config' = told]_allVars

(* A request that nobody gives up is answered, by a device in recovery     *)
(* too, or ends with the device leaving the bus.                           *)
RequestEnds ==
    (host # "idle" /\ faults.givenUp = 0) ~> (host = "idle" \/ faults.givenUp > 0)
(* Nothing on the channel is mixed up between requests: neither end joins  *)
(* reports of two of them, and the tool takes its own answer.              *)
ChannelInv == RequestsAreWhole /\ AnswerIsOfRequest
==============================================================================

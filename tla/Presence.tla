------------------------------ MODULE Presence ------------------------------
(***************************************************************************)
(* User presence: PresenceController and PresenceWaiter of                 *)
(* aegis-core/src/presence.rs, driven by the firmware's waits.  A task     *)
(* that needs presence locks the presence source and polls it once per     *)
(* millisecond until it is confirmed or times out; the button is sampled   *)
(* only by those polls.  The user presses and releases it at any time.     *)
(* The FIDO task writes a keepalive report every so many polls and, with   *)
(* the source still locked, waits until the host takes it; the card task   *)
(* writes nothing.                                                         *)
(***************************************************************************)
EXTENDS Integers

CONSTANTS
    Debounce,           \* debounce_ms
    Timeout,            \* timeout_ms
    KeepaliveInterval   \* KEEPALIVE_INTERVAL_MS

ASSUME WindowAssumption ==
    /\ Debounce \in Nat
    /\ Timeout \in Nat
    /\ KeepaliveInterval \in Nat \ {0}

VARIABLES
    button,     \* the physical level
    waiting,    \* a task holds the presence source and polls it
    notifies,   \* it is the FIDO task, which writes keepalives
    writing,    \* a keepalive waits for the host to take it
    armed,      \* an operation is armed, in the waiter and the controller
    raw,        \* raw_pressed
    debounced,  \* debounced_pressed
    change,     \* raw_change_ms
    awaiting,   \* awaiting_release
    now,        \* now_ms
    outcome,    \* how the last wait ended
    fresh,      \* history: the button went down since the last confirmation
    downs       \* history: the last samples of the operation that were
                \* down, counted to Debounce + 1

controller == <<armed, raw, debounced, change, awaiting, now>>
history == <<fresh, downs>>
holding == <<waiting, notifies, writing>>
presenceVars == <<button, holding, controller, outcome, history>>

PresenceInit ==
    /\ button = FALSE
    /\ waiting = FALSE
    /\ notifies = FALSE
    /\ writing = FALSE
    /\ armed = FALSE
    /\ raw = FALSE
    /\ debounced = FALSE
    /\ change = 0
    /\ awaiting = FALSE
    /\ now = 0
    /\ outcome = "none"
    /\ fresh = FALSE
    /\ downs = 0

(***************************************************************************)
(* The environment.                                                        *)
(***************************************************************************)
Press ==
    /\ ~button
    /\ button' = TRUE
    /\ fresh' = TRUE
    /\ UNCHANGED <<holding, controller, outcome, downs>>

Release ==
    /\ button
    /\ button' = FALSE
    /\ UNCHANGED <<holding, controller, outcome, history>>

(* The host takes the keepalive, or the endpoint is disabled. *)
TakeKeepalive ==
    /\ writing
    /\ writing' = FALSE
    /\ UNCHANGED <<button, waiting, notifies, controller, outcome, history>>

(* wait_presence, or wait_presence_notifying: lock the source. *)
StartWait(notifying) ==
    /\ ~waiting
    /\ waiting' = TRUE
    /\ notifies' = notifying
    /\ outcome' = "none"
    /\ UNCHANGED <<button, writing, controller, history>>

(***************************************************************************)
(* One poll, with the values begin, update and settle give the fields.     *)
(***************************************************************************)

(* Faulty: a change of the level restarts the clock. *)
RestartedClock == IF armed /\ button = raw THEN now ELSE 0

(* PresenceWaiter::poll begins the operation on its first sample. *)
Clock == IF armed THEN now ELSE 0

(* PresenceController::arm *)
AwaitingAtArm == IF armed THEN awaiting ELSE raw \/ debounced

(* update: the time of the last change of the sampled level. *)
ChangeAfter == IF button # raw THEN Clock ELSE change

(* Faulty: the first differing sample is promoted at once. *)
NoDebounce == button # debounced

(* settle: the level was stable for the debounce window. saturating_sub is *)
(* 0 when the change is of an earlier operation's clock.                   *)
Settles ==
    /\ button # debounced
    /\ LET age == IF Clock < ChangeAfter THEN 0 ELSE Clock - ChangeAfter
       IN  age >= Debounce

(* Faulty: a button that is down counts, not only one that goes down. *)
ConfirmsOnLevel == button /\ (debounced \/ (Settles /\ ~AwaitingAtArm))

Confirms == Settles /\ button /\ ~AwaitingAtArm

Expires == ~Confirms /\ Clock >= Timeout

Capped(n) == IF n > Debounce THEN n ELSE n + 1

(* History kept by a sample; the count belongs to one operation. *)
Observe ==
    /\ downs' = IF button THEN Capped(IF armed THEN downs ELSE 0) ELSE 0
    /\ fresh' = (fresh /\ ~Confirms)

(* elapsed of wait_presence_notifying: the polls of this wait so far. *)
KeepaliveDue == notifies /\ now' % KeepaliveInterval = 0

Poll ==
    /\ waiting
    /\ ~writing
    /\ raw' = button
    /\ change' = ChangeAfter
    /\ debounced' = IF Settles THEN button ELSE debounced
    /\ now' = Clock + 1
    /\ armed' = ~(Confirms \/ Expires)
    /\ waiting' = armed'
    /\ writing' = (armed' /\ KeepaliveDue)
    /\ awaiting' = (AwaitingAtArm /\ ~(Settles /\ ~button) /\ ~Expires)
    /\ outcome' = IF Confirms THEN "confirmed" ELSE IF Expires THEN "timeout" ELSE "none"
    /\ Observe
    /\ UNCHANGED <<button, notifies>>

PresenceNext ==
    \/ Press \/ Release \/ TakeKeepalive
    \/ \E notifying \in BOOLEAN : StartWait(notifying)
    \/ Poll

(* The millisecond timer of a wait always fires again.  Nothing is assumed *)
(* of the host: HidWriter::write waits for it without a timeout.           *)
PresenceSpec == PresenceInit /\ [][PresenceNext]_presenceVars /\ WF_presenceVars(Poll)

-----------------------------------------------------------------------------
(***************************************************************************)
(* Properties.                                                             *)
(***************************************************************************)

Confirmed == outcome' = "confirmed" /\ outcome # "confirmed"

(* "Presence is ... consumed at most once": two confirmations are          *)
(* separated by a physical press of the button, across operations and      *)
(* although the button is not sampled between them.                        *)
PressConfirmsOnce == [][Confirmed => fresh]_presenceVars

(* A confirmation follows a whole debounce window of samples, all down and *)
(* all taken in the operation it confirms, even when the window an earlier *)
(* operation left behind was half over.                                    *)
ConfirmationIsDebounced == [][Confirmed => downs' > Debounce]_presenceVars

(* Every wait for presence ends, so that the source is released to the     *)
(* other task, unless the host never takes a keepalive of the wait again:  *)
(* a wait of the card task always ends, and no number of keepalives taken  *)
(* late keeps a wait of the FIDO task alive.                               *)
WaitEnds == waiting ~> (~waiting \/ [](waiting /\ notifies /\ writing))
=============================================================================

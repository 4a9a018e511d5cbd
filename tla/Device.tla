------------------------------- MODULE Device --------------------------------
(***************************************************************************)
(* A device from boot to detach: the USB identity and the configuration it *)
(* boots with (hardware.rs, main.rs load_config), the boot plan, and the   *)
(* management service that stages, commits and resets the configuration    *)
(* (management_protocol.rs, lifecycle.rs).  A commit is persisted through  *)
(* the flash operations of SlotStore; power can fail between any two.      *)
(*                                                                         *)
(* A stored payload is a configuration.  The LED is its pin: brightness    *)
(* and blinking are left out.                                              *)
(***************************************************************************)
EXTENDS SlotStore, Configuration

CONSTANTS
    Profile,       \* the boards the firmware is built for
    BoardIdentity, \* the identity a profile declares
    Shipped(_)     \* what a board's configuration region holds at the start

ASSUME DeviceAssumption ==
    /\ BoardIdentity \in Identity
    /\ \A p \in Profile : Constructed(p) /\ ProfileInvariants(p) /\ FitsPackage(p)
    /\ \A p \in Profile :
          \/ Shipped(p) = Blank
          \/ /\ Shipped(p) \in Payload
             /\ ValidConfig(Shipped(p), Capabilities(p), "factory", BoardIdentity)

VARIABLES
    profile,     \* the board
    phase,       \* "off", "identified" (DeviceManager::new done) or "serving"
    plan,        \* the boot destination
    identity,    \* the identity of the USB descriptors
    config,      \* the active configuration
    staged,      \* the one set and not committed, or Blank
    lifecycle,   \* the state of the lifecycle manager
    led,         \* the pin the LED driver holds, or NoPin
    attached     \* the device is on the bus

deviceVars == <<profile, phase, plan, identity, config, staged, lifecycle, led, attached>>

caps == Capabilities(profile)

(***************************************************************************)
(* Boot.                                                                   *)
(***************************************************************************)

(* boot_destination of read_bootsel_stable: held in all of its samples. *)
BootDestination(samples) ==
    IF \A i \in DOMAIN samples : samples[i] THEN "recovery" ELSE "active"

(* Faulty: recovery mutes every path. *)
RecoveryIsMute(destination) ==
    IF destination = "active" THEN {"fido", "ccid", "management", "otp"} ELSE {"otp"}

(* BootPlan::for_destination: the tasks main starts. *)
Paths(destination) ==
    {"management", "otp"} \cup (IF destination = "active" THEN {"fido", "ccid"} ELSE {})

(* A region that holds one committed configuration, or none. *)
StoredBefore(stored) ==
    [i \in SlotIndex |->
        IF i = 0 /\ stored # Blank
        THEN [area |-> "record", seq |-> 1, data |-> stored] ELSE ErasedSlot]

DeviceInit ==
    /\ profile \in Profile
    /\ slots = StoredBefore(Shipped(profile))
    /\ pc = "idle" /\ target = 0 /\ nextSeq = 0
    /\ request = Blank /\ answer = "none" /\ loaded = Blank
    /\ phase = "off"
    /\ plan = "active"
    /\ identity = BoardIdentity
    /\ config = Blank
    /\ staged = Blank
    /\ lifecycle = "factory"
    /\ led = NoPin
    /\ attached = FALSE

(* DeviceManager::new: the identity of the stored configuration, if there  *)
(* is one that can be read and names a device.                             *)
IdentityOf(stored) ==
    IF stored \in {Blank, Fault} THEN BoardIdentity
    ELSE IF stored.usb = BadIdentity THEN BoardIdentity ELSE stored.usb

(* DeviceManager::new and init, then the BOOTSEL samples. *)
Identify ==
    /\ phase = "off"
    /\ Load
    /\ identity' = IdentityOf(loaded')
    /\ led' = IF LedAvailable(profile) THEN profile.gpio ELSE NoPin
    /\ \E samples \in [1 .. 3 -> BOOLEAN] : plan' = BootDestination(samples)
    /\ phase' = "identified"
    /\ UNCHANGED <<profile, config, staged, lifecycle, attached>>

(* Faulty: the pin of the configuration is claimed whatever it is. *)
ClaimAnyPin(pin, new) == IF pin = NoPin THEN NoPin ELSE new.gpio

(* GpioLed::configure: a pin that is not a candidate is refused. *)
Configure(pin, new) ==
    IF pin # NoPin /\ new.gpio \in profile.candidates THEN new.gpio ELSE pin

(* Faulty: what is stored is held to the identity of the profile. *)
LoadOwnIdentity(stored) ==
    IF /\ stored \notin {Blank, Fault}
       /\ ValidConfig(stored, caps, "commissioned", BoardIdentity)
    THEN stored ELSE ForBoard(identity, caps)

(* load_config: what is stored, if it validates, or the defaults. *)
LoadConfig(stored) ==
    IF /\ stored \notin {Blank, Fault}
       /\ ValidConfig(stored, caps, "factory", identity)
    THEN stored ELSE ForBoard(identity, caps)

(* The rest of main: the service starts in the factory state. *)
Serve ==
    /\ phase = "identified"
    /\ Load
    /\ config' = LoadConfig(loaded')
    /\ led' = Configure(led, config'.led)
    /\ staged' = Blank
    /\ lifecycle' = "factory"
    /\ attached' = TRUE
    /\ phase' = "serving"
    /\ UNCHANGED <<profile, plan, identity>>

(* Power is lost, or the watchdog resets the device. *)
Reset ==
    /\ phase # "off"
    /\ PowerLoss
    /\ phase' = "off"
    /\ config' = Blank
    /\ staged' = Blank
    /\ lifecycle' = "factory"
    /\ led' = NoPin
    /\ attached' = FALSE
    /\ plan' = "active"
    /\ identity' = BoardIdentity
    /\ UNCHANGED profile

(***************************************************************************)
(* ManagementService::handle, one operator per command that changes state. *)
(* Status is the status byte of the answer.                                *)
(***************************************************************************)
Accepts(proposal) == ValidConfig(proposal, caps, lifecycle, identity)

(* set_configuration, and the live preview on the LED. *)
SetConfiguration(proposal, status) ==
    \/ /\ Accepts(proposal)
       /\ status = "ok"
       /\ staged' = proposal
       /\ led' = Configure(led, proposal.led)
       /\ UNCHANGED <<vars, profile, phase, plan, identity, config, lifecycle, attached>>
    \/ /\ ~Accepts(proposal)
       /\ status = "error"
       /\ UNCHANGED <<vars, deviceVars>>

(* Faulty: what was valid when it was staged is committed. *)
TrustsStaged == staged # Blank

CanCommit == staged # Blank /\ Accepts(staged)

(* commit_configuration, then persist_config: the store begins, or fails   *)
(* before it erases anything, which is only logged.                        *)
CommitConfiguration ==
    /\ CanCommit
    /\ config' = staged
    /\ staged' = Blank
    /\ led' = Configure(led, staged.led)
    /\ BeginStore(staged) \/ RefuseStore
    /\ UNCHANGED <<profile, phase, plan, identity, lifecycle, attached>>

RefuseCommit ==
    /\ ~CanCommit
    /\ UNCHANGED <<vars, deviceVars>>

(* LifecycleState::can_transition *)
LifecycleEdge ==
    {<<"factory", "commissioning">>, <<"commissioning", "commissioned">>,
     <<"commissioning", "factory">>, <<"commissioned", "provisioning">>,
     <<"provisioning", "provisioned">>, <<"provisioning", "commissioned">>,
     <<"provisioned", "active">>, <<"active", "suspended">>, <<"active", "decommissioned">>,
     <<"suspended", "active">>, <<"suspended", "decommissioned">>,
     <<"decommissioned", "factory">>}
CanTransition(from, to) == from = to \/ <<from, to>> \in LifecycleEdge

(* Where the operation leads, by LifecycleManager::commission,             *)
(* decommission and factory_reset, and the states it is accepted in.       *)
Goal(op) == IF op = "commission" THEN "commissioning"
            ELSE IF op = "decommission" THEN "decommissioned" ELSE "factory"
Movable(op) ==
    /\ op = "commission" => lifecycle \in {"factory", "commissioning"}
    /\ op = "reset" => lifecycle \in {"decommissioned", "factory"}
    /\ CanTransition(lifecycle, Goal(op))

ChangeLifecycle(op, status) ==
    \/ /\ Movable(op)
       /\ status = "ok"
       /\ lifecycle' = Goal(op)
       /\ IF op = "reset"
          THEN config' = ForBoard(identity, caps) /\ staged' = Blank
          ELSE UNCHANGED <<config, staged>>
       /\ UNCHANGED <<vars, profile, phase, plan, identity, led, attached>>
    \/ /\ ~Movable(op)
       /\ status = "error"
       /\ UNCHANGED <<vars, deviceVars>>

(* The commands that only report: validate_only answers for a proposal. *)
Reporting(asked, status) ==
    /\ status = IF asked.op = "validate" /\ ~Accepts(asked.config) THEN "error" ELSE "ok"
    /\ UNCHANGED <<vars, deviceVars>>

-----------------------------------------------------------------------------
(* for_board: "The result is always valid against capabilities and         *)
(* identity", for every board the build accepts.                           *)
DefaultsAreValid ==
    ValidConfig(ForBoard(identity, caps), caps, "factory", identity)

(* The LED driver only ever claims the board's LED pin or a candidate:     *)
(* never a pin of the QSPI flash, of the button or outside the package     *)
(* (led.rs, the safety argument of GpioLed::build).                        *)
LedOnDeclaredPin ==
    led # NoPin =>
        /\ led \in {profile.gpio} \cup profile.candidates
        /\ led >= FirstPin
        /\ profile.source = "button" => led # profile.button

(* In a power session that has left the factory state no command changes   *)
(* the identity the device will present, staged before it or not           *)
(* (lifecycle.rs, allows_identity_provisioning: "subsequent commissioning  *)
(* or operational states seal the identity").  The lifecycle is not        *)
(* stored: every boot is in the factory state again.                       *)
IdentitySetOnlyInFactory ==
    [][(lifecycle # "factory" /\ phase' # "off" /\ config' # config)
        => config'.usb = identity]_<<vars, deviceVars>>
(* Whatever is configured, every board stays within its profile: valid     *)
(* defaults, and an LED on a declared pin (configuration.rs, led.rs).      *)
BoardIsSafe == DefaultsAreValid /\ LedOnDeclaredPin
=============================================================================

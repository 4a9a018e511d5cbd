---------------------------- MODULE Configuration ----------------------------
(***************************************************************************)
(* The device configuration and what it is checked against: the board      *)
(* profile (hardware_profile.rs, board capabilities.rs), the capabilities  *)
(* derived from it (discovery.rs), the factory configuration of a board    *)
(* and the validation of a proposal (configuration.rs).                    *)
(*                                                                         *)
(* Pins are small numbers: pins below FirstPin belong to the QSPI flash    *)
(* (0 .. 5), pins from GpioCount on do not exist (30 or 48).  A brightness *)
(* is the default one or another, times are in units of the limits.        *)
(***************************************************************************)
EXTENDS Integers

CONSTANTS
    Identity,    \* USB identities: vendor, product and product string
    BadIdentity, \* one with a zero id, or an empty or too long string
    FirstPin,
    GpioCount,
    MaxTime      \* MAX_DEBOUNCE_MS and MAX_TIMEOUT_MS, the minimum being 1

ASSUME ConfigurationAssumption ==
    /\ BadIdentity \notin Identity
    /\ FirstPin \in Nat /\ GpioCount \in Nat /\ MaxTime \in Nat
    /\ FirstPin < GpioCount
    /\ 2 <= MaxTime

NoPin == -1
NoDriver == "none"
Driver == {"gpio", "pwm", "ws2812"}
CONFIG_VERSION == 1

(***************************************************************************)
(* Board profiles.                                                         *)
(***************************************************************************)

(* LedProfile::available *)
LedAvailable(profile) == profile.driver # NoDriver /\ profile.gpio # NoPin

(* What the constructors NONE, gpio and configurable_gpio of LedProfile,    *)
(* and those of PresenceProfile, build.                                    *)
BuiltProfile ==
    [driver : {NoDriver, "gpio"}, gpio : Nat \cup {NoPin}, configurable : BOOLEAN,
     candidates : SUBSET Nat, brightness : {FALSE}, source : {"bootsel", "button"},
     button : Nat \cup {NoPin}]

Constructed(profile) ==
    /\ profile \in BuiltProfile
    /\ profile.driver = NoDriver <=> profile.gpio = NoPin
    /\ ~profile.configurable => profile.candidates = {}
    /\ profile.source = "bootsel" <=> profile.button = NoPin

(* assert_profile_invariants: what the build checks of every profile. *)
ProfileInvariants(profile) ==
    /\ profile.driver # NoDriver => profile.gpio >= FirstPin
    /\ profile.configurable =>
          /\ profile.gpio # NoPin
          /\ \A pin \in profile.candidates : pin >= FirstPin
          /\ profile.gpio \in profile.candidates
    /\ profile.source = "button" =>
          /\ profile.button >= FirstPin
          /\ profile.button # profile.gpio
          /\ profile.button \notin profile.candidates

(* The pins of a profile are pins of the package it is built for. *)
FitsPackage(profile) ==
    /\ profile.gpio < GpioCount
    /\ profile.button < GpioCount
    /\ \A pin \in profile.candidates : pin < GpioCount

(* derive_capabilities, driver_caps, candidate_mask *)
Capabilities(profile) ==
    [available    |-> LedAvailable(profile),
     configurable |-> profile.configurable,
     candidates   |-> profile.candidates,
     brightness   |-> profile.brightness,
     drivers      |-> {profile.driver} \cap Driver,
     gpio         |-> profile.gpio,
     bootsel      |-> profile.source = "bootsel",
     external     |-> profile.source = "button" /\ profile.button # NoPin,
     button       |-> IF profile.source = "button" THEN profile.button ELSE NoPin]

(***************************************************************************)
(* The factory configuration of a board.                                   *)
(***************************************************************************)
PreferredDriver(caps) ==
    IF "gpio" \in caps.drivers THEN "gpio"
    ELSE IF "pwm" \in caps.drivers THEN "pwm"
    ELSE IF "ws2812" \in caps.drivers THEN "ws2812" ELSE "gpio"

(* for_board *)
ForBoard(identity, caps) ==
    [version |-> CONFIG_VERSION, usb |-> identity,
     led |-> [enabled |-> caps.available, gpio |-> IF caps.gpio = NoPin THEN 0 ELSE caps.gpio,
              bright |-> "default", driver |-> PreferredDriver(caps)],
     presence |-> [source |-> IF caps.bootsel THEN "bootsel" ELSE "button",
                   debounce |-> 1, timeout |-> 2]]

(***************************************************************************)
(* Validation.                                                             *)
(***************************************************************************)

(* LedConfig::validate *)
ValidLed(led, caps) ==
    led.enabled =>
        /\ caps.available
        /\ led.gpio < GpioCount
        /\ IF caps.configurable THEN led.gpio \in caps.candidates ELSE led.gpio = caps.gpio
        /\ caps.brightness \/ led.bright = "default"
        /\ led.driver \in caps.drivers

(* PresenceConfig::validate *)
ValidPresence(presence, caps) ==
    /\ presence.source = "bootsel" => caps.bootsel
    /\ presence.source = "button" => caps.external /\ caps.button < GpioCount
    /\ presence.debounce \in 1 .. MaxTime
    /\ presence.timeout \in 1 .. MaxTime
    /\ presence.timeout > presence.debounce

(* Lifecycle: allows_config_change and allows_identity_provisioning. *)
AllowsConfigChange(lifecycle) == lifecycle \in {"factory", "commissioning", "commissioned"}
AllowsIdentityProvisioning(lifecycle) == lifecycle = "factory"

(* DeviceConfig::validate; configurable_identity is true of every device. *)
ValidConfig(config, caps, lifecycle, identity) ==
    /\ config.version = CONFIG_VERSION
    /\ AllowsConfigChange(lifecycle)
    /\ IF AllowsIdentityProvisioning(lifecycle)
       THEN config.usb # BadIdentity
       ELSE config.usb = identity
    /\ ValidLed(config.led, caps)
    /\ ValidPresence(config.presence, caps)
    /\ ~ /\ config.presence.source = "button"
         /\ config.led.enabled
         /\ caps.button # NoPin
         /\ config.led.gpio = caps.button
==============================================================================

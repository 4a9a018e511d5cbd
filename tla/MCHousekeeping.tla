--------------------------- MODULE MCHousekeeping ----------------------------
(***************************************************************************)
(* A small device for TLC: pins 1 .. 3, two boards, two identities, four   *)
(* proposals, and packages of two units.                                   *)
(***************************************************************************)
EXTENDS Housekeeping

MCIdentity == {"board", "custom"}

NoLed == [driver |-> "none", gpio |-> -1, configurable |-> FALSE, candidates |-> {},
          brightness |-> FALSE, source |-> "bootsel", button |-> -1]
OneLed == [driver |-> "gpio", gpio |-> 1, configurable |-> TRUE, candidates |-> {1, 2},
            brightness |-> FALSE, source |-> "button", button |-> 3]

MCProfile == {NoLed, OneLed}

Config(usb, enabled, pin, source) ==
    [version |-> 1, usb |-> usb,
     led |-> [enabled |-> enabled, gpio |-> pin, bright |-> "default", driver |-> "gpio"],
     presence |-> [source |-> source, debounce |-> 1, timeout |-> 2]]

MCPayload ==
    {Config("custom", FALSE, 3, "bootsel"),
     Config("custom", FALSE, 3, "button"),
     Config("board", TRUE, 2, "button"),
     Config("bad", FALSE, 1, "button")}

MCShipped(board) ==
    IF board = NoLed THEN Blank ELSE Config("board", TRUE, 2, "button")

Old == [wellFormed |-> TRUE, rollback |-> 0, len |-> 2, image |-> <<"a", "a">>, signed |-> TRUE]
Good == [wellFormed |-> TRUE, rollback |-> 1, len |-> 2, image |-> <<"a", "b">>, signed |-> TRUE]
Other == [wellFormed |-> TRUE, rollback |-> 1, len |-> 2, image |-> <<"b", "b">>, signed |-> FALSE]
Vast == [wellFormed |-> TRUE, rollback |-> 1, len |-> 15, image |-> <<>>, signed |-> FALSE]

MCHeader == {Old, Good, Other, Vast}
MCChunk == {<<"a">>, <<"b">>, <<"a", "b">>}

Configuring ==
    {[op |-> "set", config |-> c] : c \in MCPayload}
    \cup {[op |-> o] : o \in {"commit", "commission", "reset"}}
Observing ==
    {[op |-> "validate", config |-> Config("bad", FALSE, 1, "button")]}
    \cup {[op |-> o] : o \in {"get", "detach", "decommission"}}
Updating ==
    {[op |-> "begin", header |-> h] : h \in MCHeader}
    \cup {[op |-> "write", chunk |-> c] : c \in MCChunk}
    \cup {[op |-> o] : o \in {"finish", "abort"}}

(* The tool configures the device or updates it; a chunk that failed and   *)
(* is written again makes an update of four requests.                      *)
MCMenu ==
    {[asks |-> Configuring \cup Observing, most |-> 3],
     [asks |-> Updating, most |-> 4]}
==============================================================================

------------------------------- MODULE MCCard -------------------------------
(***************************************************************************)
(* The card front end with one applet: bytes in base 3, responses of up to *)
(* five units, packets of two, an assembler of two packets.                *)
(***************************************************************************)
EXTENDS Card

MCApplet == {"piv"}

Msg(kind, packets, raw) ==
    [id |-> 0, kind |-> kind, ins |-> "op", aid |-> Unknown, packets |-> packets, raw |-> raw,
     data |-> <<>>, le |-> NoLe, extended |-> FALSE]
Xfr(ins, aid, le) == [Msg("xfr", 1, 1) EXCEPT !.ins = ins, !.aid = aid, !.le = le]

(* A command that is refused, written in every form and length. *)
Probe(n, le, ext) ==
    [Xfr("foreign", Unknown, le) EXCEPT !.data = [i \in 1 .. n |-> 1], !.extended = ext]
Probes ==
    {Probe(n, le, FALSE) : n \in 0 .. 2, le \in {NoLe} \cup 1 .. 3}
      \cup {Probe(n, le, TRUE) : n \in 1 .. 4, le \in {NoLe} \cup 1 .. 9}
      \cup {Probe(0, le, TRUE) : le \in 1 .. 9}

Long(k) == [Xfr("op", Unknown, 1) EXCEPT !.packets = 2, !.raw = k]

MCRequest ==
    {Msg("on", 1, 1), Msg("off", 1, 1), Msg("abort", 1, 1), Msg("query", 1, 1), Msg("bad", 1, 1),
     Msg("query", 3, 1),
     Xfr("select", "piv", NoLe), Xfr("select", Unknown, NoLe), Xfr("get", Unknown, 2),
     Xfr("remaining", Unknown, NoLe), Xfr("op", Unknown, 2)}
     \cup {Long(1), Long(3)} \cup Probes

(***************************************************************************)
(* Sessions in which the card is powered and an applet selected first, the *)
(* ones with a message of several packets in second place, and a probe.    *)
(***************************************************************************)
MCWorkload(s) ==
    /\ s[Len(s)] \in Probes => Len(s) = 1
    /\ Len(s) >= 2 => s[1].kind = "on"
    /\ Len(s) >= 3 => s[2].ins = "select" \/ s[2].packets > 1
=============================================================================

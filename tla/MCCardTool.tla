----------------------------- MODULE MCCardTool -----------------------------
(***************************************************************************)
(* Two processes, bytes of eight bits, and the limits of the applets, with *)
(* four credentials instead of sixteen.  Names, secrets and certificates   *)
(* sit on both sides of the limits: 64 bytes of a name, 128 and 256 bytes  *)
(* of a command, 256 bytes of a response.                                  *)
(***************************************************************************)
EXTENDS CardTool, TLC

CONSTANTS tool1, tool2

MCProcess == {tool1, tool2}
Symmetry == Permutations(MCProcess)
MCSlots == <<5, 10>>

Cert(n) == Fill(48, n)
MCCertificates == {Cert(20), Cert(111), Cert(112), Cert(200), Cert(300)}

Text(n) == Fill(120, n)
Cred(name, kind, secret) ==
    [name |-> name, kind |-> kind, algorithm |-> 1, digits |-> 6, secret |-> secret,
     counter |-> 0, period |-> CardPeriod(name)]
Minute == <<54, 48, 47>> \o Text(2)                 \* 60/xx
Plain == Text(2) \o <<47>> \o Text(2)               \* xx/xx

Blank == [applet |-> None, creds |-> <<>>, locked |-> FALSE, certs |-> <<>>,
          key |-> DefaultKey, authed |-> FALSE, witness |-> <<>>, nonce |-> 1]
MCCards ==
    {[Blank EXCEPT !.creds = <<Cred(Minute, TypeTotp, <<7>>), Cred(Plain, TypeHotp, <<8>>)>>,
                   !.certs = (5 :> Cert(200))],
     [Blank EXCEPT !.creds = [i \in 1 .. 4 |-> Cred(Text(60 + i), TypeTotp, <<i>>)],
                   !.certs = (5 :> Cert(300) @@ 10 :> Cert(20)),
                   !.key = [alg |-> 10, len |-> 24, id |-> 2]],
     [Blank EXCEPT !.creds = <<Cred(Plain, TypeTotp, <<9>>)>>, !.locked = TRUE,
                   !.key = [alg |-> 8, len |-> 16, id |-> 3]]}

Line(cmd) == [cmd |-> cmd, flags |-> {}, tty |-> TRUE, extra |-> 0]
Name(cmd, name) == Line(cmd) @@ [name |-> name]

Uri(kind, label, issuer, secret) ==
    [kind |-> kind, label |-> label, issuer |-> issuer, secret |-> secret,
     algorithm |-> Missing, digits |-> Missing, period |-> Missing, counter |-> Missing]
Add(uri) == Line("add") @@ [uri |-> uri]
Piped(j, flag) == [j EXCEPT !.flags = @ \cup {flag}, !.tty = FALSE]
Letters(n) == [i \in 1 .. n |-> 65 + 3 * i]
Totp == Uri(TypeTotp, Text(2), <<>>, Letters(6) \o <<61>>)

Adds ==
    {Add([Totp EXCEPT !.period = 60]),
     Piped(Add(Totp), "uri-stdin"),
     [Add(Totp) EXCEPT !.tty = FALSE],
     Add([Totp EXCEPT !.label = Text(61)]), Add([Totp EXCEPT !.label = Text(62)]),
     Add([Totp EXCEPT !.label = Text(241)]), Add([Totp EXCEPT !.label = Text(300)]),
     Add([Totp EXCEPT !.secret = Letters(1)]), Add([Totp EXCEPT !.digits = 9]),
     Add([Totp EXCEPT !.secret = <<48>>]),
     Add([Uri(TypeHotp, <<37, 67, 51, 43, 37, 120>>, <<120>>, Letters(5)) EXCEPT !.counter = 300]),
     Add(Uri(TypeHotp, <<88, 58, 121>>, <<120>>, Letters(4)))}

Import(slot, cert, key) == Line("import") @@ [slot |-> slot, cert |-> cert, key |-> key]
K(len, id) == [len |-> len, id |-> id]
Imports ==
    {Import(5, Cert(20), NoKey), Import(5, Cert(111), NoKey), Import(10, Cert(200), NoKey),
     Piped(Import(5, Cert(20), K(16, 3)), "key-stdin"),
     Piped(Import(5, Cert(20), K(24, 2)), "key-stdin"),
     Piped(Import(5, Cert(20), K(20, 2)), "key-stdin"),
     Piped(Import(5, Cert(20), Unreadable), "key-stdin"),
     Import(9, Cert(20), NoKey), Import(5, <<1>>, NoKey)}

SetKey(new, old) == Line("set key") @@ [new |-> new, old |-> old, alg |-> 0, repeated |-> TRUE]
SetKeys ==
    {SetKey(K(32, 4), NoKey),
     Piped(SetKey(K(16, 4), K(16, 3)), "key-stdin"),
     [SetKey(K(24, 4), NoKey) EXCEPT !.flags = {"alg"}, !.alg = 8],
     [SetKey(K(24, 4), NoKey) EXCEPT !.repeated = FALSE]}

(* A SET MANAGEMENT KEY with its Lc, sent with card-apdu. *)
RawSetKey ==
    Line("raw") @@ [frame |-> [ins |-> "set key", p1 |-> 255,
                               body |-> WithLc(<<8, 155, 16>> \o Fill(5, 16))]]

Anything ==
    {Line("list"), Line("reset"), Line("piv-list"),
     [Line("list") EXCEPT !.flags = {"alg"}], [Line("reset") EXCEPT !.extra = 1],
     Line("select") @@ [aid |-> "openpgp"], Line("select") @@ [aid |-> "unknown"],
     Name("code", Minute), Name("code", Plain), Name("code", Text(200)),
     Name("delete", Plain), Name("delete", Text(61)), Name("delete", Text(252))}
      \cup Adds \cup Imports \cup SetKeys
Rival ==
    {Line("list"), Line("reset"), Line("select") @@ [aid |-> "openpgp"], Name("code", Plain),
     Name("delete", Plain), Add([Totp EXCEPT !.period = 60]),
     Import(5, Cert(20), NoKey), Piped(Import(5, Cert(20), K(16, 3)), "key-stdin")}

(* Any run, one that may disturb it, and one after or beside them. *)
MCJob == <<Anything, Rival, {RawSetKey, Line("piv-list")}>>
=============================================================================

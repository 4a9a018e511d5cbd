----------------------------- MODULE MCCtapHid ------------------------------
(***************************************************************************)
(* Two applications, two channels to give out, messages of up to two       *)
(* reports and one that is too long.                                       *)
(***************************************************************************)
EXTENDS CtapHid

Req(cmd, packets, up) == [cmd |-> cmd, packets |-> packets, up |-> up]

MCRequest ==
    [a \in App |->
        {Req("cbor", 1, TRUE), Req("ping", 2, FALSE)} \cup
        IF a = "browser" THEN {Req("init", 2, FALSE), Req("msg", 1, FALSE)}
                         ELSE {Req("ping", 3, FALSE), Req("other", 1, FALSE)}]

MCMaxRequests == [a \in App |-> IF a = "browser" THEN 4 ELSE 2]
=============================================================================

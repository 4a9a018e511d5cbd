------------------------------ MODULE CardTool ------------------------------
(***************************************************************************)
(* The smart-card commands of the host tool (aegistoken-host: cli.rs,      *)
(* card.rs, oath_cmd.rs, piv_cmd.rs) against the OATH and PIV applets.     *)
(*                                                                         *)
(* Several processes run the tool.  Each connects to the reader in shared  *)
(* mode and takes no transaction, so that the exchanges of one process     *)
(* fall between those of another: the selected applet, the management-key  *)
(* session and the pending challenge of the card are common to all.        *)
(*                                                                         *)
(* An exchange is one action: the frame a process sends, byte by byte      *)
(* after its header, what the card makes of it and what the process makes  *)
(* of the answer.  Failing stores are left to Oath and PivSign.            *)
(***************************************************************************)
EXTENDS Tlv, Otpauth, FiniteSets

CONSTANTS
    Process,       \* processes running the tool
    Job,           \* the command lines: those of the n-th run of a behaviour
    Slots,         \* SLOTS: the slots in the order of piv-list
    Certificates,  \* what x509-cert accepts
    Cards,         \* the contents of the card at the start
    Now,           \* the clock of the host, in seconds
    MaxName, MaxSecret, MaxCredentials, MaxRecord,   \* limits of the applets
    MaxUnplugs     \* bound: removals of the device

LOCAL INSTANCE SequencesExt

None == "none"
Idle == [cmd |-> None]
AlgTdes == 3
NoKey == [len |-> 0, id |-> 0]
Unreadable == [len |-> -1, id |-> 0]   \* no line on stdin, or not hexadecimal

VARIABLES
    card,       \* the device: applet, creds, locked, certs, key, authed, witness, nonce
    job,        \* per process, the command line it runs
    pc,         \* per process, its next exchange
    block,      \* per process, the nonce it decrypted
    gone,       \* per process, whether its connection was lost
    shown,      \* per process, what it printed, with what the card held
    report,     \* per process, how its last run ended
    did,        \* history: per process, the change the card made for this run
    knew,       \* history: per process, it proved the key the card has
    calls,      \* history: per process, commands of this run the card handled
    alone,      \* history: per process, no other one was heard during this run
    jobs, unplugs

toolVars == <<job, pc, block, gone, shown, report, did, knew, calls, alone, jobs, unplugs>>
vars == <<card, toolVars>>

Fill(byte, n) == [i \in 1 .. n |-> byte]

-----------------------------------------------------------------------------
(***************************************************************************)
(* Management keys.  The cipher is abstract: it permutes the blocks, and   *)
(* keys of different identity or algorithm permute them differently.       *)
(***************************************************************************)
KeyLen(alg) == IF alg \in {3, 10} THEN 24 ELSE IF alg = 8 THEN 16 ELSE IF alg = 12 THEN 32 ELSE 0
BlockLen(alg) == IF alg = AlgTdes THEN 8 ELSE 16
DefaultKey == [alg |-> AlgTdes, len |-> 24, id |-> 1]

Shift(key) == 16 * key.id + key.alg
Encrypt(key, bytes) == [i \in DOMAIN bytes |-> (bytes[i] + Shift(key)) % ByteBase]
Decrypt(key, bytes) == [i \in DOMAIN bytes |-> (bytes[i] - Shift(key)) % ByteBase]

(* The algorithm the tool infers from the length of a key; 0 for none. *)
AlgOfLen(len) == CASE len = 16 -> 8 [] len = 24 -> AlgTdes [] len = 32 -> 12 [] OTHER -> 0
Supplied(key) ==
    IF key = NoKey THEN DefaultKey ELSE [alg |-> AlgOfLen(key.len), len |-> key.len, id |-> key.id]

-----------------------------------------------------------------------------
(***************************************************************************)
(* The card.  A handler answers a record: the card after it, the status    *)
(* and the data.                                                           *)
(***************************************************************************)
Answer(c, sw, data) == [card |-> c, sw |-> sw, data |-> data]
Refuse(c) == Answer(c, "refused", <<>>)

(* Oath::find *)
IndexOf(c, name) == {i \in DOMAIN c.creds : c.creds[i].name = name}

(* credential_period of the applet, below the saturation of a u32 *)
CardPeriod(name) ==
    LET slash  == First(name, {Slash})
        digits == SubSeq(name, 1, slash - 1)
    IN  IF slash = 0 \/ \E i \in DOMAIN digits : ~InRange(digits[i], 48, 57) THEN 30
        ELSE IF Number(digits) = 0 THEN 30
        ELSE Number(digits)

(* parse_put: the credential, or no value *)
KindOf(byte) == byte - (byte % 16)
PutFits(name, key, imf) ==
    /\ name.found /\ key.found
    /\ Len(key.value) >= 3
    /\ KindOf(key.value[1]) \in {TypeHotp, TypeTotp}
    /\ key.value[1] % 16 \in 1 .. 3
    /\ key.value[2] \in 6 .. 8
    /\ Len(key.value) - 2 <= MaxSecret
    /\ imf.found => KindOf(key.value[1]) = TypeHotp /\ Len(imf.value) = 4
ParsePut(name, key, imf) ==
    IF ~PutFits(name, key, imf)
    THEN NotFound
    ELSE Found([name      |-> name.value,
                kind      |-> KindOf(key.value[1]),
                algorithm |-> key.value[1] % 16,
                digits    |-> key.value[2],
                secret    |-> SubSeq(key.value, 3, Len(key.value)),
                counter   |-> FoldLeft(U16, 0, imf.value),
                period    |-> CardPeriod(name.value)])

(* Oath::put *)
Put(c, cred, at) ==
    IF at # {}
    THEN Answer([c EXCEPT !.creds = [i \in DOMAIN @ |-> IF i \in at THEN cred ELSE @[i]]], "ok", <<>>)
    ELSE IF Len(c.creds) = MaxCredentials
    THEN Refuse(c)
    ELSE Answer([c EXCEPT !.creds = Append(@, cred)], "ok", <<>>)
PutParsed(c, put) ==
    IF ~put.found \/ Len(put.value.name) \notin 1 .. MaxName
    THEN Refuse(c)
    ELSE Put(c, put.value, IndexOf(c, put.value.name))
OathPut(c, data) ==
    PutParsed(c, ParsePut(Find(data, <<113>>), Find(data, <<115>>), Find(data, <<122>>)))

(* Oath::delete, with the last credential moved into the gap *)
OathDelete(c, name) ==
    IF ~name.found THEN Refuse(c)
    ELSE IF IndexOf(c, name.value) = {} THEN Answer(c, "absent", <<>>)
    ELSE Answer([c EXCEPT !.creds =
                    [i \in 1 .. (Len(@) - 1) |->
                        IF i \in IndexOf(c, name.value) THEN @[Len(@)] ELSE @[i]]], "ok", <<>>)

(* Oath::list *)
OathList(c) ==
    Answer(c, "ok",
           FlattenSeq([i \in DOMAIN c.creds |->
                          Encode(<<114>>, <<c.creds[i].kind + c.creds[i].algorithm>>
                                             \o c.creds[i].name)]))

(* The truncated HMAC of a moving factor under a secret, abstractly. *)
Truncated(secret, factor) ==
    <<0, Len(secret), FoldLeft(LAMBDA a, b : (3 * a + b) % ByteBase, 0, secret), factor>>

(* Oath::calculate and compute_credential, for the truncated answer *)
Code(cred, factor) == Encode(<<118>>, <<cred.digits>> \o Truncated(cred.secret, factor))
Calculate(c, i, challenge) ==
    IF c.creds[i].kind = TypeHotp
    THEN Answer([c EXCEPT !.creds[i].counter = @ + 1], "ok",
                Code(c.creds[i], c.creds[i].counter % ByteBase))
    ELSE IF Len(challenge) # 8
    THEN Refuse(c)
    ELSE Answer(c, "ok", Code(c.creds[i], challenge[8]))
OathCalculate(c, name, challenge) ==
    IF ~name.found THEN Refuse(c)
    ELSE IF IndexOf(c, name.value) = {} THEN Answer(c, "absent", <<>>)
    ELSE Calculate(c, CHOOSE i \in IndexOf(c, name.value) : TRUE, challenge.value)

(* Oath::process for the commands of the tool; locked: an access code is set *)
OathProcess(c, ins, data) ==
    CASE c.locked /\ ins # "reset" -> Refuse(c)
      [] ins = "put"       -> OathPut(c, data)
      [] ins = "delete"    -> OathDelete(c, Find(data, <<113>>))
      [] ins = "reset"     -> Answer([c EXCEPT !.creds = <<>>, !.locked = FALSE], "ok", <<>>)
      [] ins = "list"      -> OathList(c)
      [] ins = "calculate" -> OathCalculate(c, Find(data, <<113>>), Find(data, <<116>>))
      [] OTHER             -> Refuse(c)

Oid(slot) == <<95, 193, slot>>

(* request_object_id and object_index, for the certificate objects *)
SlotOf(object) ==
    IF object.ok /\ object.tag = <<92>> /\ \E s \in ToSet(Slots) : Oid(s) = ReadTag(object.value)
    THEN object.value[3] ELSE 0

(* wrap_object: a stored certificate goes out in 70 within 53 *)
WrapObject(cert) == Encode(<<83>>, Encode(<<112>>, cert))

(* Piv::get_data *)
PivGet(c, slot) ==
    IF slot \notin DOMAIN c.certs
    THEN Answer(c, "missing", <<>>)
    ELSE Answer(c, "ok", WrapObject(c.certs[slot]))

(* Piv::put_data *)
PutContent(c, slot, content) ==
    IF ~content.ok \/ content.rest # <<>> \/ Len(content.value) > MaxRecord
    THEN Refuse(c)
    ELSE IF slot = 0
    THEN Answer(c, "missing", <<>>)
    ELSE Answer([c EXCEPT !.certs = (slot :> content.value) @@ @], "ok", <<>>)
PivPut(c, object) ==
    IF ~c.authed \/ ~object.ok \/ object.tag # <<92>>
    THEN Refuse(c)
    ELSE PutContent(c, SlotOf(object), Next1(object.rest))

KeyRefused(c, data) ==
    \/ ~c.authed
    \/ Len(data) < 3
    \/ data[2] # 155
    \/ KeyLen(data[1]) = 0
    \/ data[3] # KeyLen(data[1])
    \/ Len(data) # 3 + data[3]
KeyIn(data) == [alg |-> data[1], len |-> data[3], id |-> data[4]]

(* Piv::set_mgmt_key *)
PivSetKey(c, data) ==
    IF KeyRefused(c, data)
    THEN Refuse(c)
    ELSE Answer([c EXCEPT !.key = KeyIn(data), !.witness = <<>>], "ok", <<>>)

(* wrap_challenge *)
WrapChallenge(nonce) == Encode(<<124>>, Encode(<<129>>, nonce))

(* Piv::general_authenticate for the management key and a single challenge *)
Prove(c, response) ==
    IF response = Found(c.witness)
    THEN Answer([c EXCEPT !.witness = <<>>, !.authed = TRUE], "ok", <<>>)
    ELSE Refuse([c EXCEPT !.witness = <<>>])
Challenge(c, asked, fresh) ==
    IF asked # Found(<<>>)
    THEN Refuse(c)
    ELSE Answer([c EXCEPT !.witness = fresh, !.nonce = @ + 1], "ok",
                WrapChallenge(Encrypt(c.key, fresh)))
PivAuthenticate(c, alg, template) ==
    IF alg # c.key.alg \/ ~template.found
    THEN Refuse(c)
    ELSE IF c.witness # <<>>
    THEN Prove(c, Find(template.value, <<130>>))
    ELSE Challenge(c, Find(template.value, <<129>>), Fill(c.nonce, BlockLen(c.key.alg)))

(* Piv::process for the commands of the tool *)
PivProcess(c, frame, data) ==
    CASE frame.ins = "get"          -> PivGet(c, SlotOf(Next1(data)))
      [] frame.ins = "store"        -> PivPut(c, Next1(data))
      [] frame.ins = "authenticate" -> PivAuthenticate(c, frame.p1, Find(data, <<124>>))
      [] frame.ins = "set key"      -> PivSetKey(c, data)
      [] OTHER                      -> Refuse(c)

(***************************************************************************)
(* Router::command: SELECT clears the session of PIV; a response longer    *)
(* than the host asked for is cut.  OpenPGP refuses what the tool sends to *)
(* the other two.                                                          *)
(***************************************************************************)
Select(c, applet) ==
    IF applet \notin {"oath", "piv", "openpgp"}
    THEN Answer([c EXCEPT !.applet = None], "missing", <<>>)
    ELSE Answer(IF applet = "piv"
                THEN [c EXCEPT !.applet = applet, !.authed = FALSE, !.witness = <<>>]
                ELSE [c EXCEPT !.applet = applet], "ok", <<>>)

Cut(answer, first) ==
    [answer EXCEPT !.sw = first.sw, !.data = SubSeq(@, first.from + 1, first.to)]
Chained(answer, apdu) ==
    IF answer.sw # "ok" THEN answer
    ELSE Cut(answer, Begin(1, Len(answer.data), ExpectedLen(apdu)).answer)

Dispatch(c, frame, apdu) ==
    IF apdu.error THEN Refuse(c)
    ELSE IF frame.ins = "select" THEN Select(c, frame.p1)
    ELSE CASE c.applet = "oath" -> Chained(OathProcess(c, frame.ins, apdu.data), apdu)
           [] c.applet = "piv"  -> Chained(PivProcess(c, frame, apdu.data), apdu)
           [] OTHER             -> Refuse(c)

Command(c, frame) == Dispatch(c, frame, Parse(frame.body))

-----------------------------------------------------------------------------
(***************************************************************************)
(* The command line.                                                       *)
(***************************************************************************)
OathCommand == {"list", "code", "add", "delete", "reset"}

(* reject_misplaced_options *)
Misplaced(j) ==
    \/ "reader" \in j.flags /\ j.cmd \notin OathCommand \cup {"set key"}
    \/ "uri-stdin" \in j.flags /\ j.cmd # "add"
    \/ "old-key-stdin" \in j.flags /\ j.cmd # "set key"
    \/ "key-stdin" \in j.flags /\ j.cmd \notin {"set key", "import"}
    \/ "alg" \in j.flags /\ j.cmd # "set key"

(* Faulty: the length of the key is left to the import. *)
ImportKeyUnchecked(j) == "key-stdin" \notin j.flags \/ ~j.tty

(* acquire_import_key *)
ImportKey(j) == "key-stdin" \notin j.flags \/ (~j.tty /\ j.key.len \in {16, 24, 32})

(* acquire_otpauth_uri *)
UriAcquired(j) == ("uri-stdin" \in j.flags) = ~j.tty

(* acquire_mgmt_key: a pipe, or a terminal on which the key is repeated *)
KeysAcquired(j) ==
    IF "key-stdin" \in j.flags
    THEN ~j.tty
    ELSE "old-key-stdin" \notin j.flags /\ j.tty /\ j.repeated

(* The checks of piv_set_mgmt_key *)
NewAlg(j) == IF "alg" \in j.flags THEN j.alg ELSE AlgOfLen(j.new.len)
KeysFit(j) ==
    /\ KeyLen(NewAlg(j)) # 0
    /\ KeyLen(NewAlg(j)) = j.new.len
    /\ AlgOfLen(Supplied(j.old).len) # 0

(* run, oath: what is checked before the reader is opened *)
Accepted(j) ==
    /\ ~Misplaced(j)
    /\ CASE j.cmd \in {"list", "reset"} -> j.extra = 0
         [] j.cmd \in {"code", "delete"} -> j.extra = 0
         [] j.cmd = "add" -> j.extra = 0 /\ UriAcquired(j) /\ UriOk(j.uri)
         [] j.cmd = "import" -> ImportKey(j) /\ j.slot \in ToSet(Slots) /\ j.cert \in Certificates
         [] j.cmd = "set key" -> j.extra = 0 /\ KeysAcquired(j) /\ KeysFit(j)
         [] OTHER -> TRUE

-----------------------------------------------------------------------------
(***************************************************************************)
(* The frames of the tool.  Lc is the low byte of the length, but PUT DATA *)
(* takes it from encode_tlv_length and SET MANAGEMENT KEY has none.        *)
(***************************************************************************)
WithLc(data) == <<Len(data) % ByteBase>> \o data
Be(n, width) == Fill(0, width - 2) \o Field16(n)

(* oath_code *)
CodeData(name) ==
    Encode(<<113>>, name) \o Encode(<<116>>, Be(Now \div CredentialPeriod(name), 8))

(* oath_add *)
AddData(cred) ==
    Encode(<<113>>, cred.name)
      \o Encode(<<115>>, <<cred.kind + cred.algorithm, cred.digits>> \o cred.secret)
      \o IF cred.kind = TypeHotp THEN Encode(<<122>>, Be(cred.counter, 4)) ELSE <<>>

(* piv_import_cert *)
ImportBody(j) ==
    LET inner == Encode(<<112>>, j.cert) \o <<113, 1, 0, 254, 0>>
        data  == Encode(<<92>>, Oid(j.slot)) \o Encode(<<83>>, inner)
    IN  LengthBytes(Len(data)) \o data

(* piv_set_mgmt_key *)
SetKeyBody(j) == <<NewAlg(j), 155, j.new.len>> \o Fill(j.new.id, j.new.len)

Applet(j) == IF j.cmd \in OathCommand THEN "oath" ELSE IF j.cmd = "select" THEN j.aid ELSE "piv"
Key(j) == Supplied(IF j.cmd = "import" THEN j.key ELSE j.old)
Apdu1(ins, p1, body) == [ins |-> ins, p1 |-> p1, body |-> body]

(* select_oath, select_applet; the identifiers are seven bytes here *)
SelectFrame(j) == Apdu1("select", Applet(j), WithLc(Fill(160, 7)))

(* piv_list: GET DATA for the i-th slot *)
SlotFrame(i) == Apdu1("get", 63, WithLc(Encode(<<92>>, Oid(Slots[i]))) \o <<0>>)

(* authenticate_mgmt: an empty challenge, then the decrypted nonce *)
ChallengeFrame(key) == Apdu1("authenticate", key.alg, WithLc(<<124, 2, 129, 0>>) \o <<0>>)
ProofFrame(key, nonce) ==
    Apdu1("authenticate", key.alg, WithLc(Encode(<<124>>, Encode(<<130>>, nonce))))

(* oath_delete, oath_reset *)
DeleteFrame(name) == Apdu1("delete", 0, WithLc(Encode(<<113>>, name)))
ResetFrame == Apdu1("reset", 222, <<>>)

(* The command itself, once the applet is selected and the key proved *)
RunFrame(j) ==
    CASE j.cmd = "list"    -> Apdu1("list", 0, <<>>)
      [] j.cmd = "code"    -> Apdu1("calculate", 0, WithLc(CodeData(j.name)))
      [] j.cmd = "add"     -> Apdu1("put", 0, WithLc(AddData(Credential(j.uri))))
      [] j.cmd = "delete"  -> DeleteFrame(j.name)
      [] j.cmd = "reset"   -> ResetFrame
      [] j.cmd = "import"  -> Apdu1("store", 63, ImportBody(j))
      [] j.cmd = "set key" -> Apdu1("set key", 255, SetKeyBody(j))

Frame(p) ==
    CASE pc[p] = "select" -> SelectFrame(job[p])
      [] pc[p] = "raw"    -> job[p].frame
      [] pc[p] = "slot"   -> SlotFrame(Len(shown[p]) + 1)
      [] pc[p] = "auth"   -> ChallengeFrame(Key(job[p]))
      [] pc[p] = "prove"  -> ProofFrame(Key(job[p]), block[p])
      [] pc[p] = "run"    -> RunFrame(job[p])

-----------------------------------------------------------------------------
(***************************************************************************)
(* What a process makes of an answer: its next exchange, or its end.       *)
(***************************************************************************)
(* Faulty: only a missing application counts as a failure. *)
AnythingFound(sw) == sw # "missing"

(* 9000 *)
Succeeded(sw) == sw = "ok"

Continue(step) == [pc |-> step, result |-> None]
Finish(ok) == [pc |-> "end", result |-> IF ok THEN "success" ELSE "failure"]

(* The nonce in the answer to the challenge request: 7C, then 81 *)
NonceIn(a) == HostFind(HostFind(a.data, <<124>>).value, <<129>>)

(* oath_code: the digits and the truncated code *)
CodeIn(a) == HostFind(a.data, <<118>>).value

(* oath_list: the entries it prints *)
Listed(data) ==
    LET entries == SelectSeq(HostObjects(data), LAMBDA o : o.tag = <<114>> /\ o.value # <<>>)
    IN  [i \in DOMAIN entries |-> entries[i].value]

(* piv_list: what it prints of a slot; extract_cert_der is 53, then 70. *)
DerView(der) ==
    [is  |-> IF ~der.found THEN "odd" ELSE IF der.value \in Certificates THEN "certificate" ELSE "raw",
     der |-> der.value]
SlotView(a) ==
    IF a.sw = "missing" THEN [is |-> "empty", der |-> <<>>]
    ELSE IF ~Succeeded(a.sw) THEN [is |-> "error", der |-> <<>>]
    ELSE DerView(HostFind(HostFind(a.data, <<83>>).value, <<112>>))

(* What the process prints of an answer, next to what the card held. *)
Prints(p, a) ==
    LET j == job[p]
    IN  IF pc[p] = "slot"
        THEN <<[view |-> SlotView(a), certs |-> card.certs]>>
        ELSE IF pc[p] = "run" /\ j.cmd = "list" /\ Succeeded(a.sw)
        THEN <<[view |-> Listed(a.data), creds |-> card.creds]>>
        ELSE IF pc[p] = "run" /\ j.cmd = "code" /\ Succeeded(a.sw)
        THEN <<[view |-> CodeIn(a), creds |-> card.creds]>>
        ELSE <<>>

(* Faulty: a refused proof of the management key is not noticed. *)
ProofUnchecked(sw) == TRUE

(* The status of the second step of authenticate_mgmt *)
Proved(sw) == sw = "ok"

(* select_oath fails on any other status; select_applet only tells it,     *)
(* and piv_list and the other PIV commands do not look at what it tells.   *)
Selected(j, a) ==
    CASE j.cmd \in OathCommand -> IF Succeeded(a.sw) THEN Continue("run") ELSE Finish(FALSE)
      [] j.cmd = "select"      -> Finish(Succeeded(a.sw))
      [] j.cmd = "piv-list"    -> Continue("slot")
      [] OTHER                 -> IF Key(j).alg = 0 THEN Finish(FALSE) ELSE Continue("auth")

(* oath_code, oath_list, oath_add, oath_delete, oath_reset, piv_import_cert,*)
(* piv_set_mgmt_key: the status of the command decides.                    *)
Ran(j, a) ==
    Finish(Succeeded(a.sw) /\ (j.cmd = "code" => Len(CodeIn(a)) >= 5))

Step(p, a) ==
    CASE pc[p] = "select" -> Selected(job[p], a)
      [] pc[p] = "slot"   ->
           IF Len(shown[p]) + 1 < Len(Slots) THEN Continue("slot") ELSE Finish(TRUE)
      [] pc[p] = "auth"   ->
           IF Succeeded(a.sw) /\ NonceIn(a).found THEN Continue("prove") ELSE Finish(FALSE)
      [] pc[p] = "prove"  -> IF Proved(a.sw) THEN Continue("run") ELSE Finish(FALSE)
      [] pc[p] = "run"    -> Ran(job[p], a)
      [] pc[p] = "raw"    -> Finish(TRUE)

-----------------------------------------------------------------------------
(***************************************************************************)
(* What a run asks of the card, stated without the tool: c is the card     *)
(* before the exchange that carries it out, d the one after it.            *)
(***************************************************************************)
Meant(uri) ==
    [name |-> Label(uri), kind |-> uri.kind, algorithm |-> Or(uri.algorithm, 1),
     digits |-> Or(uri.digits, 6), secret |-> Rfc4648(Clean(uri.secret)),
     counter |-> IF uri.kind = TypeHotp THEN Or(uri.counter, 0) ELSE 0,
     period |-> IF uri.kind = TypeTotp THEN Or(uri.period, 30) ELSE CardPeriod(Label(uri))]

Durable(c) == <<c.creds, c.certs, c.key>>
Others(c, name) == {k \in ToSet(c.creds) : k.name # name}
Named(c, name) == ToSet(c.creds) \ Others(c, name)

AsAsked(c, j, d) ==
    LET oath == j.cmd \in OathCommand
    IN  /\ oath => d.certs = c.certs /\ d.key = c.key
        /\ ~oath => d.creds = c.creds
        /\ CASE j.cmd = "add"     -> ToSet(d.creds) = Others(c, Label(j.uri)) \cup {Meant(j.uri)}
             [] j.cmd = "delete"  -> Named(c, j.name) # {} /\ ToSet(d.creds) = Others(c, j.name)
             [] j.cmd = "reset"   -> d.creds = <<>>
             [] j.cmd = "code"    ->
                  /\ Others(d, j.name) = Others(c, j.name)
                  /\ Named(d, j.name) =
                        {[k EXCEPT !.counter = @ + IF k.kind = TypeHotp THEN 1 ELSE 0]
                           : k \in Named(c, j.name)}
             [] j.cmd = "import"  ->
                  /\ d.key = c.key
                  /\ j.slot \in DOMAIN d.certs
                  /\ d.certs = (j.slot :> d.certs[j.slot]) @@ c.certs
                  /\ HostFind(d.certs[j.slot], <<112>>) = Found(j.cert)
             [] j.cmd = "set key" ->
                  /\ d.certs = c.certs
                  /\ d.key = [alg |-> NewAlg(j), len |-> j.new.len, id |-> j.new.id]
             [] j.cmd = "raw"     -> TRUE
             [] OTHER             -> Durable(d) = Durable(c)

Effect(p, d) ==
    IF pc[p] \in {"run", "raw"} /\ AsAsked(card, job[p], d) THEN "asked"
    ELSE IF Durable(d) # Durable(card) THEN "other"
    ELSE did[p]

-----------------------------------------------------------------------------
Init ==
    /\ card \in Cards
    /\ job = [p \in Process |-> Idle]
    /\ pc = [p \in Process |-> "end"]
    /\ block = [p \in Process |-> <<>>]
    /\ gone = [p \in Process |-> FALSE]
    /\ shown = [p \in Process |-> <<>>]
    /\ report = [p \in Process |-> None]
    /\ did = [p \in Process |-> "nothing"]
    /\ knew = [p \in Process |-> FALSE]
    /\ calls = [p \in Process |-> 0]
    /\ alone = [p \in Process |-> FALSE]
    /\ jobs = 0 /\ unplugs = 0

Running(p) == pc[p] # "end"

(* The command line is read, and the secret acquired, before the reader. *)
Start(p, j) ==
    /\ ~Running(p)
    /\ jobs < Len(Job) /\ j \in Job[jobs + 1]
    /\ jobs' = jobs + 1
    /\ job' = [job EXCEPT ![p] = j]
    /\ pc' = [pc EXCEPT ![p] = IF ~Accepted(j) THEN "end"
                               ELSE IF j.cmd = "raw" THEN "raw" ELSE "select"]
    /\ report' = [report EXCEPT ![p] = IF Accepted(j) THEN None ELSE "usage"]
    /\ block' = [block EXCEPT ![p] = <<>>]
    /\ gone' = [gone EXCEPT ![p] = FALSE]
    /\ shown' = [shown EXCEPT ![p] = <<>>]
    /\ did' = [did EXCEPT ![p] = "nothing"]
    /\ knew' = [knew EXCEPT ![p] = FALSE]
    /\ calls' = [calls EXCEPT ![p] = 0]
    /\ alone' = [alone EXCEPT ![p] = \A q \in Process : ~Running(q)]
    /\ UNCHANGED <<card, unplugs>>

(* What the card records of a command of p, whatever p hears of it. *)
Handled(p, d) ==
    /\ did' = [did EXCEPT ![p] = Effect(p, d)]
    /\ knew' = [knew EXCEPT ![p] = @ \/ (pc[p] = "prove" /\ Key(job[p]) = card.key)]
    /\ calls' = [calls EXCEPT ![p] = @ + 1]

(* The process p has the answer a and goes on with next. *)
Answered(p, a, next) ==
    /\ card' = a.card
    /\ Handled(p, a.card)
    /\ pc' = [pc EXCEPT ![p] = next.pc]
    /\ report' = [report EXCEPT ![p] = next.result]
    /\ shown' = [shown EXCEPT ![p] = @ \o Prints(p, a)]
    /\ block' = [block EXCEPT ![p] = IF pc[p] = "auth" /\ next.pc = "prove"
                                     THEN Decrypt(Key(job[p]), NonceIn(a).value) ELSE @]

(* card.transmit, and what follows it in the process *)
Exchange(p) ==
    /\ Running(p) /\ ~gone[p]
    /\ \E a \in {Command(card, Frame(p))} : Answered(p, a, Step(p, a))
    /\ alone' = [q \in Process |-> q = p /\ alone[q]]
    /\ UNCHANGED <<job, gone, jobs, unplugs>>

(* The device is removed and comes back: its sessions end, and so does    *)
(* every connection to it.                                                 *)
PowerCycled(c) == [c EXCEPT !.applet = None, !.authed = FALSE, !.witness = <<>>]

Unplug ==
    /\ unplugs < MaxUnplugs
    /\ unplugs' = unplugs + 1
    /\ gone' = [p \in Process |-> Running(p)]
    /\ alone' = [p \in Process |-> FALSE]
    /\ \/ /\ card' = PowerCycled(card)
          /\ UNCHANGED <<did, knew, calls>>
       \/ \E p \in Process :          \* it has carried out a command of p
             /\ Running(p) /\ ~gone[p]
             /\ \E d \in {Command(card, Frame(p)).card} :
                   card' = PowerCycled(d) /\ Handled(p, d)
    /\ UNCHANGED <<job, pc, block, shown, report, jobs>>

(* card.transmit fails *)
Fail(p) ==
    /\ Running(p) /\ gone[p]
    /\ pc' = [pc EXCEPT ![p] = "end"]
    /\ report' = [report EXCEPT ![p] = "failure"]
    /\ UNCHANGED <<card, job, block, gone, shown, did, knew, calls, alone, jobs, unplugs>>

Next ==
    \/ \E p \in Process, j \in UNION ToSet(Job) : Start(p, j)
    \/ \E p \in Process : Exchange(p)
    \/ Unplug
    \/ \E p \in Process : Fail(p)

Spec == Init /\ [][Next]_vars

-----------------------------------------------------------------------------
(***************************************************************************)
(* Properties.                                                             *)
(***************************************************************************)
(* The applets' limits; a pending nonce is a block of the key in force     *)
(* (general_authenticate, set_mgmt_key).                                   *)
TypeOK ==
    /\ Len(card.creds) <= MaxCredentials
    /\ \A i \in DOMAIN card.creds : Len(card.creds[i].name) \in 1 .. MaxName
    /\ Len(card.witness) \in {0, BlockLen(card.key.alg)}
    /\ \A p \in Process : pc[p] \in {"end", "select", "raw", "slot", "auth", "prove", "run"}

(* A run that says it succeeded did what it was asked, although other      *)
(* processes select applets between its exchanges (oath_add, oath_delete,  *)
(* oath_reset, piv_import_cert).                                           *)
SuccessIsReal ==
    \A p \in Process :
        report[p] = "success" /\ job[p].cmd \in {"add", "delete", "reset", "import", "set key"}
            => did[p] = "asked"

(* The card changes nothing for a run but what that run was asked for:     *)
(* lengths that wrap in Lc, secrets in base 32 and interleaved runs        *)
(* included.                                                               *)
OnlyWhatWasAsked == \A p \in Process : did[p] # "other"

(* What the tool prints is what the card held: the whole list or an error  *)
(* (oath_list), the stored bytes, and "Empty" only for an empty slot       *)
(* (piv_list), the code of the credential for the step of its period       *)
(* (oath_code).                                                            *)
ShownIsStored ==
    \A p \in Process : \A i \in DOMAIN shown[p] :
        LET s == shown[p][i]
            slot == Slots[i]
            cred == CHOOSE k \in ToSet(s.creds) : k.name = job[p].name
        IN  CASE job[p].cmd = "list" ->
                   s.view = [n \in DOMAIN s.creds |->
                                <<s.creds[n].kind + s.creds[n].algorithm>> \o s.creds[n].name]
              [] job[p].cmd = "piv-list" ->
                   /\ s.view.is = "empty" => slot \notin DOMAIN s.certs
                   /\ s.view.is \in {"raw", "certificate"} =>
                         slot \in DOMAIN s.certs /\ s.view.der = s.certs[slot]
                   /\ s.view.is # "odd"
              [] job[p].cmd = "code" ->
                   s.view = <<cred.digits>>
                              \o Truncated(cred.secret,
                                           (IF cred.kind = TypeHotp THEN cred.counter
                                            ELSE Now \div cred.period) % ByteBase)

(* A command line with an unusable secret, key or certificate never        *)
(* reaches the card ("a bad key must fail in the acquisition layer,        *)
(* without touching the card", cli.rs).                                    *)
BadInputNeverReachesCard ==
    \A p \in Process :
        calls[p] > 0 =>
            LET j == job[p]
            IN  /\ j.cmd = "add" => Rfc4648(Clean(j.uri.secret)) # <<>>
                /\ j.cmd = "import" =>
                      (j.key = NoKey \/ j.key.len \in {16, 24, 32}) /\ j.cert \in Certificates
                /\ j.cmd = "set key" => j.new.len = KeyLen(NewAlg(j))

(* A run changes a certificate or the management key only if it held the   *)
(* card's key when it proved it, although the proof of one process opens   *)
(* the session of all (authenticate_mgmt, general_authenticate).           *)
ChangedWithTheKey ==
    \A p \in Process :
        job[p].cmd \in {"import", "set key"} /\ did[p] = "asked" => knew[p]

(* Undisturbed, with the key of the card, piv-import-cert succeeds: the    *)
(* documentation lists the import of X.509 certificates with PUT DATA      *)
(* among the commands of the tool (docs/plano-desenvolvimento.md:53).      *)
ImportSucceeds ==
    \A p \in Process :
        report[p] = "failure" /\ job[p].cmd = "import" /\ alone[p] => ~knew[p]
(* A run does what it says and nothing else (oath_cmd.rs, piv_cmd.rs).     *)
CommandInv == TypeOK /\ SuccessIsReal /\ OnlyWhatWasAsked
=============================================================================

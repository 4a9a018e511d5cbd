# AegisToken in TLA+

A verification development for the AegisToken firmware and its host tool
(`src/`): TLA+ modules of the stateful components, TLC configurations that check
them on small instances, and TLAPS proofs of the properties that matter most.
Every definition is translated from the Rust source; `PROJECT.json` maps each of
them to its lines.

## The system

One RP2350 binary serves a USB composite device. Three interfaces matter here:

* **FIDO HID** (`run_fido`): CTAPHID messages carry CTAP2 and U2F requests, one
  at a time, over a sealed credential database;
* **CCID** (`run_card`): ISO 7816 commands, one at a time, routed to the PIV,
  OATH and OpenPGP applets, each over its own sealed store;
* **Management HID** (`housekeeping`): configuration, lifecycle and update.

They share one button for user presence, behind a mutex, and one flash, each in
its own region. On the other end of the cable is `aegistoken-host`, which speaks
the management protocol and, through PC/SC, to the applets.

Two things make this hard to test. Between two requests lie flash writes that
fail, that fail *after* they landed, or that power cuts short; RAM that is not
rolled back when they do; sessions that outlive what they were granted for. And
between two packets lie other packets: of another channel, of a request given
up half way, of another process on the same card.

### Inventory

| Part | Source | Modules | Status |
|---|---|---|---|
| two-slot record store | `aegis-core/storage.rs` | `SlotStore`, `AtomicRecord` | modelled, proved |
| sharded sealed blobs | `aegis-applets/sealed.rs` | `SealedBlob` | modelled, proved |
| sealed credential database | `aegis-core/credential_store.rs` | `CredentialFlash` | modelled, proved |
| clientPIN, pinUvAuthToken | `aegis-core/pin.rs` | `ClientPin` | modelled, proved |
| CTAP2 and U2F operations | `authenticator.rs`, `assertion.rs`, `u2f.rs`, firmware `main.rs` | `FidoSession` | modelled, proved |
| credential management | firmware `main.rs`, `authenticator.rs` | `FidoManagement` | modelled, proved |
| user presence | `aegis-core/presence.rs`, board `presence.rs` | `Presence` | modelled, proved |
| PIV applet | `aegis-applets/piv.rs`, `pin.rs` | `PivPin`, `PivSign` | failed writes of plain objects left out; proved |
| OATH applet | `aegis-applets/oath.rs` | `Oath` | modelled, proved |
| OpenPGP applet | `aegis-applets/openpgp.rs`, `pin.rs` | `OpenPgp` | modelled, proved |
| CCID front end, router, APDU parser | `card.rs`, `router.rs`, `ccid.rs`, `apdu.rs`, board `ccid.rs` | `Card`, `Apdu` | modelled, proved |
| CTAPHID transport | `ctaphid.rs`, board `hid.rs`, firmware `main.rs` | `CtapHid` | modelled, proved |
| management channel, both ends | `management*.rs`, host `transport.rs`, `framing.rs` | `Housekeeping` | modelled, proved |
| firmware update | `update.rs`, firmware `main.rs` | `UpdateSession` | modelled, proved |
| configuration, boot plan, lifecycle | `configuration.rs`, `state.rs`, `lifecycle.rs`, board `led.rs` | `Configuration`, `Device` | modelled, proved |
| host tool, card commands | host `cli.rs`, `card.rs`, `oath_cmd.rs`, `piv_cmd.rs` | `CardTool`, `Otpauth`, `Tlv` | commands that change the card, model-checked |
| cryptography, CBOR, self-test, recovery session | | | not modelled, see below |

*Proved* is said of safety: every safety property a run checks of the part is also
a theorem. Liveness is model-checked throughout.

## How the code is modelled

**A handler is one step.** Each USB task serves one request at a time and owns
its store, so nothing interleaves inside a handler except a power loss, and, in
the transport modules, the packets and the other tasks. Inputs are chosen with
`\E`. A request that changes nothing is a stuttering step.

**A flash write has an outcome.** The record of `Flush`, `Write` and `Save`
(`[landed, end]`) says how a write ended: `ok`; `error`, with the record landed
or not; `crash`, power lost after it landed. Power lost before it landed equals
a power loss between two requests, which is an action of its own. After `error`
the code returns at once and RAM keeps what it had: the models do the same.
That one record is landed or not, and nothing in between, is what `SlotStore`
proves about the two slots.

**Cryptography is an input.** Whether a host proves a PIN, an access code or a
management key is a choice of the environment; a nonce is the counter it is made
of; a hash is compared by what it is the hash of.

**Layers.** The transports (`Card`, `CtapHid`, `Housekeeping`) carry abstract
commands, the applets and sessions take whole requests. What a transport shows
is what a session assumes: one request at a time, from one sender, answered
once. `Housekeeping` is composed down to the flash operations; `FidoSession` is
composed with `ClientPin`; `CardTool` with the card side of OATH and PIV.

**History variables** record what a property speaks about and no handler reads:
guesses answered, counters released, credentials confirmed. They are marked
`history` where they are declared.

**Faulty variants.** A definition preceded by `Faulty:` is a plausible bug, the
body a mutated model uses to show that the property it is paired with
(`PROJECT.json`, `mutants`) would notice.

### Modules

Storage:

* `AtomicRecord` is the abstract store: one value, replaced in one step or not
  at all. `SlotStore` is the code: `scan`, then erase, header and payload of the
  inactive slot, each with errors and power losses; `Load` reports an unreadable
  slot. `ImplementsAtomicRecord` maps the newest readable record to `value`.
* `SealedBlob`: `BeginSave` draws a generation above every readable one
  (`fresh_gen`), `StoreCell` stores one shard after the other and the commit cell
  last, `Interrupt` ends a save inside a cell; `LoadResult` is `load` with its
  search for a generation present in every shard. A cell is the pair of its
  slots, newest first, as justified by `SlotStore`.
* `CredentialFlash`: `open` with its selection by counter and its refusal to
  fall back, `flush` with its three endings.

FIDO:

* `ClientPin`: PIN state in RAM and flash, key agreement, the active token with
  permissions and relying party. `GetPinToken`, `WrongPin`, `ChangePin`,
  `WrongCurrentPin`, `SetPin`, the use of the token and `PinReset`.
* `FidoSession` extends `ClientPin`: the credential list in RAM and flash,
  the pending assertion, one flush for both. The lists that `assertion_candidates`
  and `list_rps` push entry by entry are given by what is pushed and in which order,
  as the set of the one list there is (`Pushed`). `FidoManagement` extends it with the
  enumeration state of credential management. `ImplementsClientPin` says that
  the composition is still the clientPIN protocol.
* `CtapHid`: two applications, their channels and reports, the one assembler,
  `handle_ctaphid`, the wait for touch with its keepalives and cancels, the mutex
  of the presence source and the card task that competes for it.
* `Presence`: the debouncing controller and the waiter, polled once per
  millisecond by whichever task holds the source, with a free-running button; the
  wait of the FIDO task does not poll while a keepalive is being written.

Smart card:

* `Apdu`: `Apdu::parse` over bytes of a small base, the encodings it must
  agree with, and the `61xx` chaining of `Chainer`. `Card` extends it: bulk
  packets, the assembler with its resynchronisation, slot power, the router's
  selection, the parked touch, aborts and USB events, zero-length packets.
* `PivPin`: PIN and PUK slots, their records, the floors that keep a failed save
  from being undone by a reload; `provision` and `load_state` in `Select`.
  `PivSign` extends it with management authentication, key generation and
  signatures parked for a touch.
* `Oath`: credentials, access code, the armed touch request and the blob they
  are saved in, including the applet closed by a failed read.
* `OpenPgp`: PW1, PW3, key slots with their attributes, ECDH material and the
  signature counter in RAM and in the one blob they are saved in. `Persist` is
  `persist_state`, which moves the floors; `Save` alone is `save_state`, which
  the key commands use. `LoadState` and `Provision` are the two ways through
  `ensure_loaded`.
* `Tlv` and `Otpauth` are the encodings of tool and card: lengths, base 32,
  percent escapes, `otpauth://` URIs. `CardTool` runs the tool's processes, one
  APDU per step, against the card side of the same commands.

Device:

* `Configuration`: board profiles, derived capabilities, `for_board`, `validate`.
  `Device` extends it and `SlotStore`: boot, identity, the LED claim, staging,
  commit, reset, commissioning. `UpdateSession`: `begin`, `write`, `finish`,
  `abort` over a staging region. `Housekeeping` puts them behind the management
  channel: reports, both assemblers, the loop of the firmware, the tool.

## Runs

| Run | Instance | Shows |
|---|---|---|
| `flash` | credential database: 3 contents, counters to 5; applet region: 2 shards, 3 blobs, 5 saves | the database opens with what landed last or not at all; a region never mixes two saves, one unfinished save is harmless; no nonce for two whole records, of either |
| `fido_session` | 2 PINs, 3 retries, 2 channels, 2 relying parties, 2 credentials, allow lists of 2, counters to 2 | guesses stay charged, tokens scoped and of the current PIN (`PinInv`); created credentials are durable, removed ones stay removed; one signature per presence; counters released increase, but for the 0 of a U2F signature whose counter was not stored; an enumeration tells each entry once |
| `presence` | debounce 2, timeout 8, a keepalive every 3 polls | one press confirms once, debounced within its own operation; every wait ends, unless the host stops taking keepalives for good |
| `piv` | 2 codes, 2 attempts, 2 key slots, 3 pairs of policies | bounded guesses, verified means shown, one signature per PIN, touch and nonce end with their session |
| `oath` | 2 names, 2 puts, 2 access codes, counters to 2 | HOTP once, no confirmed credential is lost to a failure; a touch serves who asked, and the access code gives way only before a host that proved it (`OathInv`) |
| `openpgp` | 2 codes, 2 attempts, 2 key slots, 2 keys, counter to 2 | bounded guesses although one blob carries everything; answered signatures are counted; answered keys and bound secrets are stored (`PgpInv`) |
| `card` | 1 applet, 4 messages of up to 3 packets, bytes in base 3 | every message is answered, whole and in order, its chunks join (`CardInv`); a pending response is of this selection; every APDU form is parsed as meant |
| `ctaphid` | 2 applications, 2 channels, 6 requests, 1 lost report | no payload or reply mixed up between requests (`HidInv`); every request ends |
| `housekeeping` | 2 boards, 4 proposals, 4 packages, 3 requests (4 of an update), 1 fault, 1 reset, 1 request given up | the slots implement `AtomicRecord` under the configuration service; a commit survives; the identity is set only in the factory state; a verified image is the staged one; boards stay in their profile; requests end with their own answer (`ChannelInv`) |
| `card_tool` | 2 processes, 3 command lines, 3 cards, 1 removal, 8-bit bytes | a reported success is real and nothing else is changed (`CommandInv`), only with the key; what is shown is what is stored; refused input never reaches the card |
| `openpgp_reload` | as `openpgp` | *violation*: RSA attributes without a key are saved and do not decode |
| `card_tool_import` | as `card_tool` | *violation*: `piv-import-cert` fails with every command of 128 bytes or more |

A property whose name ends in `Inv` joins the type invariant of its module with
the named properties it is made of; each of these has a comment of its own.

**Bounds.** The bounds are small because the hazards are: each needs one or two
writes that fail, one or two power losses and at most two objects to confuse.
Three saves exhaust the two slots of a cell, two credentials are enough for
`swap_remove` to move one, two attempts are enough to lose one and keep one. Two
applications are enough to interleave channels; a third allocation finds none
left. A response of one unit more than a chunk needs
a GET RESPONSE; a message of one packet more than the assembler holds is refused.
Base 3 keeps the distinctions of the APDU cases (0, 1, the largest length byte,
one more than it) with few bytes; `card_tool` uses real bytes, and its names,
secrets and certificates sit on both sides of 64, 128 and 256.

Some runs are cut into families of behaviours that do not influence each other
(the constraints and workloads of the MC modules): the credential database or
the applet region; the PIN commands with both PINs, or the credentials with one;
in `piv` and `openpgp` the PIN commands, with one of the two PINs keeping its
default value (and, in `openpgp`, a try), or everything else, up to the point where
a default was written over a record; among the latter, in `openpgp`, one of two
keys keeps its first algorithm; configuring or updating the device. In
`fido_session` a device with two credentials signs once with each and one with a
single credential twice, and an enumeration runs while no assertion is pending,
nothing was signed and no flush has failed; U2F signs without a stored counter on a
device with one credential. Counters are bounded in guards
(`MaxSequence`, `MaxSaves`, `MaxCounter`, `MaxCount`, `MaxCreated`, `MaxAllow`,
`MaxPuts`, `MaxKeys`, `MaxSignatures`, `MaxMessages`, `MaxRequests`, `most` of a menu,
`MaxFaults`, `MaxResets`, `MaxGivenUp`, `MaxDropped`, `MaxPolls`, `MaxUnplugs`).
`card`, `ctaphid`, `housekeeping` and `card_tool` do not check for
deadlock: a behaviour is over when the host has sent what it has to send.

**Symmetry** is used for relying parties, FIDO channels, contents of the database, OATH
names and access codes, PIV key slots and processes, which the code only compares, and only in runs without
liveness properties.

**Fairness** is weak, with one exception, and is never assumed of a user, of the
start of a request, or of a fault.

* `Presence`: `Poll`, because the loop of a wait re-arms a one-millisecond timer
  and the executor always runs it. Nothing is assumed of the host that takes
  keepalives: `WaitEnds` says what a wait then depends on.
* `Card`: the card task, the end of a touch wait and the host taking a packet
  from the IN endpoint. The card's wait sends nothing, so that `WaitEnds` shows its
  end once it holds the presence source; that the source becomes free rests on the
  host of the FIDO interface taking its keepalives.
* `CtapHid`: the steps of the FIDO task, the poll of a wait, the host taking
  reports. Strong for `FidoLock`: a task waiting for the mutex is woken when it
  is released, before the card task, which first answers its command, asks again.
* `Housekeeping`: the firmware's loop, and the tool, which is a blocking call.

### Where code and text disagree

The two runs marked *violation* check what a comment or a document of the
repository says and find a behaviour of the code against it; `PROJECT.json`
quotes both. `openpgp_reload`: between the PUT DATA that sets RSA attributes and
the GENERATE that makes the key, the saved state is one that the decoder refuses.
`card_tool_import`: the length of the command data is written in the encoding of
a TLV length, which is a different number from 128 on.

The others are limits that the passing properties state, or notes in the list of
hazards:

* two unfinished saves in a row can cost the committed generation of a sharded
  store; `sealed.rs:522` promises recovery without that limit
  (`OneUnfinishedSaveIsHarmless`);
* the continuation subcommands of credential management look at no token, and
  their snapshot survives a reset (`main.rs:1150`, `main.rs:1193`, against
  `main.rs:1086`);
* the nonce of a record that was cut short is drawn again, because only whole records
  are scanned for the highest counter. `sealed.rs:23` says "so a nonce is never reused
  even if a previous write was interrupted", `credential_store.rs:139` that the scan
  "prevents AEAD nonce reuse after a torn write falls back to the older slot", and
  `roadmap.md:1398` "nonce nunca reutilizado, mesmo após escrita interrompida"
  (`RegionInv` and `NonceOfRecordUnique` are about whole records);
* a U2F signature is answered with the counter 0 when its counter cannot be stored
  (`u2f.rs:176`), where CTAP2 answers an error: it is below the counters before it and
  can come again (`CountersIncrease` excepts it);
* a keepalive is written without a timeout while the presence source is locked
  (`main.rs:517`, `main.rs:530`, board `hid.rs:216`): a host that stops reading the FIDO
  endpoint suspends that wait, its own timeout included, and with it every card
  command that needs a touch (`WaitEnds` excepts it);
* a SET CODE whose key does not fit is answered 6A84 after the access code was cleared
  in RAM (`oath.rs:609`): until the next SELECT the applet is open, and the next
  command that saves stores it so. Only a host that proved the code can send it
  (`CodeIsNotLifted`);
* the identity can be set in the factory state only (`lifecycle.rs:79`), where
  `architecture.md:98` and `architecture.md:113` also allow `Commissioning`; and since the
  lifecycle is not stored, every boot is in the factory state again (`main.rs:207`)
  and allows it (`IdentitySetOnlyInFactory`);
* a token survives a PIN change whose flush fails (`TokenOfCurrentPin` holds
  until a flush fails);
* a PIN record, or an OpenPGP state, that cannot be read is taken for a missing
  one and replaced by the default (`GuessesAreBounded` holds until then:
  `replaced`); so is the record of the PIV management key, replaced by the key in
  RAM, which is the default one after a boot (`piv.rs:508`);
* a configuration that could not be stored is only logged: the tool was told Ok
  (`CommittedSurvives` speaks of commits whose store succeeded);
* the default configuration of a board is valid if its pins fit the package,
  which the build does not check (`FitsPackage`, an assumption);
* GET RESPONSE after a command that failed continues an older response of the
  same selection; the response of SELECT and of a completed touch is never
  chained;
* a CTAPHID message whose continuation never comes is kept until the next
  initialisation report, without a timeout;
* the tool does not compare the command of a management answer with its own
  (`AnswerIsOfRequest` holds until a request is given up);
* the tool reads a period before the `/` of a name after a `+` too (`oath_cmd.rs:518`), the
  card does not (`oath.rs:816`). The tool stores TOTP names with a plain number, so the
  cards of `card_tool` have no such name; one stored by another tool would be shown
  with the code of another time step;
* `piv-set-mgmt-key` sends its data without Lc and is always refused; an imported
  certificate is wrapped twice, so `piv-list` shows it as raw data; a PIV response
  of more than 256 bytes is shown as an error.

## Proofs

Everything below holds for every value of the constants that satisfies the named
`ASSUME`s of the modules, which TLC evaluates in the runs; nothing else is assumed.
They say what the code's types or the build guarantee (bounds are naturals, a
sentinel is not a value, a board fits its package) and two things more: the
sequence number of a slot does not wrap (`MaxSequence < SeqModulus`), and the command
a host puts in an XfrBlock is one that ISO 7816-4 can write (`Writable`).

Each theorem `Spec => []P` rests on an inductive invariant: what `P` leaves out about
the states between. These are the invariants and why they are needed.

**`FlashProofs`**, of `SealedBlob` and `CredentialFlash`.

* `RegionKept`: for every number of shards and however many saves are cut short, a
  load never mixes two saves and no generation seals two plaintexts in whole records
  of a cell. `BlobInv`: all records of one generation are of one blob; the generation
  of a save in progress is above every other, and not yet in the cells it still has
  to write; the newest record of a cell has the highest generation ever sealed there,
  because a store overwrites the older slot only. That `fresh_gen` and `load` find a
  largest generation at all rests on the generations being bounded by the number of
  saves (`MaxIsLargest`).
* `OneUnfinishedSave`: one save that is running, failed or was cut short leaves the
  committed blob to a load. `CommitInv` follows the committed generation: it is newest
  in the commit cell and one of the two records of every shard, because the save since
  stores each cell once and spares the newest.
* `NoRollback`, `NonceUnique`: `open` never rolls back and a nonce belongs to one
  record. `IInv` orders the two slots by counter, keeps every counter that was sealed
  at or below the one of the newest slot, and ties the RAM counter to it: without the
  last two a flush after a restart could draw a counter again.

**`FidoProofs`**, of `ClientPin`, then of `FidoSession` with `FidoManagement`.

* `Invariance` and its three corollaries, of the protocol alone: answered guesses stay
  charged; a token is of the current PIN and serves one relying party and one
  operation. `TokenIsScoped` needs that a token with permissions left is unspent and
  has served nobody but the party it is bound to (`LiveTokenIsUnspent`).
* `PinRefinement`: the composed session, credential management and reset included,
  implements `ClientPin`: every request that writes is one step of it with the same
  flush, every other one leaves its state alone. So `PinInv` holds there too
  (`PinSafety`).
* `CreatedStays`, `RemovedIsGone`: `DbInv` adds that ids are drawn in order and that
  each list, in RAM and in flash, holds an id at most once: without it `swap_remove`
  could leave a second copy behind.
* `StoredCountersIncrease`: each counter a credential signs with is above all before it,
  or is the 0 that U2F puts in place of one it could not store. `CounterInv` keeps both lists, RAM and flash, at or past every
  value that was released, and a credential not yet created at none: a flush that
  fails leaves flash behind RAM, never behind the host.
* `OneAssertionPerPresence`: `PendingInv` says that the pending list names a credential
  once and that only those before its position have signed.
* `EnumerationOnce`: `EnumerationInv` bounds the ids in a snapshot by those drawn, so
  that what is created later is in none.

**`PivProofs`**, of `PivPin` and `PivSign`: `PivInv` joins the bound on guesses with
the floors (a record that a failed save left behind is too permissive, but clamped to
the floor, which is how `SELECT` loads it, it is not: `FloorCovers`), the guesses a
power loss forgets (`recorded`), the verified session, and `PendingIsAuthorized`: a
signature parked for a touch still has the proof of the PIN that parked it. From it
`BoundedGuesses`, `VerifiedPinIsCurrent`, `OneSignature`, `SessionIsCurrent`.

**`OathProofs`**, of `Oath`: `AppletInv`. Both vectors, in RAM and in the blob, have
unique names and numbers and no counter behind a code answered; what was confirmed is
in the blob and, while RAM may be saved, in RAM: otherwise the next save would lose it
(`HotpCodesFresh`, `ConfirmedIsStored`). The armed touch is a position of the vector,
and an open session has proved the code in RAM and, where a SET CODE was refused half
way, the one in the blob (`GrantedToSession`).

**`OpenPgpProofs`**, of `OpenPgp`: `CardInv` is the same argument over one blob. `PinInv`
has the floors for a reload within a power cycle and `recorded` for one after;
`KeyInv` says of RAM and blob what was answered about keys, material and signatures
(`PinBudget`, `CounterNeverBehind`, `AnswersOutliveSession`).

**`HidProofs`**, of `Presence` and `CtapHid`.

* `OnePressPerConfirmation`, `WholeWindow`: for every window and timeout, one press
  confirms once, after a whole window of pressed samples of its own operation.
  `PresenceInv`: a button that stayed down since it confirmed is debounced, and an
  operation that awaits no release began with the button up.
* `NothingMixedUp`: for any number of applications with requests of any length, lost and
  given up anywhere, a message the FIDO task handles is of one request, and a reply
  is taken for the request it answers (`HidInv`). `HidIInv` follows a request from the
  application (`AppInv`) over the report on its way in (`OutInv`), the assembler
  (`CurrentInv`) and the job (`JobInv`) to the replies (`WireInv`), and says that
  each may be of an earlier request only while the application is not synchronised by
  an answer or an INIT. That two applications never share a channel needs that an
  INIT answer on its way assigns one nobody has.

**`CardProofs`**, of `Card` and `Apdu`.

* `PendingIsOfThisSelection`: a response that is still to be fetched belongs to the
  present selection and power session, whatever the host cancels. `ChainInv` numbers
  the commands in the order they are handled and keeps the last change of selection
  among them.
* `CommandsReadAsWritten`: for every base of bytes, data of any length and every
  expected length, `Apdu::parse` reads the short and the extended form that
  ISO 7816-4 writes as the data and length they were written from (`ReadAsWritten`, one
  lemma per case of the standard).
* `WholeAnswersInOrder`: as long as nothing was cancelled, lost or too long, the k-th
  transfer a host completes is the whole answer to its k-th message, and the chunks it
  joins have no byte missing or twice (`CardInv`). `CardIInv` has the types, which hold
  always, and two parts for a host that is not disturbed. `FlowInv`: buffer and bulk pipe
  together are the messages sent and not handled, in order, each with all its packets,
  so that a frame is one message. `AnswerInv` tells the three places where an answer
  can be: none is on its way (`Between`), it waits for a touch (`Touching`), or its
  packets are split between wire and host (`Sending`); in each the pending response
  goes on where the bytes that were joined end (`Resumes`).

**`DeviceProofs`**, of `SlotStore`, then of `Housekeeping` over `Device`.

* `StoreInvariance`, `ActiveSlotSafe`, `Refinement`: the two-slot store implements
  `AtomicRecord` and never rewrites the active slot. `TypeOK` and `DistinctSequences`
  are not inductive alone: a store in progress might reuse the sequence number of the
  other slot. `StoreInProgress` adds that it aims past that number and that the other
  slot is the newest unless nothing is readable at all. `DeviceRefinement` is the same
  under the configuration service, with a reset at every flash operation.
* `CommittedIsLoaded`: `CommitInv` says that a commit is persisted before anything else
  is taken and that it validates in the state every boot starts in.
  `IdentityIsFixed`, within a power session that has left the factory state, follows
  from what `validate` compares.
* `BoardAlwaysSafe`: the default configuration of every accepted board validates, and the
  LED driver never claims a pin its board does not declare. `BoardInv` ties LED pin
  and identity to the profile.
* `VerifiedIsStaged`: `UpdateInv` adds that nothing is verified while a session is open,
  so that what BEGIN erases and WRITE programs is never a verified image.
* `RequestsNotMixed`: `ChannelOK` says where the reports of a request and of its answer
  can be; its shapes hold whatever is given up, and `OneInFlight`, until something is,
  follows the one request through the firmware and back.

**Only model-checked.** Liveness (`WaitEnds`, `EveryMessageAnswered`, and `RequestEnds` of
both transports): it needs fairness and `ENABLED`, which the prover does not support.
`CardTool` with `Tlv` and `Otpauth`: what they say rests on decoders and encoders that
recur over their input, which needs induction over data that the installed provers
cannot do, and modules that declare recursive operators cannot be proved about at all.


## Not modelled

* **Cryptography** (`rsa.rs`, `ecdh.rs`, `pgp_sym.rs`, the PIN protocols, AEADs):
  number theory is out of TLC's reach. The models take its results as inputs.
* **CBOR and the byte layouts of CTAP2** (`codec.rs`, `ctap2.rs`): parsing without
  state; the requests enter as records.
* **Time.** The watchdog (`main.rs:1398`), which is fed only when the 500 ms timer
  wins against traffic, and LED patterns are about elapsed time. The models have
  steps, and a clock only inside a wait for presence.
* **Concurrency below a task**: interrupts, DMA and the flash lock between cores.
  The code relies on the HAL for them.
* **PIV data objects under failing writes**: each is one record of its own, whose
  write `SlotStore` covers; `CardTool` has them with writes that succeed.
* **RecoverySession** (`recovery.rs`): not used by the firmware, whose recovery
  destination serves the management protocol. `ContextualPresence` likewise.
* **Self-test, build support, OTP laboratory, register access, hardware
  discovery beyond the profile**: run once or only read; no protocol state.
* **The inspection commands of the host tool** (`card-list`, `card-status`,
  management `inspect`): they only print.

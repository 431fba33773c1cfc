# Verification of trustm-rs

`trustm` is a blocking Rust API for the Infineon OPTIGA Trust M. Underneath it
is Infineon's asynchronous C host library: each command returns at once and a
callback reports how it ended. The crate keeps two process-wide statics, `OPEN`
(is there a handle) and `STATUS` (what the last callback said), two library
instances per handle, and a device path that the C side refers to by pointer.
The TLA+ modules here model that machinery, the command methods on top of it,
the format helpers, and the health check `trustm-check`. TLC checks them on small
instances; TLAPS proves every safety property that TLC checks, and that the
session keeps an abstract promise to its callers, for every instance: any number
of clients, every length, every byte string, every certificate. Liveness is left
to TLC.

## The system

| Part | State | Operations | What makes it correct |
|---|---|---|---|
| Session (`trustm/src/lib.rs` 56-155, 764-784) | `OPEN`, `STATUS`, the handle's `util`, `crypt`, `timeout`, `_bus` | `open`, `open_inner`, `run`, `set_timeout`, `close`, `Drop`, the callback `on_done` | one session at a time; each run returns its own command's status; every call returns; instances and the flag are given back on every path |
| Command methods (`lib.rs` 157-764) | none of their own; the buffers of a call | 25 methods, each: check arguments, one `run` on the util or the crypt instance, truncate the output | C gets what was asked, in the width of each parameter; buffers hold what the library writes and outlive the command; what is returned is the chip's answer |
| Format helpers (`lib.rs` 786-887) | none | `ecdsa_signature_to_rs`, `ecdsa_signature_from_rs`, `ecc_public_key_point`, `der_len` | exact, lossless, canonical |
| Types (`trustm/src/types.rs`) | none | conversions to library constants, `Error::from_status` | no two variants alike; only SUCCESS is `Ok` |
| Raw bindings (`trustm-sys/src/bindings.rs`) | none | the declarations of the C interface | external C interface: widths of parameters, structs behind void pointers |
| Platform wiring (`trustm-sys/csrc/pal_config.c`) | `linux_i2c.i2c_if`, the slave address | `trustm_sys_configure` | the pointer stays valid; the address in use is the one asked for |
| Host library (git submodule, not in the repository) | instance registrations, commands in flight | create, destroy, commands, the timer thread that calls handlers | external: modelled from how the crate uses it |
| `trustm-check` (`trustm/src/bin/trustm-check.rs`) | report counters, the factory key, a signature | a fixed sequence of checks, skips, exit status | exit 0 only when every check passed; the key verified with is the certified one |
| Build, CI | none | | not modelled: runs before the program exists |

A method of `Trustm` reaches the chip in one way: `run` stores BUSY into
`STATUS`, makes one foreign call, and polls `STATUS` until it is no longer BUSY
or the timeout has passed. The library's timer thread calls `on_done`, which
ignores its context and overwrites `STATUS`. So the hard behaviours are
concurrent threads that open and drop, callbacks that come between any two
steps, callbacks that come after the run that waited for them has given up,
opens that fail half-way, and instances the library refuses to destroy. Nothing
is persisted, so there is no recovery after a crash to check.

## The modules

- `HostLibrary` (external). `slot` gives each registration's state (unused, FREE,
  BUSY), `reporting` the registrations whose command has ended but whose handler
  has not been called. Its assumptions: a create call takes an unused
  registration or fails; a command is accepted only by a FREE instance; the
  instance is freed before its handler is called, and both happen on another
  thread; destroying a BUSY instance is refused and leaves it registered. The
  handler is called at most once per command, possibly never.
- `PalConfig`. `i2c_if` is the name of the client whose string the C pointer
  points to, `"static"` for the built-in path, `"dangling"` once that string has
  been freed. `slave_address` is the 8-bit address, where 0 keeps the old one.
- `Trustm` extends both: the session. A client is a flow of control with the
  handle it owns; `&mut self` gives a handle one call at a time, and clients run
  concurrently because `open` is a plain function and `Trustm` is `Send`. `pc[t]`
  says where the client is:

  | `pc` | code |
  |---|---|
  | `out` | owns no handle |
  | `configure`, `util_create`, `crypt_create` | `open_inner`, lines 97-117 |
  | `reset`, `call`, `load`, `check` | `run`, lines 135, 136, 139-142, 143-146 |
  | `idle` | holds an open handle, no call in progress |
  | `destroy_crypt`, `destroy_util`, `release` | `Drop`, lines 779, 780, 782 |
  | `free_bus` | the CString is freed, by drop glue or on return from `open_inner` |
  | `rollback` | `open` clears `OPEN` after a failure, line 85 |

  All data objects, keys and algorithms are abstracted: a command is a run on the
  util instance or on the crypt instance. Statuses are SUCCESS, BUSY and a set of
  error codes. `waited` counts the elapsed time of a run in units of which a
  timeout holds a few, up to one past the timeout, since what lies beyond is all
  alike to `run`. A result is `Ok` or `Err`: which error it is does not influence
  what follows.

  Five history variables, read by no guard: `holder` (whose swap set `OPEN`),
  `stray` (a `store(false)` has cleared somebody else's flag), `quiet[t]` (nothing
  was in flight when t's run stored BUSY), `answer` (who was waiting on the
  instance that reported the status now in `STATUS`), and `timedOut`.
- `TrustmInduction`: the inductive invariant. `TrustmProofs`: the theorems.
- `Session`: the abstract specification, what the crate promises its callers. There
  is one `owner`, in whose session commands run one after the other; a command
  ends with the chip's own `reply` to it, or is given up. The promise has two
  limits, stated in it: after a command has been given up (`late`) replies tell
  nothing any more, and after a session was ended by somebody else (`~intact`)
  nothing is promised. Statics, instances, pointers and clocks do not occur.
- `TrustmRefinement`: the mapping. The owner is `holder`; the phases are sets of
  `pc`; the chip is serving while anything is in flight in the library; the reply
  is the status in `STATUS` once some run is waiting and it is not BUSY; `late` is
  `timedOut` and `intact` is `~stray`. `KeepsThePromise` is `Session!Spec` under it.
- `Bindings`: the constants, structs and functions of the C interface that the
  crate uses. A call is the record of what C gets to see: each number in the width
  of its parameter, what a void pointer points to and the flag that tells C how to
  read it, and the room C is told to have for each output.
- `Types`: each enum as a function to its C constant, the lengths of components,
  moduli and MACs, and the key usages, which are bytes, with their `|`.
- `Methods`: each of the 25 methods as one operator: on which instance it runs, what
  its caller asked, whether its checks pass, its call, and its output buffers with
  what is returned of each. A slice is given by its length.
- `Commands` extends `Trustm` with these methods, for arguments of any length and
  number their Rust types allow (`CommandsAssumption`). `call[t]` is the method a client
  executes. `job[i]` is `"live"` while the run that started the command in flight on
  instance `i` waits for it; once that run has returned it is `"dead"` if the call had
  output buffers, which are then freed, and `"left"` if it had none (the commands of
  `open` and `close`, and methods that only send). `ended[i]` is the status it will
  report, `filled[t]`
  what the library has written into the buffers of t's call, and `returned[t]` what
  the method made of it. Each action is one of `Trustm`'s with its part in this, so
  the composition adds no interleaving and removes none, but for one thing: a
  client takes a result before it makes its next call.
- `TrustmCheck` extends `Session`: `main` of the health check, call by call, over the
  promised session (which is what it may rely on, since `Trustm` implements it; a
  single thread never makes a stray clear). It has the certificate's framing and
  the search for the key, the skips, the report and the exit status. After a
  timeout the replies may be anything and the buffers may be unwritten. Its
  history variables: `doubted` (a check passed on a reply that need not be the
  chip's), `rejected` (the tampered digest was refused by the chip itself),
  `certified` (the point in the certificate that was read). What a certificate
  certifies is said without the program's search (`Certifies`), and
  `CertificatesAssumption` asks of each that its `point` is that.
- `FormatHelpers`: the format helpers byte for byte, as operators on sequences
  without recursion. `Formats` passes a value through them as callers do: a
  signature to `r || s`, back, and to `r || s` again; a key to its point, and the
  point through the same function again.
- `RefinementProofs`: theorems about `TrustmRefinement`. `CommandsProofs`,
  `MethodsProofs`, `CallsProofs`: about `Commands`, namely the session under it, the
  methods one by one, and the calls. `FormatHelperProofs`: lemmas about
  `FormatHelpers`, from which `FormatsProofs` proves theorems about `Formats` and
  `TrustmCheckProofs` theorems about `TrustmCheck`.
- `MCTrustm`, `MCCommands`, `MCTrustmCheck`, `MCFormats`: inputs and symmetry for TLC.

How they fit together:

    HostLibrary  PalConfig     Bindings
           \      /               |
            Trustm              Types   FormatHelpers
           /      \                \      /     |    \
    TrustmInduction  \            Methods    Formats  \
       |              \            /                   \
    TrustmRefinement   Commands ---           Session --- TrustmCheck
       (INSTANCE Session)

Definitions named after a bug ("The mutated form of ...") are not used by the
specifications. They show, for each property, a plausible slip in the code that
the property catches.

## What is checked

| Run | Bounds | Shows |
|---|---|---|
| `sessions` | 2 clients, 3 registrations, one timeout (0), one address, a good and a bad path, one error code | the inductive invariant, the seven safety properties, and the refinement of `Session` |
| `two_handles` | 2 clients, 4 registrations, one kind of path; no run times out and no registration is lost | `FlagNotStuck` and `InstancesNotShared` also while two handles are in use |
| `returns` | 1 client, 3 registrations, 2 timeouts, 2 addresses (0, which keeps the old one, among them), all kinds of path | every call returns; the type invariant with changing timeouts; address and path are the ones asked for |
| `commands` | 1 client, 2 registrations, one error code, timeout 0; lengths around each width, see below | C gets what was asked, through the right pointers and into buffers of the right size; `Ok` means done |
| `check` | one process, 9 certificates, 3 signatures | exit status 0 is earned; the key is the certified one |
| `formats` | see below | the helpers are exact and lossless |
| `two_open_handles`, `foreign_answer`, `instances_kept`, `dangling_bus` | 2 clients, 4 registrations in the first, as `sessions` or less in the others | four of the disagreements below |
| `buffers_freed`, `tampered` | as `commands` with one length for each argument; as `check` | the other two |

Why the bounds suffice. Two clients show every pairwise interference: the state
they share is one flag, one cell and one pointer. Three registrations serve one
handle and half of another, so an open can run out of them half-way, and after a
timeout registrations leak until none is left; with the real six the same
happens later. Four allow two complete handles, which only the state after a
stray clear uses; there `two_handles` excludes timeouts and registrations lost to
a command in flight by a CONSTRAINT (`NothingLost`), since with them the instance
exceeds what TLC explores in minutes; the theorems have no such bound. A timeout
of 0 units still lets a run poll twice, before and after the time has passed. An empty path behaves like a
good one up to the pointer the C side keeps, which `returns` covers; where there
are no error codes a command still fails by refusal. In `sessions` the promise is
checked with clients, drops, timeouts and late replies in every order.

The safety properties of the session:

- `ExclusiveSession`: at most one client is between the swap in `open` and the
  clearing in `Drop`.
- `FlagNotStuck`: a set `OPEN` always has a client that will clear it.
- `InstancesNotShared`: pointers are registered instances, each held once.
- `OwnAnswer`: a run that began with nothing in flight returns only the status
  its own command reported.
- `NoOrphanBeforeTimeout`, `NoLeakBeforeTimeout`: only a timeout leaves a command
  without a run waiting for it, or a registration without an owner.
- `UsesWhatWasAsked`: inside its session a client drives its own path and address.

`ExclusiveSession`, `OwnAnswer`, the two `...BeforeTimeout` properties and
`UsesWhatWasAsked` are stated up to the first stray clear, that is, up to the
defect `two_open_handles` shows; the other two hold in every reachable state.

`KeepsThePromise` is the refinement: every step is a step of `Session` or changes
nothing that callers can see. It says more than the invariants together, for it is
about steps: a run returns exactly the reply that came, takes it once, and a
session ends only by its owner.

`EveryCallReturns` assumes weak fairness of each client's steps inside a call,
and of the clock: a thread that is in a call keeps being scheduled, it never
blocks except in a 1 ms sleep, and time passes. It assumes nothing of the chip,
of the library's callbacks, or of whether a client ever calls or drops. One
client is enough here: a client waits for nothing another one does. What another
client could do to a run is to write `STATUS`, which ends the run or leaves it to
its timeout, and late callbacks of the client's own earlier commands do the same.

`formats` takes as a signature every string of up to 7 bytes over 0, 1, 2 and 128
(two INTEGERs, one of them padded or with a superfluous zero, and strings that
are almost that) with widths 0 to 2; as `r || s` components of 1, 2, 32, 66, 126,
127, 128 and 256 bytes with no, one, nearly all or all leading zeros and the
byte values that decide about the pad; as a key every string of up to 5 bytes
over the bytes a header is made of, and whole points under each form of length,
fitting and not fitting. `ToRsIsExact` and `PointIsExact` compare the helpers
with definitions of the formats that do not strip or scan;
`FromRsIsMinimal` states DER's rule for a non-negative INTEGER; `RsSurvives` and
`ReadsItsOwn` are the round trips. Like the helpers, the definitions of what is
accepted are laxer than DER: an INTEGER to be read may have superfluous zeros or
its sign bit set (it is then read as unsigned), and the byte that counts the unused
bits of a key's BIT STRING may be anything. `ReadsItsOwn` fixes the boundary of
`ecdsa_signature_from_rs`: from 128 encoded bytes on, which no curve of the crate
reaches, the length byte is not short form and `ecdsa_signature_to_rs` refuses it.
A behaviour is one value's conversions and may end, so deadlock is not checked.

The properties of `commands` are over every call of every method:

- `CSeesWhatWasAsked`: what C takes the call for is what the caller asked.
  `Understood` says it of each function of the C interface by what its parameters
  stand for. A cast in place of a checked conversion, the wrong function, a flag
  that says another kind of argument, or two arguments the wrong way round would
  break it. It reads the enums through the tables of `Types` that the methods use,
  so it shows that no two variants share a constant and that a constant fits its
  parameter, but not that each variant has the right one: two constants exchanged
  within a table would go unnoticed. Only their names say what they stand for, and
  those were compared by reading.
- `PointersAreWhatTheyAreReadAs`: what lies behind a void pointer is what the flag
  makes C take it for.
- `WritesStayInside`, `AnswersFit`: against the lengths the chip may answer with, no
  buffer is overrun and none is too small for the largest curve or key.
- `OkMeansDone`: a call begun with nothing in flight returns `Ok` only if the chip
  carried out this very command and had written its answer while the call's
  buffers were alive, whatever timeouts came before.
- `OkIsTheChipsAnswer`: what is returned of an answer is as many bytes as the chip
  wrote.

The arguments are lengths on both sides of every conversion: 0, 255, 256, 65536
and the first that does not fit a u32. TLC's integers end at 2^31, so that number
is the constant `U32Size`, 131072 in the run: only that it lies beyond the u16
range matters to the methods. Output lengths stand around the bounds of `random`.
All enums are complete. How long the chip's answers are is external knowledge
(sizes of points, moduli and encodings); `Answers` lists the least and the most.
One client is enough, since what other clients do to a call is the session's
business, and the theorem `OkIsEarned` covers any number of them. A consequence
of the first timeout that `OkMeansDone` excludes for quiet calls only: a
call made while an abandoned command is in flight may return `Ok` with nothing
written, and `random` then returns zeros.

`check` lets each call fail before its command, be answered by the chip (well or
with an unexpected value), time out, or be answered late. The certificates are
bare, wrapped, a chain of two, of another curve, cut off, too short for a two-byte
length, behind a byte that does not belong there, a header alone, and empty.
`ExitZeroIsEarned`: exit status 0 after the checks means that all of them
passed, each on the chip's own reply (the tampered digest and the `close` after it
apart). `SkipsFollowFailures`: what is skipped follows a counted failure.
`KeyIsTheCertifiedOne`: the search by bytes finds the key of the first certificate
and no other, and the form it is handed to the chip in unwraps to it. The
program ends, so deadlock is not checked here either.

## Where code and documentation disagree

1. `two_open_handles` (`lib.rs` 85, 121, 782). If the application does not start,
   `open_inner` drops `me`, and `Drop` clears `OPEN`; `open` clears it again.
   An open of another thread in between loses its flag, and the next open is
   admitted beside it: two live handles, where the documentation promises one.
2. `foreign_answer` (`lib.rs` 139). After a timeout the late callback of the
   abandoned command is taken by the next run for its own answer. A failed
   verification can thus be reported as `Ok`.
3. `buffers_freed` (`lib.rs` 144, 167). A method that times out frees its buffer
   and length although the command that writes to them is still in flight; its
   comment says they are valid for the duration of the call. A command without
   output buffers, such as `open`'s own, frees nothing and is no counterexample.
4. `instances_kept` (`lib.rs` 776-780). The comment in `Drop` says that the instances
   are destroyed there. After a timeout the library refuses, as the instance is
   still BUSY, and `Drop` does not look at the status: the registration stays in
   use without an owner. When the six are used up no open succeeds any more.
5. `dangling_bus` (`lib.rs` 97, `pal_config.c` 29). The C side keeps the pointer
   to a CString that dies with the handle; an `open("")` goes on using it.
6. `tampered` (`trustm-check.rs` 164). Any error of the verification of the tampered
   digest counts as its rejection, a timeout or a busy instance too; the check
   passes and the exit status may be 0 although the chip has verified nothing.

Several properties that hold are stated up to the events that lead here
(`~stray`, `~timedOut`, `quiet`): they show that nothing else breaks them, and the
runs above that these events do. In PROJECT.json such a hazard names the property
that its own case breaks.

## What is proved

### The session

`TrustmProofs` proves `TypeCorrect` and, for each safety property of the session, a
theorem `Spec => []P`, for any sets of clients, registrations, error codes, addresses and
timeouts, from the named assumptions on the constants only: null and "no client"
are distinct from the real ones, timeouts are natural numbers, addresses are
bytes and the default one is not 0, error codes are u16 values other than SUCCESS
and BUSY.

The properties are not inductive by themselves. `IInv` adds what they rest on:

- `FlagInv`: `OPEN` is set exactly when there is a `holder`; the holder is on a path
  that will clear it; before a stray clear, whoever is inside is the holder. From
  this, exclusivity: a second swap can only succeed when there is no holder.
- `PointerInv`: at which `pc` a pointer is null. With it a destroyed instance is seen
  to have had one owner, who forgets it in the same step.
- `AnswerInv`: in a run that began quietly nothing is in flight but its own command,
  and `STATUS` holds BUSY until that command reports. Exclusivity keeps other
  clients from starting a command meanwhile.
- `AlwaysQuiet`: until a run times out every run begins quietly; it needs
  `NoOrphanBeforeTimeout`, and that property needs it: a run may return only after
  its command has reported, because it began quietly.
- `ClockInv`: the clock is 0 outside the polling loop, so that `set_timeout`
  cannot leave it past its bound.

Each part has a lemma with one step per action; `IInvStep` combines them. TLC
checks `IInv` in `sessions`.

`RefinementProofs` proves `TrustmKeepsThePromise`, `Spec => KeepsThePromise`, from
`IInv` and nothing else. A step that makes `stray` true is allowed by the
promise's last disjunct, and `StrayStays` closes that case; for the others,
`StepOfPromise` has one step per action. What it takes from the invariant:
`InsideAlone` (whoever is inside is the holder, so the abstract phases of the
others are untouched), `CallIsFirst` (before its call, a run finds the chip idle and
no reply pending, by `AlwaysQuiet`), and `NoOrphanBeforeTimeout` (a handler that is
called has its run still waiting, so the abstract answer has an owner).

`CommandsProofs` proves two theorems. `MethodsKeepToTheSession`,
`CommandsSpec => Spec`: every action of `Commands` is one of `Trustm`, hence all
theorems above hold while the methods run. `OkIsEarned`,
`CommandsSpec => []OkMeansDone`, for any number of clients: `JobInv` follows an
answer on its way. In a quiet call's run the command in flight is live (`Accept`);
if it ends with success the answer is written before the status is reported
(`Complete`, and by exclusivity nobody else is waiting on that instance); and
`STATUS` says SUCCESS only after that report (`Report`, where the quiet run makes it
the only command there is).

### The calls

`MethodsProofs` and `CallsProofs` prove the other five properties of `Commands`, for
every length of a slice and every u16 and u8, usages among them. The constants
are only asked to be what the Rust types say (`CommandsAssumption`).

- `NothingIsLostOnTheWay`: `ReadsBack(m)` of each method's calls (`CallsReadBack`), that
  is, `Understood` of the call is what was asked. Underneath are `Tables` (no two
  variants of an enum share a constant, and each fits its parameter), so that
  `NumberOf` finds the variant again, and `FitsWidth` (a checked conversion loses
  nothing).
- `PointersAreReadRight`: `PointsRight(m)` of each method's calls.
- `BuffersHold`, `RoomSuffices`, `AnswersComeBackWhole`: `Answered(m)` of each method's
  calls compares the buffers with every answer in `Answers`.

`CallsInv` carries these facts to the reachable states: a call in progress is one
its method has accepted, what was written into its buffers answers that call, and
what was returned was made of it after the run had ended, so that nothing is
written any more. That `returned` and `filled` do not drift apart needs the session
(`RunReturn` leaves the polling loop), hence the theorem `MethodsKeepToTheSession`.

### The format helpers

Lengths and bytes are arbitrary here, so nothing may be enumerated. The key is
`Strip`, which takes off leading zeros: where it stops is a least position, and that
there is one follows from the natural numbers being well founded (`Least`, from the
library's `WFMin`). Then `UintReads` says when `der_uint_into` accepts a string and
what it returns, `IntegerWrites` what the writing side makes of a half, and
`RoundTrip` puts them together: what `ecdsa_signature_from_rs` writes is read back
exactly when both INTEGERs have a length below 128.

`FormatInv` is the invariant of `Formats`: from the first reading on, `bytes` is
either the value that was read (`seen`) or what the crate makes of it. Of it follow
`ConversionsLoseNothing` and `OwnSignaturesAreRead`. The action properties are
proved of every step: `SplitsExactly` shows that the helper's one-pass reading
agrees with the declarative `Splits`, and `PointExactly` that the length test agrees
with the definition of a wrapper. `FromRsIsMinimal` keeps its bound of 126 bytes,
which is where the short form ends and not a bound of the check.

### The health check

`CheckKeepsToTheSession`, `CheckSpec => Spec`: `trustm-check` is a client of `Session`,
which `Trustm` implements. Its three properties follow from `CheckInv`:

- `Tallied`: while nothing has failed, `passed` counts the checks made, none was
  skipped, and none passed on a reply not its own. The two draws make one check,
  so the count falls back by one there.
- `Distrusted`: once a command has been given up, some check has failed, except in
  the last two, whose errors end as something else. With `Tallied` this is why a late
  reply cannot lead to exit status 0: the timeout before it has been counted.
- `Missing`: while nothing has failed there is a key and a signature; so a skip
  follows a failure.
- `KeyKept`: the key is the certified one. `CertificateYields` shows it of each
  certificate: `SpkiIsFirst` (the search takes the first place with the OID),
  `SamePlace` (taking a header off moves every place by its length), `KeyOfCertificate`
  and `NoKeyElsewhere` (a certificate without a key yields none).
- `Exits`: exit status 0 is given only with no failure.

`CertificatesAssumption` says of a certificate what its `point` means, and one thing
more: the OID of the curve does not occur before the key. The search by bytes
relies on it: with the OID's ten bytes earlier, in a name or a serial number, the
search would stop there. Nothing in the program checks this: it is what the
program takes for granted of the certificates in the chip.

Only model-checked: `EveryCallReturns`, since liveness is out of the prover's reach
(it needs ENABLED and the fairness of the clients). Taken as given are the
assumptions about code outside the repository: the host library's protocol
(`HostLibrary`), the lengths of the chip's answers (`Answers`), what the library takes
a call for (`Understood`) and how it reads void pointers (`ReadAs`). No theorem says anything of what the chip computes.

## Not modelled

The chip and the I2C transport; what commands compute; the wording of errors
and of the report; the formatting of the device path in `trustm-check` (digits
become `/dev/i2c-N`); declarations of the bindings that the crate does not use;
memory ordering weaker than sequential consistency (all accesses to the statics
are `SeqCst`); a panic inside a method; the build and the CI.

## Plan

Done: all parts above with their runs, and a theorem for every safety property a
run checks. Left, in this order:

1. The promises of the documentation that the session breaks hold up to the
   event that breaks them: buffers outlive their command, Drop destroys the
   instances, and a run blocks until its own callback, until the first timeout;
   the device path stays valid while no handle with a path is dropped before an
   `open("")`; there is one handle until the first stray clear. The second is
   proved (`RegistrationsAreReturned`); the others as theorems beside their
   counterexamples.
2. `Error::from_status` and the enums of `Types` as theorems of their own: the tables
   of `MethodsProofs` without the methods around them.
3. The wait of a call: that `waited` stays within the timeout is proved
   (`TypeCorrect`); a measure that falls with every step of `run` would give the
   part of `EveryCallReturns` that does not need fairness.

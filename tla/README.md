# dns-nameserver in TLA+

TLA+ modules, model-checking configurations and machine-checked proofs for
NicTool's `dns-nameserver`, the package that takes zones from a store and
publishes them to nameservers. Paths such as `lib/base.js` are relative to the
repository.

- [1. The system](#1-the-system)
- [2. The modules](#2-the-modules)
- [3. The runs](#3-the-runs)
- [4. What is proved](#4-what-is-proved)
- [5. Where the code and its words part](#5-where-the-code-and-its-words-part)
- [6. What is not modelled](#6-what-is-not-modelled)
- [7. The plan](#7-the-plan)
- [8. Running it](#8-running-it)

## 1. The system

A `Nameserver` (`lib/base.js`) is a pipeline that runs again and again:

    Source.getZones() -> Publisher.publish() -> Signer.sign() -> Transport.deliver()

The transport is also the scheduler: it calls `publishCycle()` back, at an
interval or when the source emits `zoneChanged`. Everything runs on one event
loop, so the interleavings are those of callbacks: what can happen at each
`await`, and which timer, event or datagram comes first. Beside the pipeline
stand two servers that answer other software, the AXFR server and the PowerDNS
pipe, and the native nameserver answers DNS clients itself from the zones in memory.

| component | state | operations | what it talks to |
|---|---|---|---|
| publish scheduler `lib/transport/base.js` | `_stopped`, `_pending`, `_running`, `_lastRun`, two timers | `start`, `stop`, `notifyChange`, `_run`, `_schedule` | calls `publishCycle` |
| nameserver `lib/base.js`, `lib/file-engine.js` | `state`, the listener on the source, metrics | `start`, `stop`, `reload`, `publishCycle`, `status` | all four parts of the pipeline |
| AXFR transport `lib/transport/axfr.js`, `lib/notify.js` | job index, one socket and one timer per NOTIFY | `deliver`, `sendNotify` | secondaries, UDP |
| AXFR server `lib/axfr-server.js` | `state`, a TCP server, a UDP socket, a buffer per connection | `start`, `stop`, `_onConnection`, `_onDatagram` | its own source; secondaries |
| file source `lib/source/file.js` | a watcher, two timers, stamps | `connect`, `disconnect`, `getZones` | three files the API replaces; emits `zoneChanged` |
| file publisher, signer, rsync `lib/publisher/rfc1035.js`, `lib/signer/rfc1035.js`, `lib/dnssec.js`, `lib/transport/rsync.js` | zone files, config, key files, the remote directory | `publish`, `sign`, `deliver` | `dnssec-keygen`, `dnssec-signzone`, `rsync` |
| PowerDNS pipe `lib/backend/powerdns-pipe.js` | a cache with expiries, one database connection | `run`, `handle`, `lookup` | PowerDNS on stdin/stdout, MySQL |
| native server, in-memory publisher and signer | the live zone map, keys | `start`, `stop`, `handle`, `publish`, `sign` | DNS clients |
| CoreDNS Redis publisher, RESP client | a socket, a queue of waiting commands | `connect`, `pipeline`, `publish` | Redis |
| PowerDNS database publisher | a connection pool | `publish` | PowerDNS's tables |
| MySQL source | a connection pool | `connect`, `getZones`, `disconnect` | NicTool's tables |
| TSIG | none | `signMessage`, `verifyMessage` | NOTIFY, AXFR |
| tinydns, MaraDNS publishers; config parsers and generators; record conversion; noop, pull and replication transports; metrics; CLI | files, text, counters | | |

What is hard in it, and what has to be true:

- **Scheduler.** A change can come at any moment of a cycle, of a cooldown
  window and of a stop or restart. None may be lost, none may cost cycles
  without end, and `stop()` has to reach every timer.
- **Nameserver.** `start()`, `stop()`, `reload()` and a cycle are all chains of
  awaits, overlap, and can reject at each await. An edit has to end up published; a stopped
  nameserver has to let go of its pools, or the process never exits.
- **AXFR transport.** Datagrams are lost, late, repeated and stray; workers share
  an index; a NOTIFY can throw instead of resolving. Each job needs one outcome,
  and "ok" has to mean that the secondary took it.
- **AXFR server.** Each chunk of a connection starts a handler, and all of them take
  messages from one buffer with awaits in between, while `stop()` waits for them.
- **File source.** The watch starts late, events arrive late and merged, nobody listens
  before the first cycle has ended, and three files are read one after the other while each
  of them is replaced.
- **File pipeline.** A cycle is many steps over many files and can die at any of them, also
  between two files of a delivery. What the remote server loads must have been signed and
  delivered, each zone whole.
- **Database publishers.** The source reads in three queries; a zone is replaced
  statement by statement, in a transaction or in a pipeline whose replies are
  matched by order alone. No reader may see half a zone, and a zone's serial must not
  promise edits that its records lack.
- **In-memory signing.** Zones are replaced while they are being answered from, and signed
  one by one with awaits in between, again at each cycle. One encoder makes what is signed,
  another what is answered: signatures have to match it all the same, and the NSEC chain
  must deny what is not there, only that.
- **TSIG.** What verifies must have been signed with the key and for the request; the
  MAC may be truncated, and the id may change on the way.
- **PowerDNS pipe.** A connection dies unnoticed, is replaced and the query sent
  again, if the error is one of two; the cache must not serve what is older than its time to live.

`PROJECT.json` lists these hazards one by one, each at its line with the
properties that watch it, and maps each definition to the lines it stands for.

## 2. The modules

| module | models | built on |
|---|---|---|
| `CoalescingWorker` | what a transport promises, abstractly | |
| `Transport` | `lib/transport/base.js` | implements `CoalescingWorker` |
| `Nameserver` | `lib/base.js` around a transport | `Transport` |
| `NameserverProofs` | theorems about both | `Nameserver` |
| `FileSource` | `lib/source/file.js` | `INSTANCE CoalescingWorker` |
| `FileSourceProofs` | theorems about it | `FileSource` |
| `FilePublish` | what is published as files: BIND with its signer, MaraDNS, djbdns; rsync | |
| `FilePublishProofs` | theorems about it | `FilePublish` |
| `DatabasePublish` | the MySQL source with the PowerDNS and the CoreDNS Redis publisher, `lib/resp.js` | |
| `DatabasePublishProofs` | theorems about it | `DatabasePublish` |
| `Dnssec` | the operators of signing and answering: `lib/dnssec-sign.js`, `lib/signer/memory.js`, `lib/native.js` | |
| `NativeSigning` | the native nameserver and its cycles | `Dnssec` |
| `NativeSigningProofs` | theorems about both | `NativeSigning` |
| `Tsig` | the operators of `lib/tsig.js` | |
| `AxfrDelivery` | one `deliver()` of the AXFR transport | `Tsig` |
| `AxfrDeliveryProofs` | theorems about both | `AxfrDelivery` |
| `AxfrServer` | `lib/axfr-server.js` | |
| `AxfrServerProofs` | theorems about it | `AxfrServer` |
| `PowerdnsPipe` | `lib/backend/powerdns-pipe.js` | |
| `PowerdnsPipeProofs` | theorems about it | `PowerdnsPipe` |
| `MCAxfrDelivery`, `MCAxfrServer`, `MCNativeSigning` | the instances that TLC checks | the modules they are named for |

One action is one turn of the event loop: from a callback, or the continuation of
an await, to the next await. What the code does before it yields is in the action,
other calls included.

### Transport

The interval is chosen once, from `Intervals`: 0 is event mode. Flags and timers have
the names of the code. `Start`, `Stop` and `NotifyChange` are
the public methods, `CooldownFire` and `IntervalFire` the timer callbacks,
`CycleDone` and `CycleFailed` the end of `publishCycle()` with all that runs in
the same turn: the `.finally()` of `_run`, the follow-up, and the continuation of
each caller that awaited the cycle (an interval tick, a `start()`), which arms the
next tick. `BeginCycle`, `RunForChange`, `Schedule` and `CancelTimers` are the
helpers `_run`, `_runForChange`, `_schedule` and the two `clearTimeout`s.

Time is the time since `_lastRun`, up to `Cooldown`, and what is left of the
cooldown timer. A timer may fire late. `orphans` counts armed interval timers
`_timer` no longer refers to, which `stop()` cannot cancel. `changed`, `seen` and
`settled` are history: changes accepted, read by the latest cycle, and covered
by a cycle that has ended.

`CleanRestart` says the owner starts a stopped transport again only once its
last cycle has ended. No caller in the repository restarts one during a cycle, and nothing
in the code forbids it: every run assumes it, and section 5 says what TLC finds without.

`CoalescingWorker` has four variables (`open`, `busy`, `asked`, `taken`) and
promises: one cycle at a time, none begun while closed, none asked for and
left behind. `Transport` implements it with `open <- ~stopped, busy <- running,
asked <- changed, taken <- seen`, liveness included.

### Nameserver

The transport's variables and actions are those of `Transport`, which the module extends;
each action is conjoined with what the nameserver does in the same turn (`FollowTransport`
begins a cycle's first stage when the transport begins a cycle), and what both have a
name for carries `Nameserver` here (`NameserverSpec`, `NameserverTypeOK`). A cycle is at
stage `read`, `publish` or `deliver` (signing and delivering change nothing the
properties see, and either can fail). `NameserverStart`, `StartTransport` and
`StartSettles` are `start()` between its awaits, and `ConnectFails` a source that does not
connect; `NameserverStop`, `StopPublisher` and `Stopped` are `stop()`; `Reload(c)` is a
cycle of its own, which ends (`ReloadDone`) or fails (`ReloadFails`). `DisconnectFails` is
the source's or the publisher's `disconnect()` that rejects, and `stop()` with it: the pool
that was to be closed is forgotten (`closing`: there was one), what comes after it in
`stop()` is not done, and the state stays what it was. `stopRejected` remembers it until a
`start()` or a second `stop()` succeeds. Zones are
a version: the number of edits so far, and the number the published data has.
Source and publisher are of the kind that opens a pool on demand
(`MysqlSource`, `PowerdnsDbPublisher`), where leaving one open matters.

### AxfrDelivery

Jobs (a zone and a secondary) are numbered; `next` is the shared index of
`_runBounded`; a worker waits for its NOTIFY, is done, or has thrown. `Finish` is
the settling of a NOTIFY with the worker's step to its next job and that job's first
datagram, which the code does in the same turn. `Answer`, `ShortDatagram`,
`SocketError`, `Resend` and `GiveUp` are the callbacks of `sendNotify`.
`SecondaryTakes` is the environment: whether and when a datagram arrives.

An answer is what the network can make of what secondaries, and others with other
keys and clocks, have sent: any header, with any MAC that exists, cut off or not. What
it comes to (`Verdict`) is computed by `VerifyMessage` of `Tsig`, on the answer and the MAC
of the request. Answers to a transport without a key are a choice among the outcomes
(`Signed = FALSE`); TLC's run is with a key, the proofs are for both.

### Tsig

A message is a record with its id, the count of its additional records and the rest. A
MAC is the input of the hash and the number of octets sent: the same input gives the
same octets and no other does. `SignMessage`, `Stripped` and `VerifyMessage` follow
`signMessage()`, `extractTsig()` and `verifyMessage()` check by check: key name, algorithm, error,
fudge window, truncation, comparison. The outcome is one of three: "ok", "fails", and "throws",
for a MAC longer than the hash, which `timingSafeEqual` does not compare. `AxfrDelivery` has
that in `AnswerThrows`: nothing in the socket's callback catches it, and the process ends.

### AxfrServer

A message is two units and a chunk any number of units, so messages are cut and joined at
chunks in every way. A client's script says what its messages are: a transfer, a serial
check, a request of another kind, one without a question, or octets that do not parse.
`Data` is a chunk, with every message that its handler takes before it has to await the
source (`Reaches`) and the replies to those that need no source (`Writes`); `Handled` and
`HandleFails` are the return of the source, with the messages taken after it. `Says` is
`_handle()`: who is refused, for what reason, and what is answered. `Start`,
`SourceConnected`, `Listening`, `Bound` and the failures are `start()` between its awaits,
`Stop`, `TcpClosed`, `UdpClosed`, `Disconnected` and `DisconnectFails` are `stop()`. `Batches` is
`_sendTransfer`'s split of a transfer into messages, over record sizes below, at and above
the limit; the rows of a zone may be deleted, be its SOA, or be impossible to encode. Its loop,
like the one over the rows (`LiveSizes`), is a recursive function, one index a turn.
`MaxRequests` bounds the length of a script.

One listen address is modelled, and the owner listens to `'error'` (the server emits it where
a handler fails). A message
that does not parse ends its connection, as the client's leaving does (`Gone`), but not the
handler that read it. An unhandled rejection, which ends the process, is the state `crashed`;
`failed` is the state after a `start()` or a `stop()` that rejected: the code's `'stopped'`, or
its `'running'` with every socket closed.

### FileSource

A file is the number of writes to it. `Connect`, `Stamped` and `Watch` are
`connect()`: the path, the stamps, the watcher; `WatchFails` is its `catch`, which leaves no
watcher and says nothing. `StreamLive` is the moment from
which the watcher reports writes; `EventArrives` a report; `StartTimer` and
`CheckDone` the comparison of stamps after `WATCH_START_MS`; `SettleTimer` the
announcement; `Disconnect` and `WatcherError` the ends. `ReadTable` reads
one of the three files, and `ReadFails` is a read that throws, with which the cycle ends.
What reads is a worker as `CoalescingWorker` specifies it, so the source is checked against
what the transport is shown to promise rather than against one implementation. `StartWorker`
is what `Nameserver.start()` does when `connect()` has returned: it begins the first cycle,
and only when that one has ended well is the listener attached (`listening`). `lost`
remembers that an announcement was heard by nobody, or that the cycle it was for failed.

The watch starts by the time of the comparison: that is the assumption
`WATCH_START_MS` makes, and the code has nothing else to go by. Stamps change with
each write; two writes of the same size in one tick of the file system's clock
look alike to the code, and are not in the model.

### FilePublish

`engine` is the kind of nameserver. For BIND and MaraDNS, `PublishZone` writes a zone file
by rename, `OpenConfig` and `WriteConfig` the config in place; for BIND, `KeysFound`,
`MakeKeys` and `MakeOneKey` are `ensureKeys()` and `SignZone` is `signZoneFile()`. For djbdns,
`PublishData` renders all zones and replaces the one data file, and `Compile` is
`tinydns-data`. `todo` is what a stage has still to do, taken in the order
of the zone map (`IsNext`); `Refused` is a name `safeFileName` throws for, and `Fail` a
failure or a crash at any point. All files outlive it.

rsync sends one file after the other, in any order (`SendZone`, `SendConfig`, `SendData`,
`SendCdb`), and replaces each by a rename, as it does unless it is told otherwise; it can end
between any two of them (`Fail`) or when all is there (`Delivered`). The remote
host serves what it has at each moment. `shipped` and `since` are history: the zones of the
last delivery that was completed, and of those begun after it.

One cycle runs at a time: a `reload()` beside the transport's cycle, which the code lets
happen (`nameserver_reload`), would have two of them write one directory, of which nothing is
claimed. `compile: false` leaves the compiling to whoever deploys the data file, which is
not in the repository, and is not modelled.

### DatabasePublish

`kind` is the publisher, and a cycle's `todo` the zones that it has yet to write, in one
fixed order. A zone's rows are the number of the last edit they reflect; `Column` is what
each of the source's three queries reads. For PowerDNS, `GetConnection` takes a connection
of the pool and `GetConnectionFailed` finds none to be had, `FindDomain`, `ReplaceDomain`,
`Write` and `Commit` are the statements of a zone's transaction with the row locks that
MySQL holds for them, and `WriteFailed` is any failure of one, a COMMIT whose answer is lost
included. For Redis, `Connect` and what follows make the client; `WriteZone` is the pipeline
of MULTI, DEL, the HSETs and EXEC; `multi.zones` is what EXEC would make of the zones;
`RunCommand` and `RefuseCommand` are the server with the reply it sends, `OnReply` is
`_onData()`, and `ConnectionLost` is `_failAll()`, after the server has run any number of
the commands that were on their way (`After`). `Disconnect` is the owner's stop between two
cycles.

A zone in the nameserver's database is two parts that are written by different statements:
in PowerDNS the records and `notified_serial`, in Redis two chunks of labels. A reader that
finds them different has half a zone.

### Dnssec and NativeSigning

`Dnssec` has no state: names are sequences of labels, rdata is a sequence of octets, a
signature is what it is over and by which key. A row has the rdata that each encoder makes
of it: `data` is `wireRdataFor()`'s, which is signed; `served` is `toResource()`'s and
dns2's, which is answered; `name` is `canonicalName()`'s of the name in an NS row, which
goes into the SOA that is signed. Empty is a row that the encoder refuses. They need not
agree, and neither need the two of the zone's own row (`ZoneRow`), from which the SOA is
made: `SoaRdata` is the one that is signed and `SoaServed` the one that is answered.
`SignZoneRecords` is `_signZone()`: the rows that are signed (`SignedRows`), the choice of
keys (`Zsk`, `Ksk`), and the records that it adds, with `SortOwners`, `CanonicalOrder`,
`LabelCount` and `TypeBitmap` as `lib/dnssec-sign.js` has them: the keys and the SOA with
their signatures, `RrsetSignatures`, `NsecRecords` and `NsecSignatures`. What the code
filters is `Picked`, what it collects in a `Map` or a `Set` is `Distinct`, what it sorts is
`Sorted`. `Answer` is `answer()` of `lib/native.js`.

`NativeSigning` is when they are used. `Publish` replaces the live map; `Capture` is the start of
`sign()`, which takes the map live at that moment; `SignZone` and `SignFails` are its turn for one
zone, after the await for the keys. `Bind`, `BindFails`, `Close` and `Stopped` are `start()` and
`stop()` around `super`'s. Answers are not an action: they change nothing, so that
properties quantify over all questions in every state instead. `Ordinary` says what the data
of a zone is like: rows at the apex or below it, SOA at the apex alone, no stored DNSKEY or
NSEC row, no two key files with one key, a wildcard in the first label only. `MCNativeSigning`
assumes it, so that TLC evaluates it for the instance it checks. TTLs and validity
times are left out, and so are key files' contents and the cryptography.

### PowerdnsPipe

The questions are about one zone, whose nameservers and record change. `Receive` takes
a request and does what `handle()` does before the first query; the queries it
will make are `plan`. Each of `ZonesQuery`, `RecordsQuery` and `OtherQuery` is the
return of a query; `Connect` and `ConnectFails` open the connection; `Lost` and
`LostAgain` are the retry and its failure. A dead connection gives one of `DeadCodes`: for the
two that `query()` knows (`RetriedCodes`) it is replaced, any other is thrown (`Thrown`), and
the dead connection stays. `InDatabase` is what this nameserver should answer: its records
only while the zone is assigned to it. `gone` remembers for each row when it was
last removed, so that the age of an answer can be stated exactly.

## 3. The runs

### What passes

| run | states | properties |
|---|---|---|
| `transport` | 14,523 | `ChangeNotForgotten`, `NoNeedlessCycle`, `SingleChain`, `CooldownSpacing`, `KeepsCycling`, `RefinesWorker` |
| `nameserver` | 179,195 | `NameserverTypeOK`, `ConnectionsFollowState`, `RunningEditServed` |
| `axfr_delivery` | 104,639 | `NotifiedIsTaken`, `EachJobOnce`, `DeliverSettles` |
| `axfr_server` | 1,374,275 | `EachAnswered`, `TransferIsWhole`, `StopReleases`, `StopEnds` |
| `file_source` | 273,292 | `NoWriteMissed`, `QuietAfterDisconnect`, `WritesAreRead` |
| `file_publish` | 602,597 | `ServedIsDelivered`, `Converges` |
| `database_publish` | 190,602 | `WholeZone`, `SerialCovered`, `InStep`, `Converges` |
| `native_signing` | 98,862 | `AnswersVerify`, `ChainDenies`, `ServedIsSigned`, `Converges` |
| `pipe` | 57,283 | `ErrorHasCause`, `FreshRecords`, `EveryRequestEnds` |

Each other module's `TypeOK` is checked in its run. Every property has a mutant in
`PROJECT.json`: a definition changed as a plausible bug would change it, under which
TLC finds that property violated in that run.

- **transport** (event mode and interval mode, `Cooldown` 3, 4 starts, 5 changes, 3
  failures). No change is forgotten while the transport is open: a flag or a timer stands
  for it, and only for it, so that a burst costs one further cycle. Cycles keep a cooldown
  apart. One chain of ticks; `stop()` ends it, failures do not. Restarts are clean here: a
  `start()` that joins the cycle of a former life is not in this run. Three changes
  are a cycle, a change during it and one in the next window; five leave two for the life
  after a restart. A cooldown of 3 has instants inside the window that are neither of its
  ends.
- **nameserver** (both modes, `Cooldown` 1, 2 starts, 2 edits, 1 failing cycle, 1 reload; any
  connect, disconnect or reload may fail; the owner awaits `start()` before it stops). Unless
  a `stop()` has rejected, a nameserver that says it runs hears of changes; a stop between
  cycles that returns leaves nothing open, and one that rejects leaves the source closed and
  no cycle running; an edit announced while it listens is published, and in interval mode
  every edit is. Two starts are what a restart after a failed start, or after a stop, takes.
- **axfr_delivery** (4 jobs, 2 workers, 2 attempts, two jobs whose names may not
  encode; two secrets, clocks at both sides of the fudge, MACs of 0, 15, 16, 32 and 33 octets of
  SHA-256). Four jobs for two workers: each takes a second one, at its first or its
  last attempt, while the other is anywhere. 16 octets are the half that a truncated MAC must
  have, 15 are one too few; 33 are one more than the hash. An answer that throws ends the
  process, which is an outcome of the model; that none does, `NeverThrows`, is not so (below).
- **axfr_server** (2 connections, one from a known address, up to 3 requests each, 1
  datagram, 1 edit, 1 failure, 2 starts). Three transfers are two in flight and one
  in the buffer, which is where the handlers of a connection meet; the other two scripts mix
  requests that await the source with those that do not, and with one that does not parse.
- **file_source** (2 writes, 2 connects, 1 failure: of the watch, the watcher or a read).
  Two writes: one before and one after any point of `connect()`, the watch, the first cycle
  or a read; two connects: a callback of the first source life that fires in the second.
- **file_publish** (three engines, 3 zones, one with a refused name, 4 edits, 2 failures).
  Zones before and after the refused one; two failures: one that leaves the directory or the
  remote host half done, one in the cycle that finds it so.
- **database_publish** (both publishers, 2 zones, 2 cycles at a time, a pool of 1, 1 edit, 1
  failure). Two cycles that write the same zone beside each other, and with a pool of 1 also
  after each other; two zones, so that a failure comes between them; one edit anywhere
  between the three reads. A second edit or failure repeats the cases of the first,
  since what is compared is whole zones and one serial.
- **native_signing** (a zone and its child, two contents and four key sets, 2 cycles at a
  time, 1 edit, 1 reload, 2 starts, UDP and TCP). The rows have an RRset of two, a wildcard,
  an empty non-terminal, a type of the second bitmap window, equal rows, an SPF row, a
  deleted row, a type nobody serves and one that cannot be encoded; a row that dns2 refuses
  and one that it writes differently, each beside others that it does not, and a zone row
  whose SOA it writes differently; the key sets are a pair,
  a single key, one with a file that cannot be read, and none.
- **pipe** (questions `A` and `NS`, a cache life of 1, 2 ticks of the clock, 1 edit, 2
  losses of the database). Two losses are the retry and its failure, or an error that is not
  retried and the request that finds the dead connection. `A` is answered
  from the cache without a merge, `NS` with one.

Some properties are about what a client of the component sees and need their exceptions
said: `SerialCovered` claims nothing of records newer than the serial (they are served,
until the next cycle, under the old serial); `AnswersVerify` excepts RRsets with equal rows,
SPF rows or rows that the two encoders write differently (section 5); `NoWriteMissed` and
`WritesAreRead` except what was announced to nobody or to a cycle that failed, which is read
with the next write that is noticed; `ServedIsDelivered` lets zones of one interrupted
delivery stand beside zones of another; `ErrorHasCause` excepts a dead connection whose
error is not retried; `StopReleases` excepts a source that was awaited when it was closed;
`ServedIsSigned` excepts the time between `publish()` and a zone's turn, and a `sign()` that
has failed; `Converges` of `DatabasePublish` excepts a Redis client that is broken for good.

### What is violated

These runs state what a comment, a document or a test of the repository says and find the
code does otherwise, with bounds just large enough for the case.

| run | property | what TLC finds |
|---|---|---|
| `nameserver_edit_during_start` | `EditServed`, in event mode | an edit during the first cycle stays unpublished |
| `pipe_renewal` | `FreshAnswers`, for `NS` | a removed nameserver is answered after its cache life |
| `file_keys` | `KeysAreComplete` | a zone is signed with a ZSK and no KSK |

More such statements are in the modules, each beside the words it quotes. No run is kept for
them, and no property that is checked rests on one; TLC refutes each as an invariant of the
configuration that passes, within seconds:

| property | configuration | what TLC finds |
|---|---|---|
| `BusyStopReleases` | `Nameserver.cfg` | a cycle that `stop()` does not wait for opens a pool again |
| `OneCycle` | `Nameserver.cfg` | `reload()` runs a cycle beside the transport's |
| `ChangeNotForgotten` | `Transport.cfg`, `CleanRestart = FALSE` | a `start()` during a cycle forgets a change |
| `StopCancels` | `Transport.cfg`, `CleanRestart = FALSE` | the same leaves a chain of ticks that `stop()` cannot end |
| `NeverThrows` | `AxfrDelivery.cfg`, `Unsendable = {}` | a MAC longer than the hash ends the process |
| `StrayIsIgnored` | `AxfrDelivery.cfg` | a short datagram settles a NOTIFY |
| `OwnZonesOnly` | `PowerdnsPipe.cfg` | the NS of a zone of another nameserver are answered |
| `SignedBeforeSent` | `FilePublish.cfg` | the unsigned file of a deleted zone is sent |
| `SignedAsServed` | `NativeSigning.cfg` | an answer whose signature is over other rdata |
| `SkippedNotServed` | `NativeSigning.cfg` | an SPF row is answered, as TXT, from a signed zone without a signature |

Section 5 describes them all.

### Fairness

Liveness is checked under weak fairness, of what the program and its runtime do:

- a due timer fires, and time passes (`CooldownFire`, `IntervalFire`, `Tick`,
  `Timer(w)`, `StartTimer`, `SettleTimer`): the event loop;
- a call that was made returns, with a result or an error (`CycleDone \/
  CycleFailed`, `ReadDone`, `StopPublisher \/ Stopped \/ DisconnectFails`,
  `Handled \/ HandleFails`, the queries): the drivers and
  child processes settle. A driver that hangs would break this, and the code has no
  time-out of its own for it;
- a watching source announces an edit, and a live watcher reports it;
- the interval of the native nameserver and of the database publishers begins cycles
  (`Begin(1)`), and each of their steps ends (`Progress(c)`, `Step(c)`);
- who waits for a pool's connection or for a row's lock gets it (`SF_vars(GetConnection(c))`,
  `SF_vars(ReplaceDomain(c))`: both are queues), and Redis runs what it has been sent;
- an idle connection of the AXFR server times out (`Gone`), for `StopEnds` only.

Nothing makes an owner start, stop or reload, a client ask, an editor edit, the network
deliver a datagram, or a database come back; nothing is assumed of binding and closing the
native server's sockets. `RunningEditServed` and `EditServed` except a failed cycle: event
mode does not try it again (section 5). The `Converges` of each module assumes in its text
that what stands in the way for good is gone: refused names, unusable keys, broken clients.

`CHECK_DEADLOCK FALSE` stands in the configurations where the system may rest: a stopped
transport or server, an idle one in event mode, a delivery that has ended, a pipe whose
handshake was refused, a publisher whose client is stuck. `FilePublish` never rests and has
no such line.

## 4. What is proved

TLAPS checks these for every value of the constants, where TLC's runs above
check one instance. Every invariant and every action property that a passing run checks is
the conclusion of a theorem. Nearly none of them is inductive by itself, so that each module
of proofs has an invariant that is, of named parts that say why, a lemma for each
action or group of actions that it survives, and the properties as its corollaries.

### Transport and Nameserver

**`NameserverProofs`** is about both modules, for every interval, cooldown, and number of
starts, changes, failures and reloads (`TransportAssumption`, `NameserverAssumption`: they
are natural numbers). Of `Transport`, with any owner (`Spec`):

| theorem | says |
|---|---|
| `TransportTypes` | `Spec => []TypeOK` |
| `NoChangeForgotten` | with clean restarts, `[]ChangeNotForgotten` |
| `NoCycleTooMany` | `[]NoNeedlessCycle` |
| `StopCancelsAll` | `[]StopCancels` |
| `OneChain` | `[]SingleChain` |
| `CooldownKept` | the action property `CooldownSpacing` |
| `StaysQuiet` | the action property `StoppedIsQuiet` |
| `ImplementsWorker` | every behaviour is one of `CoalescingWorker`, up to fairness |

`CooldownSpacing`, for instance, needs that a follow-up cycle, which looks at no clock, can
only be asked for once the window is over; and `OneChain` needs that a clean restart finds
nobody awaiting a cycle. `TransportInvariant` says where flags and timers can stand together:

- `WindowTimer`: an armed cooldown timer ends with the window, not before;
- `PendingWindow`: a follow-up is asked for only once the window is over, during a cycle,
  with no timer armed;
- `DownIsQuiet`: a transport that is stopped, or was never started, has neither flag nor timer;
- `IdleHasNoWaiters`: nobody awaits a cycle that is not running;
- `TicksNeedInterval`: in event mode there are no ticks;
- `NoOrphans`: no interval timer is out of `stop()`'s reach; `NothingBeforeStart`;
- and `SingleChain`, `ChangeNotForgotten`, `NoNeedlessCycle` themselves.

Flags are first-order and counters arithmetic, so that the types have a lemma for each
(`FlagsOKStep`, `CountsOKStep`); both hold without clean restarts. The refinement maps
each action to `Open`, `Close`, `Ask`, `Begin`, `Finish` or a stutter, and needs
`NoNeedlessCycle` where a cycle ends with a follow-up (the worker goes on only for what was
asked), and `WindowTimer` and `DownIsQuiet` where a timer fires (it is open then).

Of `Nameserver` (`NameserverSpec`):

| theorem | says |
|---|---|
| `TypeCorrect` | `[]NameserverTypeOK` |
| `DrivesTransport` | each step of the nameserver is a step of its transport or leaves it alone |
| `StateMeansConnections` | with clean restarts, `[]ConnectionsFollowState` |
| `NameserverIsWorker` | all that is proved of `Transport` with any owner holds of the one in a nameserver |

`StateMeansConnections` is of two kinds of stop: after one between cycles that returned,
nothing is open and nobody listens; after one that rejected, the source is closed and no cycle
runs, and no more is claimed, since the state is still `'running'` and the publisher may be
open. Of a stop during a cycle it claims nothing (`BusyStopReleases` fails).

`IInv` adds two parts. `CallOrder` says where `start()` and `stop()` can be, given which was
called last and whether a `stop()` has rejected. `StopIsQuiet`: after a stop that found no
cycle none runs, since the transport has nothing armed (`DownIsQuiet`), and so nothing opens a
connection that the two disconnects have closed.

### AxfrDelivery and Tsig

**`AxfrDeliveryProofs`**, for every message, key, time and MAC:

| theorem | says |
|---|---|
| `VerifiedIsSigned` | what verifies has a MAC over what is read from it, made with the secret of the key and for the request that was sent |
| `SignedVerifies` | what is signed verifies with the same key for the same request while the clocks differ by no more than the fudge, also when the id was replaced on the way |

The first is about the truncation: `IsPrefixOf` says nothing of an empty MAC, and it is
`LongEnough` that rules it out (`LongIsNotEmpty`). A MAC longer than the hash is among
"every MAC": `VerifyMessage` throws for it. And for any number of jobs, workers and
attempts, any keys, clocks and MAC lengths, signed or not (`AxfrAssumption`):

| theorem | says |
|---|---|
| `TypeCorrect` | `Spec => []TypeOK` |
| `JobsHandedOutOnce` | `[]EachJobOnce`: no job is with two workers, none is skipped |
| `OkMeansTaken` | `[]NotifiedIsTaken` |
| `OutcomeForAll` | `[]ResolvesWithAll` |
| `OutcomeIsFinal` | the action property `SettlesOnce` |

Its `IInv` adds `WaitingIsOpen` (the job a worker waits for was handed out and has no
outcome), `DoneAtEnd` (a worker is done only when the index is past the last job),
`ResolvedIsDone` and `NothingBeforeCall`, and its step is proved in three lemmas, for
`Deliver`, for the settling of a NOTIFY in whatever way, and for a retry. `OutcomeForAll` is
then `EachJobOnce` at the end of the index: no worker holds a job and all jobs were handed
out.

`OkMeansTaken` rests on `VerdictIsTrue`: an answer that comes to "ok" says "no error" and
verifies, so that its MAC is, by `VerifiedIsSigned`, one made for the request of this job;
every MAC in the network for a response with "no error" was made by a secondary that took
the NOTIFY it answers (`ResponseMacIs`), and the MACs of two requests differ when their jobs
do (`RequestMacTellsJobs`), though their ids may be the same.

### AxfrServer

**`AxfrServerProofs`**, for any connections, known addresses and scripts, and any bounds:

| theorem | says |
|---|---|
| `TypeCorrect` | `Spec => []TypeOK` |
| `MessagesAnsweredOnce` | `[]EachAnswered` |
| `StopLeavesNothing` | `[]StopReleases` |
| `TransfersGoOutWhole` | `[]TransferIsWhole` |
| `BatchesAreWhole` | for records of any sizes, the messages of a transfer are those records in their order, and none is over the limit that could have been split |
| `TransfersAreWhole` | for any rows, what `Batches` makes of `LiveSizes` is the SOA, the live rows in their order, and the SOA |

- `StreamFits`: a message that the handlers have taken is with one of them, or answered, once,
  unless its connection is gone; and complete messages wait in the buffer only while a
  handler is busy, which goes on to them when it is done. This is where the handlers of one
  connection, each at its own await with the buffer shared, cannot lose a message.
- `RepliesFit`: a transfer went to a client that may have it, which asked for it, and of
  a zone that can be encoded.
- `SocketsFit`: which sockets are open, given how far `start()` and `stop()` have come or at
  which step they rejected, and who can still hold the source open.

The two loops of a transfer are recursive functions, and what they return is shown by an
invariant of the loop, as one would for the code: after each record the finished messages
with the open batch are the records so far, and each message keeps to the limit (`Fit`).

### DatabasePublish

**`DatabasePublishProofs`**, for any number of zones, cycles, connections of the pool, edits
and failures, for both publishers:

| theorem | says |
|---|---|
| `TypeCorrect` | `Spec => []TypeOK` |
| `ZonesAreWhole` | `[]WholeZone` |
| `SerialIsCovered` | `[]SerialCovered` |
| `RepliesInStep` | `[]InStep` |

- `CycleFits`: a cycle that has read the serial of a zone reads no older records after it
  (`ReadCovers`); its transaction has written, at each statement, as much of a zone as that
  statement leaves whole (`TransactionWhole`), and there is a transaction just while it
  writes.
- `DbFits`: what is in the database is whole and covered, which is the property.
- `Connection`, for Redis: one cycle makes the connection (`ConnectOnce`); a waiter
  that is called is a cycle's that waits for it (`WaitersCalled`); what is on its way is whole
  pipelines, one after the other, and a QUIT at most at their end (`SentWhole`); nothing is on
  its way on a lost connection; and the server is in the middle of a MULTI
  just when the next command belongs there, with the two halves of a zone written so far as
  that command's place says (`MultiFits`). So EXEC finds both halves.

`ConnectionLost` runs any number of the commands on their way at once. The server after the
first `k` of them is a recursive function of `k`, and `MultiFits` and `DbFits` hold of it for
each `k`, by induction.

### NativeSigning and Dnssec

**`NativeSigningProofs`**, for any zones, contents, key sets and names, and any bounds:

| theorem | says |
|---|---|
| `NativeTypes` | `Spec => []TypeOK` |
| `ZonesAreSigned` | `[]ServedIsSigned` |
| `SignaturesVerify` | for `Ordinary` data, `[]AnswersVerify` |
| `ChainsDeny` | for `Ordinary` data, `[]ChainDenies` |

Its invariant `Inv` (`SpecInv`) says that the store has stored zones, that a cycle which signs
on the live map has there the rows that it works from (`CyclesFit`), and, `Genuine`, what a
live zone can be: its rows are the store's, and if it has a signature it is
all of `SignZoneRecords` of such rows with keys that were found. Nobody can see a
zone half signed, though cycles overlap, fail, and sign again what was signed before.

`AnswersVerify` and `ChainDenies` are then facts about `SignZoneRecords` alone, and most of
the module is those. The library's induction cannot be used here (below), and is not needed:
`Picked` and `Sorted` list a finite ordered set by rank, and what they return follows from
that (`Lists`, `SortedIs`), for any sequence of rows.

- `SignaturesVerify`: each RRset that is answered has just one signature over it among the
  records that signing adds (`HasRrset`, `Hits`, `Misses`), by a key that the zone has, and it
  is over what the answer holds, since the RRsets that `AnswersVerify` is about have no two
  rows that are signed alike (`Regular`, `Alike`) and no row that the encoder which answers
  writes differently (`Agreed`). That is the premise of the statement, not of the model: what
  the two encoders make of a row is any two sequences of octets, of which either may be
  missing, and no assumption relates them. What is proved is that signing and answering add no
  difference of their own: a row that only one of them takes, elsewhere in the zone or at the
  same name, spoils no other RRset.
- `ChainsDeny`: octets give back the bits that they were made from, windows the
  types of their 256, a bitmap all types (`OctetBits`, `WindowIs`, `BitmapSays`, `NsecSays`); the
  owners ascend strictly from the apex (`ChainOrder`), each has one NSEC record, which has the
  types that are there; and a name that is not there lies between just one owner and the
  next (`BetweenTwo`), so that one record denies it and none denies a name that is there.

`Ordinary` is a zone as NicTool keeps it: records at names below the zone's own, its SOA in
the zone itself, wildcards in the first label, and the DNSSEC records left to the signer. The
code does not check for it, and without it the theorems are false: a row above the apex would
be the first of the chain, a stored NSEC row a second record for its name. TLC evaluates it
for the instance of `native_signing`, whose rows are otherwise as odd as section 3 says.

### PowerdnsPipe

**`PowerdnsPipeProofs`**, for any requests, cache life, clock, edits and losses:

| theorem | says |
|---|---|
| `TypeCorrect` | `Spec => []TypeOK` |
| `RecordsAreFresh` | `[]FreshRecords` |
| `ErrorsHaveCause` | `[]ErrorHasCause`, for any set of errors that a dead connection may give |

`IInv` adds `PlanFits` (the queries that are left are the last of those the request began
with, and a request for `A` has no rows before its records are read), `EntryFits` (the rows
cached for `A` were in the database when they were cached, and the entry is not to live
longer than `CacheTtl` from now; no such thing holds of `NS`, see section 5) and
`TroubleKnown` (a request that is under way while the database is away, or that has lost its
connection twice, has seen it fail, and has not been answered with LOG yet).

`ErrorsHaveCause` is also about the error that `query()` does not know: a request may fail over
a connection that died before it came only if that is the error, and then the dead connection
is still the one in use; a connection that was replaced costs the request nothing.

### FileSource and FilePublish

**`FileSourceProofs`**, for any number of writes, connects and failures
(`FileSourceAssumption`):

| theorem | says |
|---|---|
| `TypeCorrect` | `Spec => []TypeOK` |
| `AllWritesNoticed` | `[]NoWriteMissed` |
| `DisconnectIsQuiet` | `[]QuietAfterDisconnect` |

`AllWritesNoticed` says of a source that watches: each file is as it was last read, or a
comparison, an event, a timer, an announcement or a read under way will see to it, unless
the latest cycle failed or an announcement since it began was heard by nobody.

`NoWriteMissed` alone is not inductive: a write that no live stream reports must differ from
the stamps, and the end of a cycle must not put an older result in the place of a newer one.
`IInv` adds `WorkerOK` (the worker is open while the source watches and rests during
`connect()`), `WatchedFromStart` (a stream that is not live yet has its comparison to come and
has seen nothing; a closed watcher has no timer), `StampsAreOld` and `ReadsGoForward` (what
is read is no older than the last result and no newer than the file). There is one lemma for
each group of actions; the worker is `CoalescingWorker`'s, so that what is proved holds
beside any transport that implements it, as `ImplementsWorker` shows of ours.

**`FilePublishProofs`**, for any number of zones, refused names, edits and failures, for the
three engines (`FilePublishAssumption`):

| theorem | says |
|---|---|
| `TypeCorrect` | `Spec => []TypeOK` |
| `DeliveredIsServed` | `[]ServedIsDelivered` |

`ServedIsDelivered` is about the remote host at every moment, files half transferred included.
After a complete delivery it serves that one; while others are under way or have broken off,
the config is one of theirs, each zone that all of them have is whole, signed where it should
be, and of one of them, and `data.cdb` is one delivery's as a whole. It does not say that all
zones are of one snapshot, nor that a declared zone has its file then: rsync promises neither.

What is delivered is so because of what each stage has made of the zones that its
cycle read. `IInv` says that stage by stage (`Made`: while zone files are written, those
that are done are of this cycle; while zones are signed, those that are done are signed and
the others plain; at `deliver` all is as it should be served), with the zones that are left
being among those read (`TodoIsRead`) and the stages that an engine has (`StagesOf`).

### What is only model-checked

Liveness: `KeepsCycling`, `RunningEditServed`, `DeliverSettles`, `EveryRequestEnds`,
`WritesAreRead`, `StopEnds`, each `Converges`, and the half of `RefinesWorker` that is
fairness. It rests on fairness, and so on `ENABLED`, which the prover does not know.

The library's induction theorems take an operator as a parameter, which no prover at hand can
instantiate. Where an induction is needed, over the turns of a loop or the commands on their
way, it is made from data: a set of numbers that has 0 and the successor of each of its
members is all of `Nat`, since what it lacks would have a least element
(`WellFoundedInduction` has that), and a recursive function is shown to be the one that its
definition says by the same argument.

## 5. Where the code and its words part

Shown by a run, or by a property that TLC refutes (section 3):

1. **An edit during the first cycle is lost in event mode.** `start()` attaches the
   `zoneChanged` listener after `transport.start()` has returned (`lib/base.js:140`),
   that is, after the first cycle. An edit announced between that cycle's read and its
   end is announced to nobody and waits for the next edit.
2. **A `stop()` during a cycle does not stop it** (`lib/base.js:147-155`). It closes the pools
   while the cycle goes on to `publish()`, which opens the publisher's again, so that the
   process does not end.
3. **`reload()` runs a cycle beside the transport's** (`lib/base.js:171`): the older read can
   be published last.
4. **A `start()` during a cycle of the former life** clears `_pending`
   (`lib/transport/base.js:37`) and joins that cycle: a change that had been remembered is
   forgotten. In interval mode the old tick and the new start both arm a timer, and `stop()`
   cancels one of them.
5. **A MAC longer than the hash is not an answer to ignore** (`lib/tsig.js:241`):
   `timingSafeEqual` throws inside the socket's listener, and the process ends.
   `sendNotify()` also throws for a name that does not encode (`lib/notify.js:128`): one such
   zone rejects the whole `deliver()`, while its other worker goes on. `NeverThrows`
   ("instead of throwing") is about both.
6. **`NS` and `ANY` answers never age** (`lib/backend/powerdns-pipe.js:303`). `lookup()` merges
   what `getRecords()` found in the cache and stores the merge under the same
   key with a new expiry. Asked often enough, a removed row is answered for ever.
7. **The pipe answers `SOA` and `NS` for zones of other nameservers**: those queries have no
   `nameserverId` condition (`lib/backend/powerdns-pipe.js:224-267`), the records' has.
8. **A failure between the two keys of a zone is permanent** (`lib/dnssec.js:93`). Any key file
   counts as "has keys": with a ZSK and no KSK, no later cycle makes the missing key.
9. **The file of a deleted zone stays, and is sent** (`lib/publisher/rfc1035.js:36`), by BIND's
   publisher and by MaraDNS's; only the config stops declaring it. It may never have been
   signed. The data file of djbdns has no zones but the current ones.
10. **Two encoders** (`lib/signer/memory.js:141`, `lib/native.js:120-121`). One makes the rdata
    that is signed, the other the one that is answered. A row that the first takes and dns2
    refuses (`test/native.js:524` has a label of 70 octets, which no dns2 packet can carry) is
    signed and not answered; the signature that goes with the rest of its RRset is then over
    other rdata than the answer's. Which rows the first takes is up to its library.
11. **SPF rows** are skipped by the signer as not being served (`lib/signer/memory.js:136`), and
    are answered as TXT, with no signature.
12. **A datagram shorter than a DNS header** settles the NOTIFY (`lib/notify.js:160`), though one
    with a foreign id is ignored two lines further on (`StrayIsIgnored`).

Met while modelling, and outside what the properties claim:

- In event mode a failed cycle is not tried again until the next change
  (`lib/transport/base.js:106`).
- A `stop()` whose source or publisher does not close rejects with the transport stopped and
  the state still `'running'` (`lib/base.js:149-153`); the publisher is not disconnected if it
  was the source, and the listener stays. A second `stop()` can finish it.
- `Nameserver` in event mode: a `stop()` during `start()` (which the model's owner does not
  make) is followed by the rest of `start()`, which attaches its listener and calls itself
  running.
- The pipe keeps a dead connection whose error is neither `PROTOCOL_CONNECTION_LOST` nor
  `ECONNRESET` (`lib/backend/powerdns-pipe.js:80-86`): `EPIPE`, `ETIMEDOUT`, or what the driver
  says of a connection that is closed. Each later request then fails, also when the database
  is back. The `'error'` event that the driver emits on an idle connection, which nobody
  listens to, is not modelled.
- `FileSource`: a `disconnect()` during `connect()` leaks the watcher; an error of the
  watcher drops an announcement that was settling (`lib/source/file.js:86`); a `connect()`
  before the directory is there never watches (`lib/source/file.js:92`); writes that
  never pause for the settle time are never announced.
- `AxfrServer`: nothing awaits `_onDatagram()`, so a source that throws there, or a `stop()`
  that closes the socket meanwhile, ends the process (`lib/axfr-server.js:101`); after `bind()`
  has failed the TCP server goes on answering while `state` is `'stopped'`; a handler that
  awaited the source when `stop()` disconnected it can open it again; a `stop()` whose source
  does not close rejects with the state `'running'` and nothing bound.

Zones that are gone:

- Files are the ninth above. `PowerdnsDbPublisher` and `CorednsRedisPublisher` remove
  nothing that is not in the zone map, so that a deleted zone is served on; `Converges` of
  `DatabasePublish` is about the zones there are.

The Redis publisher and `lib/resp.js`:

- A socket that has closed stays in `this.socket` (`lib/resp.js:103`). The next command is
  written to it, nothing answers, and no second `'close'` comes: that `publish()` never
  ends, with it the cycle and the transport, and a `disconnect()` that sends QUIT on it
  waits as well. The comment says that a publisher needs no reconnect logic
  (`lib/resp.js:6-8`).
- After a first `connect()` that failed, `this.client` is a client without a socket, and
  every later cycle fails with "not connected".
- After a `SELECT` that failed, the next cycle finds a client and writes into database 0.

The native nameserver and its signer:

- Between `publish()` and a zone's turn in `sign()` the zone is answered unsigned, and a
  zone that fails leaves the rest of its cycle unsigned until the next one
  (`lib/signer/base.js:8-9` has records added "before queries are answered").
- Equal rows of an RRset are signed as often as they are there and answered once
  (`lib/native.js`'s `seen`): the signature does not verify.
- SSHFP, TLSA and DS rows are in the bitmap of their name and cannot be answered; with ANY
  and DO each signature is in the answer twice; NSEC records are made, and no answer carries
  them: negative answers have none, and the question type is not known.
- In event mode nothing signs a zone again before its signatures expire, unless something is
  edited.
- Nobody listens to the signer's `'error'`, so that a key file that cannot be read makes the
  cycle fail instead of being skipped.
- A bind that fails makes `start()` reject with the transport running and the other sockets
  open (`lib/native.js:52`); `stop()` then still closes all that were bound. `stop()` waits
  for TCP clients, without a time-out.

## 6. What is not modelled

- **Config parsers and generators** (`lib/bind.js`, `lib/nsd.js`, `lib/knot.js`, ...): text
  in, text out, with no state to explore; their tests compare the text.
- **Record conversion** (`lib/soa.js`, `lib/to-rr.js`, `lib/zone-rrs.js`, most of
  `lib/wire.js`): field by field into other packages' classes. What matters of it elsewhere
  is in the models: a record that does not encode, a name that is refused.
- **Parts of what is modelled:** `parseKey()` and the walk over the octets of a message to
  its last record (TSIG); key files and cryptography (signing); `compile: false` (djbdns);
  the label peeling and rdata encoding of the pipe; RESP replies cut at chunks, and AUTH,
  which fails as SELECT does.
- **A `reload()` beside a cycle, for files:** `FilePublish` has one cycle at a time.
- **Metrics and `status()` counters:** nothing reads them back.
- **The noop, pull and replication transports, the none signer:** they return what they are given.
- **The command line:** one sequential pass.
- Everywhere: the wording of errors and logs, the text of zone files and SQL.

## 7. The plan

Done: the scheduler and its abstract worker, the nameserver around it, and every component
that keeps state or has an order of steps to get wrong. What is left, in order:

1. **Proofs.** What a restart without `CleanRestart` keeps of `Transport`; action properties of
   the publishers (no zone goes back to an older serial while one cycle runs at a time) and of
   `NativeSigning` (a zone that is served signed stays so until it is published again); an
   abstract specification of a published zone that `DatabasePublish` and `FilePublish`
   both implement.
2. **Compositions.** `Nameserver` over `FileSource`'s announcements instead of its own
   `Announce`, so that a write is followed from the file to the published data;
   `FilePublish` and `DatabasePublish` as the cycle of `Nameserver`, whose stages are
   abstract now.
3. **Wider instances:** the database publishers with two failures, several listen addresses
   of the AXFR server, two zones that a secondary pulls.

The passing runs keep to forty checked properties, so that all of it runs in minutes. A
module that is added takes the place of weaker properties; four that are proved for every
instance have left the passing runs that way (`StopCancels` and `StoppedIsQuiet` of
`Transport`, `ResolvesWithAll` and `SettlesOnce` of `AxfrDelivery`).

## 8. Running it

    tlc -workers 2 -config Transport.cfg Transport
    tlc -workers 2 -config NativeSigning.cfg MCNativeSigning
    tlapm NameserverProofs.tla

`PROJECT.json` names the module and the configuration of each run. Most configurations
instantiate their modules directly: the constants are numbers, sets of names and Booleans.
Three have a module of definitions between, for constants that a configuration cannot
express: `MCAxfrDelivery` (keys and clocks), `MCAxfrServer` (scripts of requests) and
`MCNativeSigning` (zones, rows and keys). Symmetry is not used, since liveness is checked in
nearly every run. All runs end within three minutes on two cores; the longest are
`axfr_server`, `native_signing` and `file_source`. Each module of proofs is checked in a
minute or two, but for `DatabasePublishProofs` and `AxfrServerProofs`, which take a few, and
`NativeSigningProofs`, which takes about eight.

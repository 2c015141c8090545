# A TLA+ model of the room sensor firmware

The firmware (`src/Application/User`) runs on an STM32G4: it samples air and light
sensors on one I2C bus, shows them on a display, publishes them over MQTT, takes
commands over MQTT and keeps its configuration, identity and registration in flash.
It is one cooperative thread: `App_Run` (app.c:1322-1632) is called for ever and calls
every component in turn. There are no threads and no interrupts that share state; what
makes the system hard is what happens *between* two calls (the network, the broker,
time, a power loss) and *inside* a call that fails half way.

This directory holds TLA+ modules of the components, TLC configurations that check them
on small instances, and TLAPS proofs of the central theorems for all values of the
constants. Every definition names its source lines in `PROJECT.json` ("map").

## 1. Inventory

| component | state it keeps | operations | what is hard | what makes it correct |
|---|---|---|---|---|
| flash record store `Storage/storage.c` | two pages (slot A, B) per record type | Read, GetHealth, Write, WriteEx, EnsureRedundancy, RecoverCorruptRecord, FormatRecord, Format | power loss within an erase or a program, lying flash, read errors, sequence wrap | a record is atomic; the last good copy survives every failure |
| configuration and identity `App/config.c`, `device_identity.c` | a cached record, its read status and health | Load, Save, SelfCheck, EnsureRedundancy, ResetToDefaults | cached status against flash, a record that is intact but invalid | what callers see is what flash holds, or is reported otherwise |
| provisioning `Provisioning/provisioning.c` | registration record, status | Registration_Save, Clear, Init | two records changed by one command, crash in between | every crash leaves a state boot accepts |
| network transport `Network/network_transport.c` | connection state, two byte rings, deadline | Connect, Disconnect, Run, Send, Receive | ring wrap, partial send, close with bytes buffered, clock wrap | a byte stream per connection |
| MQTT client `Mqtt/mqtt_client.c` | client state, one outgoing packet, parser buffer, QoS 1 and SUBSCRIBE slots, deferred PUBACK, ping and timers | Connect, Run, Disconnect, Publish, Subscribe | partial acceptance, fragmentation, timeouts, reconnect | packets whole both ways, nothing crosses connections |
| MQTT codec `Mqtt/mqtt_codec.c`, `mqtt_utf8.c` | none | encode and decode each packet, text checks | lengths at a boundary, heads cut anywhere, overlong text | decoding inverts encoding; text and filters are accepted exactly when well formed |
| MQTT manager `App/mqtt_app.c` | manager state, backoff step and time | Run, PublishTelemetry, PublishResponse, OnInboundPublish | two state machines that must agree; one response slot | online means subscribed; it always gets back online |
| command slot and dispatcher `Command/command.c`, `command_dispatcher.c` | one pending command and its trust | ProcessInput, Run, the seven handlers that change a record | checked on arrival, used later; several writes per command | an accepted command finds its slot; a success that is answered is durable; authorization by trust |
| command parser `Command/command_parser.c`, `command_args.c` | none | the object loop, strings, numbers, argument contracts | numbers that wrap, truncation, fields in any order | a message is taken whole or refused |
| bus health `Platform/i2c_bus_health.h`, `recovery_policy.h` | per-device evidence, cooldown | Report, BeginRecovery, OnSuccess, OnFailure | stale evidence, windows over a wrapping clock | the bus is recovered on fresh evidence of two devices, at most once a minute |
| sensor runtimes `Drivers/*/..._runtime.c` | device state, retry and settle times, last sample | Start, Poll, Recover, EnforceFreshness | measurement started and read in different calls | a sample is fresh and of the current run |
| lifecycle, super-loop `Device/device_lifecycle.c`, `App/app.c` | lifecycle state, schedules | boot stages, App_Run, App_DoRetry, App_UpdateHealth | a boot over a store that fails at any stage; a sensor disappears | a powered device gets through its boot and serves |
| light sensor `Drivers/veml7700/veml7700.c`, its part of `App/app.c` | range, settling, pending change, absences | Init, ReadWithAutoRange, App_DoReadLight, App_DoRetry | a range is changed while counts of the old one are held; a configuration is taken and not confirmed | what is shown was counted in the range it is converted with; the search for a range ends |
| room state `App/room_state.c` and its commits in `App/app.c` | valid flags and values | the commits after each poll | the bus is recovered, a sensor never comes back | nothing stale is shown as valid |
| gas index `Drivers/gas_index` | adaptive estimator state | Process | numeric | bounded output |
| telemetry, communication outbox, manifest, I2C bus port, display, self-test, platform ports | little or none | serialize, draw, HAL calls | - | not modelled (PROJECT.json, "components") |

How they interact: `App_Run` polls the sensors, which report to the bus health and fill
the room state; telemetry is a snapshot of the room state given to `MqttApp_PublishTelemetry`;
`MqttApp_Run` drives the client, which drives the transport, which calls the adapter; an
inbound PUBLISH calls back `MqttApp_OnInboundPublish`, which fills the command slot;
`Command_Run`, later in the same loop, executes the command (writing records) and publishes
the response through `MqttApp_PortSend`.

## 2. Modules

| module | models | abstraction |
|---|---|---|
| `AtomicRecord` | what the store promises: one value, one backup per record type, and the calls in progress | abstract specification |
| `Storage` | `storage.c` over `platform_flash_stm32.c` | a page is blank, an intact record or junk; CRC and header checks decide which |
| `ConfigRecord` | `config.c`: RAM copy, status, defaults, conversion of the calibration factor | the five periods are one value, valid or not; a factor is a whole number of parts |
| `Provisioning` | `provisioning.c`: RAM copy, status, what is accepted before a write and after a read | a level's flag is the validity of its identifier; no revision counter |
| `DeviceRecords` | `device_lifecycle.c`, `App_Init`, the boot stages of `App_Run` and the dispatcher's handlers that change a record, over `AtomicRecord` | the identity is one value; storage that failed to initialize is storage whose calls fail |
| `ByteStream` | what the transport promises: two queues per connection and an end after them | abstract specification |
| `NetworkTransport` | `network_transport.c`, the adapter's answers chosen by `\E` within its contract | bytes are kept (the rings are indexed as in C), endpoint and statistics are not |
| `MqttIngest` | `Ingest` of `mqtt_client.c` with `MqttCodec_DecodeFixedHeader` | bytes are counted: a packet is an interval of the stream; what overruns `rx_buf` lands in `rx_len`, next to it |
| `MqttUtf8`, `MqttCodec` | `mqtt_utf8.c`, `mqtt_codec.c`, byte by byte | results are status records; checks for NULL arguments left out |
| `CommandParser` | `command_parser.c`, `command_args.c` | numbers and strings by the character, the object by the token; no white space; the conversion of a float left out, "E" is "e" |
| `WireFormats` | the buffer those functions are called on, and their languages defined a second time | inputs are bytes, characters or tokens; nothing is said of time |
| `MqttSession` | what the client promises its user | abstract specification |
| `MqttClient` | the rest of `mqtt_client.c` over the transport's states and answers | a packet is a number of parts; inbound packets are any packets |
| `MqttApp` | `mqtt_app.c` and the command slot, over `MqttSession`, in the order of `App_Run` | commands and telemetry have no content |
| `BusHealth` | `i2c_bus_health.h`, `recovery_policy.h` | a report is a transport failure or is not; diagnostic counters left out |
| `SensorRuntime` | what the sensor runtimes share: freshness, counted failures, absence, recovery | measured values are left out, whether one is held is kept |
| `Sht45Runtime`, `Scd41Runtime`, `Sgp41Runtime`, `BmpRuntime` | Start and Poll of each runtime; the BMP380's and the BMP390's have the same control | a tick is a poll interval; transfers succeed or fail by `\E` |
| `Sensors` | one sensor in `App_Run`: `App_DoRetry`, poll, commit to the room state | the bus recovery is an input; the device's own state is one Boolean, `armed` |
| `LightSensor` | `veml7700.c`, `App_DoReadLight` and the light sensor's part of `App_DoRetry` | light is a number of counts; the device takes a configuration at once and has a count of it an integration time later |
| `MC...` | give the constants values for TLC (`BusHealth`, `NetworkTransport` and their configurations need no module for that) | |
| `...Proofs` | theorems and their proofs | |

How actions correspond to code. *Storage*: a call is planned from one snapshot of its
slots (`WriteEx`, `EnsureRedundancy`, ...), as the code does, and then every page erase,
program and read-back is a step of its own, which the flash may refuse or leave torn, and
at which `PowerLoss` may strike. *DeviceRecords*: `AppInit` and one action per boot stage; a
command is received, checked and either answered or turned into a call of the store
(`Receive`), and the return of each call is a step (`RegistrationWritten`, `ConfigWritten`),
so that a loss of power comes between any two steps, or within a call, where `AtomicRecord` says
what may then be in flash; a factory reset is two calls. *NetworkTransport*: a call is one
action; `Run` is one disjunct per path through it. *MqttIngest*: `Iterate` is one turn of
the loop of `Ingest`. *WireFormats*: the functions have no state, so the actions fill the
buffer they are given: `Receive` a byte or a character of a text, `Send` and `Arrive` a packet,
`Edit` a change of a command message. *MqttClient*: `MqttClient_Run` is `RunBegin` (up to
and including the drain and the timeouts), a `Receive...` action per dispatched packet, and
`RunEnd` (keepalive); no other call comes in between. *MqttApp*: `pc` is the place in
`App_Run`; `MqttApp_Run` is `Poll...`, `Receive...` from a broker, `EndOfRun`, `After`; then
`Command_Run`. *BusHealth*: one action per call of the monitor that changes state, in the
order `App_DoRetry` calls them; `window_open` and the anchor are left out, since every
reader of them recounts the failures first. *Sensors*: `pc` is the place in `App_Run`: `Tick`,
then perhaps `App_DoRetry` (`BusRecovery` if the monitor asked for one, then `Retry`, one
disjunct per case of its switch), then `Poll` with the commit. The sensor's kind is chosen
in `Init` and stays: sensors do not touch each other's state, except through the bus, whose
failures and recovery come at any time here. `Glitch` is a device that loses its power or
its command; after `Heal` no transfer fails. *LightSensor*: `ReadLight` is one read with its decision about the
range, `Retry` one `App_DoRetry` (the states PROBING and INITIALIZING are left in the call
that enters them), and both come at any time, whatever the two periods are.

How modules compose. Each refinement that is checked hands an abstract specification to the
user of a component: `Storage` implements `AtomicRecord`, over which `DeviceRecords` is
built (step by step, which a run checks, and by whole calls, which is how `DeviceRecords` takes
them and which is proved); `NetworkTransport` implements `ByteStream`, the stream `MqttIngest` counts the bytes of (without an INSTANCE:
it has no bytes to hand over);
`MqttClient` implements `MqttSession` (with the identifiers, sizes, clocks and the transport
hidden), which `MqttApp` uses in place of the client. In `MqttClient`, the transport is
represented by its state and ring length and by the answers `NetworkTransport_Run` and
`_Send` can give in that state.

## 3. Runs

| run | question | instance |
|---|---|---|
| `storage` | Does a record survive every failure and power loss, and only the new value replace the old? | 2 record types, 2 payloads, 6 sequence numbers |
| `device_records` | Is a success that was answered durable, does the boot destroy nothing, does RAM follow flash, does the owner change only by authority, does a powered device serve? | 2 installations, 1 set of periods, factors on a grid of 4, 12 requests |
| `transport` | Are bytes in order, none lost, repeated or left over, and is a connect bounded across a clock wrap? | send ring 2, receive ring 3, fetches of 2, sends of 3, readers that ask for 1 byte or more, 2 byte values, 6-tick clock |
| `mqtt_ingest` | Are packets cut out of the stream whole, in order, all of them, if they fit the buffer and nothing is sent behind a short one before it was handed over? | a buffer of 6 bytes; streams of 3 packets of 2, 4 and 6 bytes, the last also one that is too large or malformed; a stream may end after any byte |
| `short_packets` (violation) | Also packets shorter than the 5-byte header fetch? | 2 packets of 2, 4 and 6 bytes |
| `wire_formats` | Do encoders and decoders undo each other, and are texts, filters, numbers, strings and commands accepted exactly when well formed? | every text of 4 to 7 characters over the bytes at which the scans branch; about 100 messages; every set of arguments of every command; every 2 edits of 4 commands |
| `subscribe_length` (violation) | Is a SUBSCRIBE packet as long as it announces? | as above |
| `mqtt_client` | Does a connection leave nothing behind, are packets never mixed, pings and handshakes bounded, `MqttSession` implemented? | packets of 1, 2 and 3 parts, a ring of 2, 2 identifiers, timeouts of 1-2 ticks |
| `mqtt_app` | Do manager and client agree, is online subscribed, is the response slot free, does the manager get back online? | a backoff schedule of 3 steps |
| `bus_health` | Is the bus reset only on evidence of two devices, not twice within the cooldown, and is evidence acted on? | 3 slots, an 8-tick clock, a window and a cooldown of 2 ticks |
| `sensors` | Is what is trusted and shown fresh, are failures counted, does a sensor that works again give a sample? | each kind; threshold 3, interval 4 ticks, delay 2, 3 conditionings, backoff of 1 to 3 ticks |
| `light_sensor` | Is what is shown measured in the range it is converted with, and does the search for a range end? | 4 ranges, each twice as sensitive as the one before; the firmware's limits on counts; 11 brightnesses on both sides of every limit |

Why the bounds are enough. Storage: two record types show that one does not touch the
other; six sequence numbers (`SeqHalf = 3`, the smallest the assumption allows) wrap after
a few writes; two payloads tell old from new. Device records: two installations make a
conflict of owners; the factors have one that is in range before its conversion and not
after; the requests have one that is served and one that is refused for every reason a
handler has. Transport: rings shorter than a send and of different sizes wrap and fill in
both directions; the clock starts anywhere and wraps within a connect. Ingest: a PINGRESP
(2 bytes), a CONNACK or PUBACK (4) and a packet that fills the buffer and is longer than
a header fetch; three packets exceed `PacketsPerRun = 2`. `MaxRemaining` and `BufferSize` are equal,
as `MQTT_MAX_PACKET_SIZE` is both in the code. Wire formats: the alphabets have both sides of every comparison of the
scans, and four bytes are the longest UTF-8 sequence; the messages have bodies of 127 and
128 bytes, where the head gets longer, topics of 64 and 65 and payloads of 2048 and 2049
bytes, the code's limits, and buffers that fit exactly or miss by one; `MaxUint = 255`
stands for 2^32 - 1 and `MaxString = 4` for the buffer's size, so that both are passed by
texts of 5 and 6 characters. Client: a packet larger than the ring (partial acceptance),
one of its size and one smaller; two identifiers wrap at once. App: three steps make one
that is neither the first nor the cap. Counters that only grow in the code (statistics) are
left out; the ages in `MqttClient` are capped where they no longer tell states apart, and
`MaxLag` bounds the ticks between two calls of the loop. Bus: three slots make a pair and
one that is in no pair; the clock wraps within two cooldowns. Sensors: the threshold is the
code's; an interval longer than the delay lets a sample go stale within failures as well as
between measurements; the ladder of backoffs has its three rungs (the code's first,
`RECOVERY_BACKOFF_LEVEL0_MS`, is for no absence and is never used). Light: ranges differ by a
factor of two in the firmware's table too, so that four have two ends and two in between; a
search takes at most three changes, with three counts before each; integration times of 2 to 4
ticks differ between neighbours, as in the table, or do not; `LongSince` caps the age of a
configuration at 6 ticks, past which it decides nothing.

`WireFormats` has inputs and no state, so no type invariant; those of `MqttClient` and
`MqttApp` are parts of their inductive invariants and not run by themselves.

### Divergences

Two are runs of PROJECT.json, "findings":

* bytes of the packet after a CONNACK, PUBACK or PINGRESP are dropped (`short_packets`;
  mqtt_client.c:393, 477);
* a SUBSCRIBE announces two bytes fewer than it has, and its fit test asks for two too few
  (`subscribe_length`; mqtt_codec.c:190). `MqttSession` and `MqttApp` assume a broker that
  understands it nevertheless.

Seven more have a configuration of their own, each checking one property that TLC refutes:

* SET_CONFIG validates the factor in force and stores the requested one, so that a
  configuration can be reported saved that the next boot rejects: a factor of 0.01 is stored as
  655/65536, below the 0.01 that `Config_Validate` asks for (config.c:206, against "OK = a durable
  record is present", config.h:50): `tlc -config MCSavedConfig.cfg MCDeviceRecords`;
* a light sensor that takes a new configuration whose read-back fails is read on with the
  resolution of the old one (veml7700.c:69, against "current config unchanged", :274):
  `tlc -config MCLightRange.cfg MCLightSensor`;
* a receive error without bytes is taken for nothing to read (network_transport.c:196):
  `tlc -config MCTransportReceiveFailure.cfg NetworkTransport`;
* a packet whose remaining length is within the limit and whose whole length is not is accepted,
  and its last bytes, past `rx_buf`, overwrite `rx_len`, so that the reader loses its place in the
  stream: the limit (mqtt_codec.c:81) is on the remaining length, the buffer of that size
  (mqtt_client.h:109) holds the header too, and the body is read behind it (mqtt_client.c:445-460).
  docs/mqtt_client.md:121 says that such a packet is rejected. It takes a packet of 2305 to
  2307 bytes: `tlc -config MCBufferOverrun.cfg MCMqttIngest`;
* a stalled peer, which takes no bytes, is never pinged (mqtt_client.c:511):
  `tlc -config MCStalledLink.cfg MCMqttClient`;
* a response is refused because the PUBACK of its own command is still pending
  (mqtt_app.c:295): `tlc -config MCResponseLost.cfg MCMqttApp`;
* an SGP41 that has given a sample and is recovered once is never read again
  (sgp41_runtime.c:259): `tlc -config MCLostSensor.cfg MCSensors`.

Three more show when a passing run's configuration is changed as said:

* with `AlreadyIsStored` among the invariants of `MCDeviceRecords.cfg`: "already_registered" and
  "already_assigned" are successes (`COMMAND_STATUS_OK`) answered from RAM without a write
  (command_dispatcher.c:327-328, 452-453), and RAM may hold what the store does not: after a boot that
  could not read the newest copy, or a write that was reported as failed and had its effect. A
  device so registered is not registered after the next boot. `AnswerIsDurable` therefore
  says of these two answers only that what RAM held was durable if it was the store's when
  the command was received (`ramCurrent`), and of every other success that it is durable;
* with `RecoveredUnlessHealthy` among the invariants of `MCStorage.cfg`: `Storage_RecoverCorruptRecord`
  answers NOT_NEEDED of a record with one valid and one corrupt copy and leaves it as it is
  (storage.c:535-536, where a comment says why), although the header has it erase whatever has
  a corrupt slot (storage.h:153-156). `OnlyNewValueReplacesOld` and `AtomicRecord` follow the code: what the
  header describes would give the last valid copy up, and would break both;
* with `MinRoom = 0` in `MCNetworkTransport.cfg`, where `ImplementsByteStream` fails: asked for 0 bytes,
  `NetworkTransport_Receive` says REMOTE_CLOSED or WOULD_BLOCK while bytes are waiting
  (network_transport.c:341-346), although docs/network_transport.md:236-238 and
  network_transport.h:189-191 keep both for when none are left. `ByteStream` says what the document says. The only
  caller in the firmware never asks for 0 bytes (mqtt_client.c:393, 413, 447).

### What the models show besides

*Records.* A registration that is not what `Provisioning_Init` accepts cannot be repaired
without a reboot: `Provisioning_Clear` calls the recovery while the status in RAM is
CORRUPT, and the status is never read again. If that recovery is interrupted, or answers
NOT_NEEDED because the record is intact, a later one is refused until the next boot; and a status
of IO_ERROR at boot stays until the next one, where app.c:1313-1317 and provisioning.c:203-204
read as if it were temporary. No caller recovers a configuration or an identity whose first
write was torn: it stays corrupt, and every later save fails (storage.c:437).
`Config_EnsureRedundancy` turns a configuration that is intact but invalid from CORRUPT to OK
(config.c:136). A boot whose read of the newest copy fails, the older one being the
unregistered state, lets another owner register: `OwnershipKept` is about a device that
knows its owner. A registration that was reported as failed may be in effect after the next
boot. DEGRADED and SAFE_MODE have edges in the table of the lifecycle and nothing moves to them.

*MQTT.* A SUBACK that refuses the subscription is decoded as such, and not looked at
(mqtt_client.c:303-319, mqtt_app.c:188-193): the manager goes online.

`ComesBack` holds with exceptions, each a state that no poll and no retry leads out of
(the operators `Lost...` name them; a later recovery of the whole bus may):

* SHT45: one checksum or timeout error below the threshold, or a failed read whose re-issue fails
  too, leaves `STARTING` with nothing in flight (sht45_runtime.c:262, 270), where the header
  comment at :10 says "READY(if valid) / retry";
* SGP41: besides the restart above, a read and its re-issue failing below the threshold leave
  `WAITING` with nothing in flight (:314-319), where the comment at :389 says never;
* SCD41: a START refused after the settle leaves the runtime asking a sensor for data that
  does not measure (scd41_runtime.c:217); "no data" is not an error, so it asks for ever;
* BMP380/390: a re-trigger that fails below the threshold, or a device that lost its trigger,
  leaves the runtime waiting for data-ready, which is no error either (bmp390_runtime.c:99).

An SGP41's failures need not come in a row to reach the threshold (sgp41_runtime.c:13 has
"consecutive"): a conditioning that succeeds resets no count.

`RoomFollowsRuntime` and `NothingStaleIsShown` have one exception, the variable `reset`: a
recovery of the bus invalidates the runtimes' samples and no value of the room state, and
the polls invalidate a value only when they see its loss. So the room state goes on
showing the value from before, for ever if the sensor is then absent, while app.c:869-873
says that a fresh sample is required before any is trusted again (`OnlyTrustedIsShown`, which
TLC refutes). The choice of the provider of temperature and humidity reads those flags
(app.c:487-512), so that it stays with such an SHT45 and does not turn to the SCD41.

`LightIsShown` has two exceptions: light too bright for the least sensitive range, which is
marked invalid, and the operator `Stranded`: a failed read-back has left the device one range
above the least sensitive one while the driver believes in that, so that a saturated count leads
nowhere (veml7700.c:113) and the light stays invalid although range 0 could measure it. And failures
need not come in a row to count (README.md:92 has "consecutive"): only a valid sample resets
them, not a read that finds the sensor settling or saturated (app.c:226-236).

`BusHealth` shows that standing evidence is not always fresh: a report that is no transport
failure recounts nothing, so two failures that were within a window stay evidence until the next
transport failure or recovery (i2c_bus_health.h:163; lines 21-24 read otherwise). And
`last_error_class` is reported again by every `App_DoRetry`, as if it had failed again: a lost
SHT45 whose last answer was a bus error is standing evidence. `EvidenceIsActedOn` and
`RecoveryIsJustified` are stated so that they hold of the code as it is.

## 4. Fairness

Safety is checked without fairness in mind. The liveness properties assume:

* the super-loop goes on: `WF` of the actions of the loop (`RunBegin`, `RunEnd`, `Loop`,
  `PacedNext` of `MqttIngest`). `App_Run` is called in `while (1)` and calls nothing that blocks;
* time passes between calls: `SF` of `Tick`, strong because a tick comes only between two
  calls of the loop, so it is enabled again and again rather than for ever;
* in `MqttApp`, that polls fall due, that a connection being opened is opened or fails,
  that a packet waiting for the transport is handed over, and that a broker answers CONNECT
  and SUBSCRIBE, unless the connection fails first. These are assumptions about the
  network, and the premise of `ReachesOnline` is that connections fail no more from some
  time on. Without an answer to SUBSCRIBE the manager stays SUBSCRIBING: it has no timeout
  for it.

* in `BusHealth`, `WF` of `Tick` and `SF` of `BeginRecovery`, which `App_DoRetry` attempts in every
  pass in which the evidence stands and the cooldown is over;
* in `Sensors`, `WF` of `Tick` and `Poll` (the loop), `SF` of `Retry` (`App_DoRetry` is called
  again and again, every `retry_period_ms`), and that a measuring SCD41 asked again and again
  says once that it has data. The premise of `ComesBack` is `good`: the device is there and no
  transfer fails any more.

* in `DeviceRecords`, `WF` of `AppRun`, the next step of `App_Run` or of the call it is in. The premise
  of `PoweredDeviceServes` is that power stays on from some time; nothing is assumed of the
  store, whose calls may fail at every stage of every boot.

* in `LightSensor`, `WF` of `TimePasses`, `ReadLight` and `Retry`, which `App_Run` calls whenever their
  periods are over. The premise of `LightIsShown` is `good`: no transfer fails any more and the
  light is steady.

`HandshakeEnds` assumes nothing of the broker or the peer.

## 5. Proofs

All for any values of the constants under the named `...Assumption`s.

* `StorageProofs`: `IInv` (types, adjacency of sequence numbers, and `JobSafe`: a running
  call is on a plan that was safe when it was made and the flash is as far as the plan
  says). Neither types nor adjacency is inductive alone: that an erase spares the newest
  copy follows only from how the plan was chosen. From it: `TypeCorrect`,
  `CopiesStayAdjacent`, `ValueIsAtomic` (only the value being written replaces the old
  one), `TypesAreSeparate` and `ReportsAgree`. Sequence arithmetic is proved once (`Successor`), for any
  even range, the wrap included. And `StoreIsAnAtomicRecord`: the store implements `AtomicRecord`,
  the specification `DeviceRecords` is built on. A record's value and backup are the
  payloads of its newest and its other valid copy (`Stored`, `Spare`), so the mapping is shown page
  by page: an erase, well or badly done, drops the backup or, of a call that formats, the
  value (`SlotErased`, `EraseEffect`); a program puts the value in the backup's place or nothing
  (`ProgramEffect`); what one snapshot of the slots says is what the abstract record is
  (`SnapshotMaps`), whichever reads fail. That a format which reports success has erased all
  it concerns needs one more invariant, `ErasedSoFar`: the pages before the one being erased
  are erased. `DeviceRecords` takes a whole call of the store for one step (`Returns`,
  `Interrupted`); `CallsAreAtomic` proves that it may: with the records remembered as they were
  when the running call began (`was`, which constrains nothing), the store implements `CallSpec`.
  The strengthening, `CallInv`, says that the call was open to the record it began on, and
  that what it has done so far is an `Outcome` one step could have had; a payload is in
  place only once the call verifies, so that no later erase drops what it wrote.
* `NetworkTransportProofs`: `IInv` (ring indices agree with lengths, no bytes without a
  connection, the deadline is where the clock's arithmetic says), from it `OpeningIsBounded`
  and `TimeoutIsNotEarly`, and `TransportIsAByteStream`: the refinement of `ByteStream`, if every reader
  asks for a byte at least (`MinRoom > 0`), from lemmas on what `Put` and `Take` do to the contents of a ring of any size.
* `MqttInputProofs`, of `MqttIngest`: packets of every length, CONNACK, PUBACK and PINGRESP included,
  are dispatched whole and in order (`WholeAndInOrder`), and the end of the stream is not
  reported before each that arrived was dispatched (`NoPacketIsCutOff`), on two conditions the
  code does not establish, so that the theorems name them: every packet that is accepted fits `rx_buf`
  (`PacketsFit`; without it, `MCBufferOverrun.cfg`), and what follows a packet shorter than
  the first fetch arrives after it was dispatched (`PacedSpec`; without it, `short_packets`). A broker
  keeps to the second where it waits for the client, as after a CONNACK; nothing makes it, least of
  all after a PUBACK or a PINGRESP. `Placed` is the strengthening: what the buffer holds is the
  beginning of the next packet, and less than all of it.
  Of `WireFormats`: the functions are pure, so each agrees with its language on *every*
  input, whatever its length, of which the runs show inputs of up to 4 to 7 characters.
  `ValidIsText` and `FilterIsLevels` are about texts and filters, `HeadSettles` and `BodyIsWritten`
  about packets, `NumbersAreOfTheGrammar`, `UintsAreOfTheGrammar` (for any width of the integer),
  `StringsAreOfTheGrammar` (for any buffer) and `MessagesAreOfTheGrammar` about commands.
  What is left for the state machine is what the buffer can hold: `Filled` (bytes, or a prefix of
  the packet on the way) and `Spelled` (characters of the alphabet, or tokens, which an edit
  keeps) are its inductive invariants, and from them follow `PacketsAlwaysReadBack`,
  `TextsAlwaysAgree` and `CommandsAlwaysAgree`. All they need of the constants is
  `WireAssumption`: alphabets of bytes and tokens, messages with the fields their encoder takes
  and 16-bit numbers where it writes two bytes, and the code's limits such that what may be
  sent is within the size that is accepted, and that size within a length of two bytes. Both
  sides are recursive functions, and the library's induction theorems cannot be used (their
  parameter is an operator); instead, a set of numbers that
  is not empty has a least member (`LeastElement`, from `NatLessThanWellFounded`), and so has the set of
  positions at which two scans differ, or at which a recursive function has no value. Each scan
  has a lemma that it exists (`ScanExists`, `StringScanExists`, `ObjectScanExists`), one for a step by
  the character or pair that stands there, and one that joins them (`StringScanAgrees`,
  `ObjectScanAgrees`). The proof for packets goes by the digits of a length: one byte of them up
  to 127 bytes of body, two above (`HeadOf`).
* `MqttClientProofs`: `NothingIsLeftBehind` and `PacketsAreNotMixed`, for packets of any size,
  any ring and any partial acceptance, and `PingsAreInTime`, for any keepalive period and
  timeout. The strengthening of the last (`AgeInv`) bounds the ages by the ticks since the
  last `Run` instead of by `MaxLag`, and says that `Run` itself takes no time. `ClientIsASession`:
  the client implements the safety part of `MqttSession` (`SafeSpec`), which `MqttApp` uses
  in its place, with one lemma for the calls of the user, one for the beginning of `Run`, one
  for the packets received and one for its end; it rests on `EpochClean` and on `IdsInv` (no
  identifier is 0, which stands for none, so that a slot in use shows as such). Of the session's liveness part a proof is
  out of reach: `SessionNeedsHandshakes` derives it from `HandshakeEnds`, which a run checks.
* `MqttAppProofs`: `ManagerAgreesWithClient`, `OnlineMeansSubscribed`,
  `ACommandFindsItsSlot`, for any backoff schedule. Within a poll the manager lags behind
  the client; `WithinPoll` and `NothingBefore` say by how much.
* `SensorBusProofs`, of `BusHealth`: `IInv`, from it `RecoveryNeedsTwoDevices` and `RecoveriesAreSpaced`, for any
  number of slots, window, cooldown and range of the counter. The strengthening
  (`RecoveryTimed`, `FailuresTimed`) says that the counter's differences are the true ages
  until it comes round; the modular differences are proved once, as lemmas. Of `LightSensor`:
  `LightIsMeasured`, for any table of ranges, limits and light. The strengthening
  (`CountIsFresh`) says when the count the device holds is one of its present range: once an
  integration time has passed, and whenever the driver has settled there. It rests on the
  settling time covering the integration (`SettleCoversIntegration`), which is where
  the halved settling time of the mutant breaks it, and on a failed read-back never
  leaving the device in the very range the driver stays in (`StaysThere`).
* `DeviceRecordsProofs`: `IInv`, for any periods, identifiers, requests and scale of the
  conversion. The strengthening says what a call of the store may rely on when it returns:
  what was checked when it began still holds (`BootPlan`, `CommandPlan`), since nothing else
  runs in between, and what is in flash and in RAM is acceptable to the next boot
  (`FlashAccepted`, `RamAccepted`), although what is validated before a write is not what is
  validated after a read. From it `PromisesAreKept` (an answered success is durable; one
  answered without a write, if RAM held what the store did),
  `FlashIsAccepted`, `EvidenceStays`, `RuntimeIsConfirmed` and `OwnerStays`.
* `SensorsProofs`: `IInv` for every kind of sensor, interval, delay, threshold and backoff; from it
  `TrustIsEarned`, `ErrorsAreCounted`, `RoomIsFaithful`, `NothingStale`. There is a lemma for
  each poll (`PollSht45Keeps` ...), which rest on what a counted failure (`FailsKeeps`), an accepted
  sample and a freshness check leave. That one poll counting two failures does not pass the
  threshold by more than it follows from `Threshold >= 2` and from the invariant that an
  operating sensor is below the threshold. `WithinBudget` bounds the conditionings.

Only model-checked: every liveness property (liveness under fairness is out of the prover's
reach: `EvidenceIsActedOn`, `HandshakeEnds`, `PoweredDeviceServes`, `EveryPacketIsDispatched`,
`LightIsShown`, `ReachesOnline`, `ComesBack`). Every other property of a passing run is also
proved. No module declares a recursive operator: recursion is written as recursive functions
or folds, and lemmas on sequences and finite sets rest on the library's theorems.

## 6. Not modelled, and the plan

Left out for good: register-level drivers and compensation formulas, text that only leaves
the device (JSON of telemetry and responses, the manifest, the display), vendor code (HAL and
CMSIS, most of the repository's lines), one-line platform ports, statistics.

The plan, in order of importance:

1. *Several sensors.* The choice of the environment provider and of the barometer in the
   room state, and `BusHealth` in place of the chosen bus recovery (property: a bus
   recovery follows from failures of devices that are there); `App_UpdateHealth`.
2. *Telemetry.* The outbox of `communication.c`, in the composition of `MqttApp`.
3. *Proofs.* The safety of whatever 1 and 2 add.
4. *Gas index* control (blackout, persistence).

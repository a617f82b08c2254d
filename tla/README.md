# hc-ecowitt: TLA+ models, checks and proofs

hc-ecowitt is a homeCore plugin that turns the sensors of an Ecowitt weather
console ("gateway") into homeCore devices. Readings arrive in two ways: the
console POSTs form data to an HTTP receiver, and a poller optionally fetches the
console's livedata. Both feed one registry, which registers unknown devices with
homeCore over MQTT, publishes a retained schema per device, and publishes states.
Beside that run a watchdog that notices when uploads stop, management actions
that talk to the console's web API, and a poller that shows the console itself as
a device.

File names below are those of the repository (`src/main.rs`, ...).

## 1. Inventory

| Component | State | Operations | Modelled in |
|---|---|---|---|
| Sensor registry (`registry.rs`, `schema.rs`) | `registered`, `published_attrs`, the snapshot `.published-device-ids.json` | `process_updates`: register on first sight, schema if the names changed, state | `DeviceRegistry` |
| HTTP receiver (`server.rs`) | `last_report`; the registry's mutex; the listener | `handle_report` per request, any number at once; `serve` | `DeviceRegistry`, `SilenceWatch`, `Station`; `Startup` (`serve`) |
| Livedata poller (`poller.rs`) | none | fetch, parse, `process_updates` | `DeviceRegistry`, `SilenceWatch`, `Station`; `Startup` (its end) |
| Silence watchdog and notices (`server.rs`, `main.rs`) | the notices shown to the operator | check every 5 min; raise after 10 min of silence; clear | `SilenceWatch` |
| Address resolution and its cache (`main.rs`, `udp_discovery.rs`) | the cell `gateway_ip`, the file `.cached-gateway-ip` | resolve for an action, resolve for the poller, discover, remember, load at start-up | `GatewayCache` |
| Management actions (`main.rs`) | none of their own | read-only queries, reboot | `GatewayCache` (their address only) |
| Gateway device (`gateway_device.rs`) | the registration cell | refresh every 300 s: MAC, register once, fetch settings, publish | `ConsoleSettings` |
| `set_custom_server` (`main.rs`) | the console's settings | dialect, login, write, GET fallback, progress events | `ConsoleSettings`, `SettingsRequest` (its address: `GatewayCache`) |
| Start-up and supervision (`main.rs`) | attempts, spawned tasks, the notice about the address | load, connect, enable management, spawn, bind, serve; tasks that end | `Startup` |
| Parsers (`form_parser.rs`, `parser.rs`, `id_map.rs`) | none | fields to device updates | `Readings`, driven by `Station` |
| Battery taxonomy (`battery.rs`) | none | kind of a field, low or not | `Readings`, driven by `Station` |
| Configuration (`config.rs`) | read once | load; the editor's schema | `Startup` (load); the rest is layout |
| Manifest, logging (`main.rs`) | none | - | no: constant data and log lines |

How they interact:

* Receiver and poller call the registry through `tokio::sync::Mutex`; the guard is
  kept across every await of `process_updates`, so the whole batch is one critical
  section. A request's future may be dropped at an await when its client goes away.
* Receiver and watchdog share `last_report`. The livedata poller does not write it.
* Management handler, streaming action and gateway-device poller share the cell
  (a std mutex held for one read or one write) and the file (no lock at all). The
  management handler runs on a thread of its own while the SDK's loop waits for it.
* The SDK keeps a tracked-device set in the same file that the registry's
  `save_cache` overwrites.
* homeCore, the broker, the SDK, axum/hyper and the console are external; they are
  modelled by what `src/` relies on.

What is hard here: interleavings at awaits under a long-held async mutex, dropped
futures, calls that fail half-way through a registration, caches (`registered`,
`published_attrs`, the cell) that must agree with something outside the process,
restarts, a file written by two threads, and a timer that compares clocks. The
full list, with the line each one bites at, is in `PROJECT.json` under `hazards`.

What makes each component correct:

* Registry: what it remembers is true of homeCore; no reading outruns its schema;
  batches do not mix; every batch ends; every reported device ends up registered.
* Watchdog: an outage is shown in bounded time; a resolved problem stops being
  shown; the two notices exclude each other.
* Address cache: what is remembered is a real address; a restart keeps it; every
  resolution ends; under concurrency too.
* Gateway device: a state is published only for a registered device.
* `set_custom_server`: the console takes what was asked for or keeps what it had, and
  success is reported only if it took it; settings it keeps are shown some day.
* Parsers and battery: what a device says of its battery is true of a sensor it stands
  for, on both paths, and is brought up to date by the next message; no device is made
  up; an attribute keeps its type across paths.
* Start-up: it ends; a failed attempt leaves nothing behind; a plugin that cannot or
  does not hear anything says so, as long as its line to homeCore, the SDK's loop, runs.

## 2. Modules

`DeviceRegistry` follows a batch from its arrival to its last `publish_state`.
An await of the code lies between two actions: `AcceptReport`/`FetchLivedata`,
`AcquireRegistry`, then per update of the first loop `AlreadyRegistered`,
`RegisterDevice`/`RegisterFails` and `Announce`, and per update of the second
`SchemaUnchanged`, `PublishSchema`/`SchemaFails` and `PublishState`. `Announce` stands
for the two awaits after a registration (`publish_availability`, `subscribe_commands`)
and for the synchronous tail of `register_device` (insert and `save_cache`); the end of a
loop is part of its last step; the release of the mutex is part of the last
`PublishState`. A reading is the set of its attribute names:
the registry compares nothing else (`registry.rs:67-71`), and the schema it sends
describes exactly these names. By which JSON kind is the matter of `Readings`
(`Describe`, `SchemaForState`). `coreDevices`, `online`,
`schemaTopic` and `stateTopic` are homeCore's side, `tracked` and `idsFile` the
SDK's. `DropRequest` and `DropSentRequest` are hyper dropping a future before or
after the call in flight took effect. An address not in the allowlist changes
nothing and is therefore a disabled `AcceptReport`.

`DeviceFeed` is the abstract specification: a device exists before anything is
declared or reported for it, and no reading carries an undeclared attribute. It
knows no registry, mutex, cache or restart. `DeviceRegistry!Feed` maps homeCore's
side of the detailed state onto it.

`SilenceWatch` splits a check of `watch_for_silence` into `Wake` (read
`last_report`, compare) and `Conclude` (raise or clear), so a report may come in
between. Clocks count minutes and stop at `Horizon`. `Minute` is urgent: it cannot
pass the latest wakeup, and not while a verdict is pending, which the code reaches
without waiting.

`GatewayCache` has one action per probe, broadcast, lock and file operation of the
resolvers and `update_cache`. `TruncateFile` and `WriteFile` are the two effects of
`fs::write`; what two overlapping writers leave is computed from the lengths of the
addresses (`WriteOver`, `ReadFile`). `LoopFree` is the SDK's loop waiting for the
management handler. Which consoles answer is chosen at the start and kept; answers to
the broadcast may be lost. `WriteFails` is an `fs::write` that ends with an error, before
or after it truncated the file; the code logs it. `spoiled` is a history variable: it
records that an update of cell and file began inside another (`crossed`) or could not
write (`failed`), until an update that nothing happens to makes up for it. The properties
need it to say exactly when the code keeps its promise.

`ConsoleSettings` puts the two tasks that work on the console's settings side by
side: the streaming action (`set_custom_server_streaming`, `push_custom_server`) and
the gateway-device poller (`gateway_device::refresh`). Both go through
`fetch_custom_server`, whose stages (`modern`, `legacy`, `login`, `again`) are one
operator with the task as parameter. The console is a variable chosen at the start
(dialect, what it guards, which password is configured) with its settings and the one
session it keeps for the plugin's address; they survive a restart of the plugin.
A write sends the fields of one protocol (`Written`), a page shows those of the
current one (`Normalized`); which server, port, path and interval these are is one
value. `WriteFails` covers a refusal, a lost request and a lost answer. `QueryLogsIn`
is what the management action `get_custom_server` leaves behind: a session.
`aborted` stands for an action that ended without a verdict of its own, because an
event could not be sent or the process died.

Left out there: Wunderground credentials, the attributes of the console other than
its settings, and consoles that refuse with a success status (the code takes status
200 as success and does not read the body of a write's answer). A request takes
effect while it is awaited or never.

`SettingsRequest` is the abstract specification of the action: ask, take, complete,
fail. It knows no dialect, login, stage or fallback. `ConsoleSettings!Promise` maps
the settings as the console would show them onto it.

`Readings` holds the two parsers and the battery taxonomy as operators without state.
`ParseFormData` applies one rule to eleven families, each a record of what the code's
eleven functions look for: fields, battery keys in the order they are tried, and which
finds make a device on their own (the functions ask `state.is_empty()` at different
points). `ParseLivedata` has the outdoor and rain blocks, which merge their items, and
the sections with one device per item. A text is the set of the number it reads as,
so that "cannot be parsed" is the empty set: a POST leaves such a value out
(`Parsed`), livedata makes it zero (`ParseValue`). Units, labels and the further
measured fields of a family are left out; every battery key is there. The module is
written to be reasoned about: `Overlay` adds the attributes of one map to another (TLC's
`@@` means nothing to a prover), and the items of a block are picked by their places in
the response, without recursion.

`Station` drives them: sensors with batteries that drain and are changed, a console that
POSTs a form and answers polls, and what homeCore shows. Its `Catalogue` is external:
which sensor sends which fields is read off the names the parsers look for, and the kind
of its battery off the table in the repository's `README.md`, so that
`Readings!Taxonomy` and `MultiChannelBatteryKind` are compared with something they do
not come from. It has every sensor of that table, and the WH52, which only the parsers know;
a sensor may have items in several sections (`Places`), and the items of a section are
one array (`BySection`). `StationAssumption` says what a set of paired sensors is: finite, of
models in the catalogue, with a channel exactly for those the console tells apart by
channel. Livedata items come in any order. The registry in between is
`DeviceRegistry`'s subject and is taken as publishing what it is given.

`Startup` is the life of a process: the phases of `main` and `try_start` up to the
receiver, the tasks spawned on the way as counters, and the ways out. `Launch` is one
action, since nothing between making the shared state and the bind can fail or
wait. A task that ends only lowers its counter, as nobody joins it. What is raised
(`notices`) and what homeCore shows (`page`) are two variables, as the SDK's loop carries
the one to the other (`Deliver`) while it runs. A `polling` of `blank` is a `gateway_ip`
that was given and left empty: `Some("")` to the code. `SaidLoopback` is the
default of the start-up check and of the watchdog (`unwrap_or(true)`), `ListenAddress`
that of `serve`. The watchdog's timing is `SilenceWatch`'s; here it sees an upload as
fresh, old or never.

`MCDeviceRegistry`, `MCGatewayCache`, `MCConsoleSettings`, `MCStation` and `MCStartup`
give the constants their values; the batches of `MCDeviceRegistry` are what the parsers
of `Readings` make of forms and livedata responses. `DeviceRegistryProofs`, `DeviceFeedProofs`,
`SilenceWatchProofs`, `GatewayCacheProofs`, `ConsoleSettingsProofs`, `StartupProofs`,
`ReadingsProofs` and `StationProofs` hold the theorems. Definitions that are commented "Mutant:" are plausible bugs; no specification uses them.

## 3. Runs

| Run | Kind | Shows |
|---|---|---|
| `registry_faults` | pass | `TypeOK`, `RegisteredAtCore`, `EveryReadingDeclared` with failing registration, snapshot and state calls, dropped requests and restarts |
| `registry_feed` | pass | `BatchPrefixPublished`, and `IsDeviceFeed`: with reliable registration, schema and state calls the plugin implements `DeviceFeed`, in spite of dropped requests, restarts and lost availability messages |
| `registry_liveness` | pass | `BatchAnswered`, `EveryDeviceRegistered` with failing registrations and schemas, drops after the effect, operator deletions and restarts: a device that is reported, and that the registry does not take for registered, comes to homeCore |
| `registry_deleted` | violation | `DeletedDeviceComesBack` |
| `registry_tracked` | violation | `TrackedSurvivesRestart` |
| `watch_receiver` | pass | `TypeOK`, `NeverBoth`, `NoticesAreCurrent`, `OutageIsShown` |
| `watch_poller` | violation | `FlowingDataClearsNotices` |
| `cache_tasks` | pass | `TypeOK`, `MemoryIsAHostUnlessCrossed`, `SurvivesQuietRestart`, `ResolutionEnds`: handler, stream and poller at once, failing writes, crashes anywhere |
| `cache_torn` | violation | `MemoryIsAHost` with two writers |
| `settings` | pass | `TypeOK`, `ShownIsRegistered`, `IsSettingsRequest` (the action implements `SettingsRequest`), `ActionEnds`, `SettingsGetShown`: both dialects, every guard, password and failure, ending sessions and restarts |
| `station` | pass | `TypeOK`, `NoPhantomDevice`, `VerdictIsReal`, `OnlyCountAndClockChangeType`, `VerdictIsShownAtOnce`: every sensor alone and beside another, on both paths, both with partly unreadable messages |
| `startup` | pass | `TypeOK`, `AttemptsDoNotPileUp`, `UnreachableIsSaid`, `StartsOrGivesUp`, `DeafnessIsSaid`: every configuration, every failure |

Bounds, and why they are enough:

* Registry: two requests and the poller make every pair of producers meet at the
  mutex and leave a third to overtake. Two devices separate "this device" from
  "another device of the batch". The batches are ones the parsers can produce: a
  POST of the lightning sensor alone, a POST with a soil sensor first and an extra
  attribute, a livedata response that names the lightning sensor twice (an item
  with nothing readable, then a full one) and soil last. They make the set of names
  grow, shrink and be empty. `registry_liveness` and `registry_deleted` have one device,
  since fairness per device is what costs; a poll still walks its batch twice.
  Nothing is counted, so no counter is bounded.
* Watchdog: the code's 5 and 10 minutes, in steps of a minute, and a lag up to 4,
  the largest `LagAssumption` admits. Clocks saturate where no comparison
  distinguishes further values.
* Cache: two addresses of different length, because only lengths decide what
  overlapping writes leave, and two are enough for a cell and a file to disagree; two
  manual hosts, so that a probe can fail over; one console on the local network only. All
  three tasks are there in `cache_tasks`, as the code always has them; `cache_torn` needs
  the two that write when asked to, and has a third address.
* Settings: two destinations tell old from new; the request differs from the factory's
  settings in protocol, place and in whether uploads are enabled, so a write that
  carries the fields of the other protocol, or leaves one out, shows. The firmware
  guards nothing, writes, or reads and writes; every kind of password and every failure
  is there. The MAC is on `/get_network_info` alone, so that losing this one answer
  leaves none.
* Station: no property relates more than two sensors (a device, and another that may
  share it), so all pairs among the sensors a console has once and among those of channel
  1 are enough; the channel sensors are there again alone where a range ends or a kind
  changes: on channels 4 and 5 (leak, PM2.5), 8 (temperature, leaf, PM2.5) and 16 (soil). A
  battery reads just low or just not. One part of a message is unreadable at a time.
* Startup: all twelve combinations of three kinds of address (`lan`, `loopback`,
  unreadable) and four of polling (off, on, with a period of zero, with an empty
  address), and the code's three attempts.

Fairness. `Fairness` asks that a task inside `process_updates` goes on (the SDK's
calls return) and strong fairness of `AcquireRegistry` (tokio's mutex queues its
waiters, so one is not overtaken for ever). `ReportsKeepComing` and
`RegistrationRecovers` are assumptions about the console and homeCore; they serve
only `EveryDeviceRegistered`. In `GatewayCache` every step of
a resolution is weakly fair: HTTP calls time out after 8 s, the broadcast after 3 s,
file calls return. In `ConsoleSettings` both tasks are weakly fair for the same
reason and because the interval ticks; that a call which is made again and again is
not lost every time (strong fairness of the successes on a refresh's way), and that
the process stays up some day, are assumptions about the network and the host, and
serve only `SettingsGetShown`. `Station` needs none: its properties say what one message
does. In `Startup` the calls `main` makes before it serves return, the watchdog's sleep
ends, and the SDK's loop, while it runs, delivers. Nothing is asked of requests,
drops, deletions, sessions, failures, uploads and, elsewhere, restarts.
Deadlock is checked in every run.

## 4. What the code does not do

Each of these runs refutes a sentence of the repository; `PROJECT.json` quotes it
under `findings`.

* `registry_deleted`: a device the operator deletes while it goes on reporting is never
  registered again before a restart, although `main.rs:112-114` says so: `registered` is
  not told (`registry.rs:47`). `EveryDeviceRegistered` says what holds instead.
* `registry_tracked`: `save_cache` writes over the SDK's snapshot. In the
  counterexample one process registers a device, the next only another; the restart
  after that has forgotten the first.
* `watch_poller`: readings that arrive by polling do not clear the notices, although
  the notice's own remedy is to poll.
* `cache_torn`: two overlapping `fs::write` leave a mixture, which the next start
  takes for the console's address.

Met while modelling and not kept as runs.

Of the parsers: the schema is republished when names change, not when kinds change
(`registry.rs:67-71`), and `strike_count` is a float when POSTed and an integer when
polled (`form_parser.rs:522`, `parser.rs:251`), the station's `datetime` a text and a
number (`form_parser.rs:129-132`, `id_map.rs:29`), so the retained schema of a device
that arrives on both paths goes stale, although `schema.rs:15` says that it "cannot
drift by construction"; `OnlyCountAndClockChangeType` shows that no other attribute
changes the kind it is described by. PM2.5 channels 5 to 8 are binary by `README.md:54`,
`battery.rs:8-10` and `kind_for`, but a level when polled (`parser.rs:408-409`): a healthy
one is shown low. Livedata text that is no number becomes 0.0 (`id_map.rs:74`), which a
voltage or level battery shows as low, and a binary one as fine, although `README.md:45`
calls the value "raw value from the sensor (unchanged)"; the text of a livedata
`datetime` is such a text. `VerdictIsReal` admits these two
verdicts by name (`Misread`) and no others; without either exception it fails. The WH85 is
in `README.md:58` and `battery.rs:87`, but no extractor tries `wh85batt`
(`form_parser.rs:147`), and livedata gives its block no kind: its battery is never shown
low. So it is with `wh45batt` and `console_batt`, which are in the taxonomy only.
`VerdictIsShownAtOnce` excepts the WH85. `dateutc` alone makes the weather device although
`KNOWN_META` lists it as no sensor data. A WH31 is `temp_N` when POSTed and `aisle_N`
when polled, and when POSTed shares its device with a polled WN34. The sensors of the
outdoor block share one device, and the first readable battery hides the others. WN34 and
LDS batteries are in the taxonomy, but no POST parser reads these sensors: they are
seen only when polled. The schema gives `battery` the unit "%" (`schema.rs:44`),
which `README.md:38-40` says it does not have.

Of start-up: `config.rs:79` tells the operator to leave `gateway_ip` empty to stay
push-only, but an empty text is `Some("")`: the notice about a loopback address is
suppressed (`main.rs:299`) and a poller of an empty address spawned (`main.rs:342`), though
nothing can be polled. `UnreachableIsSaid` excepts it; the watchdog's notice covers it
(`DeafnessIsSaid`). A receiver that cannot bind ends the process with success and without a
retry (`server.rs:249-253`), although `main.rs:413` says "(blocks forever)". An SDK
loop that ends is logged only, and the plugin goes on unmanaged (`main.rs:246-250`); as
the loop is its one line to homeCore, no notice raised after that is shown, and
`DeafnessIsSaid` speaks of a plugin whose loop runs.
With `poll_interval_secs = 0` the poller panics unseen; what tells the operator is
the watchdog's notice, because the poller never satisfied it.

Of the rest: the retry after a login asks
`/get_ws_settings` only (`main.rs:1476-1479`), so a modern console that guards its
pages is not readable in the call that logged in, although `main.rs:1454-1458` says it
retries "either call"; the Wunderground station of a `set_custom_server`
(`main.rs:661-668`) is not sent to a console of the older dialect, whose
`usr_wu_id` gets the server (`main.rs:1619-1627`); the gateway device is registered
once per process while its id is computed every cycle, so an address that moves to
another console, or a MAC that differs between pages, publishes a state for a device
that was never registered (`gateway_device.rs:66-113`). Also: cell and
file disagree after two updates cross (`main.rs:1033-1045`), which `SurvivesQuietRestart`
excepts; the poller's probe replaces an address given meanwhile (`main.rs:1003-1018`); a
cached address is returned unprobed (`main.rs:931-936`) although the comment on
`resolve_gateway_ip` says "if the cached host doesn't answer /get_device_info we fall
through to a fresh resolution" (`main.rs:908-910`), and no property here claims that
order; with `gateway_ip = ""` the file is written but never read (`main.rs:140-149`). The
poller's branch for a configured address (`main.rs:1011-1014`) cannot be reached:
a configured address fills the cell at start-up and the cell is never emptied.

## 5. Proofs

`DeviceRegistryProofs` (for any sets of devices, attributes, tasks and batches):

* `TypeCorrect`. Inductive invariant `TaskInv /\ DataTypeOK`: the types, the place of
  a task within its batch, `batch` within `Batch` for whoever has one, and mutual
  exclusion (a task inside `process_updates` is the holder). Mutual exclusion is what
  makes it inductive: without it a second task could move while the first is between
  two loops.
* `RegisteredAtCoreHolds`, assuming `~OperatorDeletes`. `RegisteredAtCore` is not
  inductive: `Announce` inserts a device that an earlier step registered. The
  invariant `CoreInv` adds `AnnouncedAtCore`: the device of a task at `announce` is
  known to homeCore already.
* `EveryReadingDeclaredHolds`, assuming no operator deletions, schema calls that
  succeed, and drops only before their effect. An action property, from the
  invariant `SchemaInv`: the names remembered for a device are those of its retained
  schema (`CacheSound`), and the reading a task at `state` is about to publish is
  declared (`NextReadingDeclared`). The holder is unique, so nobody else changes the
  schema in between. The third assumption is necessary: a drop after the schema was
  sent leaves the memory older than the topic.

`DeviceFeedProofs`, on top of it:

* `ImplementsDeviceFeed`: `Spec => IsDeviceFeed`, the refinement, assuming no operator
  deletions, drops before their effect only, and registration and schema calls that
  succeed. The invariant `FeedInv` is `SchemaInv` and `CoreInv` with
  `BatchRegistered`: every device of a batch in its second loop, and those before
  a task's place in the first, is registered. A step of the registry is a step of
  the feed or invisible; which one is a lemma per action. A restart is invisible, as
  what it forgets is not in the feed.
* `BatchPrefixPublishedHolds`, assuming no operator deletions and state calls that
  succeed. `PrefixInv` needs `TaskInv` for mutual exclusion: nobody else publishes
  while a batch is under way. The lemma `PublishExtendsPrefix` is the step that adds one
  reading.

`SilenceWatchProofs` (for any periods with `LagAssumption`):

* `TypeCorrect`, `NeverBothHolds`, `NoticesAreCurrentHolds` and `OutageIsShownHolds`, all from
  `WatchInv`, which relates the age of the last report, the time since the last check,
  a pending verdict and the notices. `LagAssumption` (`CheckEvery + MaxLag <
  WarnAfter`) is needed for `NeverBoth`: a machine suspended longer than that lets a
  first report age out between two checks, and the next check raises the second
  notice beside the first.

`GatewayCacheProofs` (for any hosts, lengths, networks and tasks):

* `TypeCorrect`, from `CacheInv`, which adds what TypeOK leaves open: the file is
  nothing or one content, and whoever is about to remember or write holds an address.
* `MemoryIsAHostUnlessCrossedHolds` and `SurvivesQuietRestartHolds`, for any number of
  tasks, with failing writes, any configured address and crashes anywhere; what they
  except is in the properties. The invariant `FileInv` is about the times when nothing is
  spoiled: then one task at most is inside an update (`Uncrossed`), the file is empty
  between its truncation and its write, and outside an update a restart would read back
  what the cell holds (`FileIsMemory`). `TruncateFile` is where an update on its own makes
  up for earlier mishaps, which the proof has to follow: whatever was in the file is gone.

`StartupProofs` (for any number of attempts and set of configurations): `TypeCorrect`,
`AttemptsDoNotPileUpHolds` and `UnreachableIsSaidHolds`. The invariant says which tasks may
run, and which notices be shown, in which phase; before the SDK loop is started there
are none, which is why a failed attempt leaves nothing. `UnreachableIsSaidHolds` covers
every configuration; the empty `gateway_ip` is excepted in the property itself.

`ConsoleSettingsProofs` (for any settings, consoles, passwords and failures):

* `KeepsPromise`: `Spec => IsSettingsRequest`, the refinement. The invariant
  `StreamInv` says that the operator waits exactly while the action runs, and that at
  `report` the console holds what is wanted. The lemma it turns on is
  `WrittenReadsBack`: a page shows what was written, whichever protocol was selected
  before. The steps come in kinds (`NotTheStream`, `GoesOn`, `EndsBadly`,
  `SucceedsEndsInReport`), each a lemma, so that an action's proof is which kind it is.
* `ShownIsRegisteredHolds`, assuming all pages name one MAC. `ShownInv` adds that the
  id a refresh carries past the registration is a registered one, which is where the
  assumption is needed.
* `TypeCorrect`, including that no refresh passes the MAC lookup without an id.

`ReadingsProofs` (for every form and every livedata response, no run's bounds):

* `FormUpdates` and `LivedataUpdates` turn an update around: which family and channel,
  or which block or item, it was made by. `WellTyped` and `WellFormed` (types of
  attributes, shape of a battery) are proved of both parsers from them, one lemma per
  operator an update is made with.
* `PathsAgreeOnTypes`: the two parsers give an attribute they share one JSON type, the
  count of strikes and the clock excepted.
* `OneUpdatePerDevice`: the updates of a form are a set without an order, because no two
  are of one device. (Livedata may name a device twice; there the items have an order.)

`StationProofs` (for any sets of sensors with `StationAssumption`, any number of them,
readable or not). `StationInv` says that sensors stay paired, batteries read what they
can read, and what is shown came out of a parser:

* `TypeCorrect` and `OnlyCountAndClockChangeTypeHolds` follow from it with the lemmas of
  `ReadingsProofs`.
* `NoPhantomDeviceHolds` and `VerdictIsRealHolds`. `PostUpdates` and `PollUpdates` say
  what one message may say of a station; they rest on the lemmas that compare the
  parsers' tables with the catalogue (`FieldMeansDevice`, `BatteryMeansDevice`,
  `SectionMeansDevice`, `TaxonomyIsTheTable`, `SectionIsTheTable`), where a slip in a key,
  a channel range or a kind would show. Neither theorem has an assumption; what the code
  gets wrong is in `Misread`, and `LevelOfBinary` is the lemma for PM2.5 sensors taken for a
  level.
* `VerdictIsShownAtOnceHolds`, the converse, with the exceptions the property states. For
  a POST (`PostIsUpToDate`) the family's battery keys are tried in order, and the first that
  is readable can only be the sensor's own (`OwnBattery`); that there is a family that tries
  it is `UnnumberedFamily`, which fails for the WH85. For livedata (`PollIsUpToDate`) every
  item of the device is the sensor's, wherever in the response it is (`NumberedSection`,
  `ResponseHasEach`, a pigeonhole argument).

Only model-checked: liveness (`BatchAnswered`, `EveryDeviceRegistered`,
`ResolutionEnds`, `ActionEnds`, `SettingsGetShown`, `StartsOrGivesUp`, `DeafnessIsSaid`), which is out of the prover's reach. Every other
property a passing run checks is a theorem; those of the violation runs are false. `DeviceFeed` and `SettingsRequest` are
abstract specifications and have no theorems of their own.

## 6. Plan

All parts planned are done: the path of readings and the caches around it
(`DeviceRegistry`, `DeviceFeed`, `SilenceWatch`, `GatewayCache`), the console's settings
(`ConsoleSettings`, `SettingsRequest`), parsers and battery (`Readings`, `Station`),
start-up (`Startup`), and the theorems of section 5. What would come next:

1. Several consoles: an address that moves while the gateway device is registered.
2. The frames of the UDP discovery protocol, which need the bytes `GatewayCache` abstracts.

## 7. Not modelled

The texts of notices, logs and messages; units, labels and state names of the schema
(`schema.rs:36-86`); the bytes of the discovery protocol; the editor's schema and
descriptor (`config.rs`); the manifest; what read-only actions return. They hold no
state and no property here tells them apart. `cleanup_stale` and `load_cache`
(`registry.rs:111-134`) are never called.

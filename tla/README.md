# swkit: a verification project

swkit is a home automation daemon: it polls inputs and outputs through drivers,
lets wall switches and buttons control lights and outlets, runs thermostats, and
shows everything in HomeKit. The modules here are TLA+ models of its code, with
TLC configurations that check them on small instances and proofs, checked by
TLAPS, of what holds for every instance. `PROJECT.json` maps every definition to
the lines it models and lists the hazards of the code with the properties that
cover them.

## The system

| Part | State | Operations | Module |
|---|---|---|---|
| IOs and ticker (`light.go`, `outlet.go`, `switch.go`, `button.go`, `motion_sensor.go`, `swkit.go`) | `State`, `IsFaulty`, HomeKit characteristics, `switchSlice`, `toggleMap` | `Init`, `Sync`, `SetValue`, `Toggle`, `Set`, `FireEvent`, `StartTicker` | `IoLoop` |
| Thermostat (`thermostat.go`, `temperature_sensor.go`) | targets, `CurrentTemperature`, two outputs, the sensor's `value` and `lastSync`, `lock` | `Sync`, `updateTargetState`, `updateTargetTemperature`, `GetValue`, `SetValue` | `Thermostat` |
| Grenton driver (`drivers/grentonio_driver.go`) | the cache (`state`, `refreshedAt`) of every output, `gateLock` | `Setup`, `GetState`, `Set`, `updateState`, `setState` | `Grenton`, implements `Output` |
| Shelly driver (`drivers/shelly_driver.go`, `drivers/shelly/`) | `Devices`, `Outputs`, `unhealthyCount`; per device `setError`, `lastRefreshed`, `Switches`, the connection | `Setup`, `discoverDevices`, `startHealthCheck`, `ListenForNotifications`, `Set`, `GetState`, `Close` | `Shelly`, implements `Output`; `Close` in `Lifecycle` |
| Direct drivers (gpio, mcp23017, mock) | pins | `GetState`, `Set`, the push detector, `Setup`, `Close` | the pins of `IoLoop`, `PushInput`, `Lifecycle` |
| Remote IO slave (`drivers/remoteio_slave.go`) | listeners, the HTTP server | `handlePush`, `Setup`, `Close` | `IoLoop`, `Lifecycle` |
| Startup and shutdown (`swkit.go`, `cmd/app/main.go`) | the driver maps, the result of the matching | `InitDrivers`, `InitIos`, `InitSensors`, `MatchControllers`, `MatchSensors`, the start of the tickers, `Close` | `Lifecycle` |
| Sensor drivers (1-wire, InfluxDB) and the sensor ticker | the sensors, `value`, `lastSync` | `Setup`, `Sync`, `SetValue`, `GetValue` | `Sensors`; `Setup` in `Lifecycle` |
| Shutter (`shutter.go`, `window_covering.go`) | - | - | not modelled: nothing creates one |
| Remote IO driver (`drivers/remoteio_driver.go`) | - | - | not modelled: it no longer implements `IoDriver` and nothing creates one |

How the parts interact. Three kinds of goroutines call into the IOs: the ticker
(`Sync` of every IO, in the order of `getIos`, forever), HomeKit connections (the
functions given to `OnValueRemoteUpdate`) and push goroutines (the polling
goroutine of an `McpInput`, an HTTP handler of the remote IO slave). The lock of
a light or an outlet is held by its `Sync` only, and `Sync` is only called by the
ticker, so that it excludes nobody; a switch has none. The thermostat's `Sync`
is called by two kinds of goroutines and its lock does exclude them, but the
targets are written before it is taken. Drivers are called from all of these
goroutines; the two that talk to a network keep caches.

What is hard: the unlocked accesses, errors of drivers that callers drop or that
end a `Sync` half way, caches that are stale when used, requests that time out
and take effect later, notifications that race with replies, and the recovery of
a lost device.

## The modules

### `IoLoop`

One action per access to memory that another goroutine uses. A `Sync` of the
ticker is `BeginSync` (keep the old `State`), `GetState` (the driver, which may
fail), `Assign` (`State`, the fault, the early return), `ReadHk` (what a light
shows), `Compare` (`State` with that, or with the old `State`), `Show` (`State` as
the argument of the characteristic's `SetValue`) and `Publish` (the
characteristic). `StatusFault`, which only the ticker writes, goes with `Assign`.
`SetValue` and `Toggle` are `Read` (the argument), `Store`
(`State = state`), `Load` (`State` is read again for `output.Set`) and
`SetOutput`, whoever calls them: the ticker in the `Sync` of a switch, HomeKit,
or a button. `todo` is the list of devices a caller has yet to go through. The
wiring that `MatchControllers` builds is a pair of constants.
The pins are those of a driver without a cache (gpio, mcp23017, mock).

Between `Show` and `Publish` a HomeKit write, with its `Store` and its
`SetOutput`, may run from start to end. The ticker then writes a stale value to
HomeKit over a light that is settled otherwise: `Settled` therefore asks that what
the ticker is about to publish is what is so. A light is repaired by its next
`Sync`, which compares with what HomeKit shows; an outlet or a switch shows the
stale value until its next change, as `outlet.go:100` and `switch.go:100` compare
with the old `State`.

`Button.State` and the value a button has in HomeKit are left out: nothing reads
them.

### `Thermostat`

`Sync` is `Acquire`, `ReadSensor`, `SwitchMode` (the one read of `TargetState`
the outputs depend on), `Decide` (the conditions, whose reading back of an output
may fail and then counts as off), `SetHeat`, `SetCool`, and the four writes to
HomeKit, `Publish`, `ShowTarget`, `ShowRunning` and `ShowState`: `TargetTemperature`
and `TargetState` are read a step before they are shown (`shown`), and may have
changed since. A HomeKit write is the change of the characteristic, the unlocked store, and a `Sync`.
Temperatures are integers: the code only adds and compares them. A reading and
its time stamp are one step, as the code that reads them takes the value last.

### `Grenton`

Time is discrete, in ticks of any length. Code between two requests takes no
time: `Tick` waits until every goroutine is idle, inside a request or waiting for
the lock, and until the ticker has polled every output once. A request lasts at
most `CallTime`. The gate may answer for a part of the outputs, send an id that
does not parse, refuse, fail, or obey a command after its client has given up.
`asked`, `changed`, `overtaken`, `omitted` and `acked` are history variables of
the properties.

### `Shelly`

A device has up to three objects: `io`, which the copy made by `GetOutput` keeps
for good; `map`, the latest in `Devices`; `new`, which `DiscoverShelly` is
making. Each has a connection with a queue of messages, a reader goroutine that
ends at its first error, `setError` and the age of `lastRefreshed`.

`Set` returns when its request is written (`EndSet`): `requests` holds what is under
way on the connection, which the device obeys one by one (`Obey`), at any time
later, or never when the connection breaks (`Break`). Nothing keeps two goroutines
from writing to a connection at a time. The library gorilla/websocket is for one
writer: the requests of two may both arrive, either may be garbled (lost), or the
library notices and panics (`Panic`), which it does as far as it can. A panic in a
handler of HomeKit's server (`Handlers`) is recovered by `net/http`; in any other
goroutine it ends the program (`crashed`). So does the removal of addresses in
`discoverDevices`, which runs past the end of the slice when two are left and a
device is healthy.

A device reports its status of its own accord, when what it has sent before is
read. It may do so while a discovery awaits its answer, and spoil it
(`GiveUp`); those reports are bounded, with the messages that cannot be read, by
`MaxBadMessages`: a device that spoils every discovery would never be found.

### `Output`

What a driver promises of its outputs, in terms of the lights alone: a light is
switched by hand (`ByHand`) or by the `Set` of a caller who asked for just that
(`Obey`), once; a `Set` may be lost (`Drop`); one that has returned, with an error or
without, may take effect later (`TimeOut`, `ObeyLate`) or not at all (`Lose`). `late`
counts how often each command is on its way like that, so that two `Set`s of a kind
work twice at most. It does not promise that a `Set` takes effect:
`MCGrentonSet` shows that Grenton does not. The refinement mappings are at the end
of `Grenton` and of `Shelly`:

| `Output` | `Grenton` | `Shelly` |
|---|---|---|
| `light` | `gate`, the lights at the gate | `relay` |
| `hands` | the foreign changes made | the relays pressed |
| `open` | the calls of `Set` under way | what a caller is writing |
| `late` | how many of each command its client has given up | how many of each are in `requests` |

### `Lifecycle`

`main` is a program counter: `phase` is the loop it is in, `at` the IO, `ctl` the
controller of a device. The loops come in the order of `Order`; Go maps are left
in any order. `Panic` stands for every error main panics on, with the deferred
`Close`; `Stop` for `log.Fatal`, which runs no deferred call. Goroutines of buttons
start with `SubscribeToPushEvent` in the middle of `InitIo` and run beside main:
`Push`, `ShowEvent`, `LookUp`, `Toggle`. The map of a button is written in two steps
(`MatchController`, `MapWritten`), so that a reader may meet the writer, which Go
answers by ending the program. `Dies` is a nil dereference: the HTTP server
recovers it, the goroutine of an `McpInput` takes the program with it.
`MatchController` looks a controller up as the code does, with the `driverName` of
the controller before it when it has none; `WiredAsConfigured` compares the result
with `Naming`, the controllers of the configuration that name the input, which
knows nothing of the loop.

### `Sensors`

A temperature is its age, in periods of the sensor ticker: what matters of a
reading is when it was taken, when it was stamped (`lastSync`), and how long
HomeKit shows it. `SetValue` is two steps and `GetValue` three, without a lock. In a
round of the ticker the drivers come first, then, sensor by sensor, the two writes
of `TemperatureSensor.Sync`: `ShowFault` and, without an error, `ShowValue`. Between
them a sensor that has come back shows a temperature of any age without a fault
(`temperature_sensor.go:77`); `ShownIsRecent` excepts it (`showing`), as nothing can be
said of it then. The
1-wire driver goes through its sensors in the random order of a map and stops at
the first that fails; a query to the database takes up to `QueryTime`, fails, or
returns records of the last `Range`. The ticker may tick while its first query
runs, which the code excludes (it makes that `Sync` before it has a ticker): the
model has more behaviours than the code there, and the properties hold in all.
`Thermostat` has the simpler sensor that its properties need, whose value is there
or has expired.

### `PushInput`

The goroutine that `McpInput` starts for a listener: `Sample`, a sleep of
`Confirm`, `SampleAgain`, `FireEvent`, a sleep of `Dead`. A failed read counts as
open, as the code drops the error. Every wait may end up to `Late` too late, and
`FireEvent`, which sets outputs, may take up to `FireTime`: the code bounds neither,
and the properties are relative to these two constants.

## The runs

| Run | Bounds | Shows |
|---|---|---|
| `MCIoLoop` | one IO of each kind, 3 goroutines, 2 commands, 1 error | `TypeOK`, `NoPhantomOn`, `SettledStays` |
| `MCIoLoopConverge` | a light with 2 switches and a button, 2 commands, 1 error, fair | `PollsConverge`, `SwitchesRule` |
| `MCThermostat` | cooling, ticker and 2 connections, 2 requests, 2 readings, 1 error | `ModeObeyed`, `Interlock`, `CoolingNeverStarts`, `NoChatter` |
| `MCThermostatHeat` | heating only, 1 connection, fair | `TypeOK`, `HeatingFollowsDemand`, `HkShowsTargets` |
| `MCGrenton` | 2 outputs, ticker and user, 1 command, 1 fault, 1 foreign change, fair | `TypeOK`, `CacheTruth`, `BoundedStaleness`, `CallsAdvance`, `ImplementsOutput`, `CallsReturn`, `CacheConverges` |
| `MCShelly` | 1 device, 2 callers (one of them HomeKit), 2 commands, 1 press, 1 break, 1 bad message, fair | `TypeOK`, `StatusTracksRelay`, `ImplementsOutput`, `DriverRecovers` |
| `MCLifecycle` | 2 devices, a switch, 2 buttons, a thermostat, 6 configuration files, 3 presses, fair | `TypeOK`, `PressesFindOutputs`, `WiredAsConfigured`, `StartedWhole`, `FailedStartTurnsOff`, `RunningNeverCrashes`, `StartProgresses`, `StartEnds` |
| `MCSensors` | 2 1-wire sensors, one of the database, one reader, 1 change, fair | `TypeOK`, `FreshData`, `ShownIsRecent`, `WorkingAreRead`, `DeadShowFault` |
| `MCPushInput` | the intervals of the code in units of 15 ms | `TypeOK`, `PressIsSeen`, `EventsSpaced`, `NoGhostPress` |

Three more runs expect a violation, one disagreement each:

| Run | The code |
|---|---|
| `MCThermostatOff` | turned off when its temperature gets too old, a thermostat goes on heating: no `Sync` gets to the outputs (`thermostat.go:166`) |
| `MCGrentonSet` | the second of two quick commands is dropped (`grentonio_driver.go:55`) |
| `MCShellyOutputs` | an IO never gets the object of a rediscovery (`shelly_driver.go:288`) |

What else the modules show of the code, as steps of the model and not as runs: a
light with `DisableHomekit` is a nil dereference at its first good `Sync`
(`light.go:99`, `ReadHkCrashes`); an outlet toggled by a button is never shown in
HomeKit, as `outlet.go:100` compares with the previous `State` (`Compare`); a light
whose two switches stand differently flips on every tick (`switch.go:104-107`); with a
positive threshold a hot room is never cooled, as `thermostat.go:142` compares the temperature with itself
(`CoolingNeverStarts`), and in auto mode, which turns the heating off only to cool, a
heating that is on stays on however warm it gets, unless cooling was on already
(`OrdersFor`); a press while `InitIos` has not come to the button's service, or while
`MatchControllers` writes its map, ends the program (`Dies`, `LookUp`); `log.Fatal`
ends it without the deferred `Close`, and leaves the outputs as they are (`Stop`).

Why the bounds are enough. The races of `IoLoop` are between two calls on one
device and the ticker: `MCIoLoop`, with one IO of each kind, has every pair of them
and an error as the third party, and its properties are proved for any number.
The two properties of `MCIoLoopConverge` are not. Its light has two switches, the
least with which they can disagree: two commands open or close one each, or one of
them races with HomeKit or the button. With a single switch, no device is ever
disputed. Outlets and motion sensors are not in this run; a `Sync` of theirs does
less than one of a light. In `Thermostat` two connections and the ticker are
three contenders for the lock, and with two requests one can overwrite the target
the other's `Sync` is using; with the thresholds at 1, the readings 0 and 4 lie
below, inside and above the bands of the targets 2 and 4. Negative thresholds,
which the configuration may have, are left to the proofs. In `Grenton` a
freshness of two ticks and calls of one keep the proportion of 20 s to 4.5 s, and
two outputs are needed for an answer that leaves one out; with one command no older
one arrives after a newer one, which `Output` allows and `OutputImplemented` proves of
any number. In `Shelly` the interesting races are within one device, and two commands are two writers at a time
or two requests on one connection. The crash of a rediscovery needs two devices,
which no run has: the theorems, of any number of devices, are of runs that end in
it too. The limit of the health count is 1 instead of 5, which only delays the
discovery. The six files of `MCLifecycle` are
one with everything that works, and one each with a Shelly, an input its driver
refuses or has no events for, a controller and a sensor that are missing, and pins
that need more than 8 bits; three presses are one for each button and one that
comes after another. In `MCSensors` a temperature is old after one tick instead of
`oldDataDuration`, which shortens the way there and keeps the order of the bounds;
one sensor dies and one is left to suffer from it. `MCPushInput` has the intervals
of the code; its clocks stop one above the largest value a property compares them
with. Every bound is a constant named
`Max...`, and once commands, faults and changes are used up the system goes on
without them, which is what the liveness properties need.

Deadlock is checked but for `Grenton`, `Shelly` and `Lifecycle`, where the program
ends when Setup fails, when it crashes, or as it should.

## Fairness

Weak fairness of every goroutine: the Go scheduler runs what is runnable, and the
ticker never ends. Strong fairness of taking the thermostat's lock: a `sync.Mutex`
is handed to the longest waiter once it has waited for a millisecond. In `Grenton`,
time passes, and a request ends because its client has a timeout; no fairness of
the lock is needed. In `Shelly`, connected devices answer `Shelly.GetStatus` and time
passes; devices need not obey a `Set`, report, break or come back, and the properties
speak of runs in which they stay up. In `Lifecycle` every call of main returns, but
for the `Close` of a Shelly, and the goroutines of presses run. In `Sensors` the
ticker runs and queries end (the client has a timeout); time passes whatever the
readers do, which is strong fairness of `Tick`, as a reader inside `GetValue`
disables it for that moment; and strong fairness of reading each file says that
the random order of a Go map does not put a sensor behind a dead one for ever.
`PushInput` has no liveness: its properties bound the time. HomeKit, buttons and
inputs are never assumed to do anything.

## The proofs

Every theorem is about the specification of its module, for every value of the
constants that meets the assumptions named in it: every set of IOs, outputs,
goroutines, sensors, readings, configuration files, every interval, freshness and
duration.

- `TypeCorrect`, for each of the seven components: `Spec => []TypeOK`. In the thermostat it needs the
  strengthening `TypeInv`: what a callback holds as its argument, that only the
  ticker starts a `Sync` from idle, that whoever is inside `Sync` holds the lock,
  that an output that does not exist stays off, and the form of the orders.
- `NoPhantomOnHolds`: a value on its way is a value somebody asked for. The
  inductive invariant `PhantomInv` says so of the values in fields and pins
  (`ValuesAsked`), of the reading the ticker has not assigned yet
  (`ReadingAsked`), of the argument a call holds between two accesses
  (`HandsAsked`) and of the devices it will still go through (`CallsAsked`).
  `NoPhantomOn` alone is not inductive: it does not mention what a goroutine
  holds.
- `SettledStaysHolds`, an action property: in a settled state every field agrees with
  its pin, lights and motion sensors show it in HomeKit, the devices of a switch are as the switch is,
  and the ticker, which may be in the middle of a `Sync`, carries a value that is
  there already: what it has read, is about to publish, or is about to set. Each of
  its steps then writes what it finds. `CallsAsked`, from the
  invariant above, says that what it is setting belongs to the switch it is syncing.
- `ModeObeyedHolds` and `InterlockHolds`, from `SafetyInv`: the orders obey the
  mode read under the lock (`PlanObeys`), the outputs obey the orders already
  carried out (`OutputsObey`), the mode is the present `TargetState` unless a
  callback that changed it waits for its own `Sync` (`ModeCurrent`), and what
  held when the last good `Sync` ended holds since (`LastObeyed`, `NeverBothOn`).
- `CoolingNeverStartsHolds`, an action property: with a positive threshold, which
  the property and `Interlock` ask for, the cooling condition is false when cooling is
  off. With a negative one cooling may start, and auto may leave both on.
- `NoChatterHolds`, an action property: at a temperature that asks for no change
  (`HeatingSettled`) the condition, with its two bounds, gives what the heating is
  (`DemandIsMet`); `LockHeld` says that no other `Sync` changes what one has read.
- `CacheTruthHolds` of `Grenton`: its `TypeInv` adds that whoever makes a request
  holds `gateLock` (`LockHeld`). `CacheTruth` is not inductive, as storing an answer
  overwrites the cache; `AnswerTruth` says of the answer under way that it tells the
  truth about every light others have left alone, and `LockHeld` that no command of
  this program comes between the answer and its storage.
- `BoundedStalenessHolds` of `Grenton`, an action property, from `AgeInv`: what is
  fresh was asked for at most one call before it was stored (`FreshWasAsked`), and
  after a refresh an output is fresh or was left out of the last answer (`GotFresh`).
- `CallsAdvanceHolds` of `Grenton`, an action property: a rank of the labels falls with
  each step of a call, after an error too, and whoever holds the lock makes a request
  (`LockUsed`, the converse of `LockHeld`), so that nobody waits for one who waits.
- `OutputImplemented` of `Grenton` and of `Shelly`: `Spec => Promise!Spec`. Each step
  maps to a step of `Output` or leaves its variables alone; the invariants say which
  call a goroutine is in (`IdleAsksNothing` of `Grenton`) and that commands are well formed.
  The end of a `Set` of `Shelly` is `TimeOut`, or `Drop` when the request is lost; `Obey`
  is `ObeyLate`. `CountAppend` and `CountTail` say how the counts of a connection's
  requests change when one is written and when one is obeyed.
- `StatusTracksRelayHolds` of `Shelly`, from `TrackInv`, a statement about every
  object by itself (`Tracks`): one that is connected and read has the present output
  as the last message of its queue, or as its status when the queue is empty. The
  object that discovery is making has to be included, as its answer may come behind
  a notification or before one; that it is in the state `"await"` is part of it.
- `PressesFindOutputsHolds`, `StartedWholeHolds`, `FailedStartTurnsOffHolds` and
  `RunningNeverCrashesHolds` of `Lifecycle`. The invariant follows the loops of
  main: IOs before the present one are initialised, and nothing is wired before all
  are nor once a driver is closed (`InitInv`); a button that is initialised has its
  service or shows no events (`ServiceInv`); a map is being written only in the loop
  of `MatchControllers` (`MapInv`); drivers are waiting or ready (`DriversInv`);
  thermostats that have been passed have their sensor (`SensorInv`); what was closed
  is off (`CloseInv`).
- `WiredAsConfiguredHolds`, in `StartProofs`. The inductive invariant `WiringInv` counts
  while the loop runs: a device is in the list of an input as often as the
  controllers that main has passed (`Passed`) name that input (`SliceInv`, `ToggleInv`);
  the driver name a controller is looked up with is the device's or one that a
  controller before it named (`NameInv`); and a map is being written for the
  controller main is at (`MappedInv`). A list grows by one entry when the set of
  controllers passed does (`TimesAppend`, `CountOneMore`): the counts are cardinalities
  of sets of positions, and no induction over the lists is needed.
- `StartProgressesHolds`, in `StartProofs`: a triple of natural numbers (the loops, the
  rounds of a loop and the steps of a round that main has before it) gets smaller in
  the lexicographic order with each step of main, a failing one included, and no
  goroutine of a button changes it.
- `FreshDataHolds` and `ShownIsRecentHolds` of `Sensors`: a temperature is older than
  its stamp by at most `Slack` (`StampInv`), which needs that `SetValue` writes the
  value before the stamp, and what HomeKit shows is older than when it was shown by
  at most `LagOf`, the time since that round of the ticker; a sensor between the two
  writes of its `Sync` is left out (`ShownInv`).
- `PressesAreSeen`, `Spaced` and `NoGhosts` of `PushInput`: each place of the
  goroutine has a bound on how long the contact can have been closed unseen
  (`UnseenInv`), a bound on the time since the last event (`SpacedInv`), and what the
  contact has done since the first sample (`ConfirmInv`).

Assumptions: the goroutines and kinds of IOs are disjoint; the wiring names
existing devices; thresholds are not 0 (`Init` replaces 0 by a default; negative ones
are not excluded by the code, nor here); the configured mode is one the thermostat allows; a Grenton gate has an
output (`Setup` fails without); the devices of a Shelly driver are finite in number;
the getIos order lists every IO once; a series and a 1-wire sensor are different
things; intervals are positive.

Only model-checked: the liveness properties, as the provers do not do fairness. Of
five of them the part that needs none is proved: what is repaired stays so
(`SettledStays` for `PollsConverge` and `SwitchesRule`), what meets the demand is left
alone (`NoChatter` for `HeatingFollowsDemand`), and every step is one towards the end
(`CallsAdvance` for `CallsReturn`, `StartProgresses` for `StartEnds`). Every safety property
and action property of a passing run, and both refinements, are proved.

## Not modelled

- Wording and logging, the HomeKit protocol and its storage, parsing of the
  configuration and of Flux, pin inversion but where a property can see it, service
  installation, the mock program.
- `Shutter` and the window covering: `SwKit` has no field for one and nothing creates
  one, so that the program is never in a state with a shutter.
- The remote IO driver: its pins are of another type than `IoDriver` asks for, its
  `Set` does nothing, and nothing creates one.
- In `Lifecycle`, motion sensors (initialised like switches, they control nothing) and
  the writes over I2C that can fail in `Close`. In `Shelly`, inputs, which the code
  does not implement, and the ids of requests.

## What is left

The composition of `PushInput` with the toggles of `IoLoop`, and of `Sensors` with
`Thermostat`, where so far the one has what the other promises as an action of its
environment; a larger `MCShelly` with two devices; a measure for the
recovery of the Shelly driver, as there is for the start and for the calls of Grenton.

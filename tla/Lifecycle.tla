----------------------------- MODULE Lifecycle ------------------------------
(***************************************************************************)
(* From the start of swkit to its end: main sets the drivers up, in the    *)
(* random order of a Go map, initialises the IOs, wires lights and outlets *)
(* to the switches and buttons that control them and thermostats to their  *)
(* sensors, and starts the tickers.  A step that fails is a panic, and the *)
(* deferred Close closes the drivers that were set up.  Meanwhile the      *)
(* goroutines of push events run from the moment a button subscribes.      *)
(*                                                                         *)
(* A driver is its name.  Motion sensors, which are initialised like       *)
(* switches and control nothing, are left out.                             *)
(***************************************************************************)
EXTENDS Integers, FiniteSets, SequencesExt

CONSTANTS
    Devices,        \* lights and outlets, the Controllables
    Switches, Buttons, Thermostats,
    IoOrder,        \* getIos
    Configs,        \* the configuration files swkit may be started with
    NoDriver,       \* an empty DriverName of a controller
    Nobody,         \* no sensor, no button
    MaxPresses      \* bound: push events of a run

Inputs == Switches \cup Buttons
Ios == Devices \cup Inputs \cup Thermostats
PushEvents == 0..2
IoDriverNames == {"gpio", "mcpio", "grenton", "mock_driver", "remoteio_slave", "shelly"}
SensorDriverNames == {"wire", "influx_sensors"}

ASSUME KindsAssumption ==
    /\ Devices \cap (Inputs \cup Thermostats) = {}
    /\ Inputs \cap Thermostats = {} /\ Switches \cap Buttons = {}
    /\ Nobody \notin Ios /\ NoDriver \notin IoDriverNames

ASSUME OrderAssumption ==
    /\ IoOrder \in Seq(Ios) /\ ToSet(IoOrder) = Ios
    /\ \A i, j \in DOMAIN IoOrder : IoOrder[i] = IoOrder[j] => i = j

ControllerTypes ==
    [pin : Nat, driver : IoDriverNames \cup {NoDriver}, event : PushEvents]

\* sensors has the ids of the sensors of every sensor driver in use.
ASSUME ConfigsAssumption ==
    \A c \in Configs :
        /\ c.driverOf \in [Ios -> IoDriverNames]
        /\ c.inPin \in [Inputs -> Nat]
        /\ c.silent \subseteq Buttons           \* with DisableHomekit
        /\ c.controllers \in [Devices -> Seq(ControllerTypes)]
        /\ DOMAIN c.sensors \subseteq SensorDriverNames
        /\ c.sensorId \in [Thermostats -> STRING]

ASSUME BoundsAssumption == MaxPresses \in Nat

VARIABLES
    config,         \* the configuration read by main
    phase,          \* the loop main is in
    waiting,        \* the drivers of this loop that are still nil in their map
    ready,          \* the drivers that were set up
    at, ctl,        \* main's place in the loop, and among a device's controllers
    driverName,     \* the variable of that name in MatchControllers
    inited,         \* the IOs whose Init has returned
    listening,      \* the buttons that have subscribed to push events
    serviced,       \* the buttons with their HomeKit service, bu.ss
    toggleMap, switchSlice,
    mapped,         \* the button whose toggleMap is being written
    sensor,         \* the temperatureSensor of every thermostat
    unmatched,      \* "controllers", "sensors": what main has reported as failed
    level,          \* the outputs of the devices
    closed,         \* the drivers that were closed
    pc, event,      \* what the push goroutine of a button does, about which event
    left,           \* the devices it has still to toggle
    presses

loop == <<waiting, at, ctl, driverName>>
wiring == <<toggleMap, switchSlice, mapped>>
pushes == <<pc, event, left, presses>>
vars == <<config, phase, loop, ready, inited, listening, serviced, wiring, sensor,
          unmatched, level, closed, pushes>>

Phases == {"ioDrivers", "sensorDrivers", "ios", "sensors", "controllers", "thermostats",
           "running", "closing", "hung", "exited", "crashed"}

TypeOK ==
    /\ config \in Configs
    /\ phase \in Phases
    /\ waiting \cup ready \cup closed \subseteq IoDriverNames \cup SensorDriverNames
    /\ at \in 1..Len(IoOrder) + 1 /\ ctl \in Nat
    /\ driverName \in IoDriverNames \cup {NoDriver}
    /\ inited \subseteq Ios /\ listening \subseteq Buttons /\ serviced \subseteq Buttons
    /\ toggleMap \in [Buttons -> [PushEvents -> Seq(Devices)]]
    /\ switchSlice \in [Switches -> Seq(Devices)]
    /\ mapped \in Buttons \cup {Nobody}
    /\ sensor \in [Thermostats -> SensorDriverNames \cup {Nobody}]
    /\ unmatched \subseteq {"controllers", "sensors"}
    /\ level \in [Devices -> BOOLEAN]
    /\ pc \in [Buttons -> {"idle", "event", "lookup", "toggle"}]
    /\ event \in [Buttons -> PushEvents] /\ left \in [Buttons -> Seq(Devices)]
    /\ presses \in 0..MaxPresses

-----------------------------------------------------------------------------

UsedDrivers == {config.driverOf[i] : i \in Ios}

Init ==
    /\ config \in Configs
    /\ phase = "ioDrivers" /\ waiting = UsedDrivers /\ ready = {} /\ closed = {}
    /\ at = 1 /\ ctl = 1 /\ driverName = NoDriver
    /\ inited = {} /\ listening = {} /\ serviced = {}
    /\ toggleMap = [b \in Buttons |-> [e \in PushEvents |-> <<>>]]
    /\ switchSlice = [s \in Switches |-> <<>>]
    /\ mapped = Nobody
    /\ sensor = [t \in Thermostats |-> Nobody] /\ unmatched = {}
    /\ level \in [Devices -> BOOLEAN]
    /\ pc = [b \in Buttons |-> "idle"] /\ event = [b \in Buttons |-> 0]
    /\ left = [b \in Buttons |-> <<>>]
    /\ presses = 0

\* A faulty main that wires the devices before it initialises the sensors.
HastyOrder ==
    [ioDrivers |-> "sensorDrivers", sensorDrivers |-> "ios", ios |-> "controllers",
     controllers |-> "sensors", sensors |-> "thermostats", thermostats |-> "running"]

\* What main does one after the other.
Order ==
    [ioDrivers |-> "sensorDrivers", sensorDrivers |-> "ios", ios |-> "sensors",
     sensors |-> "controllers", controllers |-> "thermostats", thermostats |-> "running"]

NextLoop(p) ==
    /\ phase' = Order[p]
    /\ at' = 1 /\ ctl' = 1 /\ driverName' = NoDriver
    /\ waiting' = IF Order[p] = "sensorDrivers" THEN DOMAIN config.sensors ELSE {}

\* panic(err), with Close deferred.
Panic == phase' = "closing" /\ UNCHANGED loop

\* The next round of a loop over the IOs, or over those of a kind.
NextRound ==
    /\ at' = at + 1 /\ ctl' = 1 /\ driverName' = NoDriver
    /\ UNCHANGED <<phase, waiting>>

Item == IoOrder[at]

-----------------------------------------------------------------------------
(* InitDrivers, InitIos and InitSensors.                                   *)

\* The inputs a driver takes: none, pins of 8 bits, or any, cut to 8 bits by the
\* remote-io server.
Accepts(d) ==
    \A i \in {j \in Inputs : config.driverOf[j] = d} :
        /\ d # "grenton"
        /\ d \in {"gpio", "mcpio"} => config.inPin[i] =< 255

\* Setup of a driver that is configured and finds its devices.  An error leaves
\* the driver nil in the map.
SetUp(d) ==
    /\ phase \in {"ioDrivers", "sensorDrivers"} /\ d \in waiting
    /\ \/ /\ Accepts(d)
          /\ ready' = ready \cup {d} /\ waiting' = waiting \ {d}
          /\ UNCHANGED <<phase, at, ctl, driverName>>
       \/ Panic /\ UNCHANGED ready
    /\ UNCHANGED <<config, inited, listening, serviced, wiring, sensor, unmatched, level,
                   closed, pushes>>

AllSetUp ==
    /\ phase \in {"ioDrivers", "sensorDrivers"} /\ waiting = {}
    /\ NextLoop(phase)
    /\ UNCHANGED <<config, ready, inited, listening, serviced, wiring, sensor, unmatched,
                   level, closed, pushes>>

\* The end of a loop over IoOrder.
LoopEnds ==
    /\ phase \in {"ios", "controllers", "thermostats"} /\ at > Len(IoOrder)
    /\ NextLoop(phase)
    /\ UNCHANGED <<config, ready, inited, listening, serviced, wiring, sensor, unmatched,
                   level, closed, pushes>>

\* The drivers whose inputs, and whose push events, are implemented; and those
\* with a configured list of outputs that may lack one.
HasInputs == {"gpio", "mcpio", "mock_driver", "remoteio_slave"}
HasEvents == {"mcpio", "remoteio_slave"}
HasOwnOutputs == {"shelly"}

\* A faulty InitIos that goes on with the next IO.
SkipIo == NextRound

\* A faulty main that begins again when an IO fails.
StartAgain ==
    /\ phase' = "ioDrivers" /\ waiting' = UsedDrivers
    /\ at' = 1 /\ ctl' = 1 /\ driverName' = NoDriver

\* InitIos returns the error.
InitIoFailed == Panic

InitIo ==
    /\ phase = "ios" /\ at =< Len(IoOrder)
    /\ LET i == Item
           d == config.driverOf[i]
       IN \/ /\ i \notin Buttons
             /\ i \in Switches => d \in HasInputs
             /\ inited' = inited \cup {i}
             /\ NextRound /\ UNCHANGED <<listening, serviced>>
          \/ /\ i \in Buttons /\ i \notin listening /\ d \in HasEvents
             /\ listening' = listening \cup {i}
             /\ UNCHANGED <<phase, loop, inited, serviced>>
          \/ /\ i \in listening                     \* then the service is made
             /\ serviced' = serviced \cup ({i} \ config.silent)
             /\ inited' = inited \cup {i}
             /\ NextRound /\ UNCHANGED listening
          \/ /\ \/ i \in Switches /\ d \notin HasInputs
                \/ i \in Buttons /\ d \notin HasEvents
                \/ i \notin Inputs /\ d \in HasOwnOutputs
             /\ InitIoFailed /\ UNCHANGED <<inited, listening, serviced>>
    /\ UNCHANGED <<config, ready, wiring, sensor, unmatched, level, closed, pushes>>

\* A sensor's Init refuses a short name.
InitSensors ==
    /\ phase = "sensors"
    /\ \/ NextLoop("sensors")
       \/ DOMAIN config.sensors # {} /\ Panic
    /\ UNCHANGED <<config, ready, inited, listening, serviced, wiring, sensor, unmatched,
                   level, closed, pushes>>

-----------------------------------------------------------------------------
(* MatchControllers and MatchSensors.                                      *)

Place(i) == CHOOSE n \in DOMAIN IoOrder : IoOrder[n] = i

\* Faulty ones that only compare the pins, or search all inputs.
FoundByPin(S, pin, driver) ==
    {i \in S : config.inPin[i] = pin /\ \A j \in S : config.inPin[j] = pin => Place(i) =< Place(j)}

FoundAnywhere(S, pin, driver) ==
    {i \in Inputs : config.inPin[i] = pin /\ config.driverOf[i] = driver}

\* findSwitch and findButton: the first one of S with that pin and driver.
Found(S, pin, driver) ==
    LET match == {i \in S : config.inPin[i] = pin /\ config.driverOf[i] = driver}
    IN {i \in match : \A j \in match : Place(i) =< Place(j)}

Controller == config.controllers[Item][ctl]

\* The driver the controller is looked for in: its own; or that of the last
\* controller of the device that named one; or that of the device.
ResolvedName ==
    IF Controller.driver # NoDriver THEN Controller.driver
    ELSE IF driverName # NoDriver THEN driverName
    ELSE config.driverOf[Item]

NextController ==
    /\ ctl' = ctl + 1 /\ driverName' = ResolvedName
    /\ UNCHANGED <<phase, waiting, at>>

\* The switch has its device at once; the button's map is written in two steps,
\* between which a reader may meet the writer.
MatchController ==
    /\ phase = "controllers" /\ at =< Len(IoOrder) /\ mapped = Nobody
    /\ Item \in Devices /\ ctl =< Len(config.controllers[Item])
    /\ LET swb == Found(Switches, Controller.pin, ResolvedName)
           but == Found(Buttons, Controller.pin, ResolvedName)
       IN IF ResolvedName \notin UsedDrivers \/ swb \cup but = {}
          THEN /\ unmatched' = unmatched \cup {"controllers"}
               /\ NextLoop("controllers")
               /\ UNCHANGED wiring
          ELSE /\ switchSlice' = [s \in Switches |->
                     IF s \in swb THEN Append(switchSlice[s], Item) ELSE switchSlice[s]]
               /\ IF but = {} THEN NextController /\ UNCHANGED mapped
                  ELSE /\ mapped' \in but
                       /\ UNCHANGED <<phase, loop>>
               /\ UNCHANGED <<toggleMap, unmatched>>
    /\ UNCHANGED <<config, ready, inited, listening, serviced, sensor, level, closed, pushes>>

MapWritten ==
    /\ phase = "controllers" /\ mapped # Nobody
    /\ toggleMap' = [toggleMap EXCEPT ![mapped][Controller.event] = Append(@, Item)]
    /\ mapped' = Nobody
    /\ NextController
    /\ UNCHANGED <<config, ready, inited, listening, serviced, switchSlice, sensor,
                   unmatched, level, closed, pushes>>

DeviceMatched ==
    /\ phase = "controllers" /\ at =< Len(IoOrder) /\ mapped = Nobody
    /\ Item \in Devices => ctl > Len(config.controllers[Item])
    /\ NextRound
    /\ UNCHANGED <<config, ready, inited, listening, serviced, wiring, sensor, unmatched,
                   level, closed, pushes>>

\* findTemperatureSensor asks the sensor drivers in a random order.  When there
\* are none it returns neither a sensor nor an error.
MatchSensor ==
    /\ phase = "thermostats" /\ at =< Len(IoOrder)
    /\ LET found == {d \in DOMAIN config.sensors :
                        config.sensorId[Item] \in config.sensors[d]}
       IN \/ Item \notin Thermostats /\ NextRound /\ UNCHANGED <<sensor, unmatched>>
          \/ /\ Item \in Thermostats /\ found = {} /\ DOMAIN config.sensors # {}
             /\ unmatched' = unmatched \cup {"sensors"}
             /\ NextLoop("thermostats") /\ UNCHANGED sensor
          \/ /\ Item \in Thermostats
             /\ found # {} \/ DOMAIN config.sensors = {}
             /\ \E d \in IF found = {} THEN {Nobody} ELSE found :
                   sensor' = [sensor EXCEPT ![Item] = d]
             /\ NextRound /\ UNCHANGED unmatched
    /\ UNCHANGED <<config, ready, inited, listening, serviced, wiring, level, closed, pushes>>

-----------------------------------------------------------------------------
(* The end.                                                                *)

\* log.Fatal when the HomeKit server ends, or a signal without HomeKit: the
\* deferred Close does not run.
Stop ==
    /\ phase = "running" /\ phase' = "exited"
    /\ UNCHANGED <<config, loop, ready, inited, listening, serviced, wiring, sensor,
                   unmatched, level, closed, pushes>>

TurnsOff == {"gpio", "mcpio"}

\* SwKit.Close, in the random order of its maps.  gpio and mcpio switch every
\* output off; a ShellyDevice sends on a nil channel and blocks for ever.
CloseDriver(d) ==
    /\ phase = "closing" /\ d \in ready \ closed
    /\ closed' = closed \cup {d}
    /\ phase' \in IF d = "shelly" THEN {"closing", "hung"} ELSE {"closing"}
    /\ level' = [o \in Devices |->
                    IF config.driverOf[o] = d /\ d \in TurnsOff THEN FALSE ELSE level[o]]
    /\ UNCHANGED <<config, loop, ready, inited, listening, serviced, wiring, sensor,
                   unmatched, pushes>>

\* A faulty Close that waits for every driver there is to be.
EveryDriverClosed == UsedDrivers \subseteq closed

\* The drivers that were never set up are nil, and passed over.
AllClosed == ready \subseteq closed

Exit ==
    /\ phase = "closing" /\ AllClosed
    /\ phase' = "exited"
    /\ UNCHANGED <<config, loop, ready, inited, listening, serviced, wiring, sensor,
                   unmatched, level, closed, pushes>>

-----------------------------------------------------------------------------
(* Push events: the listener goroutine of an MCP23017 input, or a handler  *)
(* of the remote-io server, whose panics net/http recovers.                *)

Alive == phase \notin {"exited", "crashed"}

\* The push goroutine of b goes on with devices still to toggle, or is done.
Goto(b, label, devices) ==
    /\ pc' = [pc EXCEPT ![b] = label]
    /\ left' = [left EXCEPT ![b] = devices]

\* A nil dereference: a handler of the server only ends its request.
Dies(b) ==
    IF config.driverOf[b] = "remoteio_slave"
    THEN Goto(b, "idle", <<>>) /\ UNCHANGED phase
    ELSE phase' = "crashed" /\ UNCHANGED <<pc, left>>

\* handlePush takes the last input with the pin, GetInput the first one: with
\* two of them the input that is found has no listener.
Reaches(b) ==
    config.driverOf[b] = "remoteio_slave" =>
        \A i \in Inputs \ {b} : <<config.inPin[i] % 256, config.driverOf[i]>>
                                # <<config.inPin[b] % 256, config.driverOf[b]>>

Push(b, e) ==
    /\ Alive /\ pc[b] = "idle" /\ b \in listening /\ Reaches(b)
    /\ config.driverOf[b] \notin closed
    /\ config.driverOf[b] = "mcpio" => e = 0
    /\ presses < MaxPresses /\ presses' = presses + 1
    /\ event' = [event EXCEPT ![b] = e]
    /\ Goto(b, "event", <<>>)
    /\ UNCHANGED <<config, phase, loop, ready, inited, listening, serviced, wiring, sensor,
                   unmatched, level, closed>>

\* A faulty FireEvent that does not ask for DisableHomekit.
AllShowEvents(b) == TRUE

ShowsEvents(b) == b \notin config.silent

\* bu.ss.ProgrammableSwitchEvent.SetValue
ShowEvent(b) ==
    /\ Alive /\ pc[b] = "event"
    /\ IF ShowsEvents(b) /\ b \notin serviced
       THEN Dies(b)
       ELSE Goto(b, "lookup", <<>>) /\ UNCHANGED phase
    /\ UNCHANGED <<config, loop, ready, inited, listening, serviced, wiring, sensor,
                   unmatched, level, closed, event, presses>>

\* Go may notice that MatchControllers is writing the map, and end the program.
LookUp(b) ==
    /\ Alive /\ pc[b] = "lookup"
    /\ LET devices == toggleMap[b][event[b]]
       IN \/ /\ Goto(b, IF devices = <<>> THEN "idle" ELSE "toggle", devices)
             /\ UNCHANGED phase
          \/ /\ mapped = b
             /\ phase' = "crashed" /\ UNCHANGED <<pc, left>>
    /\ UNCHANGED <<config, loop, ready, inited, listening, serviced, wiring, sensor,
                   unmatched, level, closed, event, presses>>

\* Toggle sets the output, of a device that has one, to what IoLoop says.
Toggle(b) ==
    /\ Alive /\ pc[b] = "toggle"
    /\ LET o == Head(left[b])
       IN IF o \notin inited
          THEN Dies(b) /\ UNCHANGED level
          ELSE /\ level' \in {[level EXCEPT ![o] = v] : v \in BOOLEAN}
               /\ Goto(b, IF Len(left[b]) = 1 THEN "idle" ELSE "toggle", Tail(left[b]))
               /\ UNCHANGED phase
    /\ UNCHANGED <<config, loop, ready, inited, listening, serviced, wiring, sensor,
                   unmatched, closed, event, presses>>

-----------------------------------------------------------------------------

Main ==
    /\ Alive
    /\ \/ \E d \in IoDriverNames \cup SensorDriverNames : SetUp(d) \/ CloseDriver(d)
       \/ AllSetUp \/ InitIo \/ LoopEnds \/ InitSensors
       \/ MatchController \/ MapWritten \/ DeviceMatched \/ MatchSensor
       \/ Exit

FireEvent(b) == ShowEvent(b) \/ LookUp(b) \/ Toggle(b)

Next ==
    \/ Main
    \/ Stop
    \/ \E b \in Buttons : FireEvent(b)
    \/ \E b \in Buttons, e \in PushEvents : Push(b, e)

\* Every call of main returns but Close of a Shelly, and goroutines run.
Fairness == WF_vars(Main) /\ \A b \in Buttons : WF_vars(FireEvent(b))

Spec == Init /\ [][Next]_vars
FairSpec == Spec /\ Fairness

-----------------------------------------------------------------------------
(* Safety.                                                                 *)

\* A press during the start never reaches a device that has no output yet: the
\* goroutine of a button runs before the lights and outlets after it are
\* initialised, but it has no device to toggle until all of them are.
PressesFindOutputs ==
    \A b \in Buttons :
        /\ ToSet(left[b]) \subseteq inited
        /\ \A e \in PushEvents : ToSet(toggleMap[b][e]) \subseteq inited

\* The controllers of a device that name an input and one of these events: one
\* without a driver means the driver of the device.
Naming(o, i, events) ==
    {k \in DOMAIN config.controllers[o] :
        LET c == config.controllers[o][k]
        IN /\ c.pin = config.inPin[i] /\ c.event \in events
           /\ config.driverOf[i] = IF c.driver = NoDriver THEN config.driverOf[o]
                                   ELSE c.driver}

Times(o, devices) == Cardinality({n \in DOMAIN devices : devices[n] = o})

\* No device has a controller without a driver after one with another driver: it
\* would take the driver of that one.
NamesComeLast ==
    \A o \in Devices : \A j, k \in DOMAIN config.controllers[o] :
        j < k /\ config.controllers[o][j].driver # NoDriver
            => config.controllers[o][k].driver # NoDriver

PinsDiffer ==
    \A i, j \in Inputs : /\ config.inPin[i] = config.inPin[j]
                         /\ config.driverOf[i] = config.driverOf[j]
                         => i = j

\* If main reports no error every switch drives, and every button toggles, just
\* the devices the configuration says: each as often as a controller names it.
WiredAsConfigured ==
    phase \in {"thermostats", "running"} /\ "controllers" \notin unmatched
    /\ NamesComeLast /\ PinsDiffer =>
        \A o \in Devices :
            /\ \A s \in Switches :
                  Times(o, switchSlice[s]) = Cardinality(Naming(o, s, PushEvents))
            /\ \A b \in Buttons, e \in PushEvents :
                  Times(o, toggleMap[b][e]) = Cardinality(Naming(o, b, {e}))

\* What the tickers work with: every IO has its driver, and a thermostat without
\* a sensor has been reported, if there is any sensor driver.
StartedWhole ==
    phase = "running" =>
        /\ inited = Ios /\ UsedDrivers \cup DOMAIN config.sensors \subseteq ready
        /\ \A t \in Thermostats :
              \/ "sensors" \in unmatched \/ DOMAIN config.sensors = {}
              \/ /\ sensor[t] \in DOMAIN config.sensors
                 /\ config.sensorId[t] \in config.sensors[sensor[t]]

\* When the start fails the outputs of the gpio and mcpio drivers that were set
\* up are off at the end, whatever the push goroutines do in the meantime.
FailedStartTurnsOff ==
    phase = "exited" /\ ready # {} /\ ready \subseteq closed =>
        \A o \in Devices : config.driverOf[o] \in ready \cap TurnsOff => ~level[o]

\* Once main has reached the tickers no press kills the program: what can is the
\* press that comes while the button or its map is being made.
RunningNeverCrashes == [][phase = "running" => phase' # "crashed"]_vars

LoopsLeft ==
    [ioDrivers |-> 7, sensorDrivers |-> 6, ios |-> 5, sensors |-> 4, controllers |-> 3,
     thermostats |-> 2, running |-> 1, closing |-> 1, hung |-> 0, exited |-> 0, crashed |-> 0]

RoundsLeft ==
    CASE phase \in {"ioDrivers", "sensorDrivers"} -> Cardinality(waiting)
      [] phase \in {"ios", "controllers", "thermostats"} -> Len(IoOrder) + 1 - at
      [] phase = "closing" -> Cardinality(ready \ closed)
      [] OTHER -> 0

StepsLeft ==
    CASE phase = "ios" /\ at =< Len(IoOrder) -> IF Item \in listening THEN 0 ELSE 1
      [] phase = "controllers" /\ at =< Len(IoOrder) /\ Item \in Devices ->
            2 * (Len(config.controllers[Item]) + 1 - ctl) + IF mapped = Nobody THEN 1 ELSE 0
      [] OTHER -> 0

\* What main has before it, the loops first.
Work == <<LoopsLeft[phase], RoundsLeft, StepsLeft>>

\* The lexicographic order.
Less(x, y) == \E n \in 1..3 : x[n] < y[n] /\ \A m \in 1..n - 1 : x[m] = y[m]

\* Whatever main does, even when a step fails, it has less before it than it had,
\* and no goroutine sets it back: a start cannot go round in circles.
StartProgresses ==
    [][IF Main THEN Less(Work', Work)
       ELSE Work' = Work \/ phase' \in {"exited", "crashed"}]_vars

-----------------------------------------------------------------------------
(* Liveness.                                                               *)

\* A start comes to an end, well or badly: only the Close of a Shelly hangs.
StartEnds == <>(phase \in {"running", "exited", "crashed"} \/ "shelly" \in ready)

=============================================================================

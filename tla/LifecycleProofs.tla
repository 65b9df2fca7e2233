--------------------------- MODULE LifecycleProofs ---------------------------
(***************************************************************************)
(* What a start of swkit guarantees, for any devices, configuration files  *)
(* and number of presses.  The argument is the order of the loops of main: *)
(* buttons have nothing to toggle until every IO is initialised, and no    *)
(* driver is closed once they have.                                        *)
(***************************************************************************)
EXTENDS Lifecycle, SequenceTheorems, TLAPS

\* TypeOK in three parts; the arguments below use the first two.
Wires ==
    /\ toggleMap \in [Buttons -> [PushEvents -> Seq(Devices)]]
    /\ left \in [Buttons -> Seq(Devices)]
    /\ mapped \in Buttons \cup {Nobody}

Places ==
    /\ config \in Configs /\ phase \in Phases
    /\ at \in Nat \ {0}
    /\ pc \in [Buttons -> {"idle", "event", "lookup", "toggle"}]
    /\ event \in [Buttons -> PushEvents]
    /\ level \in [Devices -> BOOLEAN]
    /\ inited \subseteq Ios /\ listening \subseteq Buttons
    /\ sensor \in [Thermostats -> SensorDriverNames \cup {Nobody}]

Kinds ==
    /\ waiting \subseteq IoDriverNames \cup SensorDriverNames
    /\ ready \cup closed \subseteq IoDriverNames \cup SensorDriverNames
    /\ at =< Len(IoOrder) + 1 /\ ctl \in Nat \ {0}
    /\ driverName \in IoDriverNames \cup {NoDriver}
    /\ serviced \subseteq Buttons
    /\ switchSlice \in [Switches -> Seq(Devices)]
    /\ unmatched \subseteq {"controllers", "sensors"}
    /\ presses \in 0..MaxPresses

\* A push goroutine that toggles has a device to toggle.
PushInv == \A b \in Buttons : pc[b] = "toggle" => left[b] # <<>>

\* No button has anything to toggle.
Unwired ==
    \A b \in Buttons : left[b] = <<>> /\ \A e \in PushEvents : toggleMap[b][e] = <<>>

Starting == {"ioDrivers", "sensorDrivers", "ios", "sensors"}
Wiring == {"controllers", "thermostats", "running"}

\* InitIos initialises one IO after the other, and all of them before it is over;
\* nothing is wired before that, nor once a driver is closed.
InitInv ==
    /\ phase = "ios" => \A n \in DOMAIN IoOrder : n < at => IoOrder[n] \in inited
    /\ phase \in {"sensors"} \cup Wiring => inited = Ios
    /\ phase \in Starting \cup {"closing"} \/ closed # {} => Unwired
    /\ inited = Ios \/ Unwired

\* A button that is initialised can show an event or need not.
ServiceInv == inited \cap Buttons \subseteq serviced \cup config.silent

\* The map of a button is only written in the loop of MatchControllers.
MapInv == mapped # Nobody =>
    /\ phase \in {"controllers", "crashed"} /\ at =< Len(IoOrder)
    /\ Item \in Devices /\ ctl =< Len(config.controllers[Item])

\* The drivers of a loop are still waiting for their Setup or have had it.
DriversInv ==
    /\ phase = "ioDrivers" => UsedDrivers \subseteq ready \cup waiting
    /\ phase \in {"sensorDrivers", "ios", "sensors"} \cup Wiring => UsedDrivers \subseteq ready
    /\ phase = "sensorDrivers" => DOMAIN config.sensors \subseteq ready \cup waiting
    /\ phase \in {"ios", "sensors"} \cup Wiring => DOMAIN config.sensors \subseteq ready

HasSensor(t) ==
    /\ sensor[t] \in DOMAIN config.sensors
    /\ config.sensorId[t] \in config.sensors[sensor[t]]

\* Every thermostat that MatchSensors has passed has its sensor.
SensorInv ==
    "sensors" \in unmatched \/ DOMAIN config.sensors = {} \/
    /\ phase = "thermostats" =>
          \A n \in DOMAIN IoOrder :
              n < at /\ IoOrder[n] \in Thermostats => HasSensor(IoOrder[n])
    /\ phase = "running" => \A t \in Thermostats : HasSensor(t)

\* Close comes when nothing is wired: what it turns off stays off.
CloseInv ==
    /\ phase \in Starting \cup Wiring => closed = {}
    /\ \A o \in Devices : config.driverOf[o] \in closed \cap TurnsOff => ~level[o]

Inv ==
    /\ Wires /\ Places /\ Kinds /\ PushInv /\ InitInv /\ ServiceInv
    /\ MapInv /\ DriversInv /\ SensorInv /\ CloseInv

\* A loop over IoOrder comes to every IO.
LEMMA OrderFacts ==
    /\ Len(IoOrder) \in Nat /\ DOMAIN IoOrder = 1..Len(IoOrder)
    /\ \A n \in DOMAIN IoOrder : IoOrder[n] \in Ios
    /\ \A i \in Ios : \E n \in DOMAIN IoOrder : IoOrder[n] = i
<1>1. IoOrder \in Seq(Ios) /\ ToSet(IoOrder) = Ios
    BY OrderAssumption
<1>2. /\ Len(IoOrder) \in Nat /\ DOMAIN IoOrder = 1..Len(IoOrder)
      /\ IoOrder \in [1..Len(IoOrder) -> Ios]
    BY <1>1, LenProperties
<1> QED
    BY <1>1, <1>2 DEF ToSet

LEMMA ConfigFacts ==
    ASSUME config \in Configs
    PROVE  /\ UsedDrivers \subseteq IoDriverNames
           /\ DOMAIN config.sensors \subseteq SensorDriverNames
           /\ \A o \in Devices : config.controllers[o] \in Seq(ControllerTypes)
           /\ \A o \in Ios : config.driverOf[o] \in IoDriverNames
    BY ConfigsAssumption DEF UsedDrivers

LEMMA InitInvariant == Init => Inv
<1> SUFFICES ASSUME Init PROVE Inv
    OBVIOUS
<1> USE DEF Init
<1>b. config \in Configs
    OBVIOUS
<1>1. Wires
    BY EmptySeq DEF Wires
<1>2. Places
    BY OrderFacts DEF Places, Phases, PushEvents
<1>3. Kinds
    BY <1>b, ConfigFacts, OrderFacts, EmptySeq, BoundsAssumption DEF Kinds
<1>4. PushInv
    BY DEF PushInv, Places, Wires
<1>5. InitInv
    BY DEF InitInv, Unwired, Starting, Wiring
<1>6. ServiceInv
    BY DEF ServiceInv
<1>7. MapInv
    BY DEF MapInv, Item
<1>8. DriversInv
    BY DEF DriversInv, Wiring, UsedDrivers
<1>9. SensorInv
    BY DEF SensorInv, HasSensor
<1>10. CloseInv
    BY DEF CloseInv, Starting, Wiring
<1> QED
    BY <1>1, <1>2, <1>3, <1>4, <1>5, <1>6, <1>7, <1>8, <1>9, <1>10 DEF Inv

LEMMA StepInvariant == Inv /\ [Next]_vars => Inv'
<1> SUFFICES ASSUME Inv, [Next]_vars PROVE Inv'
    OBVIOUS
<1>a. /\ Wires /\ Places /\ Kinds /\ PushInv /\ InitInv /\ ServiceInv
      /\ MapInv /\ DriversInv /\ SensorInv /\ CloseInv
    BY DEF Inv
<1> USE DEF loop, wiring, pushes
<1>b. <<>> \in Seq(Devices)
    BY EmptySeq
<1>c. \A b \in Buttons : pc[b] = "toggle" =>
         /\ Head(left[b]) \in Devices /\ Tail(left[b]) \in Seq(Devices)
         /\ Len(left[b]) \in Nat /\ Len(Tail(left[b])) = Len(left[b]) - 1
  <2> SUFFICES ASSUME NEW b \in Buttons, pc[b] = "toggle"
               PROVE  /\ Head(left[b]) \in Devices /\ Tail(left[b]) \in Seq(Devices)
                      /\ Len(left[b]) \in Nat /\ Len(Tail(left[b])) = Len(left[b]) - 1
    OBVIOUS
  <2>1. left[b] \in Seq(Devices) /\ left[b] # <<>>
    BY <1>a DEF Wires, PushInv
  <2> QED
    BY <2>1, HeadTailProperties, LenProperties
<1>d. /\ UsedDrivers \subseteq IoDriverNames /\ DOMAIN config.sensors \subseteq SensorDriverNames
      /\ \A o \in Devices : config.controllers[o] \in Seq(ControllerTypes)
      /\ \A o \in Ios : config.driverOf[o] \in IoDriverNames
    BY <1>a, ConfigFacts DEF Places
<1>e. ASSUME Item \in Devices, ctl =< Len(config.controllers[Item])
      PROVE  ResolvedName \in IoDriverNames \cup {NoDriver}
  <2>1. ctl \in 1..Len(config.controllers[Item])
    BY <1>a, <1>d, <1>e, LenProperties DEF Kinds
  <2>2. Controller \in ControllerTypes
    BY <1>d, <1>e, <2>1, ElementOfSeq DEF Controller
  <2>3. Controller.driver \in IoDriverNames \cup {NoDriver}
    BY <2>2 DEF ControllerTypes
  <2> QED
    BY <1>a, <1>d, <1>e, <2>3 DEF ResolvedName, Kinds, Ios
<1>1. CASE \E d \in IoDriverNames \cup SensorDriverNames : SetUp(d)
  <2>1. Places'
    BY <1>1, <1>a DEF SetUp, Panic, Places, Phases
  <2>2. Kinds'
    BY <1>1, <1>a, <1>d DEF SetUp, Panic, Kinds, Places
  <2>3. InitInv'
    BY <1>1, <1>a DEF SetUp, Panic, InitInv, Unwired, Starting, Wiring
  <2>4. MapInv'
    BY <1>1, <1>a DEF SetUp, Panic, MapInv, Item
  <2>5. DriversInv'
    BY <1>1, <1>a DEF SetUp, Panic, DriversInv, Wiring, UsedDrivers
  <2>6. SensorInv'
    BY <1>1, <1>a DEF SetUp, Panic, SensorInv, HasSensor
  <2>7. CloseInv'
    BY <1>1, <1>a DEF SetUp, Panic, CloseInv, Starting, Wiring
  <2>8. Wires' /\ PushInv' /\ ServiceInv'
    BY <1>1, <1>a DEF SetUp, Wires, PushInv, Places, ServiceInv
  <2> QED
    BY <2>1, <2>2, <2>3, <2>4, <2>5, <2>6, <2>7, <2>8 DEF Inv
<1>2. CASE \E d \in IoDriverNames \cup SensorDriverNames : CloseDriver(d)
  <2>1. Places'
    BY <1>2, <1>a DEF CloseDriver, Places, Phases
  <2>2. Kinds'
    BY <1>2, <1>a DEF CloseDriver, Kinds, Places
  <2>3. InitInv'
    BY <1>2, <1>a DEF CloseDriver, InitInv, Unwired, Starting, Wiring
  <2>4. MapInv'
    BY <1>2, <1>a DEF CloseDriver, MapInv, Item
  <2>5. DriversInv'
    BY <1>2, <1>a DEF CloseDriver, DriversInv, Wiring, UsedDrivers
  <2>6. SensorInv'
    BY <1>2, <1>a DEF CloseDriver, SensorInv, HasSensor
  <2>7. CloseInv'
    BY <1>2, <1>a DEF CloseDriver, CloseInv, Starting, Wiring
  <2>8. Wires' /\ PushInv' /\ ServiceInv'
    BY <1>2, <1>a DEF CloseDriver, Wires, PushInv, Places, ServiceInv
  <2> QED
    BY <2>1, <2>2, <2>3, <2>4, <2>5, <2>6, <2>7, <2>8 DEF Inv
<1>3. CASE AllSetUp
  <2>1. Places'
    BY <1>3, <1>a DEF AllSetUp, NextLoop, Order, Places, Phases
  <2>2. Kinds'
    BY <1>3, <1>a, <1>d, OrderFacts DEF AllSetUp, NextLoop, Order, Kinds, Places
  <2>3. InitInv'
    <3>1. Unwired /\ UNCHANGED <<inited, left, toggleMap, closed>>
      BY <1>3, <1>a DEF AllSetUp, InitInv, Starting
    <3>2. Unwired'
      BY <3>1 DEF Unwired
    <3>3. phase' \in {"sensorDrivers", "ios"} /\ at' = 1
      BY <1>3 DEF AllSetUp, NextLoop, Order
    <3> QED
      BY <3>2, <3>3, OrderFacts DEF InitInv, Wiring
  <2>4. MapInv'
    BY <1>3, <1>a DEF AllSetUp, NextLoop, Order, MapInv, Item
  <2>5. DriversInv'
    BY <1>3, <1>a DEF AllSetUp, NextLoop, Order, DriversInv, Wiring, UsedDrivers
  <2>6. SensorInv'
    BY <1>3, <1>a DEF AllSetUp, NextLoop, Order, SensorInv, HasSensor
  <2>7. CloseInv'
    BY <1>3, <1>a DEF AllSetUp, NextLoop, Order, CloseInv, Starting, Wiring
  <2>8. Wires' /\ PushInv' /\ ServiceInv'
    BY <1>3, <1>a DEF AllSetUp, Wires, PushInv, Places, ServiceInv
  <2> QED
    BY <2>1, <2>2, <2>3, <2>4, <2>5, <2>6, <2>7, <2>8 DEF Inv
<1>4. CASE InitIo
  <2>1. Places'
    BY <1>4, <1>a, OrderFacts
    DEF InitIo, NextRound, InitIoFailed, Panic, Item, Places, Phases
  <2>2. Kinds'
    BY <1>4, <1>a, OrderFacts
    DEF InitIo, NextRound, InitIoFailed, Panic, Item, Kinds, Places
  <2>3. InitInv'
    <3>1. phase = "ios" /\ at =< Len(IoOrder) /\ UNCHANGED <<left, toggleMap, closed>> /\ Unwired
      BY <1>4, <1>a DEF InitIo, InitInv, Starting
    <3>2. Unwired'
      BY <3>1 DEF Unwired
    <3>3. \/ phase' = "closing"
          \/ /\ phase' = "ios" /\ inited \subseteq inited'
             /\ at' = at \/ (at' = at + 1 /\ IoOrder[at] \in inited')
      BY <1>4, <3>1 DEF InitIo, NextRound, InitIoFailed, Panic, Item
    <3>4. \A n \in DOMAIN IoOrder : n < at + 1 => n < at \/ n = at
      BY <1>a, OrderFacts DEF Places
    <3> QED
      BY <1>a, <3>1, <3>2, <3>3, <3>4 DEF InitInv, Wiring
  <2>4. ServiceInv'
    BY <1>4, <1>a DEF InitIo, NextRound, InitIoFailed, Panic, Item, ServiceInv
  <2>5. MapInv'
    BY <1>4, <1>a DEF InitIo, NextRound, InitIoFailed, Panic, Item, MapInv, Item
  <2>6. DriversInv'
    BY <1>4, <1>a
    DEF InitIo, NextRound, InitIoFailed, Panic, Item, DriversInv, Wiring, UsedDrivers
  <2>7. SensorInv'
    BY <1>4, <1>a DEF InitIo, NextRound, InitIoFailed, Panic, Item, SensorInv, HasSensor
  <2>8. CloseInv'
    BY <1>4, <1>a
    DEF InitIo, NextRound, InitIoFailed, Panic, Item, CloseInv, Starting, Wiring
  <2>9. Wires' /\ PushInv'
    BY <1>4, <1>a DEF InitIo, Wires, PushInv, Places
  <2> QED
    BY <2>1, <2>2, <2>3, <2>4, <2>5, <2>6, <2>7, <2>8, <2>9 DEF Inv
<1>5. CASE LoopEnds
  <2>1. Places'
    BY <1>5, <1>a, OrderFacts DEF LoopEnds, NextLoop, Order, Places, Phases
  <2>2. Kinds'
    BY <1>5, <1>a, <1>d, OrderFacts DEF LoopEnds, NextLoop, Order, Kinds, Places
  <2>3. InitInv'
    <3>1. phase = "ios" => inited = Ios
      <4>1. ASSUME phase = "ios", NEW i \in Ios PROVE i \in inited
        <5>1. PICK n \in DOMAIN IoOrder : IoOrder[n] = i
          BY OrderFacts
        <5>2. n < at
          BY <1>5, <1>a, OrderFacts DEF LoopEnds, Places
        <5> QED
          BY <1>a, <4>1, <5>1, <5>2 DEF InitInv
      <4> QED
        BY <1>a, <4>1 DEF Places
    <3>2. phase \in {"ios", "controllers", "thermostats"} /\ phase' = Order[phase]
      BY <1>5 DEF LoopEnds, NextLoop
    <3>3. phase' \in {"sensors", "thermostats", "running"} /\ (phase' = "sensors" => phase = "ios")
      BY <3>2 DEF Order
    <3>4. UNCHANGED <<inited, left, toggleMap, closed>>
      BY <1>5 DEF LoopEnds
    <3>5. Unwired' <=> Unwired
      BY <3>4 DEF Unwired
    <3> QED
      BY <1>a, <3>1, <3>2, <3>3, <3>4, <3>5 DEF InitInv, Starting, Wiring
  <2>4. MapInv'
    <3>1. mapped = Nobody
      BY <1>5, <1>a, OrderFacts DEF LoopEnds, MapInv, Places
    <3> QED
      BY <1>5, <3>1 DEF LoopEnds, MapInv
  <2>5. DriversInv'
    BY <1>5, <1>a DEF LoopEnds, NextLoop, Order, DriversInv, Wiring, UsedDrivers
  <2>6. SensorInv'
    <3>1. UNCHANGED <<config, sensor, unmatched>> /\ phase' = Order[phase] /\ at' = 1
      BY <1>5 DEF LoopEnds, NextLoop
    <3>2. phase \in {"ios", "controllers", "thermostats"} /\ at > Len(IoOrder)
      BY <1>5 DEF LoopEnds
    <3>3. CASE phase = "thermostats"
      <4>1. \A n \in DOMAIN IoOrder : n < at
        BY <1>a, <3>2, OrderFacts DEF Places
      <4>2. \A t \in Thermostats : \E n \in DOMAIN IoOrder : IoOrder[n] = t
        BY OrderFacts DEF Ios
      <4> QED
        BY <1>a, <3>1, <3>3, <4>1, <4>2 DEF SensorInv, HasSensor, Order
    <3>4. CASE phase # "thermostats"
      <4>1. \A n \in DOMAIN IoOrder : ~(n < 1)
        BY OrderFacts
      <4>2. phase' # "running"
        BY <3>1, <3>2, <3>4 DEF Order
      <4> QED
        BY <3>1, <4>1, <4>2 DEF SensorInv
    <3> QED
      BY <3>3, <3>4
  <2>7. CloseInv'
    BY <1>5, <1>a DEF LoopEnds, NextLoop, Order, CloseInv, Starting, Wiring
  <2>8. Wires' /\ PushInv' /\ ServiceInv'
    BY <1>5, <1>a DEF LoopEnds, Wires, PushInv, Places, ServiceInv
  <2> QED
    BY <2>1, <2>2, <2>3, <2>4, <2>5, <2>6, <2>7, <2>8 DEF Inv
<1>6. CASE InitSensors
  <2>1. Places'
    BY <1>6, <1>a DEF InitSensors, NextLoop, Order, Panic, Places, Phases
  <2>2. Kinds'
    BY <1>6, <1>a, <1>d, OrderFacts DEF InitSensors, NextLoop, Order, Panic, Kinds, Places
  <2>3. InitInv'
    BY <1>6, <1>a
    DEF InitSensors, NextLoop, Order, Panic, InitInv, Unwired, Starting, Wiring
  <2>4. MapInv'
    BY <1>6, <1>a DEF InitSensors, NextLoop, Order, Panic, MapInv, Item
  <2>5. DriversInv'
    BY <1>6, <1>a DEF InitSensors, NextLoop, Order, Panic, DriversInv, Wiring, UsedDrivers
  <2>6. SensorInv'
    BY <1>6, <1>a DEF InitSensors, NextLoop, Order, Panic, SensorInv, HasSensor
  <2>7. CloseInv'
    BY <1>6, <1>a DEF InitSensors, NextLoop, Order, Panic, CloseInv, Starting, Wiring
  <2>8. Wires' /\ PushInv' /\ ServiceInv'
    BY <1>6, <1>a DEF InitSensors, Wires, PushInv, Places, ServiceInv
  <2> QED
    BY <2>1, <2>2, <2>3, <2>4, <2>5, <2>6, <2>7, <2>8 DEF Inv
<1>7. CASE MatchController
  <2>1. Wires'
    <3>1. mapped' \in Buttons \cup {Nobody} /\ UNCHANGED <<toggleMap, left>>
      BY <1>7, <1>a DEF MatchController, Found, Wires
    <3> QED
      BY <1>a, <3>1 DEF Wires
  <2>2. Places'
    BY <1>7, <1>a DEF MatchController, NextLoop, Order, NextController, Places, Phases
  <2>3. Kinds'
    <3>1. Item \in Devices /\ ctl =< Len(config.controllers[Item])
      BY <1>7 DEF MatchController
    <3>3. ResolvedName \in IoDriverNames \cup {NoDriver}
      BY <1>e, <3>1
    <3>4. /\ driverName' \in {driverName, ResolvedName, NoDriver}
          /\ ctl' \in {1, ctl, ctl + 1} /\ at' \in {1, at}
          /\ waiting' \in {waiting, {}} /\ UNCHANGED <<ready, closed, serviced, presses>>
      BY <1>7 DEF MatchController, NextLoop, Order, NextController
    <3>5. unmatched' \subseteq {"controllers", "sensors"}
      BY <1>7, <1>a DEF MatchController, Kinds
    <3>6. switchSlice' \in [Switches -> Seq(Devices)]
      <4>1. \A s \in Switches : Append(switchSlice[s], Item) \in Seq(Devices)
        BY <1>a, <3>1, AppendProperties DEF Kinds
      <4>2. UNCHANGED switchSlice \/ \E swb : switchSlice' = [s \in Switches |->
               IF s \in swb THEN Append(switchSlice[s], Item) ELSE switchSlice[s]]
        BY <1>7 DEF MatchController
      <4> QED
        BY <1>a, <4>1, <4>2 DEF Kinds
    <3> QED
      BY <1>a, <3>3, <3>4, <3>5, <3>6, OrderFacts DEF Kinds
  <2>4. InitInv'
    BY <1>7, <1>a
    DEF MatchController, NextLoop, Order, NextController, InitInv, Unwired, Starting, Wiring
  <2>5. MapInv'
    BY <1>7, <1>a DEF MatchController, NextLoop, Order, NextController, MapInv, Item
  <2>6. DriversInv'
    BY <1>7, <1>a
    DEF MatchController, NextLoop, Order, NextController, DriversInv, Wiring, UsedDrivers
  <2>7. SensorInv'
    BY <1>7, <1>a DEF MatchController, NextLoop, Order, NextController, SensorInv, HasSensor
  <2>8. CloseInv'
    BY <1>7, <1>a
    DEF MatchController, NextLoop, Order, NextController, CloseInv, Starting, Wiring
  <2>9. PushInv' /\ ServiceInv'
    BY <1>7, <1>a DEF MatchController, PushInv, Places, Wires, ServiceInv
  <2> QED
    BY <2>1, <2>2, <2>3, <2>4, <2>5, <2>6, <2>7, <2>8, <2>9 DEF Inv
<1>8. CASE MapWritten
  <2>1. Wires'
    <3>1. mapped \in Buttons /\ Item \in Devices
      BY <1>8, <1>a DEF MapWritten, Wires, MapInv
    <3> DEFINE lists == [toggleMap[mapped] EXCEPT ![Controller.event] =
                       Append(toggleMap[mapped][Controller.event], Item)]
    <3>2. toggleMap[mapped] \in [PushEvents -> Seq(Devices)]
      BY <1>a, <3>1 DEF Wires
    <3>3. lists \in [PushEvents -> Seq(Devices)]
      BY <3>1, <3>2, AppendProperties
    <3>4. toggleMap' = [toggleMap EXCEPT ![mapped] = lists] /\ left' = left /\ mapped' = Nobody
      BY <1>8 DEF MapWritten
    <3> HIDE DEF lists
    <3> QED
      BY <1>a, <3>3, <3>4 DEF Wires
  <2>2. Places'
    BY <1>8, <1>a DEF MapWritten, NextController, Places, Phases
  <2>3. Kinds'
    <3>1. UNCHANGED <<waiting, at, ready, closed, serviced, switchSlice, unmatched, presses>>
      BY <1>8 DEF MapWritten, NextController
    <3>2. ctl' = ctl + 1 /\ driverName' = ResolvedName
      BY <1>8 DEF MapWritten, NextController
    <3>3. ResolvedName \in IoDriverNames \cup {NoDriver}
      BY <1>8, <1>a, <1>e DEF MapWritten, MapInv
    <3> QED
      BY <1>a, <3>1, <3>2, <3>3 DEF Kinds
  <2>4. InitInv'
    <3>1. phase = "controllers" /\ inited = Ios /\ closed = {}
      BY <1>8, <1>a DEF MapWritten, InitInv, CloseInv, Wiring
    <3> QED
      BY <1>8, <3>1 DEF MapWritten, NextController, InitInv, Starting
  <2>5. MapInv'
    BY <1>8, <1>a DEF MapWritten, NextController, MapInv, Item
  <2>6. DriversInv'
    BY <1>8, <1>a DEF MapWritten, NextController, DriversInv, Wiring, UsedDrivers
  <2>7. SensorInv'
    BY <1>8, <1>a DEF MapWritten, NextController, SensorInv, HasSensor
  <2>8. PushInv' /\ ServiceInv' /\ CloseInv'
    BY <1>8, <1>a
    DEF MapWritten, PushInv, Places, Wires, ServiceInv, CloseInv, Starting, Wiring
  <2> QED
    BY <2>1, <2>2, <2>3, <2>4, <2>5, <2>6, <2>7, <2>8 DEF Inv
<1>9. CASE DeviceMatched
  <2>1. Places'
    BY <1>9, <1>a DEF DeviceMatched, NextRound, Places, Phases
  <2>2. Kinds'
    BY <1>9, <1>a, OrderFacts DEF DeviceMatched, NextRound, Kinds, Places
  <2>3. InitInv'
    BY <1>9, <1>a DEF DeviceMatched, NextRound, InitInv, Unwired, Starting, Wiring
  <2>4. MapInv'
    BY <1>9, <1>a DEF DeviceMatched, NextRound, MapInv, Item
  <2>5. DriversInv'
    BY <1>9, <1>a DEF DeviceMatched, NextRound, DriversInv, Wiring, UsedDrivers
  <2>6. SensorInv'
    BY <1>9, <1>a DEF DeviceMatched, NextRound, SensorInv, HasSensor
  <2>7. Wires' /\ PushInv' /\ ServiceInv' /\ CloseInv'
    BY <1>9, <1>a
    DEF DeviceMatched, Wires, PushInv, Places, ServiceInv, CloseInv, Starting, Wiring
  <2> QED
    BY <2>1, <2>2, <2>3, <2>4, <2>5, <2>6, <2>7 DEF Inv
<1>10. CASE MatchSensor
  <2>1. Places'
    <3>1. sensor' \in [Thermostats -> SensorDriverNames \cup {Nobody}]
      <4>1. \A c \in Configs : DOMAIN c.sensors \subseteq SensorDriverNames
        BY ConfigsAssumption
      <4> QED
        BY <1>10, <1>a, <4>1 DEF MatchSensor, Places
    <3> QED
      BY <1>10, <1>a, <3>1 DEF MatchSensor, NextRound, NextLoop, Order, Places, Phases
  <2>2. Kinds'
    <3>1. UNCHANGED <<ready, closed, serviced, switchSlice, presses>> /\ at =< Len(IoOrder)
      BY <1>10 DEF MatchSensor
    <3>2. unmatched' \in {unmatched, unmatched \cup {"sensors"}}
      BY <1>10 DEF MatchSensor
    <3>3. /\ waiting' \in {waiting, {}} /\ at' \in {1, at + 1} /\ ctl' = 1
          /\ driverName' = NoDriver
      BY <1>10 DEF MatchSensor, NextRound, NextLoop, Order
    <3> QED
      BY <1>a, <3>1, <3>2, <3>3, OrderFacts DEF Kinds, Places
  <2>3. InitInv'
    BY <1>10, <1>a
    DEF MatchSensor, NextRound, NextLoop, Order, Item, InitInv, Unwired, Starting, Wiring
  <2>4. MapInv'
    BY <1>10, <1>a DEF MatchSensor, NextRound, NextLoop, Order, Item, MapInv, Item
  <2>5. DriversInv'
    BY <1>10, <1>a
    DEF MatchSensor, NextRound, NextLoop, Order, Item, DriversInv, Wiring, UsedDrivers
  <2>6. SensorInv'
    <3>1. phase = "thermostats" /\ at =< Len(IoOrder) /\ UNCHANGED config
      BY <1>10 DEF MatchSensor
    <3>2. CASE "sensors" \in unmatched' \/ DOMAIN config.sensors = {}
      BY <3>1, <3>2 DEF SensorInv
    <3>3. CASE "sensors" \notin unmatched' /\ DOMAIN config.sensors # {}
      <4>1. "sensors" \notin unmatched /\ phase' = "thermostats" /\ at' = at + 1
        BY <1>10, <3>1, <3>3 DEF MatchSensor, NextRound
      <4>2. \/ Item \notin Thermostats /\ UNCHANGED sensor
            \/ /\ Item \in Thermostats
               /\ \E d \in DOMAIN config.sensors :
                     /\ config.sensorId[Item] \in config.sensors[d]
                     /\ sensor' = [sensor EXCEPT ![Item] = d]
        BY <1>10, <3>3 DEF MatchSensor
      <4>3. sensor \in [Thermostats -> SensorDriverNames \cup {Nobody}]
        BY <1>a DEF Places
      <4>4. \A t \in Thermostats :
               HasSensor(t)' <=> /\ sensor'[t] \in DOMAIN config.sensors
                                 /\ config.sensorId[t] \in config.sensors[sensor'[t]]
        BY <3>1 DEF HasSensor
      <4>5. \A t \in Thermostats : HasSensor(t) \/ t = Item => HasSensor(t)'
        BY <4>2, <4>3, <4>4 DEF HasSensor
      <4>6. \A n \in DOMAIN IoOrder : n < at + 1 => n < at \/ n = at
        BY <1>a, OrderFacts DEF Places
      <4>7. \A n \in DOMAIN IoOrder :
               n < at' /\ IoOrder[n] \in Thermostats => HasSensor(IoOrder[n])'
        BY <1>a, <3>1, <3>3, <4>1, <4>5, <4>6 DEF SensorInv, Item
      <4> QED
        BY <4>1, <4>7 DEF SensorInv
    <3> QED
      BY <3>1, <3>2, <3>3
  <2>7. CloseInv'
    BY <1>10, <1>a
    DEF MatchSensor, NextRound, NextLoop, Order, Item, CloseInv, Starting, Wiring
  <2>8. Wires' /\ PushInv' /\ ServiceInv'
    BY <1>10, <1>a DEF MatchSensor, Wires, PushInv, Places, ServiceInv
  <2> QED
    BY <2>1, <2>2, <2>3, <2>4, <2>5, <2>6, <2>7, <2>8 DEF Inv
<1>11. CASE Exit
  <2>1. Places'
    BY <1>11, <1>a DEF Exit, Places, Phases
  <2>2. InitInv'
    BY <1>11, <1>a DEF Exit, InitInv, Unwired, Starting, Wiring
  <2>3. MapInv'
    BY <1>11, <1>a DEF Exit, MapInv, Item
  <2>4. DriversInv'
    BY <1>11, <1>a DEF Exit, DriversInv, Wiring, UsedDrivers
  <2>5. SensorInv'
    BY <1>11, <1>a DEF Exit, SensorInv, HasSensor
  <2>6. CloseInv'
    BY <1>11, <1>a DEF Exit, CloseInv, Starting, Wiring
  <2>7. Wires' /\ Kinds' /\ PushInv' /\ ServiceInv'
    BY <1>11, <1>a DEF Exit, Wires, Kinds, Places, PushInv, ServiceInv
  <2> QED
    BY <2>1, <2>2, <2>3, <2>4, <2>5, <2>6, <2>7 DEF Inv
<1>12. CASE Stop
  <2>1. Places'
    BY <1>12, <1>a DEF Stop, Places, Phases
  <2>2. InitInv'
    BY <1>12, <1>a DEF Stop, InitInv, Unwired, Starting, Wiring
  <2>3. MapInv'
    BY <1>12, <1>a DEF Stop, MapInv, Item
  <2>4. DriversInv'
    BY <1>12, <1>a DEF Stop, DriversInv, Wiring, UsedDrivers
  <2>5. SensorInv'
    BY <1>12, <1>a DEF Stop, SensorInv, HasSensor
  <2>6. CloseInv'
    BY <1>12, <1>a DEF Stop, CloseInv, Starting, Wiring
  <2>7. Wires' /\ Kinds' /\ PushInv' /\ ServiceInv'
    BY <1>12, <1>a DEF Stop, Wires, Kinds, Places, PushInv, ServiceInv
  <2> QED
    BY <2>1, <2>2, <2>3, <2>4, <2>5, <2>6, <2>7 DEF Inv
<1>13. CASE \E b \in Buttons, e \in PushEvents : Push(b, e)
  <2>1. Wires'
    BY <1>13, <1>a DEF Push, Goto, Wires
  <2>2. Places'
    BY <1>13, <1>a DEF Push, Goto, Places, Phases
  <2>3. Kinds'
    BY <1>13, <1>a, BoundsAssumption DEF Push, Goto, Kinds, Places
  <2>4. PushInv'
    BY <1>13, <1>a DEF Push, Goto, PushInv, Places, Wires
  <2>5. InitInv'
    BY <1>13, <1>a DEF Push, Goto, InitInv, Unwired, Starting, Wiring
  <2>6. ServiceInv' /\ MapInv' /\ DriversInv' /\ SensorInv' /\ CloseInv'
    BY <1>13, <1>a
    DEF Push, ServiceInv, MapInv, Item, DriversInv, Wiring, UsedDrivers, SensorInv,
        HasSensor, CloseInv, Starting
  <2> QED
    BY <2>1, <2>2, <2>3, <2>4, <2>5, <2>6 DEF Inv
<1>14. CASE \E b \in Buttons : ShowEvent(b)
  <2>1. Wires'
    BY <1>14, <1>a, <1>b DEF ShowEvent, Goto, Dies, Wires
  <2>2. Places'
    BY <1>14, <1>a DEF ShowEvent, Goto, Dies, Places, Phases
  <2>3. PushInv'
    BY <1>14, <1>a DEF ShowEvent, Goto, Dies, PushInv, Places, Wires
  <2>4. InitInv'
    <3> SUFFICES ASSUME NEW b \in Buttons, ShowEvent(b) PROVE InitInv'
      BY <1>14
    <3>1. UNCHANGED <<at, inited, toggleMap, closed>>
      BY DEF ShowEvent
    <3>2. phase' = phase \/ phase' = "crashed"
      BY DEF ShowEvent, Dies
    <3>3. Unwired => Unwired'
      BY <1>a, <3>1 DEF ShowEvent, Goto, Dies, Unwired, Wires, PushInv
    <3> QED
      BY <1>a, <3>1, <3>2, <3>3 DEF InitInv, Starting, Wiring
  <2>5. MapInv'
    BY <1>14, <1>a DEF ShowEvent, Goto, Dies, MapInv, Item
  <2>6. DriversInv'
    BY <1>14, <1>a DEF ShowEvent, Goto, Dies, DriversInv, Wiring, UsedDrivers
  <2>7. SensorInv'
    BY <1>14, <1>a DEF ShowEvent, Goto, Dies, SensorInv, HasSensor
  <2>8. CloseInv'
    BY <1>14, <1>a DEF ShowEvent, Goto, Dies, CloseInv, Starting, Wiring
  <2>9. Kinds' /\ ServiceInv'
    BY <1>14, <1>a DEF ShowEvent, Kinds, Places, ServiceInv
  <2> QED
    BY <2>1, <2>2, <2>3, <2>4, <2>5, <2>6, <2>7, <2>8, <2>9 DEF Inv
<1>15. CASE \E b \in Buttons : LookUp(b)
  <2>1. Wires'
    <3> SUFFICES ASSUME NEW b \in Buttons, LookUp(b) PROVE Wires'
      BY <1>15
    <3>1. toggleMap[b][event[b]] \in Seq(Devices)
      BY <1>a DEF Wires, Places
    <3>2. UNCHANGED <<toggleMap, mapped>> /\ (left' = left \/
            left' = [left EXCEPT ![b] = toggleMap[b][event[b]]])
      BY DEF LookUp, Goto
    <3> QED
      BY <1>a, <3>1, <3>2 DEF Wires
  <2>2. Places'
    BY <1>15, <1>a DEF LookUp, Goto, Places, Phases
  <2>3. PushInv'
    BY <1>15, <1>a DEF LookUp, Goto, PushInv, Places, Wires
  <2>4. InitInv'
    <3> SUFFICES ASSUME NEW b \in Buttons, LookUp(b) PROVE InitInv'
      BY <1>15
    <3>1. UNCHANGED <<at, inited, toggleMap, closed>>
      BY DEF LookUp
    <3>2. phase' = phase \/ phase' = "crashed"
      BY DEF LookUp
    <3>3. Unwired => Unwired'
      BY <1>a, <3>1 DEF LookUp, Goto, Unwired, Wires, Places
    <3> QED
      BY <1>a, <3>1, <3>2, <3>3 DEF InitInv, Starting, Wiring
  <2>5. MapInv'
    BY <1>15, <1>a DEF LookUp, Goto, MapInv, Item
  <2>6. DriversInv'
    BY <1>15, <1>a DEF LookUp, Goto, DriversInv, Wiring, UsedDrivers
  <2>7. SensorInv'
    BY <1>15, <1>a DEF LookUp, Goto, SensorInv, HasSensor
  <2>8. CloseInv'
    BY <1>15, <1>a DEF LookUp, Goto, CloseInv, Starting, Wiring
  <2>9. Kinds' /\ ServiceInv'
    BY <1>15, <1>a DEF LookUp, Kinds, Places, ServiceInv
  <2> QED
    BY <2>1, <2>2, <2>3, <2>4, <2>5, <2>6, <2>7, <2>8, <2>9 DEF Inv
<1>16. CASE \E b \in Buttons : Toggle(b)
  <2>1. Wires'
    BY <1>16, <1>a, <1>b, <1>c DEF Toggle, Goto, Dies, Wires
  <2>2. Places'
    BY <1>16, <1>a DEF Toggle, Goto, Dies, Places, Phases
  <2>3. PushInv'
    <3> SUFFICES ASSUME NEW b \in Buttons, Toggle(b) PROVE PushInv'
      BY <1>16
    <3>1. Len(left[b]) # 1 => Tail(left[b]) # <<>>
      <4>1. Len(Tail(left[b])) = Len(left[b]) - 1 /\ Len(left[b]) \in Nat
        BY <1>c DEF Toggle
      <4>2. Len(<<>>) = 0
        BY EmptySeq
      <4>3. Len(left[b]) # 1 => Len(Tail(left[b])) # Len(<<>>)
        BY <4>1, <4>2
      <4> QED
        BY <4>3
    <3>2. \/ UNCHANGED <<pc, left>>
          \/ /\ \A x \in Buttons \ {b} : pc'[x] = pc[x] /\ left'[x] = left[x]
             /\ pc'[b] = "toggle" => Len(left[b]) # 1 /\ left'[b] = Tail(left[b])
      BY <1>a DEF Toggle, Goto, Dies, Wires, Places
    <3> QED
      BY <1>a, <3>1, <3>2 DEF PushInv
  <2>4. InitInv'
    <3> SUFFICES ASSUME NEW b \in Buttons, Toggle(b) PROVE InitInv'
      BY <1>16
    <3>1. UNCHANGED <<at, inited, toggleMap, closed>>
      BY DEF Toggle
    <3>2. phase' = phase \/ phase' = "crashed"
      BY DEF Toggle, Dies
    <3>3. Unwired => Unwired'
      BY <1>a, <3>1 DEF Toggle, Goto, Dies, Unwired, Wires, PushInv
    <3> QED
      BY <1>a, <3>1, <3>2, <3>3 DEF InitInv, Starting, Wiring
  <2>5. MapInv'
    BY <1>16, <1>a DEF Toggle, Goto, Dies, MapInv, Item
  <2>6. DriversInv'
    BY <1>16, <1>a DEF Toggle, Goto, Dies, DriversInv, Wiring, UsedDrivers
  <2>7. SensorInv'
    BY <1>16, <1>a DEF Toggle, Goto, Dies, SensorInv, HasSensor
  <2>8. CloseInv'
    <3> SUFFICES ASSUME NEW b \in Buttons, Toggle(b) PROVE CloseInv'
      BY <1>16
    <3>1. closed = {} /\ UNCHANGED <<closed, config>>
      BY <1>a DEF Toggle, InitInv, Unwired, PushInv
    <3> QED
      BY <3>1 DEF CloseInv
  <2>9. Kinds' /\ ServiceInv'
    BY <1>16, <1>a DEF Toggle, Kinds, Places, ServiceInv
  <2> QED
    BY <2>1, <2>2, <2>3, <2>4, <2>5, <2>6, <2>7, <2>8, <2>9 DEF Inv
<1>17. CASE UNCHANGED vars
    BY <1>17, <1>a DEF vars, Inv, Wires, Places, Phases, Kinds,
        PushInv, InitInv, Unwired, Starting, Wiring, ServiceInv, MapInv, Item,
        DriversInv, UsedDrivers, SensorInv, HasSensor, CloseInv
<1> QED
    BY <1>1, <1>2, <1>3, <1>4, <1>5, <1>6, <1>7, <1>8, <1>9, <1>10, <1>11, <1>12, <1>13,
        <1>14, <1>15, <1>16, <1>17
    DEF Next, Main, FireEvent

LEMMA InvAlways == Spec => []Inv
    BY InitInvariant, StepInvariant, PTL DEF Spec

\* Main and the push goroutines are where they can be.
THEOREM TypeCorrect == Spec => []TypeOK
<1>1. Inv => TypeOK
    BY OrderFacts DEF Inv, Wires, Places, Kinds, TypeOK
<1> QED
    BY <1>1, InvAlways, PTL

\* A press never finds a device that is not initialised.
THEOREM PressesFindOutputsHolds == Spec => []PressesFindOutputs
<1>1. Inv => PressesFindOutputs
    BY DEF Inv, InitInv, Unwired, Wires, PressesFindOutputs, ToSet, Ios
<1> QED
    BY <1>1, InvAlways, PTL

\* When the tickers start everything is there that they use.
THEOREM StartedWholeHolds == Spec => []StartedWhole
<1>1. Inv => StartedWhole
    BY DEF Inv, InitInv, DriversInv, SensorInv, HasSensor, Wiring, StartedWhole
<1> QED
    BY <1>1, InvAlways, PTL

\* A failed start leaves the outputs it has closed off.
THEOREM FailedStartTurnsOffHolds == Spec => []FailedStartTurnsOff
<1>1. Inv => FailedStartTurnsOff
    BY DEF Inv, CloseInv, FailedStartTurnsOff
<1> QED
    BY <1>1, InvAlways, PTL

\* Presses do not end a program that is running.
THEOREM RunningNeverCrashesHolds == Spec => RunningNeverCrashes
<1>1. Inv /\ [Next]_vars => [phase = "running" => phase' # "crashed"]_vars
  <2> SUFFICES ASSUME Inv, Next, phase = "running", phase' = "crashed" PROVE FALSE
    BY DEF vars
  <2>1. PICK b \in Buttons : ShowEvent(b) \/ LookUp(b) \/ Toggle(b)
    BY DEF Next, Main, FireEvent, SetUp, CloseDriver, AllSetUp, InitIo, LoopEnds,
        InitSensors,
           MatchController, MapWritten, DeviceMatched, MatchSensor, Exit, Stop, Push
  <2>2. inited = Ios /\ mapped = Nobody
    BY DEF Inv, InitInv, Wiring, MapInv
  <2>3. b \in serviced \/ b \in config.silent
    BY <2>2 DEF Inv, ServiceInv, Ios, Inputs
  <2>4. ~ShowEvent(b)
    BY <2>3 DEF ShowEvent, ShowsEvents
  <2>5. ~LookUp(b)
    BY <2>2, KindsAssumption DEF LookUp, Ios, Inputs
  <2>6. ~Toggle(b)
    <3>1. pc[b] = "toggle" => Head(left[b]) \in Devices
      BY HeadTailProperties DEF Inv, Wires, PushInv
    <3> QED
      BY <2>2, <3>1 DEF Toggle, Ios
  <2> QED
    BY <2>1, <2>4, <2>5, <2>6
<1> QED
    BY <1>1, InvAlways, PTL DEF Spec, RunningNeverCrashes

=============================================================================
